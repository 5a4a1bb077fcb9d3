----------------------------- MODULE FileServer -----------------------------
(***************************************************************************)
(* The server over MemStorage with a snapshot file: requests write to the  *)
(* memory, saves copy it into a temporary file that replaces the snapshot  *)
(* by a rename, and main restores it at startup and writes it a last time  *)
(* on the way out.  In the sync mode (STORE_INTERVAL = 0) each request     *)
(* saves before it is answered; otherwise a goroutine saves now and then.  *)
(*                                                                         *)
(* A request stands for a batch of one gauge and one counter.  Memory and  *)
(* snapshots are described by the requests whose gauge and whose counter   *)
(* they hold.  The lock of MemStorage is held for writing by the request   *)
(* that is "storing" and for reading by the saves that are "copying".      *)
(***************************************************************************)
EXTENDS Naturals, FiniteSets

CONSTANTS
    Requests,       \* one update each
    Unencodable,    \* the requests whose gauge is NaN or infinite
    Modes,          \* the settings a process may be started with: TRUE is the sync mode
    MaxRetries,     \* length of retry.DefaultIntervals
    Faults,         \* what may fail
    MaxCrashes,     \* bound: how often the process dies or the power fails
    Ticker, Main    \* the saver goroutine, the final save

FileError == "file operation fails"
PowerLoss == "power loss"
LongRequest == "handler outlives shutdownGrace"

ASSUME ServerAssumption ==
    /\ IsFiniteSet(Requests) /\ Unencodable \subseteq Requests
    /\ Modes \subseteq BOOLEAN /\ Modes # {}
    /\ MaxRetries \in Nat /\ MaxCrashes \in Nat
    /\ Faults \subseteq {FileError, PowerLoss, LongRequest}
    /\ Ticker # Main /\ Ticker \notin Requests /\ Main \notin Requests

VARIABLES
    memory,     \* MemStorage.gauges and .counters
    file,       \* what the path names, as a running system reads it
    flushed,    \* what the path would name after a power loss
    main,       \* how far func main has come
    sync,       \* STORE_INTERVAL = 0 in this process
    request,    \* the handler of each request
    save,       \* the call of Save of each request, of the ticker and of main
    crashes,    \* bound: how many crashes there were
    stored,     \* history: the requests stored since the process started
    audited,    \* history: those whose event was published in time
    late,       \* history: the requests in flight when shutdownGrace was over
    stale       \* history: the last rename took an update out of the file

historyVars == <<stored, audited, late, stale>>
vars == <<memory, file, flushed, main, sync, request, save, crashes, historyVars>>

Savers == Requests \cup {Ticker, Main}
Metrics == [gauges : SUBSET Requests, counters : SUBSET Requests]
Empty == [gauges |-> {}, counters |-> {}]
NoSave == [phase |-> "idle", attempt |-> 0, data |-> Empty, overtaken |-> FALSE]

\* A file that is absent restores as much as an empty one.  Contents that were
\* not flushed before the rename may be gone after a power loss.
File == [data : Metrics, synced : BOOLEAN, torn : BOOLEAN]
NoFile == [data |-> Empty, synced |-> TRUE, torn |-> FALSE]

Alive == main \notin {"exited", "crashed"}
Busy(r) == request[r] \in {"accepted", "storing", "stored"}
InFlight(state) == state.phase \in {"writing", "written"}

Init ==
    /\ memory = Empty
    /\ file = NoFile /\ flushed = NoFile
    /\ main = "serving" /\ sync \in Modes
    /\ request = [r \in Requests |-> "new"]
    /\ save = [s \in Savers |-> NoSave]
    /\ crashes = 0
    /\ stored = {} /\ audited = {} /\ late = {} /\ stale = FALSE

-----------------------------------------------------------------------------
(* The handlers. *)

Accept(r) ==
    /\ main = "serving"
    /\ request[r] = "new"
    /\ request' = [request EXCEPT ![r] = "accepted"]
    /\ UNCHANGED <<memory, file, flushed, main, sync, save, crashes, historyVars>>

\* MemStorage.mu: one writer, or any number of readers.
Writing == \E r \in Requests : request[r] = "storing"
Reading == \E s \in Savers : save[s].phase = "copying"

\* Variant: the update takes the lock as a reader.
StoreCounterShared(r) ==
    /\ Alive
    /\ request[r] = "accepted"
    /\ memory' = [memory EXCEPT !.counters = @ \cup {r}]
    /\ request' = [request EXCEPT ![r] = "storing"]
    /\ UNCHANGED <<file, flushed, main, sync, save, crashes, historyVars>>

\* Lock, and the first metric: counters come first in the sorted batch.
StoreCounter(r) ==
    /\ Alive
    /\ request[r] = "accepted"
    /\ ~Writing /\ ~Reading
    /\ memory' = [memory EXCEPT !.counters = @ \cup {r}]
    /\ request' = [request EXCEPT ![r] = "storing"]
    /\ UNCHANGED <<file, flushed, main, sync, save, crashes, historyVars>>

\* The second metric, and Unlock; syncStorage goes on to save.
StoreGauge(r) ==
    /\ Alive
    /\ request[r] = "storing"
    /\ memory' = [memory EXCEPT !.gauges = @ \cup {r}]
    /\ request' = [request EXCEPT ![r] = "stored"]
    /\ stored' = stored \cup {r}
    /\ save' = [save EXCEPT ![r].phase = IF sync THEN "starting" ELSE "idle"]
    /\ UNCHANGED <<file, flushed, main, sync, crashes, audited, late, stale>>

Ended(s) == save[s].phase \in {"saved", "failed"}

\* The event is published and the answer written, whatever became of the save.
\* An event published after the audit was closed is ignored.
Answer(r) ==
    /\ Alive
    /\ request[r] = "stored"
    /\ sync => Ended(r)
    /\ request' = [request EXCEPT ![r] = "answered"]
    /\ audited' = IF main \in {"serving", "draining"} THEN audited \cup {r} ELSE audited
    /\ UNCHANGED <<memory, file, flushed, main, sync, save, crashes, stored, late, stale>>

-----------------------------------------------------------------------------
(* Save, in the hands of s. *)

\* A tick that is taken although the context is done starts a save like one
\* that was started just before.
Tick ==
    /\ main = "serving" /\ ~sync
    /\ save[Ticker].phase \in {"idle", "saved", "failed"}
    /\ save' = [save EXCEPT ![Ticker] = [NoSave EXCEPT !.phase = "starting"]]
    /\ UNCHANGED <<memory, file, flushed, main, sync, request, crashes, historyVars>>

Saving(s, phase) == Alive /\ save[s].phase = phase
Encodable(snapshot) == snapshot.gauges \cap Unencodable = {}

\* Variant: the snapshot is taken without the lock.
CopyGaugesUnlocked(s) ==
    /\ Saving(s, "starting")
    /\ save' = [save EXCEPT ![s] = [phase |-> "copying", attempt |-> save[s].attempt,
                                    data |-> [gauges |-> memory.gauges, counters |-> {}],
                                    overtaken |-> FALSE]]
    /\ UNCHANGED <<memory, file, flushed, main, sync, request, crashes, historyVars>>

\* RLock, and the first half of the snapshot.
CopyGauges(s) ==
    /\ Saving(s, "starting")
    /\ ~Writing
    /\ save' = [save EXCEPT ![s] = [phase |-> "copying", attempt |-> save[s].attempt,
                                    data |-> [gauges |-> memory.gauges, counters |-> {}],
                                    overtaken |-> FALSE]]
    /\ UNCHANGED <<memory, file, flushed, main, sync, request, crashes, historyVars>>

\* The second half, and RUnlock; the encoding, the temporary file.  A snapshot
\* that cannot be encoded fails for good.
CopyCounters(s) ==
    /\ Saving(s, "copying")
    /\ save' = [save EXCEPT ![s].phase = IF Encodable(save[s].data) THEN "writing" ELSE "failed",
                            ![s].data.counters = memory.counters]
    /\ UNCHANGED <<memory, file, flushed, main, sync, request, crashes, historyVars>>

\* Write, Sync, Close.
WriteAndClose(s) ==
    /\ Saving(s, "writing")
    /\ save' = [save EXCEPT ![s].phase = "written"]
    /\ UNCHANGED <<memory, file, flushed, main, sync, request, crashes, historyVars>>

\* The rename puts updates into the file that another save under way, whose
\* snapshot is older, takes out again if it is renamed later.
Overtakes(s, t) ==
    /\ t # s /\ InFlight(save[t])
    /\ ~(save[s].data.counters \subseteq save[t].data.counters)

Replace(s) ==
    /\ file' = [data |-> save[s].data, synced |-> save[s].phase = "written", torn |-> FALSE]
    /\ stale' = save[s].overtaken
    /\ save' = [t \in Savers |-> [save[t] EXCEPT !.phase = IF t = s THEN "saved" ELSE @,
                                                !.overtaken = @ \/ Overtakes(s, t)]]
    /\ UNCHANGED <<memory, flushed, main, sync, request, crashes, stored, audited, late>>

\* Variant: the temporary file is renamed without having been flushed.
RenameUnsynced(s) == Saving(s, "writing") /\ Replace(s)

\* Nothing orders the renames of two saves that are under way.
Rename(s) == Saving(s, "written") /\ Replace(s)

\* Variant: one repetition too many.
OneTooMany(s) == save[s].attempt <= MaxRetries

AttemptsLeft(s) == save[s].attempt < MaxRetries

\* Create, Write, Sync, Close, Chmod or Rename fails; the temporary file is
\* removed.  A failure that may pass is repeated while the schedule lasts.
AttemptFails(s, passing) ==
    /\ FileError \in Faults
    /\ Saving(s, "writing") \/ Saving(s, "written")
    /\ save' = [save EXCEPT ![s].phase = IF passing /\ AttemptsLeft(s)
                                           THEN "pausing" ELSE "failed"]
    /\ UNCHANGED <<memory, file, flushed, main, sync, request, crashes, historyVars>>

\* Variant: the attempts are not counted.
PauseOverUncounted(s) ==
    /\ Saving(s, "pausing")
    /\ save' = [save EXCEPT ![s].phase = "starting"]
    /\ UNCHANGED <<memory, file, flushed, main, sync, request, crashes, historyVars>>

\* Variant: the snapshot is taken once, and every attempt writes it.
PauseOverSameSnapshot(s) ==
    /\ Saving(s, "pausing")
    /\ save' = [save EXCEPT ![s].phase = "writing", ![s].attempt = @ + 1]
    /\ UNCHANGED <<memory, file, flushed, main, sync, request, crashes, historyVars>>

\* Each attempt starts from a snapshot and a temporary file of its own.
PauseOver(s) ==
    /\ Saving(s, "pausing")
    /\ save' = [save EXCEPT ![s].phase = "starting", ![s].attempt = @ + 1]
    /\ UNCHANGED <<memory, file, flushed, main, sync, request, crashes, historyVars>>

\* The client went away or the deadline passed; the signal has arrived; the
\* time for the final save is over.
PauseCancelled(s) ==
    /\ Saving(s, "pausing")
    /\ s = Ticker => main # "serving"
    /\ save' = [save EXCEPT ![s].phase = "failed"]
    /\ UNCHANGED <<memory, file, flushed, main, sync, request, crashes, historyVars>>

-----------------------------------------------------------------------------
(* The file system, as far as a power loss can tell. *)

Flush ==
    /\ PowerLoss \in Faults
    /\ flushed # file
    /\ flushed' = [file EXCEPT !.torn = ~file.synced]
    /\ UNCHANGED <<memory, file, main, sync, request, save, crashes, historyVars>>

-----------------------------------------------------------------------------
(* func main, from the signal on. *)

Signal ==
    /\ main = "serving"
    /\ main' = "draining"
    /\ UNCHANGED <<memory, file, flushed, sync, request, save, crashes, historyVars>>

\* Variant: the listener is closed without waiting for the handlers.
DrainedAtOnce ==
    /\ main = "draining"
    /\ main' = "auditing"
    /\ UNCHANGED <<memory, file, flushed, sync, request, save, crashes, historyVars>>

\* Shutdown returns when no request is in flight.
Drained ==
    /\ main = "draining"
    /\ \A r \in Requests : ~Busy(r)
    /\ main' = "auditing"
    /\ UNCHANGED <<memory, file, flushed, sync, request, save, crashes, historyVars>>

\* Shutdown gives up: shutdownGrace is over, and a handler is still at work
\* although its deadline has passed.
GraceOver ==
    /\ LongRequest \in Faults
    /\ main = "draining"
    /\ \E r \in Requests : Busy(r)
    /\ main' = "auditing"
    /\ late' = {r \in Requests : Busy(r)}
    /\ UNCHANGED <<memory, file, flushed, sync, request, save, crashes, stored, audited, stale>>

\* closeAudit returns; the final save begins.
AuditClosed ==
    /\ main = "auditing"
    /\ main' = "saving"
    /\ save' = [save EXCEPT ![Main] = [NoSave EXCEPT !.phase = "starting"]]
    /\ UNCHANGED <<memory, file, flushed, sync, request, crashes, historyVars>>

\* Variant: main waits for the goroutine of the ticker, which may not exist.
ExitAfterTicker ==
    /\ main = "saving"
    /\ Ended(Main) /\ Ended(Ticker)
    /\ main' = "exited"
    /\ UNCHANGED <<memory, file, flushed, sync, request, save, crashes, historyVars>>

\* main returns after the final save, saved or not: nobody waits for the ticker.
Exit ==
    /\ main = "saving"
    /\ Ended(Main)
    /\ main' = "exited"
    /\ UNCHANGED <<memory, file, flushed, sync, request, save, crashes, historyVars>>

\* The process is killed.
Crash ==
    /\ Alive
    /\ crashes < MaxCrashes
    /\ crashes' = crashes + 1
    /\ main' = "crashed"
    /\ UNCHANGED <<memory, file, flushed, sync, request, save, historyVars>>

\* The power fails, and with it the renames that were not flushed.
PowerFails ==
    /\ PowerLoss \in Faults
    /\ crashes < MaxCrashes
    /\ crashes' = crashes + 1
    /\ main' = "crashed"
    /\ file' = flushed
    /\ UNCHANGED <<memory, flushed, sync, request, save, historyVars>>

\* A new process restores the file, or starts from nothing: RESTORE is off or
\* Load fails.
Start ==
    /\ ~Alive
    /\ main' = "serving" /\ sync' \in Modes
    /\ memory' \in {Empty} \cup IF file.torn THEN {} ELSE {file.data}
    /\ request' = [r \in Requests |-> IF Busy(r) THEN "cut off" ELSE request[r]]
    /\ save' = [s \in Savers |-> NoSave]
    /\ stored' = {} /\ audited' = {} /\ late' = {} /\ stale' = FALSE
    /\ UNCHANGED <<file, flushed, crashes>>

-----------------------------------------------------------------------------
HandlerStep(r) == StoreCounter(r) \/ StoreGauge(r) \/ Answer(r)

SaveStep(s) ==
    \/ CopyGauges(s) \/ CopyCounters(s) \/ WriteAndClose(s) \/ Rename(s)
    \/ \E passing \in BOOLEAN : AttemptFails(s, passing)
    \/ PauseOver(s) \/ PauseCancelled(s)

MainStep == Drained \/ GraceOver \/ AuditClosed \/ Exit

Next ==
    \/ \E r \in Requests : Accept(r)
    \/ \E r \in Requests : HandlerStep(r)
    \/ Tick
    \/ \E s \in Savers : SaveStep(s)
    \/ Flush
    \/ Signal
    \/ MainStep
    \/ Crash \/ PowerFails
    \/ Start

Spec == Init /\ [][Next]_vars

\* The goroutines of a process go on as long as it lives; nobody has to send a
\* request or a signal, or to start the process again.  A writer that waits for
\* the lock gets it although saves keep coming: sync.RWMutex makes them wait.
FairSpec ==
    /\ Spec
    /\ \A r \in Requests : WF_vars(HandlerStep(r)) /\ SF_vars(StoreCounter(r))
    /\ \A s \in Savers : WF_vars(SaveStep(s))
    /\ WF_vars(MainStep)

-----------------------------------------------------------------------------
(* Properties. *)

SaveState ==
    [phase : {"idle", "starting", "copying", "writing", "written", "pausing", "saved", "failed"},
     attempt : 0..MaxRetries, data : Metrics, overtaken : BOOLEAN]

TypeOK ==
    /\ memory \in Metrics
    /\ file \in File /\ flushed \in File
    /\ main \in {"serving", "draining", "auditing", "saving", "exited", "crashed"}
    /\ sync \in BOOLEAN
    /\ request \in [Requests -> {"new", "accepted", "storing", "stored", "answered", "cut off"}]
    /\ save \in [Savers -> SaveState]
    /\ crashes \in 0..MaxCrashes
    /\ stored \subseteq Requests /\ audited \subseteq Requests /\ late \subseteq Requests
    /\ stale \in BOOLEAN

\* Save replaces the file by a rename of contents that are on the disk: nothing
\* that happens at any point of it, a loss of power included, leaves a file
\* Load cannot read.
FileNeverTorn == ~file.torn /\ ~flushed.torn

Whole(metrics) == metrics.gauges = metrics.counters

\* A batch is all there or not at all, in the file, in every snapshot once its
\* copy is complete, and in the memory for whoever holds the lock: no snapshot
\* is taken between the metrics of an update (MemStorage.UpdateBatch: "a reader
\* never observes half of it"), also after a restore.
BatchesWhole ==
    /\ Whole(file.data) /\ Whole(flushed.data)
    /\ ~Writing => Whole(memory)
    /\ \A s \in Savers : save[s].phase # "copying" => Whole(save[s].data)

\* What a process has saved stays in the file until the process dies, unless the
\* last rename was that of a snapshot older than one renamed while it was under
\* way.  Two saves that overlap and are renamed in the order of their snapshots
\* take nothing away, nor does a repetition, a failure or a cancelled save; and
\* a request that has saved finds its own update in the file.
CompletedSavesSurvive ==
    Alive /\ ~stale => \A s \in Savers :
        save[s].phase = "saved" =>
            /\ save[s].data.counters \subseteq file.data.counters
            /\ s \in Requests => s \in file.data.counters

\* What a request stored is audited before the process exits, and in the final
\* snapshot if there is one: Shutdown waits for the handlers before main closes
\* the audit and saves.  Only a handler that shutdownGrace was too short for is
\* missed by both (router.go: "both would miss them").
ShutdownMissesNothing ==
    main = "exited" =>
        /\ stored \subseteq audited \cup late
        /\ save[Main].phase = "saved" => stored \subseteq save[Main].data.counters \cup late

\* Every accepted request is answered, however often file operations fail and
\* however many saves compete for the lock, unless the process dies first.
EveryRequestEnds == \A r \in Requests : Busy(r) ~> (~Busy(r) \/ ~Alive)

\* A signal ends the process, however often file operations fail, and although
\* Shutdown waits for every handler.
ShutdownEnds == (main = "draining") ~> ~Alive

\* The final save leaves all the metrics in the file (main: "saves the metrics
\* to the file before it exits").
SavedBeforeExit ==
    main = "exited" /\ save[Main].phase = "saved" /\ late = {} => file.data = memory

\* In the sync mode the metrics are persisted after every write (syncStorage:
\* "persist the metrics to disk synchronously after every write"): as long as
\* no save fails, an answered update is in the file.
AnsweredIsPersisted ==
    Alive /\ sync => \A r \in Requests :
        request[r] = "answered" /\ save[r].phase = "saved" => r \in file.data.counters

\* A save that fails loses one snapshot only, the next write carries the same
\* state (syncStorage.save): without a failing disk, some answered request has
\* saved the file.
NextWriteCarries ==
    Alive /\ sync /\ FileError \notin Faults => \A q, r \in Requests :
        q # r /\ request[q] = "answered" /\ request[r] = "answered" =>
            save[q].phase # "failed" \/ save[r].phase # "failed"
=============================================================================
