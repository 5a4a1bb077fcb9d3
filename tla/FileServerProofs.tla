-------------------------- MODULE FileServerProofs --------------------------
(***************************************************************************)
(* Theorems about the server with a snapshot file, for any set of          *)
(* requests, any schedule of repetitions, any failure and any number of    *)
(* crashes: the file is never torn, nobody sees half of a batch, what was  *)
(* stored is audited and saved, and only the rename of an older snapshot   *)
(* takes back a save.                                                      *)
(***************************************************************************)
EXTENDS FileServer, TLAPS

-----------------------------------------------------------------------------
(* Typing. *)

Typed ==
    /\ TypeOK
    /\ \A s \in Savers : save[s].phase = "pausing" => save[s].attempt < MaxRetries

LEMMA MetricsFields ==
    /\ Empty \in Metrics /\ NoFile \in File /\ NoSave \in SaveState
    /\ \A m \in Metrics : m.gauges \subseteq Requests /\ m.counters \subseteq Requests
BY ServerAssumption DEF Empty, NoFile, NoSave, Metrics, File, SaveState

\* What a step of Save other than the rename makes of the call.
Continues(before, after) ==
    /\ after \in SaveState
    /\ after.phase \notin {"idle", "saved"} /\ before.phase # "idle"
    /\ after.phase = "pausing" => after.attempt < MaxRetries
    /\ \/ /\ after.phase = "copying" /\ ~Writing
          /\ after.data = [gauges |-> memory.gauges, counters |-> {}]
       \/ /\ before.phase = "copying" /\ after.phase # "copying"
          /\ after.data = [gauges |-> before.data.gauges, counters |-> memory.counters]
       \/ /\ before.phase # "copying" /\ after.phase # "copying"
          /\ after.data = before.data /\ after.overtaken = before.overtaken
          /\ InFlight(after) => InFlight(before)

LEMMA SaveStepKinds ==
    ASSUME Typed, NEW s \in Savers, SaveStep(s)
    PROVE  \/ Rename(s)
           \/ /\ UNCHANGED <<memory, file, flushed, main, sync, request, crashes, historyVars>>
              /\ \E after : save' = [save EXCEPT ![s] = after] /\ Continues(save[s], after)
<1>0. /\ save \in [Savers -> SaveState] /\ memory \in Metrics
      /\ save[s] \in SaveState /\ MaxRetries \in Nat
      /\ save[s].phase = "pausing" => save[s].attempt < MaxRetries
  BY ServerAssumption DEF Typed, TypeOK
<1>1. CASE CopyGauges(s)
  <2> DEFINE after == [phase |-> "copying", attempt |-> save[s].attempt,
                       data |-> [gauges |-> memory.gauges, counters |-> {}],
                       overtaken |-> FALSE]
  <2>1. [gauges |-> memory.gauges, counters |-> {}] \in Metrics
    BY <1>0 DEF Metrics
  <2>2. Continues(save[s], after)
    BY <1>0, <1>1, <2>1 DEF CopyGauges, Saving, Continues, SaveState, InFlight
  <2> QED
    BY <1>1, <2>2 DEF CopyGauges
<1>6. CASE CopyCounters(s)
  <2> DEFINE data == [gauges |-> save[s].data.gauges, counters |-> memory.counters]
             phase == IF Encodable(save[s].data) THEN "writing" ELSE "failed"
             after == [save[s] EXCEPT !.phase = phase, !.data = data]
  <2>1. data \in Metrics /\ save[s].data \in Metrics
    BY <1>0 DEF Metrics, SaveState
  <2>2. save' = [save EXCEPT ![s] = [save[s] EXCEPT !.phase = phase,
                                                    !.data.counters = memory.counters]]
    BY <1>0, <1>6 DEF CopyCounters
  <2>3. [save[s].data EXCEPT !.counters = memory.counters] = data
    BY <2>1 DEF Metrics
  <2>4. [save[s] EXCEPT !.phase = phase, !.data.counters = memory.counters] = after
    BY <1>0, <2>3 DEF SaveState
  <2>5. save' = [save EXCEPT ![s] = after]
    BY <2>2, <2>4
  <2>6. phase \in {"writing", "failed"} /\ save[s].phase = "copying"
    BY <1>6 DEF CopyCounters, Saving
  <2> HIDE DEF data, phase
  <2>7. after \in SaveState /\ after.phase = phase /\ after.data = data
    BY <1>0, <2>1, <2>6 DEF SaveState
  <2>8. Continues(save[s], after)
    BY <2>6, <2>7 DEF data, Continues
  <2> QED
    BY <1>6, <2>5, <2>8 DEF CopyCounters
<1>2. CASE WriteAndClose(s)
  <2> DEFINE after == [save[s] EXCEPT !.phase = "written"]
  <2>1. save' = [save EXCEPT ![s] = after]
    BY <1>0, <1>2 DEF WriteAndClose
  <2>2. Continues(save[s], after)
    BY <1>0, <1>2 DEF WriteAndClose, Saving, Continues, SaveState, InFlight
  <2> QED
    BY <1>2, <2>1, <2>2 DEF WriteAndClose
<1>3. ASSUME NEW passing \in BOOLEAN, AttemptFails(s, passing)
      PROVE  \E after : save' = [save EXCEPT ![s] = after] /\ Continues(save[s], after)
  <2> DEFINE after == [save[s] EXCEPT !.phase = IF passing /\ AttemptsLeft(s)
                                                  THEN "pausing" ELSE "failed"]
  <2>1. save' = [save EXCEPT ![s] = after]
    BY <1>0, <1>3 DEF AttemptFails
  <2>2. Continues(save[s], after)
    BY <1>0, <1>3 DEF AttemptFails, AttemptsLeft, Saving, Continues, SaveState, InFlight
  <2> QED
    BY <2>1, <2>2
<1>4. CASE PauseOver(s)
  <2> DEFINE after == [save[s] EXCEPT !.phase = "starting", !.attempt = @ + 1]
  <2>1. save' = [save EXCEPT ![s] = after]
    BY <1>0, <1>4 DEF PauseOver
  <2>2. Continues(save[s], after)
    BY <1>0, <1>4 DEF PauseOver, Saving, Continues, SaveState, InFlight
  <2> QED
    BY <1>4, <2>1, <2>2 DEF PauseOver
<1>5. CASE PauseCancelled(s)
  <2> DEFINE after == [save[s] EXCEPT !.phase = "failed"]
  <2>1. save' = [save EXCEPT ![s] = after]
    BY <1>0, <1>5 DEF PauseCancelled
  <2>2. Continues(save[s], after)
    BY <1>0, <1>5 DEF PauseCancelled, Saving, Continues, SaveState, InFlight
  <2> QED
    BY <1>5, <2>1, <2>2 DEF PauseCancelled
<1> QED
  BY <1>1, <1>2, <1>3, <1>4, <1>5, <1>6 DEF SaveStep, AttemptFails

\* What a rename makes of all the calls.
Renamed(s) ==
    /\ save' \in [Savers -> SaveState]
    /\ save'[s].phase = "saved" /\ save[s].phase = "written"
    /\ \A t \in Savers : /\ save'[t].phase = IF t = s THEN "saved" ELSE save[t].phase
                         /\ save'[t].attempt = save[t].attempt
                         /\ save'[t].data = save[t].data
                         /\ InFlight(save'[t]) /\ ~save'[t].overtaken =>
                                /\ ~save[t].overtaken
                                /\ save[s].data.counters \subseteq save[t].data.counters
    /\ file' = [data |-> save[s].data, synced |-> TRUE, torn |-> FALSE]
    /\ stale' = save[s].overtaken
    /\ UNCHANGED <<memory, flushed, main, sync, request, crashes, stored, audited, late>>

LEMMA RenameEffect ==
    ASSUME Typed, NEW s \in Savers, Rename(s)
    PROVE  Renamed(s)
<1>0. Replace(s) /\ save[s].phase = "written" /\ Alive
  BY DEF Rename, Saving
<1>1. \A t \in Savers : save[t] \in SaveState
  BY DEF Typed, TypeOK
<1>2. save' = [t \in Savers |-> [save[t] EXCEPT
                  !.phase = IF t = s THEN "saved" ELSE save[t].phase,
                  !.overtaken = save[t].overtaken \/ Overtakes(s, t)]]
  BY <1>0 DEF Replace
<1> DEFINE over(t) == save[t].overtaken \/ Overtakes(s, t)
<1>3. \A t \in Savers :
        /\ over(t) \in BOOLEAN
        /\ t # s /\ InFlight(save[t]) /\ ~over(t) =>
             /\ ~save[t].overtaken
             /\ save[s].data.counters \subseteq save[t].data.counters
  BY <1>1 DEF Overtakes, SaveState
<1>4. ASSUME NEW t \in Savers
      PROVE  /\ save'[t] \in SaveState
             /\ save'[t].phase = IF t = s THEN "saved" ELSE save[t].phase
             /\ save'[t].attempt = save[t].attempt
             /\ save'[t].data = save[t].data
             /\ save'[t].overtaken = over(t)
  <2> DEFINE ph == IF t = s THEN "saved" ELSE save[t].phase
             o == over(t)
  <2>1. save'[t] = [save[t] EXCEPT !.phase = ph, !.overtaken = o]
    BY <1>2
  <2>2. o \in BOOLEAN
    BY <1>3
  <2>3. save[t] \in SaveState
    BY <1>1
  <2> HIDE DEF o
  <2>4. /\ save'[t] \in SaveState /\ save'[t].phase = ph
        /\ save'[t].attempt = save[t].attempt /\ save'[t].data = save[t].data
        /\ save'[t].overtaken = o
    BY <2>1, <2>2, <2>3 DEF SaveState
  <2> QED
    BY <2>4 DEF o
<1>5. save' \in [Savers -> SaveState]
  BY <1>2, <1>4
<1>6. ASSUME NEW t \in Savers, InFlight(save'[t]), ~save'[t].overtaken
      PROVE  /\ ~save[t].overtaken
             /\ save[s].data.counters \subseteq save[t].data.counters
  <2>1. t # s /\ InFlight(save[t]) /\ ~over(t)
    BY <1>4, <1>6 DEF InFlight
  <2> QED
    BY <1>3, <2>1
<1> QED
  BY <1>0, <1>4, <1>5, <1>6 DEF Replace, Renamed

\* A step that replaces the call of one saver.
LEMMA SaveSet ==
    ASSUME save \in [Savers -> SaveState], NEW s \in Savers, NEW after \in SaveState,
           save' = [save EXCEPT ![s] = after]
    PROVE  /\ save' \in [Savers -> SaveState]
           /\ save'[s] = after
           /\ \A t \in Savers : t # s => save'[t] = save[t]
OBVIOUS

\* The saves that Store, Tick and AuditClosed begin.
LEMMA Begun ==
    /\ \A state \in SaveState : \A phase \in {"starting", "idle"} :
         LET after == [state EXCEPT !.phase = phase]
         IN  after \in SaveState /\ after.phase = phase /\ after.data = state.data
    /\ LET after == [NoSave EXCEPT !.phase = "starting"]
       IN  after \in SaveState /\ after.phase = "starting" /\ after.data = Empty
BY MetricsFields DEF SaveState, NoSave

LEMMA InitTyped == Init => Typed
<1> SUFFICES ASSUME Init
             PROVE  Typed
  OBVIOUS
<1>1. save \in [Savers -> SaveState] /\ \A s \in Savers : save[s].phase # "pausing"
  BY MetricsFields DEF Init, NoSave
<1>2. memory \in Metrics /\ file \in File /\ flushed \in File
  BY MetricsFields DEF Init
<1>3. sync \in BOOLEAN /\ crashes \in 0..MaxCrashes
  BY ServerAssumption DEF Init
<1> QED
  BY <1>1, <1>2, <1>3 DEF Init, Typed, TypeOK

\* What the two steps of an update make of the memory and of the calls.
CounterStored(r) ==
    /\ memory' \in Metrics
    /\ memory'.gauges = memory.gauges
    /\ memory'.counters = memory.counters \cup {r}

Updated(r) ==
    /\ save' \in [Savers -> SaveState]
    /\ save'[r].phase = (IF sync THEN "starting" ELSE "idle")
    /\ save'[r].data = save[r].data
    /\ \A t \in Savers : t # r => save'[t] = save[t]
    /\ memory' \in Metrics
    /\ memory'.gauges = memory.gauges \cup {r}
    /\ memory'.counters = memory.counters

LEMMA StoreEffect ==
    ASSUME Typed, NEW r \in Requests
    PROVE  /\ StoreCounter(r) => CounterStored(r)
           /\ StoreGauge(r) => Updated(r)
<1> DEFINE phase == IF sync THEN "starting" ELSE "idle"
           after == [save[r] EXCEPT !.phase = phase]
<1>1. r \in Savers /\ save[r] \in SaveState /\ save \in [Savers -> SaveState] /\ memory \in Metrics
  BY DEF Typed, TypeOK, Savers
<1>2. ASSUME StoreCounter(r)
      PROVE  CounterStored(r)
  <2>1. memory' = [memory EXCEPT !.counters = memory.counters \cup {r}]
    BY <1>2 DEF StoreCounter
  <2> QED
    BY <1>1, <2>1 DEF Metrics, CounterStored
<1>3. ASSUME StoreGauge(r)
      PROVE  Updated(r)
  <2>1. save' = [save EXCEPT ![r] = after]
    BY <1>1, <1>3 DEF StoreGauge
  <2>2. phase \in {"starting", "idle"}
    OBVIOUS
  <2>3. after \in SaveState /\ after.phase = phase /\ after.data = save[r].data
    BY <1>1, <2>2, Begun
  <2>4. memory' = [memory EXCEPT !.gauges = memory.gauges \cup {r}]
    BY <1>3 DEF StoreGauge
  <2>5. /\ memory' \in Metrics /\ memory'.gauges = memory.gauges \cup {r}
        /\ memory'.counters = memory.counters
    BY <1>1, <2>4 DEF Metrics
  <2> HIDE DEF after
  <2> QED
    BY <1>1, <2>1, <2>3, <2>5, SaveSet DEF Updated
<1> QED
  BY <1>2, <1>3

LEMMA NextTyped == Typed /\ [Next]_vars => Typed'
<1> SUFFICES ASSUME Typed, [Next]_vars
             PROVE  Typed'
  OBVIOUS
<1>0. TypeOK /\ (\A s \in Savers : save[s] \in SaveState)
      /\ \A s \in Savers : save[s].phase = "pausing" => save[s].attempt < MaxRetries
  BY DEF Typed, TypeOK
<1>1. ASSUME NEW r \in Requests, Accept(r)
      PROVE  Typed'
  BY <1>0, <1>1 DEF Typed, TypeOK, Accept, historyVars
<1>13. ASSUME NEW r \in Requests, StoreCounter(r)
       PROVE  Typed'
  <2>1. memory' \in Metrics
    BY <1>13, StoreEffect DEF CounterStored
  <2> QED
    BY <1>0, <1>13, <2>1 DEF Typed, TypeOK, StoreCounter, historyVars
<1>2. ASSUME NEW r \in Requests, StoreGauge(r)
      PROVE  Typed'
  <2>1. /\ save' \in [Savers -> SaveState] /\ memory' \in Metrics
        /\ \A s \in Savers : save'[s].phase = "pausing" => save'[s].attempt < MaxRetries
    BY <1>0, <1>2, StoreEffect DEF Updated
  <2> QED
    BY <1>0, <1>2, <2>1 DEF Typed, TypeOK, StoreGauge
<1>3. ASSUME NEW r \in Requests, Answer(r)
      PROVE  Typed'
  BY <1>0, <1>3 DEF Typed, TypeOK, Answer
<1>4. ASSUME NEW s \in Savers, NEW after \in SaveState, save' = [save EXCEPT ![s] = after],
             after.phase = "pausing" => after.attempt < MaxRetries,
             UNCHANGED <<memory, file, flushed, sync, request, crashes, historyVars>>,
             main' \in {main, "saving"}
      PROVE  Typed'
  <2>1. /\ save' \in [Savers -> SaveState]
        /\ \A t \in Savers : save'[t].phase = "pausing" => save'[t].attempt < MaxRetries
    BY <1>0, <1>4, SaveSet DEF TypeOK
  <2> QED
    BY <1>0, <1>4, <2>1 DEF Typed, TypeOK, historyVars
<1>5. CASE Tick
  <2>1. Ticker \in Savers
    BY DEF Savers
  <2> QED
    BY <1>4, <1>5, <2>1, Begun DEF Tick
<1>6. ASSUME NEW s \in Savers, SaveStep(s)
      PROVE  Typed'
  <2>1. CASE Rename(s)
    <3>0. Renamed(s)
      BY <2>1, RenameEffect
    <3>1. file' \in File /\ stale' \in BOOLEAN
      <4>1. save[s] \in SaveState
        BY <1>0
      <4>2. save[s].data \in Metrics /\ save[s].overtaken \in BOOLEAN
        BY <4>1 DEF SaveState
      <4> QED
        BY <3>0, <4>2 DEF Renamed, File
    <3>2. ASSUME NEW t \in Savers, save'[t].phase = "pausing"
          PROVE  save'[t].attempt < MaxRetries
      <4>0. /\ save'[t].phase = IF t = s THEN "saved" ELSE save[t].phase
            /\ save'[t].attempt = save[t].attempt
        BY <3>0 DEF Renamed
      <4>1. save[t].phase = "pausing" /\ save'[t].attempt = save[t].attempt
        BY <3>2, <4>0
      <4>2. save[t].attempt < MaxRetries
        BY <1>0, <4>1
      <4> QED
        BY <4>1, <4>2
    <3> QED
      BY <1>0, <3>0, <3>1, <3>2 DEF Typed, TypeOK, Renamed
  <2>2. CASE /\ UNCHANGED <<memory, file, flushed, main, sync, request, crashes, historyVars>>
             /\ \E after : save' = [save EXCEPT ![s] = after] /\ Continues(save[s], after)
    <3>1. PICK after : save' = [save EXCEPT ![s] = after] /\ Continues(save[s], after)
      BY <2>2
    <3> QED
      BY <1>4, <2>2, <3>1 DEF Continues
  <2> QED
    BY <1>6, <2>1, <2>2, SaveStepKinds
<1>7. CASE Flush
  <2>1. file \in File
    BY <1>0 DEF TypeOK
  <2>2. flushed' = [file EXCEPT !.torn = ~file.synced]
    BY <1>7 DEF Flush
  <2>3. flushed' \in File
    BY <2>1, <2>2 DEF File
  <2> QED
    BY <1>0, <1>7, <2>3 DEF Typed, TypeOK, Flush, historyVars
<1>8. CASE Signal \/ Drained \/ GraceOver \/ Exit
  BY <1>0, <1>8 DEF Typed, TypeOK, Signal, Drained, GraceOver, Exit, historyVars
<1>9. CASE AuditClosed
  <2>1. Main \in Savers
    BY DEF Savers
  <2> QED
    BY <1>4, <1>9, <2>1, Begun DEF AuditClosed
<1>10. CASE Crash \/ PowerFails
  <2>1. crashes' \in 0..MaxCrashes
    <3>1. crashes \in 0..MaxCrashes /\ MaxCrashes \in Nat
      BY <1>0, ServerAssumption DEF TypeOK
    <3>2. crashes < MaxCrashes /\ crashes' = crashes + 1
      BY <1>10 DEF Crash, PowerFails
    <3> QED
      BY <3>1, <3>2
  <2>2. /\ main' = "crashed" /\ file' \in {file, flushed}
        /\ UNCHANGED <<memory, flushed, sync, request, save, historyVars>>
    BY <1>10 DEF Crash, PowerFails
  <2> QED
    BY <1>0, <2>1, <2>2 DEF Typed, TypeOK, historyVars
<1>11. CASE Start
  <2>1. memory' \in Metrics
    BY <1>0, <1>11, MetricsFields DEF Start, TypeOK, File
  <2>2. /\ save' \in [Savers -> SaveState]
        /\ \A s \in Savers : save'[s].phase # "pausing"
    BY <1>11, MetricsFields DEF Start, NoSave
  <2>3. sync' \in BOOLEAN
    BY <1>11, ServerAssumption DEF Start
  <2>4. request' \in [Requests -> {"new", "accepted", "storing", "stored", "answered", "cut off"}]
    BY <1>0, <1>11 DEF Start, TypeOK
  <2>5. /\ main' = "serving" /\ stored' = {} /\ audited' = {} /\ late' = {} /\ stale' = FALSE
        /\ UNCHANGED <<file, flushed, crashes>>
    BY <1>11 DEF Start
  <2> QED
    BY <1>0, <2>1, <2>2, <2>3, <2>4, <2>5 DEF Typed, TypeOK
<1>12. CASE UNCHANGED vars
  BY <1>0, <1>12 DEF Typed, TypeOK, vars, historyVars
<1> QED
  BY <1>1, <1>2, <1>3, <1>5, <1>6, <1>7, <1>8, <1>9, <1>10, <1>11, <1>12, <1>13
     DEF Next, HandlerStep, MainStep

\* Save ends after the repetitions of its schedule, and every variable keeps
\* its type.
THEOREM FileServerTyped == Spec => []TypeOK
<1>1. Typed => TypeOK
  BY DEF Typed
<1> QED
  BY <1>1, InitTyped, NextTyped, PTL DEF Spec
-----------------------------------------------------------------------------
(* The file. *)

FilesSynced ==
    /\ file.synced /\ ~file.torn
    /\ flushed.synced /\ ~flushed.torn

LEMMA FilesKept ==
    ASSUME Typed, [Next]_vars
    PROVE  \/ UNCHANGED <<file, flushed>>
           \/ \E s \in Savers : Rename(s)
           \/ Flush
           \/ PowerFails
<1>1. ASSUME NEW s \in Savers, SaveStep(s)
      PROVE  UNCHANGED <<file, flushed>> \/ Rename(s)
  BY <1>1, SaveStepKinds
<1>2. ASSUME NEW r \in Requests, Accept(r) \/ HandlerStep(r)
      PROVE  UNCHANGED <<file, flushed>>
  BY <1>2 DEF Accept, HandlerStep, StoreCounter, StoreGauge, Answer
<1>3. CASE Tick \/ Signal \/ MainStep \/ Crash \/ Start \/ UNCHANGED vars
  BY <1>3 DEF Tick, Signal, MainStep, Drained, GraceOver, AuditClosed, Exit, Crash, Start, vars
<1> QED
  BY <1>1, <1>2, <1>3 DEF Next

LEMMA NextSynced == Typed /\ FilesSynced /\ [Next]_vars => FilesSynced'
<1> SUFFICES ASSUME Typed, FilesSynced, [Next]_vars
             PROVE  FilesSynced'
  OBVIOUS
<1>1. CASE UNCHANGED <<file, flushed>>
  BY <1>1 DEF FilesSynced
<1>2. ASSUME NEW s \in Savers, Rename(s)
      PROVE  FilesSynced'
  <2>1. Renamed(s)
    BY <1>2, RenameEffect
  <2> QED
    BY <2>1 DEF Renamed, FilesSynced
<1>3. CASE Flush
  <2>1. file \in File
    BY DEF Typed, TypeOK
  <2>2. flushed' = [file EXCEPT !.torn = ~file.synced] /\ file' = file
    BY <1>3 DEF Flush
  <2>3. flushed'.synced = file.synced /\ flushed'.torn = ~file.synced
    BY <2>1, <2>2 DEF File
  <2> QED
    BY <2>2, <2>3 DEF FilesSynced
<1>4. CASE PowerFails
  BY <1>4 DEF PowerFails, FilesSynced
<1> QED
  BY <1>1, <1>2, <1>3, <1>4, FilesKept

\* The snapshot file is never torn, at whatever point of a save the process is
\* killed or the power fails.
THEOREM FileServerNeverTorn == Spec => []FileNeverTorn
<1>1. Init => FilesSynced
  BY DEF Init, NoFile, FilesSynced
<1>2. FilesSynced => FileNeverTorn
  BY DEF FilesSynced, FileNeverTorn
<1> QED
  BY <1>1, <1>2, InitTyped, NextTyped, NextSynced, PTL DEF Spec

-----------------------------------------------------------------------------
(* The batches. *)

\* The lock: a writer is alone, and while it is at work the memory lacks the
\* gauge of its batch and nothing else; no snapshot is copied meanwhile, so what
\* a copy has read of the gauges is what the memory holds.
LockHeld ==
    /\ \A q, r \in Requests : request[q] = "storing" /\ request[r] = "storing" => q = r
    /\ Writing => ~Reading
    /\ \A r \in Requests : request[r] = "storing" => memory.counters = memory.gauges \cup {r}
    /\ \A s \in Savers : save[s].phase = "copying" => save[s].data.gauges = memory.gauges

WholeUnderLock == LockHeld /\ BatchesWhole

\* A step that changes one call of Save at most, and neither the memory nor a file.
LEMMA WholeKept ==
    ASSUME Typed, WholeUnderLock, NEW s \in Savers, NEW after \in SaveState,
           save' = [save EXCEPT ![s] = after], UNCHANGED <<memory, file, flushed, request>>,
           after.phase = "copying" => ~Writing /\ after.data.gauges = memory.gauges,
           after.phase # "copying" => Whole(after.data)
    PROVE  WholeUnderLock'
<1>1. /\ save'[s] = after
      /\ \A t \in Savers : t # s => save'[t] = save[t]
  BY SaveSet DEF Typed, TypeOK
<1>2. LockHeld
  BY DEF WholeUnderLock
<1>3. Writing' => ~Reading'
  <2> SUFFICES ASSUME Writing, NEW t \in Savers, save'[t].phase = "copying"
               PROVE  FALSE
    BY DEF Writing, Reading
  <2>1. t # s /\ save[t].phase = "copying"
    BY <1>1
  <2> QED
    BY <1>2, <2>1 DEF LockHeld, Reading
<1>4. \A t \in Savers : save'[t].phase = "copying" => save'[t].data.gauges = memory.gauges
  BY <1>1, <1>2 DEF LockHeld
<1>5. LockHeld'
  BY <1>2, <1>3, <1>4 DEF LockHeld
<1>6. \A t \in Savers : save'[t].phase # "copying" => Whole(save'[t].data)
  BY <1>1 DEF WholeUnderLock, BatchesWhole
<1>7. BatchesWhole'
  BY <1>6 DEF WholeUnderLock, BatchesWhole, Whole, Writing
<1> QED
  BY <1>5, <1>7 DEF WholeUnderLock

LEMMA NextWhole == Typed /\ WholeUnderLock /\ [Next]_vars => WholeUnderLock'
<1> SUFFICES ASSUME Typed, WholeUnderLock, [Next]_vars
             PROVE  WholeUnderLock'
  OBVIOUS
<1>0. /\ save \in [Savers -> SaveState] /\ file \in File /\ memory \in Metrics
      /\ request \in [Requests -> {"new", "accepted", "storing", "stored", "answered", "cut off"}]
      /\ Whole(file.data) /\ Whole(flushed.data) /\ Whole(Empty)
      /\ ~Writing => Whole(memory)
      /\ \A s \in Savers : save[s].phase # "copying" => Whole(save[s].data)
      /\ LockHeld
  BY DEF Typed, TypeOK, WholeUnderLock, BatchesWhole, Whole, Empty
<1>1. ASSUME NEW r \in Requests, StoreCounter(r)
      PROVE  WholeUnderLock'
  <2>1. /\ CounterStored(r) /\ ~Writing /\ ~Reading /\ Whole(memory)
        /\ request' = [request EXCEPT ![r] = "storing"]
        /\ UNCHANGED <<save, file, flushed>>
    BY <1>0, <1>1, StoreEffect DEF StoreCounter
  <2>2. \A q \in Requests : request'[q] = "storing" <=> q = r
    BY <1>0, <2>1 DEF Writing
  <2>3. memory'.counters = memory'.gauges \cup {r}
    BY <2>1 DEF CounterStored, Whole
  <2>4. \A s \in Savers : save'[s].phase # "copying"
    BY <2>1 DEF Reading
  <2>5. LockHeld'
    BY <2>2, <2>3, <2>4 DEF LockHeld, Reading
  <2>6. Writing'
    BY <2>2 DEF Writing
  <2>7. BatchesWhole'
    BY <1>0, <2>1, <2>6 DEF BatchesWhole, Whole
  <2> QED
    BY <2>5, <2>7 DEF WholeUnderLock
<1>2. ASSUME NEW r \in Requests, StoreGauge(r)
      PROVE  WholeUnderLock'
  <2>1. /\ Updated(r) /\ request[r] = "storing" /\ Writing /\ ~Reading
        /\ request' = [request EXCEPT ![r] = "stored"]
        /\ UNCHANGED <<file, flushed>>
    BY <1>0, <1>2, StoreEffect DEF StoreGauge, Writing, LockHeld
  <2>2. \A q \in Requests : request'[q] # "storing"
    BY <1>0, <2>1 DEF LockHeld
  <2>3. Whole(memory)'
    BY <1>0, <2>1 DEF LockHeld, Updated, Whole
  <2>4. \A s \in Savers : save'[s].phase # "copying" /\ save'[s].data = save[s].data
                          /\ save[s].phase # "copying"
    BY <2>1 DEF Reading, Updated
  <2>5. LockHeld'
    BY <2>2, <2>4 DEF LockHeld, Writing
  <2>6. \A s \in Savers : Whole(save'[s].data)
    BY <1>0, <2>4
  <2>7. BatchesWhole'
    BY <1>0, <2>1, <2>3, <2>6 DEF BatchesWhole, Whole
  <2> QED
    BY <2>5, <2>7 DEF WholeUnderLock
<1>3. ASSUME NEW s \in Savers, save' = [save EXCEPT ![s] = [NoSave EXCEPT !.phase = "starting"]],
             UNCHANGED <<memory, file, flushed, request>>
      PROVE  WholeUnderLock'
  <2> DEFINE after == [NoSave EXCEPT !.phase = "starting"]
  <2>1. after \in SaveState /\ after.phase = "starting" /\ after.data = Empty
    BY Begun
  <2>2. save' = [save EXCEPT ![s] = after]
    BY <1>3
  <2> HIDE DEF after
  <2> QED
    BY <1>0, <1>3, <2>1, <2>2, WholeKept
<1>4. CASE Tick \/ AuditClosed
  BY <1>3, <1>4 DEF Tick, AuditClosed, Savers
<1>5. ASSUME NEW s \in Savers, SaveStep(s)
      PROVE  WholeUnderLock'
  <2>1. CASE Rename(s)
    <3>1. Renamed(s)
      BY <2>1, RenameEffect
    <3>2. \A t \in Savers : /\ save'[t].data = save[t].data
                            /\ save'[t].phase = "copying" <=> save[t].phase = "copying"
      BY <3>1 DEF Renamed
    <3>3. Whole(file'.data) /\ UNCHANGED <<memory, flushed, request>>
      BY <1>0, <3>1 DEF Renamed
    <3>4. Reading' <=> Reading
      BY <3>2 DEF Reading
    <3>5. LockHeld'
      BY <1>0, <3>2, <3>3, <3>4 DEF LockHeld, Writing
    <3>6. \A t \in Savers : save'[t].phase # "copying" => Whole(save'[t].data)
      BY <1>0, <3>2
    <3>7. BatchesWhole'
      BY <1>0, <3>3, <3>6 DEF BatchesWhole, Whole, Writing
    <3> QED
      BY <3>5, <3>7 DEF WholeUnderLock
  <2>2. CASE /\ UNCHANGED <<memory, file, flushed, main, sync, request, crashes, historyVars>>
             /\ \E after : save' = [save EXCEPT ![s] = after] /\ Continues(save[s], after)
    <3>1. PICK after : save' = [save EXCEPT ![s] = after] /\ Continues(save[s], after)
      BY <2>2
    <3>2. after.phase = "copying" => ~Writing /\ after.data.gauges = memory.gauges
      BY <3>1 DEF Continues
    <3>3. after.phase # "copying" => Whole(after.data)
      <4>1. CASE save[s].phase = "copying"
        <5>1. ~Writing /\ save[s].data.gauges = memory.gauges
          BY <1>0, <4>1 DEF LockHeld, Reading
        <5>2. after.phase # "copying" =>
                after.data = [gauges |-> save[s].data.gauges, counters |-> memory.counters]
          BY <3>1, <4>1 DEF Continues
        <5>3. memory.gauges = memory.counters
          BY <1>0, <5>1 DEF Whole
        <5>4. after.phase # "copying" =>
                after.data.gauges = memory.gauges /\ after.data.counters = memory.counters
          BY <5>1, <5>2
        <5> QED
          BY <5>3, <5>4 DEF Whole
      <4>2. CASE save[s].phase # "copying"
        BY <1>0, <3>1, <4>2 DEF Continues
      <4> QED
        BY <4>1, <4>2
    <3>4. after \in SaveState
      BY <3>1 DEF Continues
    <3> QED
      BY <2>2, <3>1, <3>2, <3>3, <3>4, WholeKept
  <2> QED
    BY <1>5, <2>1, <2>2, SaveStepKinds
<1>6. CASE Flush
  <2>1. flushed'.data = file.data /\ UNCHANGED <<memory, file, request, save>>
    BY <1>0, <1>6 DEF Flush, File
  <2>2. LockHeld'
    BY <1>0, <2>1 DEF LockHeld, Writing, Reading
  <2>3. BatchesWhole'
    BY <1>0, <2>1 DEF BatchesWhole, Whole, Writing
  <2> QED
    BY <2>2, <2>3 DEF WholeUnderLock
<1>7. CASE Start
  <2>1. Whole(memory)'
    BY <1>0, <1>7 DEF Start, Whole
  <2>2. \A s \in Savers : save'[s].data = Empty /\ save'[s].phase = "idle"
    BY <1>7 DEF Start, NoSave
  <2>3. \A r \in Requests : request'[r] # "storing"
    BY <1>7 DEF Start, Busy
  <2>4. LockHeld'
    BY <2>2, <2>3 DEF LockHeld, Writing
  <2>5. BatchesWhole'
    BY <1>0, <1>7, <2>1, <2>2 DEF Start, BatchesWhole, Whole
  <2> QED
    BY <2>4, <2>5 DEF WholeUnderLock
<1>8. CASE PowerFails
  <2>1. LockHeld'
    BY <1>0, <1>8 DEF PowerFails, LockHeld, Writing, Reading
  <2>2. BatchesWhole'
    BY <1>0, <1>8 DEF PowerFails, BatchesWhole, Whole, Writing
  <2> QED
    BY <2>1, <2>2 DEF WholeUnderLock
<1>9. ASSUME UNCHANGED <<memory, file, flushed, save>>,
             \A r \in Requests : request'[r] = "storing" <=> request[r] = "storing"
      PROVE  WholeUnderLock'
  <2>1. LockHeld'
    BY <1>0, <1>9 DEF LockHeld, Writing, Reading
  <2>2. BatchesWhole'
    BY <1>0, <1>9 DEF BatchesWhole, Whole, Writing
  <2> QED
    BY <2>1, <2>2 DEF WholeUnderLock
<1>10. ASSUME NEW r \in Requests, Accept(r) \/ Answer(r)
       PROVE  WholeUnderLock'
  <2>1. UNCHANGED <<memory, file, flushed, save>>
    BY <1>10 DEF Accept, Answer
  <2>2. \A q \in Requests : request'[q] = "storing" <=> request[q] = "storing"
    BY <1>0, <1>10 DEF Accept, Answer
  <2> QED
    BY <1>9, <2>1, <2>2
<1>11. CASE Signal \/ Drained \/ GraceOver \/ Exit \/ Crash \/ UNCHANGED vars
  BY <1>9, <1>11 DEF Signal, Drained, GraceOver, Exit, Crash, vars
<1> QED
  BY <1>1, <1>2, <1>4, <1>5, <1>6, <1>7, <1>8, <1>10, <1>11 DEF Next, HandlerStep, MainStep

\* Although an update stores metric by metric and a snapshot is copied type by
\* type, no snapshot, no file and no restore holds a part of a batch.
THEOREM FileServerWholeBatches == Spec => []BatchesWhole
<1>1. ASSUME Init
      PROVE  WholeUnderLock
  <2>1. /\ Whole(memory) /\ Whole(file.data) /\ Whole(flushed.data)
        /\ \A r \in Requests : request[r] # "storing"
    BY <1>1 DEF Init, NoFile, Empty, Whole
  <2>2. \A s \in Savers : Whole(save[s].data) /\ save[s].phase # "copying"
    BY <1>1 DEF Init, NoSave, Empty, Whole
  <2>3. LockHeld
    BY <2>1, <2>2 DEF LockHeld, Writing
  <2> QED
    BY <2>1, <2>2, <2>3 DEF BatchesWhole, WholeUnderLock
<1>2. WholeUnderLock => BatchesWhole
  BY DEF WholeUnderLock
<1> QED
  BY <1>1, <1>2, InitTyped, NextTyped, NextWhole, PTL DEF Spec

-----------------------------------------------------------------------------
(* The updates in memory. *)

\* What a request stored, or is storing, is in the memory, and so is whatever a
\* save holds.
InMemory ==
    /\ \A r \in Requests : request[r] = "storing" => r \in memory.counters
    /\ stored \subseteq memory.counters
    /\ \A s \in Savers : save[s].data.counters \subseteq memory.counters

LEMMA InitInMemory == Init => InMemory
BY DEF Init, NoSave, Empty, InMemory

LEMMA NextInMemory == Typed /\ InMemory /\ [Next]_vars => InMemory'
<1> SUFFICES ASSUME Typed, InMemory, [Next]_vars
             PROVE  InMemory'
  OBVIOUS
<1>0. /\ save \in [Savers -> SaveState]
      /\ request \in [Requests -> {"new", "accepted", "storing", "stored", "answered", "cut off"}]
  BY DEF Typed, TypeOK
<1>1. ASSUME NEW r \in Requests, StoreCounter(r)
      PROVE  InMemory'
  <2>1. /\ memory'.counters = memory.counters \cup {r}
        /\ request' = [request EXCEPT ![r] = "storing"] /\ UNCHANGED <<save, stored>>
    BY <1>1, StoreEffect DEF CounterStored, StoreCounter, historyVars
  <2> QED
    BY <1>0, <2>1 DEF InMemory
<1>2. ASSUME NEW r \in Requests, StoreGauge(r)
      PROVE  InMemory'
  <2>1. /\ memory'.counters = memory.counters /\ r \in memory.counters
        /\ request' = [request EXCEPT ![r] = "stored"] /\ stored' = stored \cup {r}
        /\ \A s \in Savers : save'[s].data = save[s].data
    BY <1>2, StoreEffect DEF Updated, StoreGauge, InMemory
  <2> QED
    BY <1>0, <2>1 DEF InMemory
<1>3. ASSUME NEW s \in Savers, SaveStep(s)
      PROVE  InMemory'
  <2>1. CASE Rename(s)
    <3>1. /\ \A t \in Savers : save'[t].data = save[t].data
          /\ UNCHANGED <<memory, request, stored>>
      BY <2>1, RenameEffect DEF Renamed
    <3> QED
      BY <3>1 DEF InMemory
  <2>2. CASE /\ UNCHANGED <<memory, file, flushed, main, sync, request, crashes, historyVars>>
             /\ \E after : save' = [save EXCEPT ![s] = after] /\ Continues(save[s], after)
    <3>1. PICK after : save' = [save EXCEPT ![s] = after] /\ Continues(save[s], after)
      BY <2>2
    <3>2. after.data.counters \subseteq memory.counters
      BY <3>1 DEF Continues, InMemory
    <3>3. \A t \in Savers : save'[t].data.counters \subseteq memory.counters
      BY <1>0, <3>1, <3>2, SaveSet DEF Continues, InMemory
    <3> QED
      BY <2>2, <3>3 DEF InMemory, historyVars
  <2> QED
    BY <1>3, <2>1, <2>2, SaveStepKinds
<1>4. ASSUME NEW s \in Savers, save' = [save EXCEPT ![s] = [NoSave EXCEPT !.phase = "starting"]],
             UNCHANGED <<memory, request, stored>>
      PROVE  InMemory'
  <2>1. \A t \in Savers : save'[t].data \in {save[t].data, Empty}
    BY <1>0, <1>4, Begun
  <2> QED
    BY <1>4, <2>1 DEF InMemory, Empty
<1>5. CASE Tick \/ AuditClosed
  BY <1>4, <1>5 DEF Tick, AuditClosed, Savers, historyVars
<1>6. ASSUME UNCHANGED <<memory, save, stored>>,
             \A r \in Requests : request'[r] = "storing" => request[r] = "storing"
      PROVE  InMemory'
  BY <1>6 DEF InMemory
<1>7. ASSUME NEW r \in Requests, Accept(r) \/ Answer(r)
      PROVE  InMemory'
  <2>1. UNCHANGED <<memory, save, stored>>
    BY <1>7 DEF Accept, Answer, historyVars
  <2>2. \A q \in Requests : request'[q] = "storing" => request[q] = "storing"
    BY <1>0, <1>7 DEF Accept, Answer
  <2> QED
    BY <1>6, <2>1, <2>2
<1>8. CASE Flush \/ Signal \/ Drained \/ GraceOver \/ Exit \/ Crash \/ PowerFails \/ UNCHANGED vars
  BY <1>6, <1>8 DEF Flush, Signal, Drained, GraceOver, Exit, Crash, PowerFails, vars, historyVars
<1>9. CASE Start
  BY <1>9 DEF Start, Busy, InMemory, NoSave, Empty
<1> QED
  BY <1>1, <1>2, <1>3, <1>5, <1>7, <1>8, <1>9 DEF Next, HandlerStep, MainStep

-----------------------------------------------------------------------------
(* The handlers and the shutdown. *)

\* Once main no longer waits for the handlers, those still at work are the late
\* ones, and the final snapshot holds what all the others stored.
Handlers ==
    /\ \A r \in stored : request[r] \in {"stored", "answered"}
    /\ \A r \in stored : request[r] = "answered" => r \in audited \cup late
    /\ main \in {"auditing", "saving", "exited"} => \A r \in Requests : Busy(r) => r \in late
    /\ main \in {"serving", "draining"} => late = {}

FinalSnapshot ==
    main \in {"saving", "exited"} /\ (InFlight(save[Main]) \/ save[Main].phase = "saved") =>
        stored \subseteq save[Main].data.counters \cup late

LEMMA NextHandlers == Typed /\ Handlers /\ [Next]_vars => Handlers'
<1> SUFFICES ASSUME Typed, Handlers, [Next]_vars
             PROVE  Handlers'
  OBVIOUS
<1>0. request \in [Requests -> {"new", "accepted", "storing", "stored", "answered", "cut off"}]
      /\ stored \subseteq Requests
      /\ main \in {"serving", "draining", "auditing", "saving", "exited", "crashed"}
  BY DEF Typed, TypeOK
<1>1. ASSUME NEW r \in Requests, Accept(r)
      PROVE  Handlers'
  BY <1>0, <1>1 DEF Accept, Handlers, Busy, historyVars
<1>2. ASSUME NEW r \in Requests, StoreCounter(r)
      PROVE  Handlers'
  BY <1>0, <1>2 DEF StoreCounter, Handlers, Busy, Alive, historyVars
<1>10. ASSUME NEW r \in Requests, StoreGauge(r)
       PROVE  Handlers'
  BY <1>0, <1>10 DEF StoreGauge, Handlers, Busy, Alive
<1>3. ASSUME NEW r \in Requests, Answer(r)
      PROVE  Handlers'
  <2>1. /\ request' = [request EXCEPT ![r] = "answered"] /\ request[r] = "stored"
        /\ UNCHANGED <<main, stored, late>> /\ Alive
        /\ audited \subseteq audited'
        /\ main \in {"serving", "draining"} => r \in audited'
    BY <1>3 DEF Answer
  <2>2. r \in audited' \cup late
    BY <1>0, <2>1 DEF Handlers, Busy, Alive
  <2> QED
    BY <1>0, <2>1, <2>2 DEF Handlers, Busy
<1>4. ASSUME UNCHANGED <<main, request, stored, audited, late>>
      PROVE  Handlers'
  BY <1>4 DEF Handlers, Busy
<1>5. ASSUME NEW s \in Savers, SaveStep(s)
      PROVE  Handlers'
  <2>1. CASE Rename(s)
    BY <1>4, <2>1 DEF Rename, Replace
  <2> QED
    BY <1>4, <1>5, <2>1, SaveStepKinds DEF historyVars
<1>6. CASE Tick \/ Flush \/ UNCHANGED vars
  BY <1>4, <1>6 DEF Tick, Flush, vars, historyVars
<1>7. CASE Signal \/ Drained \/ GraceOver \/ AuditClosed \/ Exit
  BY <1>0, <1>7 DEF Signal, Drained, GraceOver, AuditClosed, Exit, Handlers, Busy, historyVars
<1>8. CASE Crash \/ PowerFails
  BY <1>8 DEF Crash, PowerFails, Handlers, Busy, historyVars
<1>9. CASE Start
  BY <1>9 DEF Start, Handlers
<1> QED
  BY <1>1, <1>2, <1>3, <1>5, <1>6, <1>7, <1>8, <1>9, <1>10 DEF Next, HandlerStep, MainStep

LEMMA NextFinalSnapshot ==
    Typed /\ InMemory /\ Handlers /\ FinalSnapshot /\ [Next]_vars => FinalSnapshot'
<1> SUFFICES ASSUME Typed, InMemory, Handlers, FinalSnapshot, [Next]_vars
             PROVE  FinalSnapshot'
  OBVIOUS
<1>0. save \in [Savers -> SaveState] /\ Main \in Savers /\ Main \notin Requests /\ Main # Ticker
      /\ stored \subseteq memory.counters
      /\ request \in [Requests -> {"new", "accepted", "storing", "stored", "answered", "cut off"}]
  BY ServerAssumption DEF Typed, TypeOK, Savers, InMemory
<1>1. ASSUME main' \in {"saving", "exited"} => main \in {"saving", "exited"},
             save'[Main] = save[Main], UNCHANGED <<stored, late>>
      PROVE  FinalSnapshot'
  BY <1>1 DEF FinalSnapshot, InFlight
<1>2. ASSUME NEW r \in Requests, Accept(r) \/ StoreCounter(r) \/ Answer(r)
      PROVE  FinalSnapshot'
  BY <1>1, <1>2 DEF Accept, StoreCounter, Answer, historyVars
<1>3. ASSUME NEW r \in Requests, StoreGauge(r)
      PROVE  FinalSnapshot'
  <2>1. /\ save'[Main] = save[Main] /\ request[r] = "storing"
        /\ stored' = stored \cup {r} /\ UNCHANGED <<main, late>>
    BY <1>0, <1>3, StoreEffect DEF Updated, StoreGauge
  <2>2. main \in {"saving", "exited"} => r \in late
    BY <2>1 DEF Handlers, Busy
  <2> QED
    BY <2>1, <2>2 DEF FinalSnapshot, InFlight
<1>4. ASSUME NEW s \in Savers, SaveStep(s)
      PROVE  FinalSnapshot'
  <2>1. CASE Rename(s)
    <3>1. /\ save'[Main].phase = IF Main = s THEN "saved" ELSE save[Main].phase
          /\ save'[Main].data = save[Main].data /\ save[s].phase = "written"
          /\ UNCHANGED <<main, stored, late>>
      BY <1>0, <2>1, RenameEffect DEF Renamed
    <3> QED
      BY <3>1 DEF FinalSnapshot, InFlight
  <2>2. CASE /\ UNCHANGED <<memory, file, flushed, main, sync, request, crashes, historyVars>>
             /\ \E after : save' = [save EXCEPT ![s] = after] /\ Continues(save[s], after)
    <3>1. PICK after : save' = [save EXCEPT ![s] = after] /\ Continues(save[s], after)
      BY <2>2
    <3>2. CASE s # Main
      BY <1>0, <1>1, <2>2, <3>1, <3>2, SaveSet DEF Continues, historyVars
    <3>3. CASE s = Main
      <4>1. save'[Main] = after /\ UNCHANGED <<main, stored, late>>
        BY <1>0, <2>2, <3>1, <3>3 DEF historyVars
      <4>2. InFlight(after) => \/ after.data.counters = memory.counters
                               \/ InFlight(save[Main]) /\ after.data = save[Main].data
        BY <3>1, <3>3 DEF Continues, InFlight
      <4>3. after.phase # "saved"
        BY <3>1 DEF Continues
      <4> QED
        BY <1>0, <4>1, <4>2, <4>3 DEF FinalSnapshot, InFlight
    <3> QED
      BY <3>2, <3>3
  <2> QED
    BY <1>4, <2>1, <2>2, SaveStepKinds
<1>5. CASE Tick
  <2>1. save'[Main] = save[Main] /\ UNCHANGED <<main, stored, late>>
    BY <1>0, <1>5 DEF Tick, historyVars
  <2> QED
    BY <1>1, <2>1
<1>6. CASE AuditClosed
  <2>1. save'[Main].phase = "starting"
    BY <1>0, <1>6, Begun DEF AuditClosed
  <2> QED
    BY <2>1 DEF FinalSnapshot, InFlight
<1>7. CASE Flush \/ Exit \/ UNCHANGED vars
  BY <1>1, <1>7 DEF Flush, Exit, vars, historyVars
<1>8. CASE Signal \/ Drained \/ GraceOver \/ Crash \/ PowerFails \/ Start
  BY <1>8 DEF Signal, Drained, GraceOver, Crash, PowerFails, Start, FinalSnapshot
<1> QED
  BY <1>2, <1>3, <1>4, <1>5, <1>6, <1>7, <1>8 DEF Next, HandlerStep, MainStep

\* Main closes the audit and takes its snapshot after the handlers it waits for:
\* both have what was stored, but for the requests that outlived shutdownGrace.
THEOREM FileServerShutdown == Spec => []ShutdownMissesNothing
<1>1. Init => Handlers /\ FinalSnapshot
  BY DEF Init, Handlers, FinalSnapshot, Busy
<1>2. ASSUME Typed, Handlers, FinalSnapshot
      PROVE  ShutdownMissesNothing
  <2> SUFFICES ASSUME main = "exited"
               PROVE  /\ stored \subseteq audited \cup late
                      /\ save[Main].phase = "saved" =>
                             stored \subseteq save[Main].data.counters \cup late
    BY DEF ShutdownMissesNothing
  <2>1. stored \subseteq Requests
    BY <1>2 DEF Typed, TypeOK
  <2> QED
    BY <1>2, <2>1 DEF Handlers, FinalSnapshot, Busy
<1> QED
  BY <1>1, <1>2, InitTyped, NextTyped, InitInMemory, NextInMemory, NextHandlers,
     NextFinalSnapshot, PTL DEF Spec

-----------------------------------------------------------------------------
(* The saves. *)

\* A save under way that no rename has overtaken holds all that the completed
\* saves hold.
NotOvertaken ==
    \A s, t \in Savers :
        InFlight(save[s]) /\ ~save[s].overtaken /\ save[t].phase = "saved" =>
            save[t].data.counters \subseteq save[s].data.counters

\* A request saves what it has stored.
SavesItsOwn ==
    \A r \in Requests :
        /\ save[r].phase # "idle" => r \in memory.counters
        /\ InFlight(save[r]) \/ save[r].phase = "saved" => r \in save[r].data.counters

InTheFile ==
    Alive /\ ~stale => \A s \in Savers :
        save[s].phase = "saved" => save[s].data.counters \subseteq file.data.counters

Saves == NotOvertaken /\ SavesItsOwn /\ InTheFile

\* The step that neither renames nor stores nor restores: it changes one call at
\* most, and keeps the memory and the file.
LEMMA SavesKept ==
    ASSUME Typed, Saves, NEW s \in Savers, NEW after \in SaveState,
           save' = [save EXCEPT ![s] = after], UNCHANGED <<memory, file>>,
           Alive' => Alive /\ UNCHANGED stale,
           after.phase # "saved",
           InFlight(after) /\ ~after.overtaken =>
               \A t \in Savers : save[t].phase = "saved" =>
                   save[t].data.counters \subseteq after.data.counters,
           s \in Requests =>
               /\ after.phase # "idle" => s \in memory.counters
               /\ InFlight(after) => s \in after.data.counters
    PROVE  Saves'
<1>0. /\ save' \in [Savers -> SaveState] /\ save'[s] = after
      /\ \A t \in Savers : t # s => save'[t] = save[t]
      /\ Requests \subseteq Savers
  BY SaveSet DEF Typed, TypeOK, Savers
<1>2. NotOvertaken'
  <2> SUFFICES ASSUME NEW t \in Savers, NEW u \in Savers,
                      InFlight(save'[t]), ~save'[t].overtaken, save'[u].phase = "saved"
               PROVE  save'[u].data.counters \subseteq save'[t].data.counters
    BY DEF NotOvertaken, InFlight
  <2>1. u # s /\ save'[u] = save[u]
    BY <1>0
  <2>2. CASE t = s
    BY <1>0, <2>1, <2>2
  <2>3. CASE t # s
    BY <1>0, <2>1, <2>3 DEF Saves, NotOvertaken
  <2> QED
    BY <2>2, <2>3
<1>3. SavesItsOwn'
  <2> SUFFICES ASSUME NEW r \in Requests
               PROVE  /\ save'[r].phase # "idle" => r \in memory.counters
                      /\ InFlight(save'[r]) \/ save'[r].phase = "saved" =>
                             r \in save'[r].data.counters
    BY DEF SavesItsOwn, InFlight
  <2>1. CASE r = s
    BY <1>0, <2>1
  <2>2. CASE r # s
    BY <1>0, <2>2 DEF Saves, SavesItsOwn
  <2> QED
    BY <2>1, <2>2
<1>4. InTheFile'
  <2> SUFFICES ASSUME Alive', ~stale', NEW t \in Savers, save'[t].phase = "saved"
               PROVE  save'[t].data.counters \subseteq file'.data.counters
    BY DEF InTheFile
  <2>1. t # s /\ save'[t] = save[t] /\ Alive /\ ~stale
    BY <1>0
  <2> QED
    BY <2>1 DEF Saves, InTheFile
<1> QED
  BY <1>2, <1>3, <1>4 DEF Saves

LEMMA SavesRenamed ==
    ASSUME Typed, Saves, NEW s \in Savers, Renamed(s)
    PROVE  Saves'
<1>0. /\ Requests \subseteq Savers /\ save[s].phase = "written" /\ InFlight(save[s])
      /\ memory' = memory /\ file'.data = save[s].data /\ stale' = save[s].overtaken
      /\ \A t \in Savers : /\ save'[t].phase = IF t = s THEN "saved" ELSE save[t].phase
                           /\ save'[t].data = save[t].data
                           /\ InFlight(save'[t]) /\ ~save'[t].overtaken =>
                                  /\ ~save[t].overtaken
                                  /\ save[s].data.counters \subseteq save[t].data.counters
  BY DEF Renamed, Savers, InFlight
<1>2. NotOvertaken'
  <2> SUFFICES ASSUME NEW t \in Savers, NEW u \in Savers,
                      InFlight(save'[t]), ~save'[t].overtaken, save'[u].phase = "saved"
               PROVE  save'[u].data.counters \subseteq save'[t].data.counters
    BY DEF NotOvertaken, InFlight
  <2>1. /\ InFlight(save[t]) /\ ~save[t].overtaken
        /\ save[s].data.counters \subseteq save[t].data.counters
    BY <1>0 DEF InFlight
  <2>2. CASE u = s
    BY <1>0, <2>1, <2>2
  <2>3. CASE u # s
    <3>1. save[u].phase = "saved"
      BY <1>0, <2>3
    <3> QED
      BY <1>0, <2>1, <3>1 DEF Saves, NotOvertaken
  <2> QED
    BY <2>2, <2>3
<1>3. SavesItsOwn'
  <2> SUFFICES ASSUME NEW r \in Requests
               PROVE  /\ save'[r].phase # "idle" => r \in memory.counters
                      /\ InFlight(save'[r]) \/ save'[r].phase = "saved" =>
                             r \in save'[r].data.counters
    BY <1>0 DEF SavesItsOwn, InFlight
  <2>1. /\ save[r].phase # "idle" => r \in memory.counters
        /\ InFlight(save[r]) \/ save[r].phase = "saved" => r \in save[r].data.counters
    BY DEF Saves, SavesItsOwn
  <2>2. CASE r = s
    BY <1>0, <2>1, <2>2
  <2>3. CASE r # s
    BY <1>0, <2>1, <2>3 DEF InFlight
  <2> QED
    BY <2>2, <2>3
<1>4. InTheFile'
  <2> SUFFICES ASSUME ~stale', NEW t \in Savers, save'[t].phase = "saved"
               PROVE  save'[t].data.counters \subseteq file'.data.counters
    BY DEF InTheFile
  <2>1. CASE t = s
    BY <1>0, <2>1
  <2>2. CASE t # s
    <3>1. save[t].phase = "saved" /\ save'[t].data = save[t].data /\ ~save[s].overtaken
      BY <1>0, <2>2
    <3>2. save[t].data.counters \subseteq save[s].data.counters
      BY <1>0, <3>1 DEF Saves, NotOvertaken
    <3> QED
      BY <1>0, <3>1, <3>2
  <2> QED
    BY <2>1, <2>2
<1> QED
  BY <1>2, <1>3, <1>4 DEF Saves

LEMMA SavesStored ==
    ASSUME Typed, InMemory, Saves, NEW r \in Requests, StoreGauge(r)
    PROVE  Saves'
<1>0. /\ Updated(r) /\ r \in Savers /\ Requests \subseteq Savers
      /\ UNCHANGED <<file, stale, main>> /\ r \in memory.counters
  BY StoreEffect DEF StoreGauge, Savers, InMemory
<1>1. /\ save'[r].phase \in {"starting", "idle"} /\ save'[r].data = save[r].data
      /\ \A t \in Savers : t # r => save'[t] = save[t]
      /\ memory'.counters = memory.counters
  BY <1>0 DEF Updated
<1>3. NotOvertaken'
  <2> SUFFICES ASSUME NEW t \in Savers, NEW u \in Savers,
                      InFlight(save'[t]), ~save'[t].overtaken, save'[u].phase = "saved"
               PROVE  save'[u].data.counters \subseteq save'[t].data.counters
    BY DEF NotOvertaken, InFlight
  <2>1. save'[t] = save[t] /\ save'[u] = save[u]
    BY <1>1 DEF InFlight
  <2> QED
    BY <2>1 DEF Saves, NotOvertaken
<1>4. SavesItsOwn'
  <2> SUFFICES ASSUME NEW q \in Requests
               PROVE  /\ save'[q].phase # "idle" => q \in memory'.counters
                      /\ InFlight(save'[q]) \/ save'[q].phase = "saved" =>
                             q \in save'[q].data.counters
    BY DEF SavesItsOwn, InFlight
  <2>1. CASE q = r
    BY <1>0, <1>1, <2>1 DEF InFlight
  <2>2. CASE q # r
    BY <1>0, <1>1, <2>2 DEF Saves, SavesItsOwn
  <2> QED
    BY <2>1, <2>2
<1>5. InTheFile'
  <2> SUFFICES ASSUME Alive, ~stale, NEW t \in Savers, save'[t].phase = "saved"
               PROVE  save'[t].data.counters \subseteq file.data.counters
    BY <1>0 DEF InTheFile, Alive
  <2>1. save'[t] = save[t]
    BY <1>1
  <2> QED
    BY <2>1 DEF Saves, InTheFile
<1> QED
  BY <1>3, <1>4, <1>5 DEF Saves

LEMMA NextSaves == Typed /\ InMemory /\ Saves /\ [Next]_vars => Saves'
<1> SUFFICES ASSUME Typed, InMemory, Saves, [Next]_vars
             PROVE  Saves'
  OBVIOUS
<1>0. \A t \in Savers : save[t].data.counters \subseteq memory.counters
  BY DEF InMemory
<1>1. ASSUME NEW s \in Savers, s \notin Requests,
             save' = [save EXCEPT ![s] = [NoSave EXCEPT !.phase = "starting"]],
             UNCHANGED <<memory, file, stale>>, Alive
      PROVE  Saves'
  <2> DEFINE after == [NoSave EXCEPT !.phase = "starting"]
  <2>1. after \in SaveState /\ after.phase = "starting" /\ after.data = Empty
    BY Begun
  <2>2. save' = [save EXCEPT ![s] = after]
    BY <1>1
  <2> HIDE DEF after
  <2> QED
    BY <1>1, <2>1, <2>2, SavesKept DEF InFlight
<1>2. CASE Tick
  BY <1>1, <1>2, ServerAssumption DEF Tick, Savers, Alive, historyVars
<1>3. CASE AuditClosed
  BY <1>1, <1>3, ServerAssumption DEF AuditClosed, Savers, Alive, historyVars
<1>4. ASSUME NEW s \in Savers, SaveStep(s)
      PROVE  Saves'
  <2>1. CASE Rename(s)
    BY <2>1, RenameEffect, SavesRenamed
  <2>2. CASE /\ UNCHANGED <<memory, file, flushed, main, sync, request, crashes, historyVars>>
             /\ \E after : save' = [save EXCEPT ![s] = after] /\ Continues(save[s], after)
    <3>1. PICK after : save' = [save EXCEPT ![s] = after] /\ Continues(save[s], after)
      BY <2>2
    <3>2. UNCHANGED <<memory, file>> /\ (Alive' => Alive /\ UNCHANGED stale)
      BY <2>2 DEF Alive, historyVars
    <3>3. after \in SaveState /\ after.phase # "saved"
      BY <3>1 DEF Continues
    <3>4. ASSUME InFlight(after), ~after.overtaken, NEW t \in Savers, save[t].phase = "saved"
          PROVE  save[t].data.counters \subseteq after.data.counters
      BY <1>0, <3>1, <3>4 DEF Continues, Saves, NotOvertaken, InFlight
    <3>5. ASSUME s \in Requests
          PROVE  /\ s \in memory.counters
                 /\ InFlight(after) => s \in after.data.counters
      BY <3>1, <3>5 DEF Continues, Saves, SavesItsOwn, InFlight
    <3> QED
      BY <3>1, <3>2, <3>3, <3>4, <3>5, SavesKept
  <2> QED
    BY <1>4, <2>1, <2>2, SaveStepKinds
<1>5. ASSUME UNCHANGED save, memory.counters \subseteq memory'.counters,
             Alive' => Alive /\ UNCHANGED <<file, stale>>
      PROVE  Saves'
  BY <1>5 DEF Saves, NotOvertaken, SavesItsOwn, InTheFile, InFlight
<1>6. ASSUME NEW r \in Requests, Accept(r) \/ Answer(r)
      PROVE  Saves'
  BY <1>5, <1>6 DEF Accept, Answer, Alive, historyVars
<1>9. ASSUME NEW r \in Requests, StoreCounter(r)
      PROVE  Saves'
  <2>1. memory.counters \subseteq memory'.counters
    BY <1>9, StoreEffect DEF CounterStored
  <2> QED
    BY <1>5, <1>9, <2>1 DEF StoreCounter, Alive, historyVars
<1>7. CASE Flush \/ Signal \/ Drained \/ GraceOver \/ Exit \/ Crash \/ PowerFails \/ UNCHANGED vars
  BY <1>5, <1>7 DEF Flush, Signal, Drained, GraceOver, Exit, Crash, PowerFails, vars, Alive, historyVars
<1>8. CASE Start
  <2>1. \A s \in Savers : save'[s].phase = "idle" /\ save'[s].data.counters = {}
    BY <1>8 DEF Start, NoSave, Empty
  <2>2. Requests \subseteq Savers
    BY DEF Savers
  <2> QED
    BY <2>1, <2>2 DEF Saves, NotOvertaken, SavesItsOwn, InTheFile, InFlight
<1> QED
  BY <1>2, <1>3, <1>4, <1>6, <1>7, <1>8, <1>9, SavesStored DEF Next, HandlerStep, MainStep

\* No retry, failure or cancelled save takes a completed one out of the file,
\* nor does a rename, but for that of a snapshot older than one renamed while it
\* was under way.
THEOREM FileServerSavesSurvive == Spec => []CompletedSavesSurvive
<1>1. ASSUME Init
      PROVE  Saves
  <2>1. \A s \in Savers : save[s].phase = "idle" /\ save[s].data.counters = {}
    BY <1>1 DEF Init, NoSave, Empty
  <2>2. Requests \subseteq Savers
    BY DEF Savers
  <2> QED
    BY <2>1, <2>2 DEF Saves, NotOvertaken, SavesItsOwn, InTheFile, InFlight
<1>2. ASSUME Saves
      PROVE  CompletedSavesSurvive
  <2> SUFFICES ASSUME Alive, ~stale, NEW s \in Savers, save[s].phase = "saved"
               PROVE  /\ save[s].data.counters \subseteq file.data.counters
                      /\ s \in Requests => s \in file.data.counters
    BY DEF CompletedSavesSurvive
  <2>1. save[s].data.counters \subseteq file.data.counters
    BY <1>2 DEF Saves, InTheFile
  <2>2. s \in Requests => s \in save[s].data.counters
    BY <1>2 DEF Saves, SavesItsOwn
  <2> QED
    BY <2>1, <2>2
<1> QED
  BY <1>1, <1>2, InitTyped, NextTyped, InitInMemory, NextInMemory, NextSaves, PTL DEF Spec
=============================================================================
