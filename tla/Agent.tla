-------------------------------- MODULE Agent --------------------------------
(***************************************************************************)
(* The reporting pipeline of internal/agent: two collectors write into the *)
(* shared state, a reporter cuts that state into batches, and a pool of    *)
(* workers sends them, each with its own retry schedule.  The goroutines   *)
(* share counters[PollCount] and lastSentCounters[PollCount] under a       *)
(* mutex, an unbuffered channel of batches and a cancellable context.      *)
(*                                                                         *)
(* The increments travel as integers, exactly as in the code: a batch      *)
(* carries counter - lastSent, and a batch that was given up on subtracts  *)
(* its delta from lastSent.  Three history variables and a field of every  *)
(* batch say WHICH polls a delta stands for, so that a property can tell a *)
(* lost or duplicated increment from a sum that happens to be right; no    *)
(* guard and no other assignment reads them.                               *)
(***************************************************************************)
EXTENDS Integers, FiniteSets

CONSTANTS
    Workers,        \* the goroutines of the pool; their number is RATE_LIMIT
    BatchSize,      \* BATCH_SIZE: how many metrics travel in one request
    MaxRetries,     \* length of retry.DefaultIntervals
    RuntimeGauges,  \* models.RuntimeGaugeMetricNames
    HostGauges,     \* models.SystemGaugeMetricNames
    CpuCounts,      \* how many CPUs a host reading may find
    Faults,         \* which failures leave the effect of a request unknown
    MaxPolls        \* bound: how many polls of the runtime are made

CommitUnknown == "commit of unknown outcome"
Transport == "transport failure"

ASSUME AgentAssumption ==
    /\ BatchSize \in Nat \ {0}
    /\ MaxRetries \in Nat
    /\ IsFiniteSet(RuntimeGauges) /\ IsFiniteSet(HostGauges)
    /\ CpuCounts \subseteq Nat
    /\ Faults \subseteq {CommitUnknown, Transport}
    /\ MaxPolls \in Nat

VARIABLES
    counter,    \* metrics.counters[PollCount]
    lastSent,   \* lastSentCounters[PollCount]
    gauges,     \* names of the gauges held besides the CPU ones
    cpuGauges,  \* the n for which metrics.gauges holds CPUutilization<n>
    cpuCount,   \* how many CPUs the previous host reading found
    cancelled,  \* the context given to Run
    collectors, \* the collectors still running
    reporter,   \* the report goroutine and the rest of the snapshot it offers
    worker,     \* the pool, one record per worker
    abandoned,  \* polls -> how many requests with them are on their way with nobody
                \* waiting for the answer (2: two or more)
    stored,     \* server: how often each poll was added to the total (2: twice or more)
    unsent,     \* history: polls in the accumulator
    confirmed,  \* history: polls whose batch got a 2xx answer
    doubted     \* history: polls stored by a request that got no 2xx answer

stateVars == <<counter, lastSent, gauges, cpuGauges, cpuCount>>
historyVars == <<unsent, confirmed, doubted>>
vars == <<stateVars, cancelled, collectors, reporter, worker, abandoned, stored, historyVars>>

Polls == 1..MaxPolls
Batches == (SUBSET Polls) \ {{}}
Batch == [delta : Int, polls : SUBSET Polls]
NoBatch == [delta |-> 0, polls |-> {}]
IdleWorker == [phase |-> "idle", attempt |-> 0, stored |-> FALSE, batch |-> NoBatch]
Held(w) == worker[w].batch.polls

Init ==
    /\ counter = 0 /\ lastSent = 0
    /\ gauges = {} /\ cpuGauges = {} /\ cpuCount = 0
    /\ cancelled = FALSE
    /\ collectors = {"runtime", "host"}
    /\ reporter = [phase |-> "waiting", left |-> 0, batch |-> NoBatch]
    /\ worker = [w \in Workers |-> IdleWorker]
    /\ abandoned = [polls \in Batches |-> 0]
    /\ stored = [p \in Polls |-> 0]
    /\ unsent = {} /\ confirmed = {} /\ doubted = {}

-----------------------------------------------------------------------------
(* The collectors. *)

\* One tick of the runtime collector: the gauges and the poll counter change
\* under one lock.  A select with both the tick and the cancellation ready may
\* still take the tick.
CollectRuntimeMetrics ==
    /\ "runtime" \in collectors
    /\ counter < MaxPolls
    /\ counter' = counter + 1
    /\ gauges' = gauges \cup RuntimeGauges
    /\ unsent' = unsent \cup {counter + 1}
    /\ UNCHANGED <<lastSent, cpuGauges, cpuCount, cancelled, collectors, reporter,
                   worker, abandoned, stored, confirmed, doubted>>

\* Variant: the gauges of the CPUs that went away stay.
CollectSystemMetricsKeeping(n) ==
    /\ "host" \in collectors
    /\ gauges' = gauges \cup HostGauges
    /\ cpuGauges' = cpuGauges \cup 1..n
    /\ cpuCount' = n
    /\ UNCHANGED <<counter, lastSent, cancelled, collectors, reporter, worker,
                   abandoned, stored, historyVars>>

\* One tick of the host collector that could read both statistics; a reading
\* that fails leaves the state alone.  The gauges of CPUs that went away are
\* deleted, counting from the previous reading.
CollectSystemMetrics(n) ==
    /\ "host" \in collectors
    /\ gauges' = gauges \cup HostGauges
    /\ cpuGauges' = (cpuGauges \cup 1..n) \ ((n+1)..cpuCount)
    /\ cpuCount' = n
    /\ UNCHANGED <<counter, lastSent, cancelled, collectors, reporter, worker,
                   abandoned, stored, historyVars>>

CollectorStops(c) ==
    /\ cancelled
    /\ c \in collectors
    /\ collectors' = collectors \ {c}
    /\ UNCHANGED <<stateVars, cancelled, reporter, worker, abandoned, stored, historyVars>>

Cancel ==
    /\ ~cancelled
    /\ cancelled' = TRUE
    /\ UNCHANGED <<stateVars, collectors, reporter, worker, abandoned, stored, historyVars>>

-----------------------------------------------------------------------------
(* The reporter. *)

\* Variant: the counters of a batch are not handed back.
ReturnNothing(batch) == UNCHANGED <<lastSent, unsent>>

\* returnCounters of a batch: its delta goes back to the accumulator.
ReturnCounters(batch) ==
    /\ lastSent' = lastSent - batch.delta
    /\ unsent' = unsent \cup batch.polls

\* Variant: the snapshot does not mark the counter as sent.
CollectBatchUnmarked ==
    LET delta == counter - lastSent
        size == Cardinality(gauges) + Cardinality(cpuGauges) + (IF delta = 0 THEN 0 ELSE 1)
    IN  /\ reporter.phase = "waiting"
        /\ size > 0
        /\ reporter' = [phase |-> "offering", left |-> size,
                        batch |-> [delta |-> delta, polls |-> unsent]]
        /\ UNCHANGED <<stateVars, cancelled, collectors, worker, abandoned, stored, historyVars>>

\* snapshotBatch marks everything as sent.  The gauges come first and the
\* counter last, and a zero delta is left out.
CollectBatch ==
    LET delta == counter - lastSent
        size == Cardinality(gauges) + Cardinality(cpuGauges)
                  + (IF delta = 0 THEN 0 ELSE 1)
    IN  /\ reporter.phase = "waiting"
        /\ lastSent' = counter
        /\ reporter' = [phase |-> IF size = 0 THEN "waiting" ELSE "offering",
                        left |-> size,
                        batch |-> [delta |-> delta, polls |-> unsent]]
        /\ unsent' = {}
        /\ UNCHANGED <<counter, gauges, cpuGauges, cpuCount, cancelled, collectors,
                       worker, abandoned, stored, confirmed, doubted>>

\* An idle worker receives the next chunk of at most BatchSize metrics; the
\* counter, being last, is in the last chunk only.
Offer(w) ==
    LET last == reporter.left <= BatchSize
    IN  /\ reporter.phase = "offering"
        /\ worker[w].phase = "idle"
        /\ worker' = [worker EXCEPT ![w] =
                        [IdleWorker EXCEPT !.phase = "ready",
                                           !.batch = IF last THEN reporter.batch ELSE NoBatch]]
        /\ reporter' = IF last
                         THEN [phase |-> "waiting", left |-> 0, batch |-> NoBatch]
                         ELSE [reporter EXCEPT !.left = @ - BatchSize]
        /\ UNCHANGED <<stateVars, cancelled, collectors, abandoned, stored, historyVars>>

\* The cancellation ends the reporter, in the wait for a tick or for a free
\* worker; the chunks nobody took are handed back and the channel is closed.
ReporterStops ==
    /\ cancelled
    /\ reporter.phase # "stopped"
    /\ ReturnCounters(reporter.batch)
    /\ reporter' = [phase |-> "stopped", left |-> 0, batch |-> NoBatch]
    /\ UNCHANGED <<counter, gauges, cpuGauges, cpuCount, cancelled, collectors, worker,
                   abandoned, stored, confirmed, doubted>>

-----------------------------------------------------------------------------
(* A worker: sendWithRetry around sendBatch. *)

\* The ways an attempt can fail, and those isRetriableSendError repeats.
Failures == {"unbuildable", "rejected", "busy", "server error", "no answer"}
IsRetriableSendError(failure) == failure \in {"busy", "server error", "no answer"}

\* Variant: one repetition too many.
OneTooMany(w) == worker[w].attempt <= MaxRetries

\* The schedule has another pause for the worker.
AttemptsLeft(w) == worker[w].attempt < MaxRetries

\* Variant: the counters go back after every failed attempt, also one that is
\* repeated.
AttemptFailsReturning(w, failure) ==
    /\ worker' = IF AttemptsLeft(w) /\ IsRetriableSendError(failure)
                   THEN [worker EXCEPT ![w].phase = "pausing", ![w].stored = FALSE]
                   ELSE [worker EXCEPT ![w] = IdleWorker]
    /\ ReturnCounters(worker[w].batch)

\* The attempt is over without a 2xx: either another one follows after a pause
\* or the worker gives the batch back.
AttemptFails(w, failure) ==
    IF AttemptsLeft(w) /\ IsRetriableSendError(failure)
      THEN /\ worker' = [worker EXCEPT ![w].phase = "pausing", ![w].stored = FALSE]
           /\ UNCHANGED <<lastSent, unsent>>
      ELSE /\ worker' = [worker EXCEPT ![w] = IdleWorker]
           /\ ReturnCounters(worker[w].batch)

\* The request goes out; a cancelled context stops it before it is dialled.
Send(w) ==
    /\ worker[w].phase = "ready"
    /\ ~cancelled
    /\ worker' = [worker EXCEPT ![w].phase = "waiting"]
    /\ UNCHANGED <<stateVars, cancelled, collectors, reporter, abandoned, stored, historyVars>>

NotSent(w) ==
    /\ worker[w].phase = "ready"
    /\ \/ AttemptFails(w, "unbuildable")
       \/ cancelled /\ AttemptFails(w, "no answer")
    /\ UNCHANGED <<counter, gauges, cpuGauges, cpuCount, cancelled, collectors, reporter,
                   abandoned, stored, confirmed, doubted>>

\* Variant: any answer is taken for an acknowledgement.
AcceptedUnread(w) ==
    /\ worker[w].phase = "waiting"
    /\ worker' = [worker EXCEPT ![w] = IdleWorker]
    /\ confirmed' = confirmed \cup Held(w)
    /\ UNCHANGED <<stateVars, cancelled, collectors, reporter, abandoned, stored,
                   unsent, doubted>>

\* 2xx: the server stored the batch and the agent knows it.
Accepted(w) ==
    /\ worker[w].phase = "waiting"
    /\ worker[w].stored
    /\ worker' = [worker EXCEPT ![w] = IdleWorker]
    /\ confirmed' = confirmed \cup Held(w)
    /\ UNCHANGED <<stateVars, cancelled, collectors, reporter, abandoned, stored,
                   unsent, doubted>>

\* An answer other than 2xx from a server that stored nothing: 4xx, 408/429
\* or 5xx.
Refused(w, failure) ==
    /\ failure \in {"rejected", "busy", "server error"}
    /\ worker[w].phase = "waiting"
    /\ ~worker[w].stored
    /\ AttemptFails(w, failure)
    /\ UNCHANGED <<counter, gauges, cpuGauges, cpuCount, cancelled, collectors, reporter,
                   abandoned, stored, confirmed, doubted>>

\* The database committed the batch but its answer was lost: the storage does
\* not replay the commit, and the handler answers 500.
CommitAnswerLost(w) ==
    /\ CommitUnknown \in Faults
    /\ worker[w].phase = "waiting"
    /\ worker[w].stored
    /\ AttemptFails(w, "server error")
    /\ doubted' = doubted \cup Held(w)
    /\ UNCHANGED <<counter, gauges, cpuGauges, cpuCount, cancelled, collectors, reporter,
                   abandoned, stored, confirmed>>

\* A request without the poll counter is of no further interest.
Abandon(polls) ==
    abandoned' = [b \in Batches |->
                    IF b = polls /\ abandoned[b] < 2 THEN abandoned[b] + 1 ELSE abandoned[b]]

\* No answer: a broken connection, the timeout of the client or a cancelled
\* context.  The server may have stored the batch, or may store it yet.
NoAnswer(w) ==
    /\ cancelled \/ Transport \in Faults
    /\ worker[w].phase = "waiting"
    /\ AttemptFails(w, "no answer")
    /\ IF worker[w].stored
         THEN doubted' = doubted \cup Held(w) /\ UNCHANGED abandoned
         ELSE Abandon(Held(w)) /\ UNCHANGED doubted
    /\ UNCHANGED <<counter, gauges, cpuGauges, cpuCount, cancelled, collectors, reporter,
                   stored, confirmed>>

\* The pause before the next attempt, slept through or cut short.
PauseOver(w) ==
    /\ worker[w].phase = "pausing"
    /\ worker' = [worker EXCEPT ![w].phase = "ready", ![w].attempt = @ + 1]
    /\ UNCHANGED <<stateVars, cancelled, collectors, reporter, abandoned, stored, historyVars>>

PauseCancelled(w) ==
    /\ cancelled
    /\ worker[w].phase = "pausing"
    /\ worker' = [worker EXCEPT ![w] = IdleWorker]
    /\ ReturnCounters(worker[w].batch)
    /\ UNCHANGED <<counter, gauges, cpuGauges, cpuCount, cancelled, collectors, reporter,
                   abandoned, stored, confirmed, doubted>>

\* Variant: a worker leaves with the batch it is about to repeat.
WorkerStopsHolding(w) ==
    /\ reporter.phase = "stopped"
    /\ worker[w].phase \in {"idle", "pausing"}
    /\ worker' = [worker EXCEPT ![w].phase = "stopped"]
    /\ UNCHANGED <<stateVars, cancelled, collectors, reporter, abandoned, stored, historyVars>>

\* Variant: the channel is closed only after the workers have been waited for.
WorkerStopsLate(w) ==
    /\ \A v \in Workers : worker[v].phase = "stopped"
    /\ worker' = [worker EXCEPT ![w].phase = "stopped"]
    /\ UNCHANGED <<stateVars, cancelled, collectors, reporter, abandoned, stored, historyVars>>

\* The channel is closed and the worker holds nothing.
WorkerStops(w) ==
    /\ reporter.phase = "stopped"
    /\ worker[w].phase = "idle"
    /\ worker' = [worker EXCEPT ![w].phase = "stopped"]
    /\ UNCHANGED <<stateVars, cancelled, collectors, reporter, abandoned, stored, historyVars>>

-----------------------------------------------------------------------------
(* The server, as far as the agent can tell. *)

AddToTotal(polls) ==
    stored' = [p \in Polls |-> IF p \in polls /\ stored[p] < 2 THEN stored[p] + 1 ELSE stored[p]]

ServerStores(w) ==
    /\ worker[w].phase = "waiting"
    /\ ~worker[w].stored
    /\ AddToTotal(Held(w))
    /\ worker' = [worker EXCEPT ![w].stored = TRUE]
    /\ UNCHANGED <<stateVars, cancelled, collectors, reporter, abandoned, historyVars>>

\* A request nobody waits for any more is served late, or never: no fairness
\* is asked of this action.
ServedLate(polls) ==
    /\ abandoned[polls] > 0
    /\ \E n \in {abandoned[polls] - 1, 2} :
         /\ n <= abandoned[polls]
         /\ abandoned' = [abandoned EXCEPT ![polls] = n]
    /\ AddToTotal(polls)
    /\ doubted' = doubted \cup polls
    /\ UNCHANGED <<stateVars, cancelled, collectors, reporter, worker, unsent, confirmed>>

-----------------------------------------------------------------------------
Done ==
    /\ collectors = {}
    /\ reporter.phase = "stopped"
    /\ \A w \in Workers : worker[w].phase = "stopped"

\* Run has returned.
Finished == Done /\ UNCHANGED vars

WorkerStep(w) ==
    \/ Send(w) \/ NotSent(w)
    \/ Accepted(w) \/ CommitAnswerLost(w) \/ NoAnswer(w)
    \/ \E failure \in Failures : Refused(w, failure)
    \/ PauseOver(w) \/ PauseCancelled(w)
    \/ WorkerStops(w)

Next ==
    \/ CollectRuntimeMetrics
    \/ \E n \in CpuCounts : CollectSystemMetrics(n)
    \/ \E c \in collectors : CollectorStops(c)
    \/ Cancel
    \/ CollectBatch
    \/ \E w \in Workers : Offer(w)
    \/ ReporterStops
    \/ \E w \in Workers : WorkerStep(w)
    \/ \E w \in Workers : ServerStores(w)
    \/ \E polls \in Batches : ServedLate(polls)
    \/ Finished

Spec == Init /\ [][Next]_vars

-----------------------------------------------------------------------------
(* Fairness. *)

\* Every goroutine that can go on does: the tickers keep ticking, and a select
\* whose context stays cancelled ends up taking that case.  A worker is not
\* promised anything but an end of its attempt.
Fairness ==
    /\ WF_vars(CollectBatch)
    /\ WF_vars(\E w \in Workers : Offer(w))
    /\ WF_vars(ReporterStops)
    /\ \A w \in Workers : WF_vars(WorkerStep(w))
    /\ \A c \in {"runtime", "host"} : WF_vars(CollectorStops(c))

FairSpec == Spec /\ Fairness

\* A server that recovers, and metrics that can be encoded: a worker that
\* offers the poll counter again and again is not turned away for ever.
ServerRecovers ==
    \A w \in Workers :
        /\ SF_vars(Held(w) # {} /\ Send(w))
        /\ SF_vars(Held(w) # {} /\ ServerStores(w))
        /\ SF_vars(Held(w) # {} /\ Accepted(w))

-----------------------------------------------------------------------------
(* Properties. *)

ReporterState == [phase : {"waiting", "offering", "stopped"}, left : Nat, batch : Batch]
WorkerState == [phase : {"idle", "ready", "waiting", "pausing", "stopped"},
                attempt : 0..MaxRetries, stored : BOOLEAN, batch : Batch]

TypeOK ==
    /\ counter \in Nat /\ lastSent \in Int
    /\ gauges \subseteq RuntimeGauges \cup HostGauges
    /\ cpuGauges \subseteq Nat /\ cpuCount \in Nat
    /\ cancelled \in BOOLEAN
    /\ collectors \subseteq {"runtime", "host"}
    /\ reporter \in ReporterState
    /\ worker \in [Workers -> WorkerState]
    /\ abandoned \in [Batches -> 0..2]
    /\ stored \in [Polls -> 0..2]
    /\ unsent \subseteq Polls /\ confirmed \subseteq Polls /\ doubted \subseteq Polls

\* Every increment of PollCount is in one place only: the accumulator, the
\* snapshot being offered, one worker, or a batch that was acknowledged.
InOnePlace ==
    /\ unsent \cap confirmed = {}
    /\ reporter.batch.polls \cap (unsent \cup confirmed) = {}
    /\ \A w \in Workers : Held(w) \cap (unsent \cup confirmed \cup reporter.batch.polls) = {}
    /\ \A v, w \in Workers : v # w => Held(v) \cap Held(w) = {}

\* No increment is dropped on the way.
Carried == reporter.batch.polls \cup UNION {Held(w) : w \in Workers}
NoneLost == 1..counter = unsent \cup Carried \cup confirmed

\* The integers of the code say the same as the history.
DeltasMatch ==
    /\ counter - lastSent = Cardinality(unsent)
    /\ reporter.batch.delta = Cardinality(reporter.batch.polls)
    /\ \A w \in Workers : worker[w].batch.delta = Cardinality(Held(w))

\* The accounting of the poll counter across snapshotBatch, enqueue,
\* sendWithRetry and returnCounters: whatever the interleaving of the reporter
\* and the workers, each poll is in exactly one of unsent, held and confirmed,
\* and counters - lastSentCounters is the number of the unsent ones.
PollsConserved == InOnePlace /\ NoneLost /\ DeltasMatch

\* When Run returns, nothing is left in the hands of a goroutine that is gone:
\* every poll without an acknowledgement is back in the accumulator, where a
\* later report would find it.
NothingStranded ==
    Done => /\ unsent = 1..counter \ confirmed
            /\ counter - lastSent = Cardinality(unsent)

\* sendBatch takes an answer for an acknowledgement only if the server did
\* store the batch: a poll the agent will never send again is in the total.
ConfirmedIsCounted == \A p \in confirmed : stored[p] >= 1

\* A poll is added to the total twice only if a request that carried it was
\* stored without the agent learning so (a lost answer, a cancelled wait, a
\* commit of unknown outcome); retries, hand-backs and the worker pool never
\* duplicate one by themselves.
DoubleCountNeedsDoubt == \A p \in Polls : stored[p] = 2 => p \in doubted

\* CollectSystemMetrics keeps exactly the CPUutilization gauges of the CPUs the
\* last reading found, however often their number went up and down.
CpuGaugesCurrent == cpuGauges = 1..cpuCount

\* The pipeline implements the abstract ledger of polls.
Ledger == INSTANCE ReportLedger WITH
            accumulated <- unsent,
            carried <- Carried,
            counted <- {p \in Polls : stored[p] >= 1}
LedgerImplemented == Ledger!LedgerSpec

\* Run returns after its context is cancelled: no goroutine waits for another
\* one for ever, whatever the server does or fails to do.
RunReturns == cancelled ~> Done

\* If the server recovers, every poll is acknowledged in the end unless the
\* agent is stopped first: a delta that was handed back is reported again.
EveryPollReported ==
    ServerRecovers => \A p \in Polls : (p <= counter) ~> (p \in confirmed \/ cancelled)

\* A commit of unknown outcome is never replayed (commitError: replaying it
\* would add every counter delta of the batch a second time): as long as the
\* agent runs and every request is answered, no poll is added twice.
CommitNeverReplayed == ~cancelled => \A p \in Polls : stored[p] <= 1
=============================================================================
