---------------------------- MODULE AgentProofs ----------------------------
(***************************************************************************)
(* What Agent promises for every pool of workers, every batch size, every  *)
(* retry schedule and every number of polls: the typing of its state, the  *)
(* conservation of the polls, the bound on double counting, and that the   *)
(* pipeline implements the ledger of polls.                                *)
(***************************************************************************)
EXTENDS Agent, FiniteSetTheorems, TLAPS

-----------------------------------------------------------------------------
(* The strengthened typing: what a worker's record says in each phase. *)

Shape == {r \in WorkerState :
            /\ r.phase = "pausing" => r.attempt < MaxRetries
            /\ r.stored => r.phase = "waiting"
            /\ r.phase \in {"idle", "stopped"} => r.batch = NoBatch}

Typed ==
    /\ TypeOK
    /\ CpuGaugesCurrent
    /\ worker \in [Workers -> Shape]

LEMMA EmptyTyped == NoBatch \in Batch /\ IdleWorker \in Shape
BY AgentAssumption DEF NoBatch, Batch, IdleWorker, Shape, WorkerState, Polls

LEMMA ShapeFields ==
    ASSUME NEW r \in Shape
    PROVE  r \in WorkerState /\ r.batch \in Batch /\ r.batch.delta \in Int /\ r.batch.polls \subseteq Polls
BY DEF Shape, WorkerState, Batch

\* The records of the steps that keep the batch of a worker.
LEMMA Sent ==
    ASSUME NEW r \in Shape, r.phase = "ready"
    PROVE  LET s == [r EXCEPT !.phase = "waiting"]
           IN  s \in Shape /\ s.batch = r.batch /\ ~s.stored
BY DEF Shape, WorkerState

LEMMA Stopped ==
    ASSUME NEW r \in Shape, r.phase = "idle"
    PROVE  LET s == [r EXCEPT !.phase = "stopped"]
           IN  s \in Shape /\ s.batch = r.batch /\ ~s.stored
BY DEF Shape, WorkerState

LEMMA Paused ==
    ASSUME NEW r \in Shape, r.attempt < MaxRetries
    PROVE  LET s == [r EXCEPT !.phase = "pausing", !.stored = FALSE]
           IN  s \in Shape /\ s.batch = r.batch /\ ~s.stored
BY DEF Shape, WorkerState

LEMMA Resumed ==
    ASSUME NEW r \in Shape, r.phase = "pausing"
    PROVE  LET s == [r EXCEPT !.phase = "ready", !.attempt = r.attempt + 1]
           IN  s \in Shape /\ s.batch = r.batch /\ ~s.stored
<1> DEFINE s == [r EXCEPT !.phase = "ready", !.attempt = r.attempt + 1]
<1>1. r.attempt + 1 \in 0..MaxRetries
  BY AgentAssumption DEF Shape, WorkerState
<1>2. s.phase = "ready" /\ s.attempt = r.attempt + 1 /\ s.stored = r.stored /\ s.batch = r.batch
  BY DEF Shape, WorkerState
<1>3. s \in WorkerState
  BY <1>1 DEF Shape, WorkerState
<1> HIDE DEF s
<1>4. s \in Shape /\ ~s.stored
  BY <1>2, <1>3 DEF Shape, WorkerState
<1> QED
  BY <1>2, <1>4 DEF s

LEMMA Served ==
    ASSUME NEW r \in Shape, r.phase = "waiting"
    PROVE  LET s == [r EXCEPT !.stored = TRUE]
           IN  s \in Shape /\ s.batch = r.batch
BY DEF Shape, WorkerState

LEMMA Taken ==
    ASSUME NEW b \in Batch
    PROVE  LET s == [IdleWorker EXCEPT !.phase = "ready", !.batch = b]
           IN  s \in Shape /\ s.batch = b /\ ~s.stored
<1> DEFINE s == [IdleWorker EXCEPT !.phase = "ready", !.batch = b]
<1>1. IdleWorker \in WorkerState /\ ~IdleWorker.stored
  BY EmptyTyped DEF IdleWorker, Shape
<1>2. s.phase = "ready" /\ s.stored = IdleWorker.stored /\ s.batch = b /\ s \in WorkerState
  BY <1>1 DEF WorkerState
<1> HIDE DEF s
<1>3. s \in Shape /\ ~s.stored
  BY <1>1, <1>2 DEF Shape
<1> QED
  BY <1>2, <1>3 DEF s

LEMMA WorkerSet ==
    ASSUME worker \in [Workers -> Shape], NEW w \in Workers, NEW r \in Shape,
           worker' = [worker EXCEPT ![w] = r]
    PROVE  /\ worker' \in [Workers -> Shape]
           /\ worker' \in [Workers -> WorkerState]
           /\ worker'[w] = r
           /\ \A v \in Workers : v # w => worker'[v] = worker[v]
BY DEF Shape

\* What a step of a worker does with the batch it holds: it keeps the batch,
\* hands it back, or sees it acknowledged.
Keeps(w, r) == r.batch = worker[w].batch /\ UNCHANGED <<lastSent, unsent>>
HandsBack(w, r) == r = IdleWorker /\ ReturnCounters(worker[w].batch)
Acknowledges(w, r) ==
    /\ r = IdleWorker /\ worker[w].stored
    /\ confirmed' = confirmed \cup Held(w)
    /\ UNCHANGED <<lastSent, unsent, doubted>>

NotAcknowledged(w) ==
    /\ UNCHANGED confirmed
    /\ doubted' \in {doubted, doubted \cup Held(w)}
    /\ worker[w].stored => Held(w) \subseteq doubted'

LEMMA AttemptFailsKinds ==
    ASSUME Typed, NEW w \in Workers, NEW failure, AttemptFails(w, failure)
    PROVE  \E r \in Shape : /\ worker' = [worker EXCEPT ![w] = r] /\ ~r.stored
                            /\ Keeps(w, r) \/ HandsBack(w, r)
<1>1. worker[w] \in Shape
  BY DEF Typed
<1>2. CASE AttemptsLeft(w) /\ IsRetriableSendError(failure)
  <2>1. worker' = [worker EXCEPT ![w] = [worker[w] EXCEPT !.phase = "pausing", !.stored = FALSE]]
        /\ UNCHANGED <<lastSent, unsent>>
    BY <1>2 DEF AttemptFails
  <2>2. worker[w].attempt < MaxRetries
    BY <1>2 DEF AttemptsLeft
  <2> QED
    BY <2>1, <2>2, <1>1, Paused DEF Keeps
<1>3. CASE ~(AttemptsLeft(w) /\ IsRetriableSendError(failure))
  <2>1. worker' = [worker EXCEPT ![w] = IdleWorker] /\ ReturnCounters(worker[w].batch)
    BY <1>3 DEF AttemptFails
  <2>2. ~IdleWorker.stored
    BY DEF IdleWorker
  <2> QED
    BY <2>1, <2>2, EmptyTyped DEF HandsBack
<1> QED
  BY <1>2, <1>3

LEMMA WorkerStepKinds ==
    ASSUME Typed, NEW w \in Workers, WorkerStep(w)
    PROVE  /\ \E r \in Shape :
                /\ worker' = [worker EXCEPT ![w] = r] /\ ~r.stored
                /\ \/ (Keeps(w, r) \/ HandsBack(w, r)) /\ NotAcknowledged(w)
                   \/ Acknowledges(w, r)
           /\ UNCHANGED <<counter, gauges, cpuGauges, cpuCount, cancelled, collectors,
                          reporter, stored>>
           /\ UNCHANGED abandoned \/ Abandon(Held(w))
<1>1. worker[w] \in Shape
  BY DEF Typed
<1>2. CASE Send(w)
  <2>1. worker' = [worker EXCEPT ![w] = [worker[w] EXCEPT !.phase = "waiting"]]
    BY <1>2 DEF Send
  <2>2. worker[w].phase = "ready" /\ ~worker[w].stored
    BY <1>1, <1>2 DEF Send, Shape
  <2> QED
    BY <1>1, <1>2, <2>1, <2>2, Sent DEF Send, Keeps, NotAcknowledged, stateVars, historyVars
<1>3. CASE WorkerStops(w)
  <2>1. worker' = [worker EXCEPT ![w] = [worker[w] EXCEPT !.phase = "stopped"]]
    BY <1>3 DEF WorkerStops
  <2>2. worker[w].phase = "idle" /\ ~worker[w].stored
    BY <1>1, <1>3 DEF WorkerStops, Shape
  <2> QED
    BY <1>1, <1>3, <2>1, <2>2, Stopped DEF WorkerStops, Keeps, NotAcknowledged, stateVars, historyVars
<1>4. CASE PauseOver(w)
  <2>1. worker' = [worker EXCEPT ![w] = [worker[w] EXCEPT !.phase = "ready",
                                                          !.attempt = worker[w].attempt + 1]]
    BY <1>4 DEF PauseOver
  <2>2. worker[w].phase = "pausing" /\ ~worker[w].stored
    BY <1>1, <1>4 DEF PauseOver, Shape
  <2> QED
    BY <1>1, <1>4, <2>1, <2>2, Resumed DEF PauseOver, Keeps, NotAcknowledged, stateVars, historyVars
<1>5. CASE PauseCancelled(w)
  <2>1. ~worker[w].stored /\ ~IdleWorker.stored
    BY <1>1, <1>5 DEF PauseCancelled, Shape, IdleWorker
  <2> QED
    BY <1>5, <2>1, EmptyTyped DEF PauseCancelled, HandsBack, NotAcknowledged
<1>6. CASE NotSent(w)
  <2>1. \E failure \in Failures : AttemptFails(w, failure)
    BY <1>6 DEF NotSent, Failures
  <2>2. ~worker[w].stored
    BY <1>1, <1>6 DEF NotSent, Shape
  <2> QED
    BY <1>6, <2>1, <2>2, AttemptFailsKinds DEF NotSent, NotAcknowledged
<1>7. CASE Accepted(w)
  BY <1>7, EmptyTyped DEF Accepted, Acknowledges, IdleWorker, stateVars
<1>8. CASE CommitAnswerLost(w)
  BY <1>8, AttemptFailsKinds DEF CommitAnswerLost, NotAcknowledged
<1>9. CASE NoAnswer(w)
  BY <1>9, AttemptFailsKinds DEF NoAnswer, NotAcknowledged
<1>10. ASSUME NEW failure \in Failures, Refused(w, failure)
       PROVE  /\ AttemptFails(w, failure) /\ NotAcknowledged(w)
              /\ UNCHANGED <<counter, gauges, cpuGauges, cpuCount, cancelled, collectors,
                             reporter, stored, abandoned>>
  BY <1>10 DEF Refused, NotAcknowledged
<1> QED
  BY <1>2, <1>3, <1>4, <1>5, <1>6, <1>7, <1>8, <1>9, <1>10, AttemptFailsKinds DEF WorkerStep

-----------------------------------------------------------------------------
(* Typing. *)

LEMMA InitTyped == Init => Typed
<1> SUFFICES ASSUME Init PROVE Typed
  OBVIOUS
<1>1. reporter \in ReporterState /\ worker \in [Workers -> Shape] /\ worker \in [Workers -> WorkerState]
  BY EmptyTyped DEF Init, ReporterState, Shape
<1>2. abandoned \in [Batches -> 0..2] /\ stored \in [Polls -> 0..2]
  BY DEF Init
<1>3. /\ counter = 0 /\ lastSent = 0 /\ cpuCount = 0 /\ cancelled = FALSE
      /\ collectors = {"runtime", "host"}
      /\ gauges = {} /\ cpuGauges = {} /\ unsent = {} /\ confirmed = {} /\ doubted = {}
  BY DEF Init
<1>4. 1..0 = {}
  OBVIOUS
<1>5. TypeOK
  <2>1. cancelled \in BOOLEAN
    BY <1>3
  <2>2. counter \in Nat /\ lastSent \in Int /\ cpuCount \in Nat
    BY <1>3
  <2>3. /\ gauges \subseteq RuntimeGauges \cup HostGauges
        /\ cpuGauges \subseteq Nat /\ collectors \subseteq {"runtime", "host"}
        /\ unsent \subseteq Polls /\ confirmed \subseteq Polls /\ doubted \subseteq Polls
    BY <1>3
  <2> QED
    BY <1>1, <1>2, <2>1, <2>2, <2>3 DEF TypeOK
<1> QED
  BY <1>1, <1>3, <1>4, <1>5 DEF Typed, CpuGaugesCurrent

\* What goes back to the accumulator has its types.
LEMMA ReturnTyped ==
    ASSUME TypeOK, NEW batch \in Batch, ReturnCounters(batch)
    PROVE  lastSent' \in Int /\ unsent' \subseteq Polls
BY DEF TypeOK, ReturnCounters, Batch

LEMMA NextTyped == Typed /\ [Next]_vars => Typed'
<1> SUFFICES ASSUME Typed, [Next]_vars
             PROVE  Typed'
  OBVIOUS
<1>0. TypeOK /\ CpuGaugesCurrent /\ worker \in [Workers -> Shape]
  BY DEF Typed
<1>1. CASE CollectRuntimeMetrics
  BY <1>0, <1>1, AgentAssumption DEF CollectRuntimeMetrics, Typed, TypeOK, CpuGaugesCurrent, Polls
<1>2. ASSUME NEW n \in CpuCounts, CollectSystemMetrics(n)
      PROVE  Typed'
  <2>1. n \in Nat /\ cpuCount \in Nat /\ cpuGauges = 1..cpuCount
    BY <1>0, AgentAssumption DEF TypeOK, CpuGaugesCurrent
  <2>2. (1..cpuCount \cup 1..n) \ ((n+1)..cpuCount) = 1..n
    BY <2>1
  <2>3. cpuGauges' = 1..n /\ cpuCount' = n
    BY <1>2, <2>1, <2>2 DEF CollectSystemMetrics
  <2> QED
    BY <1>0, <1>2, <2>1, <2>3
       DEF CollectSystemMetrics, Typed, TypeOK, CpuGaugesCurrent, historyVars
<1>3. ASSUME NEW c \in collectors, CollectorStops(c)
      PROVE  Typed'
  BY <1>0, <1>3 DEF CollectorStops, Typed, TypeOK, CpuGaugesCurrent, stateVars, historyVars
<1>4. CASE Cancel
  BY <1>0, <1>4 DEF Cancel, Typed, TypeOK, CpuGaugesCurrent, stateVars, historyVars
<1>5. CASE CollectBatch
  <2>1. Cardinality(gauges) \in Nat
    <3>1. IsFiniteSet(gauges)
      BY <1>0, FS_Subset, FS_Union, AgentAssumption DEF TypeOK
    <3> QED  BY <3>1, FS_CardinalityType
  <2>2. Cardinality(cpuGauges) \in Nat
    <3>1. IsFiniteSet(1..cpuCount)
      BY <1>0, FS_Interval DEF TypeOK
    <3> QED  BY <1>0, <3>1, FS_CardinalityType DEF CpuGaugesCurrent
  <2>3. counter - lastSent \in Int /\ unsent \subseteq Polls
    BY <1>0 DEF TypeOK
  <2>4. reporter' \in ReporterState
    BY <1>5, <2>1, <2>2, <2>3 DEF CollectBatch, ReporterState, Batch
  <2> QED
    BY <1>0, <1>5, <2>4 DEF CollectBatch, Typed, TypeOK, CpuGaugesCurrent
<1>6. ASSUME NEW w \in Workers, Offer(w)
      PROVE  Typed'
  <2> DEFINE chunk == IF reporter.left <= BatchSize THEN reporter.batch ELSE NoBatch
             taken == [IdleWorker EXCEPT !.phase = "ready", !.batch = chunk]
  <2>1. reporter \in ReporterState /\ reporter.left \in Nat /\ chunk \in Batch
    BY <1>0, EmptyTyped DEF TypeOK, ReporterState
  <2>2. worker' = [worker EXCEPT ![w] = taken] /\ taken \in Shape
    BY <1>6, <2>1, Taken DEF Offer
  <2> HIDE DEF taken
  <2>3. worker' \in [Workers -> WorkerState] /\ worker' \in [Workers -> Shape]
    BY <1>0, <2>2, WorkerSet
  <2>4. reporter' \in ReporterState
    BY <1>6, <2>1, EmptyTyped, AgentAssumption DEF Offer, ReporterState
  <2> QED
    BY <1>0, <1>6, <2>3, <2>4 DEF Offer, Typed, TypeOK, CpuGaugesCurrent, stateVars, historyVars
<1>7. CASE ReporterStops
  <2>1. reporter' \in ReporterState
    BY <1>7, EmptyTyped DEF ReporterStops, ReporterState
  <2>2. lastSent' \in Int /\ unsent' \subseteq Polls
    BY <1>0, <1>7, ReturnTyped DEF ReporterStops, TypeOK, ReporterState
  <2> QED
    BY <1>0, <1>7, <2>1, <2>2 DEF ReporterStops, Typed, TypeOK, CpuGaugesCurrent
<1>8. ASSUME NEW w \in Workers, WorkerStep(w)
      PROVE  Typed'
  <2>1. PICK r \in Shape :
          /\ worker' = [worker EXCEPT ![w] = r]
          /\ \/ (Keeps(w, r) \/ HandsBack(w, r)) /\ NotAcknowledged(w)
             \/ Acknowledges(w, r)
    BY <1>8, WorkerStepKinds
  <2>2. worker' \in [Workers -> Shape] /\ worker' \in [Workers -> WorkerState]
    BY <1>0, <2>1, WorkerSet
  <2>3. worker[w].batch \in Batch /\ Held(w) \subseteq Polls
    BY <1>0, ShapeFields DEF Held
  <2>4. lastSent' \in Int /\ unsent' \subseteq Polls
    BY <1>0, <2>1, <2>3, ReturnTyped DEF Keeps, HandsBack, Acknowledges, TypeOK
  <2>5. confirmed' \subseteq Polls /\ doubted' \subseteq Polls
    BY <1>0, <2>1, <2>3 DEF NotAcknowledged, Acknowledges, TypeOK
  <2>6. abandoned' \in [Batches -> 0..2]
    BY <1>0, <1>8, WorkerStepKinds DEF Abandon, TypeOK
  <2>7. UNCHANGED <<counter, gauges, cpuGauges, cpuCount, cancelled, collectors, reporter, stored>>
    BY <1>8, WorkerStepKinds
  <2> QED
    BY <1>0, <2>2, <2>4, <2>5, <2>6, <2>7 DEF Typed, TypeOK, CpuGaugesCurrent
<1>9. ASSUME NEW w \in Workers, ServerStores(w)
      PROVE  Typed'
  <2>1. worker' = [worker EXCEPT ![w] = [worker[w] EXCEPT !.stored = TRUE]]
    BY <1>9 DEF ServerStores
  <2>2. worker' \in [Workers -> Shape] /\ worker' \in [Workers -> WorkerState]
    BY <1>0, <1>9, <2>1, Served, WorkerSet DEF ServerStores
  <2>3. stored' \in [Polls -> 0..2]
    BY <1>0, <1>9 DEF ServerStores, AddToTotal, TypeOK
  <2> QED
    BY <1>0, <1>9, <2>2, <2>3 DEF ServerStores, Typed, TypeOK, CpuGaugesCurrent, stateVars, historyVars
<1>10. ASSUME NEW polls \in Batches, ServedLate(polls)
       PROVE  Typed'
  <2>1. stored' \in [Polls -> 0..2]
    BY <1>0, <1>10 DEF ServedLate, AddToTotal, TypeOK
  <2>2. abandoned' \in [Batches -> 0..2]
    BY <1>0, <1>10 DEF ServedLate, TypeOK
  <2>3. doubted' \subseteq Polls
    BY <1>0, <1>10 DEF ServedLate, TypeOK, Batches
  <2> QED
    BY <1>0, <1>10, <2>1, <2>2, <2>3 DEF ServedLate, Typed, TypeOK, CpuGaugesCurrent, stateVars
<1>11. CASE UNCHANGED vars
  BY <1>0, <1>11 DEF vars, stateVars, historyVars, Typed, TypeOK, CpuGaugesCurrent
<1> QED
  BY <1>1, <1>2, <1>3, <1>4, <1>5, <1>6, <1>7, <1>8, <1>9, <1>10, <1>11 DEF Next, Finished

\* The typing of the agent's state.  It holds only together with what a phase
\* says about a worker: a pause is followed by another attempt, so it needs one
\* left in the schedule.
THEOREM AgentTyped == Spec => []TypeOK
<1>1. Spec => []Typed
  BY InitTyped, NextTyped, PTL DEF Spec
<1>2. Typed => TypeOK
  BY DEF Typed
<1> QED
  BY <1>1, <1>2, PTL

\* The agent never reports a CPU that is gone (system.go, CollectSystemMetrics).
THEOREM CpuGaugesStayCurrent == Spec => []CpuGaugesCurrent
<1>1. Spec => []Typed
  BY InitTyped, NextTyped, PTL DEF Spec
<1>2. Typed => CpuGaugesCurrent
  BY DEF Typed
<1> QED
  BY <1>1, <1>2, PTL

-----------------------------------------------------------------------------
(* Conservation of the polls. *)

\* PollsConserved is not inductive by itself: CollectBatch overwrites the
\* batch of a reporter that waits, so that batch has to be empty.  (That a
\* worker taking a chunk holds none is part of Typed.)
Conserved ==
    /\ PollsConserved
    /\ reporter.phase # "offering" => reporter.batch.polls = {}

LEMMA PollSets ==
    ASSUME NEW S \in SUBSET Polls, NEW T \in SUBSET Polls, S \cap T = {}
    PROVE  /\ Cardinality(S) \in Nat
           /\ Cardinality(S \cup T) = Cardinality(S) + Cardinality(T)
<1>1. IsFiniteSet(Polls)
  BY FS_Interval, AgentAssumption DEF Polls
<1>2. IsFiniteSet(S) /\ IsFiniteSet(T)
  BY <1>1, FS_Subset
<1>3. Cardinality(S) \in Nat /\ Cardinality(T) \in Nat
  BY <1>2, FS_CardinalityType
<1>4. Cardinality(S \cup T) = Cardinality(S) + Cardinality(T) - Cardinality(S \cap T)
  BY <1>2, FS_Union
<1>5. Cardinality(S \cap T) = 0
  BY FS_EmptySet
<1> QED
  BY <1>3, <1>4, <1>5

\* A step that moves no poll.
LEMMA NothingMoves ==
    ASSUME Conserved, UNCHANGED <<counter, lastSent, unsent, confirmed>>,
           reporter'.phase = reporter.phase, reporter'.batch = reporter.batch,
           \A w \in Workers : worker'[w].batch = worker[w].batch
    PROVE  Conserved'
<1>1. \A w \in Workers : Held(w)' = Held(w)
  BY DEF Held
<1>2. Carried' = Carried
  BY <1>1 DEF Carried
<1>3. InOnePlace'
  BY <1>1 DEF Conserved, PollsConserved, InOnePlace
<1>4. NoneLost'
  BY <1>2 DEF Conserved, PollsConserved, NoneLost
<1>5. DeltasMatch'
  BY <1>1 DEF Conserved, PollsConserved, DeltasMatch
<1> QED
  BY <1>3, <1>4, <1>5 DEF Conserved, PollsConserved

LEMMA InitConserved == Init => Conserved
<1> SUFFICES ASSUME Init PROVE Conserved
  OBVIOUS
<1>1. \A w \in Workers : Held(w) = {} /\ worker[w].batch.delta = 0
  BY DEF Init, Held, IdleWorker, NoBatch
<1>2. reporter.batch.polls = {} /\ reporter.batch.delta = 0
  BY DEF Init, NoBatch
<1>3. unsent = {} /\ confirmed = {} /\ counter = 0 /\ lastSent = 0
  BY DEF Init
<1>4. Cardinality({}) = 0
  BY FS_EmptySet
<1>5. 1..0 = {}
  OBVIOUS
<1>6. Carried = {}
  BY <1>1, <1>2 DEF Carried
<1> QED
  BY <1>1, <1>2, <1>3, <1>4, <1>5, <1>6
     DEF Conserved, PollsConserved, InOnePlace, NoneLost, DeltasMatch

LEMMA NextConserved == Typed /\ Conserved /\ [Next]_vars => Conserved'
<1> SUFFICES ASSUME Typed, Conserved, [Next]_vars
             PROVE  Conserved'
  OBVIOUS
<1>0. /\ counter \in Nat /\ lastSent \in Int /\ unsent \subseteq Polls /\ confirmed \subseteq Polls
      /\ reporter.batch \in Batch /\ reporter.batch.polls \subseteq Polls
      /\ reporter.batch.delta \in Int
      /\ worker \in [Workers -> Shape]
      /\ \A w \in Workers : Held(w) \subseteq Polls /\ worker[w].batch.delta \in Int
  BY ShapeFields DEF Typed, TypeOK, ReporterState, Batch, Held
<1>c. InOnePlace /\ NoneLost /\ DeltasMatch
  BY DEF Conserved, PollsConserved
<1>1. CASE CollectRuntimeMetrics
  <2>1. /\ counter' = counter + 1 /\ counter + 1 \in Polls
        /\ unsent' = unsent \cup {counter + 1}
        /\ UNCHANGED <<lastSent, reporter, worker, confirmed>>
    BY <1>0, <1>1, AgentAssumption DEF CollectRuntimeMetrics, Polls
  <2>2. Carried' = Carried /\ \A w \in Workers : Held(w)' = Held(w)
    BY <2>1 DEF Carried, Held
  <2>3. counter + 1 \notin unsent \cup Carried \cup confirmed
    BY <1>0, <1>c DEF NoneLost
  <2>4. 1..(counter + 1) = (1..counter) \cup {counter + 1}
    BY <1>0
  <2>5. NoneLost'
    BY <1>c, <2>1, <2>2, <2>4 DEF NoneLost
  <2>6. \A w \in Workers : counter + 1 \notin Held(w)
    BY <2>3 DEF Carried
  <2>7. InOnePlace'
    BY <1>c, <2>1, <2>2, <2>3, <2>6 DEF InOnePlace, Carried
  <2>8. Cardinality(unsent') = Cardinality(unsent) + 1
    <3>1. Cardinality({counter + 1}) = 1
      BY FS_Singleton
    <3>2. unsent \cap {counter + 1} = {}
      BY <2>3
    <3> QED
      BY <1>0, <2>1, <3>1, <3>2, PollSets
  <2>9. DeltasMatch'
    BY <1>0, <1>c, <2>1, <2>2, <2>8 DEF DeltasMatch
  <2> QED
    BY <2>1, <2>5, <2>7, <2>9 DEF Conserved, PollsConserved
<1>2. ASSUME NEW n \in CpuCounts, CollectSystemMetrics(n)
      PROVE  Conserved'
  BY <1>2, NothingMoves DEF CollectSystemMetrics, historyVars
<1>3. ASSUME NEW c \in collectors, CollectorStops(c)
      PROVE  Conserved'
  BY <1>3, NothingMoves DEF CollectorStops, stateVars, historyVars
<1>4. CASE Cancel
  BY <1>4, NothingMoves DEF Cancel, stateVars, historyVars
<1>5. CASE CollectBatch
  <2>1. /\ lastSent' = counter /\ unsent' = {}
        /\ reporter'.batch.polls = unsent /\ reporter'.batch.delta = counter - lastSent
        /\ reporter'.phase # "offering" => counter - lastSent = 0
        /\ reporter.phase = "waiting"
        /\ UNCHANGED <<counter, worker, confirmed>>
    <3> DEFINE delta == counter - lastSent
               size == Cardinality(gauges) + Cardinality(cpuGauges)
                         + (IF delta = 0 THEN 0 ELSE 1)
    <3>1. reporter' = [phase |-> IF size = 0 THEN "waiting" ELSE "offering",
                       left |-> size, batch |-> [delta |-> delta, polls |-> unsent]]
      BY <1>5 DEF CollectBatch
    <3>2. Cardinality(gauges) \in Nat
      BY FS_Subset, FS_Union, FS_CardinalityType, AgentAssumption DEF Typed, TypeOK
    <3>3. Cardinality(cpuGauges) \in Nat
      BY FS_Interval, FS_CardinalityType DEF Typed, TypeOK, CpuGaugesCurrent
    <3>4. size = 0 => delta = 0
      BY <3>2, <3>3
    <3> HIDE DEF size
    <3>5. reporter'.phase # "offering" => delta = 0
      BY <3>1, <3>4
    <3> QED
      BY <1>5, <3>1, <3>5 DEF CollectBatch
  <2>2. reporter.batch.polls = {} /\ \A w \in Workers : Held(w)' = Held(w)
    BY <2>1 DEF Conserved, Held
  <2>3. \A w \in Workers : Held(w) \cap unsent = {} /\ Held(w) \cap confirmed = {}
    BY <1>c DEF InOnePlace
  <2>4. InOnePlace'
    BY <1>c, <2>1, <2>2, <2>3 DEF InOnePlace
  <2>5. Carried' = unsent \cup Carried
    BY <2>1, <2>2 DEF Carried
  <2>6. NoneLost'
    BY <1>c, <2>1, <2>5 DEF NoneLost
  <2>7. Cardinality({}) = 0
    BY FS_EmptySet
  <2>8. DeltasMatch'
    BY <1>0, <1>c, <2>1, <2>2, <2>7 DEF DeltasMatch, Held
  <2>9. reporter'.phase # "offering" => reporter'.batch.polls = {}
    <3>1. Cardinality(unsent) = 0 => unsent = {}
      <4>1. IsFiniteSet(Polls)
        BY FS_Interval, AgentAssumption DEF Polls
      <4>2. IsFiniteSet(unsent)
        BY <1>0, <4>1, FS_Subset
      <4> QED
        BY <4>2, FS_EmptySet
    <3> QED
      BY <1>c, <2>1, <3>1 DEF DeltasMatch
  <2> QED
    BY <2>4, <2>6, <2>8, <2>9 DEF Conserved, PollsConserved
<1>6. ASSUME NEW w \in Workers, Offer(w)
      PROVE  Conserved'
  <2>1. /\ worker[w].phase = "idle" /\ reporter.phase = "offering"
        /\ UNCHANGED <<counter, lastSent, unsent, confirmed>>
    BY <1>6 DEF Offer, stateVars, historyVars
  <2>2. worker[w].batch = NoBatch
    BY <1>0, <2>1 DEF Shape
  <2> DEFINE chunk == IF reporter.left <= BatchSize THEN reporter.batch ELSE NoBatch
             taken == [IdleWorker EXCEPT !.phase = "ready", !.batch = chunk]
  <2>3. worker' = [worker EXCEPT ![w] = taken] /\ taken \in Shape /\ taken.batch = chunk
    BY <1>0, <1>6, EmptyTyped, Taken DEF Offer
  <2> HIDE DEF taken
  <2>4. worker'[w].batch = chunk /\ \A v \in Workers : v # w => worker'[v] = worker[v]
    BY <1>0, <2>3, WorkerSet
  <2>5. CASE reporter.left <= BatchSize
    <3>1. reporter' = [phase |-> "waiting", left |-> 0, batch |-> NoBatch]
      BY <1>6, <2>5 DEF Offer
    <3>2. reporter'.batch.polls = {} /\ reporter'.batch.delta = 0 /\ NoBatch.polls = {}
      BY <3>1 DEF NoBatch
    <3>3. Held(w)' = reporter.batch.polls /\ Held(w) = {}
          /\ \A v \in Workers : v # w => Held(v)' = Held(v)
      BY <2>2, <2>4, <2>5, <3>2 DEF Held
    <3>4. InOnePlace'
      BY <1>c, <2>1, <3>2, <3>3 DEF InOnePlace
    <3>5. Carried' = Carried
      BY <3>2, <3>3 DEF Carried
    <3>6. NoneLost'
      BY <1>c, <2>1, <3>5 DEF NoneLost
    <3>7. DeltasMatch'
      BY <1>c, <2>1, <2>4, <2>5, <3>2, <3>3, FS_EmptySet DEF DeltasMatch
    <3> QED
      BY <3>2, <3>4, <3>6, <3>7 DEF Conserved, PollsConserved
  <2>6. CASE ~(reporter.left <= BatchSize)
    <3>1. reporter' = [reporter EXCEPT !.left = @ - BatchSize]
      BY <1>6, <2>6 DEF Offer
    <3>2. reporter'.phase = reporter.phase /\ reporter'.batch = reporter.batch
      BY <3>1 DEF Typed, TypeOK, ReporterState
    <3>3. \A v \in Workers : worker'[v].batch = worker[v].batch
      BY <2>2, <2>4, <2>6
    <3> QED
      BY <2>1, <3>2, <3>3, NothingMoves
  <2> QED
    BY <2>5, <2>6
<1>7. CASE ReporterStops
  <2>1. /\ lastSent' = lastSent - reporter.batch.delta
        /\ unsent' = unsent \cup reporter.batch.polls
        /\ reporter'.batch.polls = {} /\ reporter'.batch.delta = 0
        /\ UNCHANGED <<counter, worker, confirmed>>
    BY <1>7 DEF ReporterStops, ReturnCounters, NoBatch
  <2>2. \A w \in Workers : Held(w)' = Held(w)
    BY <2>1 DEF Held
  <2>3. InOnePlace'
    BY <1>c, <2>1, <2>2 DEF InOnePlace
  <2>4. NoneLost'
    BY <1>c, <2>1, <2>2 DEF NoneLost, Carried
  <2>5. Cardinality(unsent') = Cardinality(unsent) + Cardinality(reporter.batch.polls)
        /\ Cardinality(unsent) \in Nat
    BY <1>0, <1>c, <2>1, PollSets DEF InOnePlace
  <2>6. DeltasMatch'
    BY <1>0, <1>c, <2>1, <2>2, <2>5, FS_EmptySet DEF DeltasMatch
  <2> QED
    BY <2>1, <2>3, <2>4, <2>6 DEF Conserved, PollsConserved
<1>8. ASSUME NEW w \in Workers, WorkerStep(w)
      PROVE  Conserved'
  <2>1. UNCHANGED <<counter, reporter>>
    BY <1>8, WorkerStepKinds
  <2>2. PICK r \in Shape :
          /\ worker' = [worker EXCEPT ![w] = r]
          /\ \/ (Keeps(w, r) \/ HandsBack(w, r)) /\ NotAcknowledged(w)
             \/ Acknowledges(w, r)
    BY <1>8, WorkerStepKinds
  <2>3. worker'[w] = r /\ \A v \in Workers : v # w => worker'[v] = worker[v]
    BY <1>0, <2>2, WorkerSet
  <2>4. IdleWorker.batch.polls = {} /\ IdleWorker.batch.delta = 0
    BY DEF IdleWorker, NoBatch
  <2>5. CASE Keeps(w, r) /\ UNCHANGED confirmed
    <3>1. \A v \in Workers : worker'[v].batch = worker[v].batch
      BY <2>3, <2>5 DEF Keeps
    <3> QED
      BY <2>1, <2>5, <3>1, NothingMoves DEF Keeps
  <2>6. CASE HandsBack(w, r) /\ UNCHANGED confirmed
    <3>1. /\ lastSent' = lastSent - worker[w].batch.delta /\ unsent' = unsent \cup Held(w)
          /\ Held(w)' = {} /\ worker'[w].batch.delta = 0
          /\ \A v \in Workers : v # w => Held(v)' = Held(v) /\ worker'[v] = worker[v]
      BY <2>3, <2>4, <2>6 DEF HandsBack, ReturnCounters, Held
    <3>2. InOnePlace'
      BY <1>c, <2>1, <2>6, <3>1 DEF InOnePlace
    <3>3. NoneLost'
      <4>1. unsent' \cup Carried' = unsent \cup Carried
        BY <2>1, <3>1 DEF Carried
      <4> QED
        BY <1>c, <2>1, <2>6, <4>1 DEF NoneLost
    <3>4. Cardinality(unsent') = Cardinality(unsent) + Cardinality(Held(w))
          /\ Cardinality(unsent) \in Nat
      BY <1>0, <1>c, <3>1, PollSets DEF InOnePlace
    <3>5. DeltasMatch'
      <4>1. worker[w].batch.delta = Cardinality(Held(w)) /\ worker[w].batch.delta \in Int
        BY <1>0, <1>c DEF DeltasMatch
      <4>2. (counter - lastSent = Cardinality(unsent))'
        BY <1>0, <1>c, <2>1, <3>1, <3>4, <4>1 DEF DeltasMatch
      <4>3. \A v \in Workers : (worker[v].batch.delta = Cardinality(Held(v)))'
        BY <1>c, <3>1, FS_EmptySet DEF DeltasMatch
      <4>4. (reporter.batch.delta = Cardinality(reporter.batch.polls))'
        BY <1>c, <2>1 DEF DeltasMatch
      <4> QED
        BY <4>2, <4>3, <4>4 DEF DeltasMatch
    <3> QED
      BY <2>1, <3>2, <3>3, <3>5 DEF Conserved, PollsConserved
  <2>7. CASE Acknowledges(w, r)
    <3>1. /\ UNCHANGED <<lastSent, unsent>> /\ confirmed' = confirmed \cup Held(w)
          /\ Held(w)' = {} /\ worker'[w].batch.delta = 0
          /\ \A v \in Workers : v # w => Held(v)' = Held(v) /\ worker'[v] = worker[v]
      BY <2>3, <2>4, <2>7 DEF Acknowledges, Held
    <3>2. InOnePlace'
      BY <1>c, <2>1, <3>1 DEF InOnePlace
    <3>3. NoneLost'
      <4>1. confirmed' \cup Carried' = confirmed \cup Carried
        BY <2>1, <3>1 DEF Carried
      <4> QED
        BY <1>c, <2>1, <3>1, <4>1 DEF NoneLost
    <3>4. DeltasMatch'
      BY <1>c, <2>1, <3>1, FS_EmptySet DEF DeltasMatch
    <3> QED
      BY <2>1, <3>2, <3>3, <3>4 DEF Conserved, PollsConserved
  <2> QED
    BY <2>2, <2>5, <2>6, <2>7 DEF NotAcknowledged
<1>9. ASSUME NEW w \in Workers, ServerStores(w)
      PROVE  Conserved'
  <2>1. worker' = [worker EXCEPT ![w] = [worker[w] EXCEPT !.stored = TRUE]]
    BY <1>9 DEF ServerStores
  <2>2. \A v \in Workers : worker'[v].batch = worker[v].batch
    BY <1>0, <1>9, <2>1, Served, WorkerSet DEF ServerStores
  <2> QED
    BY <1>9, <2>2, NothingMoves DEF ServerStores, stateVars, historyVars
<1>10. ASSUME NEW polls \in Batches, ServedLate(polls)
       PROVE  Conserved'
  BY <1>10, NothingMoves DEF ServedLate, stateVars
<1>11. CASE UNCHANGED vars
  BY <1>11, NothingMoves DEF vars, stateVars, historyVars
<1> QED
  BY <1>1, <1>2, <1>3, <1>4, <1>5, <1>6, <1>7, <1>8, <1>9, <1>10, <1>11 DEF Next, Finished

LEMMA AlwaysConserved == Spec => [](Typed /\ Conserved)
<1>1. Init => Typed /\ Conserved
  BY InitTyped, InitConserved
<1>2. Typed /\ Conserved /\ [Next]_vars => (Typed /\ Conserved)'
  BY NextTyped, NextConserved
<1> QED
  BY <1>1, <1>2, PTL DEF Spec

\* The poll counter is conserved (snapshotBatch, enqueue, sendWithRetry and
\* returnCounters): whatever the reporter and the workers do, each poll is in
\* exactly one place and the integers of the code count the unsent ones.
THEOREM PollsAreConserved == Spec => []PollsConserved
<1>1. Conserved => PollsConserved
  BY DEF Conserved
<1> QED
  BY <1>1, AlwaysConserved, PTL

-----------------------------------------------------------------------------
(* What the server has counted. *)

\* A batch whose request was stored, a confirmed poll and a poll in doubt: the
\* only places of a poll that is in the total.
Counted ==
    /\ ConfirmedIsCounted
    /\ DoubleCountNeedsDoubt
    /\ \A w \in Workers : worker[w].stored => \A p \in Held(w) : stored[p] >= 1
    /\ \A p \in Polls : stored[p] >= 1 =>
         p \in confirmed \cup doubted \cup UNION {Held(w) : w \in {v \in Workers : worker[v].stored}}

\* The polls of a request nobody waits for were made.
AbandonedWereMade == \A b \in Batches : abandoned[b] > 0 => b \subseteq 1..counter

LEMMA InitCounted == Init => Counted /\ AbandonedWereMade
<1> SUFFICES ASSUME Init PROVE Counted /\ AbandonedWereMade
  OBVIOUS
<1>1. confirmed = {} /\ \A p \in Polls : stored[p] = 0
  BY DEF Init
<1>2. \A w \in Workers : ~worker[w].stored
  BY DEF Init, IdleWorker
<1>3. \A b \in Batches : abandoned[b] = 0
  BY DEF Init
<1> QED
  BY <1>1, <1>2, <1>3 DEF Counted, ConfirmedIsCounted, DoubleCountNeedsDoubt, AbandonedWereMade

\* A step that neither counts nor confirms a poll.
LEMMA NothingCounted ==
    ASSUME Counted, UNCHANGED <<stored, confirmed, doubted>>,
           \A w \in Workers : /\ worker'[w].stored <=> worker[w].stored
                              /\ worker[w].stored => worker'[w].batch = worker[w].batch
    PROVE  Counted'
<1>1. \A w \in Workers : worker[w].stored => Held(w)' = Held(w)
  BY DEF Held
<1>2. ConfirmedIsCounted' /\ DoubleCountNeedsDoubt'
  BY DEF Counted, ConfirmedIsCounted, DoubleCountNeedsDoubt
<1>3. (\A w \in Workers : worker[w].stored => \A p \in Held(w) : stored[p] >= 1)'
  BY <1>1 DEF Counted
<1>4. (\A p \in Polls : stored[p] >= 1 =>
         p \in confirmed \cup doubted \cup UNION {Held(w) : w \in {v \in Workers : worker[v].stored}})'
  BY <1>1 DEF Counted
<1> QED
  BY <1>2, <1>3, <1>4 DEF Counted

LEMMA NextCounted == Typed /\ Conserved /\ Counted /\ [Next]_vars => Counted'
<1> SUFFICES ASSUME Typed, Conserved, Counted, [Next]_vars
             PROVE  Counted'
  OBVIOUS
<1>0. /\ worker \in [Workers -> Shape] /\ stored \in [Polls -> 0..2]
      /\ confirmed \subseteq Polls /\ \A w \in Workers : Held(w) \subseteq Polls
  BY ShapeFields DEF Typed, TypeOK, Held
<1>c. InOnePlace
  BY DEF Conserved, PollsConserved
<1>k. /\ \A p \in confirmed : stored[p] >= 1
      /\ \A p \in Polls : stored[p] = 2 => p \in doubted
      /\ \A w \in Workers : worker[w].stored => \A p \in Held(w) : stored[p] >= 1
      /\ \A p \in Polls : stored[p] >= 1 =>
           \/ p \in confirmed \/ p \in doubted
           \/ \E w \in Workers : worker[w].stored /\ p \in Held(w)
  BY DEF Counted, ConfirmedIsCounted, DoubleCountNeedsDoubt
<1>1. CASE CollectRuntimeMetrics
  BY <1>1, NothingCounted DEF CollectRuntimeMetrics
<1>2. ASSUME NEW n \in CpuCounts, CollectSystemMetrics(n)
      PROVE  Counted'
  BY <1>2, NothingCounted DEF CollectSystemMetrics, historyVars
<1>3. ASSUME NEW c \in collectors, CollectorStops(c)
      PROVE  Counted'
  BY <1>3, NothingCounted DEF CollectorStops, historyVars
<1>4. CASE Cancel
  BY <1>4, NothingCounted DEF Cancel, historyVars
<1>5. CASE CollectBatch
  BY <1>5, NothingCounted DEF CollectBatch
<1>6. ASSUME NEW w \in Workers, Offer(w)
      PROVE  Counted'
  <2> DEFINE chunk == IF reporter.left <= BatchSize THEN reporter.batch ELSE NoBatch
             taken == [IdleWorker EXCEPT !.phase = "ready", !.batch = chunk]
  <2>1. chunk \in Batch
    BY EmptyTyped DEF Typed, TypeOK, ReporterState
  <2>2. worker' = [worker EXCEPT ![w] = taken] /\ taken \in Shape /\ ~taken.stored
    BY <1>6, <2>1, Taken DEF Offer
  <2> HIDE DEF taken
  <2>3. worker'[w] = taken /\ \A v \in Workers : v # w => worker'[v] = worker[v]
    BY <1>0, <2>2, WorkerSet
  <2>4. ~worker[w].stored
    BY <1>0, <1>6 DEF Offer, Shape
  <2> QED
    BY <1>6, <2>2, <2>3, <2>4, NothingCounted DEF Offer, historyVars
<1>7. CASE ReporterStops
  BY <1>7, NothingCounted DEF ReporterStops
<1>8. ASSUME NEW w \in Workers, WorkerStep(w)
      PROVE  Counted'
  <2>1. UNCHANGED stored
    BY <1>8, WorkerStepKinds
  <2>2. PICK r \in Shape :
          /\ worker' = [worker EXCEPT ![w] = r] /\ ~r.stored
          /\ \/ (Keeps(w, r) \/ HandsBack(w, r)) /\ NotAcknowledged(w)
             \/ Acknowledges(w, r)
    BY <1>8, WorkerStepKinds
  <2>3. worker'[w] = r /\ \A v \in Workers : v # w => worker'[v] = worker[v] /\ Held(v)' = Held(v)
    BY <1>0, <2>2, WorkerSet DEF Held
  <2>4. \A v \in Workers : worker'[v].stored => v # w /\ worker[v].stored /\ Held(v)' = Held(v)
    BY <2>2, <2>3
  <2>5. /\ confirmed' \subseteq confirmed \cup Held(w)
        /\ confirmed \subseteq confirmed' /\ doubted \subseteq doubted'
        /\ worker[w].stored => Held(w) \subseteq confirmed' \cup doubted'
        /\ \A p \in confirmed' : p \in confirmed \/ (worker[w].stored /\ p \in Held(w))
    BY <2>2 DEF NotAcknowledged, Acknowledges
  <2>6. ConfirmedIsCounted' /\ DoubleCountNeedsDoubt'
    BY <1>k, <2>1, <2>5 DEF ConfirmedIsCounted, DoubleCountNeedsDoubt
  <2>7. (\A v \in Workers : worker[v].stored => \A p \in Held(v) : stored[p] >= 1)'
    BY <1>k, <2>1, <2>4
  <2>8. \A p \in Polls : stored'[p] >= 1 =>
           \/ p \in confirmed' \/ p \in doubted'
           \/ \E v \in Workers : worker'[v].stored /\ p \in Held(v)'
    <3> SUFFICES ASSUME NEW p \in Polls, stored[p] >= 1, p \notin confirmed', p \notin doubted'
                 PROVE  \E v \in Workers : worker'[v].stored /\ p \in Held(v)'
      BY <2>1
    <3>1. PICK v \in Workers : worker[v].stored /\ p \in Held(v)
      BY <1>k, <2>5
    <3>2. v # w
      BY <2>5, <3>1
    <3> QED
      BY <2>3, <3>1, <3>2
  <2> QED
    BY <2>6, <2>7, <2>8 DEF Counted
<1>9. ASSUME NEW w \in Workers, ServerStores(w)
      PROVE  Counted'
  <2>1. /\ ~worker[w].stored /\ AddToTotal(Held(w)) /\ UNCHANGED <<confirmed, doubted>>
        /\ worker' = [worker EXCEPT ![w] = [worker[w] EXCEPT !.stored = TRUE]]
    BY <1>9 DEF ServerStores, historyVars
  <2>2. /\ \A v \in Workers : worker'[v].batch = worker[v].batch
        /\ \A v \in Workers : worker'[v].stored <=> (v = w \/ worker[v].stored)
    <3>1. worker[w] \in Shape /\ worker[w].phase = "waiting"
      BY <1>0, <1>9 DEF ServerStores
    <3>2. [worker[w] EXCEPT !.stored = TRUE].stored = TRUE
      BY <3>1 DEF Shape, WorkerState
    <3> QED
      BY <1>0, <2>1, <3>1, <3>2, Served, WorkerSet
  <2>3. \A v \in Workers : Held(v)' = Held(v)
    BY <2>2 DEF Held
  <2>4. \A p \in Polls : /\ stored'[p] >= stored[p]
                         /\ p \in Held(w) => stored'[p] >= 1
                         /\ p \notin Held(w) => stored'[p] = stored[p]
                         /\ stored'[p] = 2 => stored[p] >= 1
    BY <1>0, <2>1 DEF AddToTotal
  <2>5. ConfirmedIsCounted'
    BY <1>0, <1>k, <2>1, <2>4 DEF ConfirmedIsCounted
  <2>6. DoubleCountNeedsDoubt'
    <3> SUFFICES ASSUME NEW p \in Polls, stored'[p] = 2 PROVE p \in doubted
      BY <2>1 DEF DoubleCountNeedsDoubt
    <3>1. CASE p \notin Held(w)
      BY <1>k, <2>4, <3>1
    <3>2. CASE p \in Held(w)
      <4>1. p \notin confirmed /\ \A v \in Workers : v # w => p \notin Held(v)
        BY <1>c, <3>2 DEF InOnePlace
      <4> QED
        BY <1>k, <2>1, <2>4, <4>1
    <3> QED
      BY <3>1, <3>2
  <2>7. (\A v \in Workers : worker[v].stored => \A p \in Held(v) : stored[p] >= 1)'
    <3> SUFFICES ASSUME NEW v \in Workers, worker'[v].stored, NEW p \in Held(v)
                 PROVE  stored'[p] >= 1
      BY <2>3
    <3>1. p \in Polls
      BY <1>0
    <3>2. CASE v = w
      BY <2>4, <3>1, <3>2
    <3>3. CASE v # w
      BY <1>0, <1>k, <2>2, <2>4, <3>1, <3>3
    <3> QED
      BY <3>2, <3>3
  <2>8. \A p \in Polls : stored'[p] >= 1 =>
           \/ p \in confirmed' \/ p \in doubted'
           \/ \E v \in Workers : worker'[v].stored /\ p \in Held(v)'
    BY <1>k, <2>1, <2>2, <2>3, <2>4
  <2> QED
    BY <2>5, <2>6, <2>7, <2>8 DEF Counted
<1>10. ASSUME NEW polls \in Batches, ServedLate(polls)
       PROVE  Counted'
  <2>1. AddToTotal(polls) /\ doubted' = doubted \cup polls /\ UNCHANGED <<confirmed, worker>>
    BY <1>10 DEF ServedLate
  <2>2. \A p \in Polls : /\ stored[p] >= 1 => stored'[p] >= 1
                         /\ p \notin polls => stored'[p] = stored[p]
    BY <1>0, <2>1 DEF AddToTotal
  <2>3. \A w \in Workers : Held(w)' = Held(w)
    BY <2>1 DEF Held
  <2>4. ConfirmedIsCounted'
    BY <1>0, <1>k, <2>1, <2>2 DEF ConfirmedIsCounted
  <2>5. DoubleCountNeedsDoubt'
    BY <1>k, <2>1, <2>2 DEF DoubleCountNeedsDoubt
  <2>6. (\A v \in Workers : worker[v].stored => \A p \in Held(v) : stored[p] >= 1)'
    <3> SUFFICES ASSUME NEW v \in Workers, worker[v].stored, NEW p \in Held(v)
                 PROVE  stored'[p] >= 1
      BY <2>1, <2>3
    <3>1. p \in Polls
      BY <1>0
    <3> QED
      BY <1>0, <1>k, <2>2, <3>1
  <2>7. \A p \in Polls : stored'[p] >= 1 =>
           \/ p \in confirmed' \/ p \in doubted'
           \/ \E v \in Workers : worker'[v].stored /\ p \in Held(v)'
    BY <1>k, <2>1, <2>2, <2>3
  <2> QED
    BY <2>4, <2>5, <2>6, <2>7 DEF Counted
<1>11. CASE UNCHANGED vars
  BY <1>11, NothingCounted DEF vars, historyVars
<1> QED
  BY <1>1, <1>2, <1>3, <1>4, <1>5, <1>6, <1>7, <1>8, <1>9, <1>10, <1>11 DEF Next, Finished

LEMMA NextAbandoned ==
    Typed /\ Conserved /\ AbandonedWereMade /\ [Next]_vars => AbandonedWereMade'
<1> SUFFICES ASSUME Typed, Conserved, AbandonedWereMade, [Next]_vars
             PROVE  AbandonedWereMade'
  OBVIOUS
<1>0. counter \in Nat /\ abandoned \in [Batches -> 0..2]
  BY DEF Typed, TypeOK
<1>k. \A b \in Batches : abandoned[b] > 0 => b \subseteq 1..counter
  BY DEF AbandonedWereMade
<1>1. ASSUME UNCHANGED <<counter, abandoned>>
      PROVE  AbandonedWereMade'
  BY <1>1, <1>k DEF AbandonedWereMade
<1>2. CASE CollectRuntimeMetrics
  <2>1. counter' = counter + 1 /\ UNCHANGED abandoned
    BY <1>2 DEF CollectRuntimeMetrics
  <2>2. 1..counter \subseteq 1..(counter + 1)
    BY <1>0
  <2> QED
    BY <1>k, <2>1, <2>2 DEF AbandonedWereMade
<1>3. ASSUME NEW w \in Workers, WorkerStep(w)
      PROVE  AbandonedWereMade'
  <2>1. UNCHANGED counter /\ (UNCHANGED abandoned \/ Abandon(Held(w)))
    BY <1>3, WorkerStepKinds
  <2>2. CASE Abandon(Held(w))
    <3>1. \A b \in Batches : abandoned'[b] > 0 => abandoned[b] > 0 \/ b = Held(w)
      BY <1>0, <2>2 DEF Abandon
    <3>2. Held(w) \subseteq 1..counter
      BY DEF Conserved, PollsConserved, NoneLost, Carried
    <3> QED
      BY <1>k, <2>1, <3>1, <3>2 DEF AbandonedWereMade
  <2> QED
    BY <1>1, <2>1, <2>2
<1>4. ASSUME NEW polls \in Batches, ServedLate(polls)
      PROVE  AbandonedWereMade'
  <2>1. UNCHANGED counter /\ \A b \in Batches : abandoned'[b] > 0 => abandoned[b] > 0
    BY <1>0, <1>4 DEF ServedLate, stateVars
  <2> QED
    BY <1>k, <2>1 DEF AbandonedWereMade
<1>5. ASSUME NEW n \in CpuCounts, CollectSystemMetrics(n)
      PROVE  AbandonedWereMade'
  BY <1>1, <1>5 DEF CollectSystemMetrics
<1>6. ASSUME NEW c \in collectors, CollectorStops(c)
      PROVE  AbandonedWereMade'
  BY <1>1, <1>6 DEF CollectorStops, stateVars
<1>7. CASE Cancel \/ CollectBatch \/ ReporterStops \/ UNCHANGED vars
  BY <1>1, <1>7 DEF Cancel, CollectBatch, ReporterStops, vars, stateVars
<1>8. ASSUME NEW w \in Workers, Offer(w) \/ ServerStores(w)
      PROVE  AbandonedWereMade'
  BY <1>1, <1>8 DEF Offer, ServerStores, stateVars
<1> QED
  BY <1>2, <1>3, <1>4, <1>5, <1>6, <1>7, <1>8 DEF Next, Finished

\* The inductive invariant of the agent.
IInv == Typed /\ Conserved /\ Counted /\ AbandonedWereMade

LEMMA AlwaysIInv == Spec => []IInv
<1>1. Init => IInv
  BY InitTyped, InitConserved, InitCounted DEF IInv
<1>2. IInv /\ [Next]_vars => IInv'
  BY NextTyped, NextConserved, NextCounted, NextAbandoned DEF IInv
<1> QED
  BY <1>1, <1>2, PTL DEF Spec

\* A poll the agent will never send again is in the server's total: sendBatch
\* takes nothing but the answer to a stored batch for an acknowledgement.
THEOREM ConfirmedPollsAreCounted == Spec => []ConfirmedIsCounted
<1>1. IInv => ConfirmedIsCounted
  BY DEF IInv, Counted
<1> QED
  BY <1>1, AlwaysIInv, PTL

\* Retries, hand-backs and the pool never count a poll twice by themselves: it
\* takes a request that was stored without the agent learning so.
THEOREM DoubleCountsAreInDoubt == Spec => []DoubleCountNeedsDoubt
<1>1. IInv => DoubleCountNeedsDoubt
  BY DEF IInv, Counted
<1> QED
  BY <1>1, AlwaysIInv, PTL

\* When Run has returned, every poll without an acknowledgement is back in the
\* accumulator.
THEOREM NothingIsStranded == Spec => []NothingStranded
<1>1. IInv => NothingStranded
  <2> SUFFICES ASSUME IInv, Done PROVE /\ unsent = 1..counter \ confirmed
                                       /\ counter - lastSent = Cardinality(unsent)
    BY DEF NothingStranded
  <2>1. worker \in [Workers -> Shape] /\ InOnePlace /\ NoneLost /\ DeltasMatch
        /\ reporter.batch.polls = {}
    BY DEF IInv, Typed, Conserved, PollsConserved, Done
  <2>2. \A w \in Workers : Held(w) = {}
    BY <2>1 DEF Done, Shape, Held, NoBatch
  <2>3. Carried = {}
    BY <2>1, <2>2 DEF Carried
  <2> QED
    BY <2>1, <2>3 DEF InOnePlace, NoneLost, DeltasMatch
<1> QED
  BY <1>1, AlwaysIInv, PTL

-----------------------------------------------------------------------------
(* The agent implements the ledger of polls. *)

LEMMA InitLedger == Init => Ledger!LedgerInit
<1> SUFFICES ASSUME Init PROVE Ledger!LedgerInit
  OBVIOUS
<1>1. \A w \in Workers : Held(w) = {}
  BY DEF Init, Held, IdleWorker, NoBatch
<1>2. Carried = {}
  BY <1>1 DEF Init, Carried, NoBatch
<1>3. {p \in Polls : stored[p] >= 1} = {}
  BY DEF Init
<1> QED
  BY <1>2, <1>3 DEF Init, Ledger!LedgerInit

LEMMA NextLedger == IInv /\ [Next]_vars => [Ledger!LedgerNext]_(Ledger!ledgerVars)
<1> SUFFICES ASSUME IInv, [Next]_vars
             PROVE  [Ledger!LedgerNext]_(Ledger!ledgerVars)
  OBVIOUS
<1> DEFINE total == {p \in Polls : stored[p] >= 1}
<1>0. /\ counter \in Nat /\ confirmed \subseteq Polls /\ stored \in [Polls -> 0..2]
      /\ worker \in [Workers -> Shape] /\ reporter.batch \in Batch
      /\ \A w \in Workers : Held(w) \subseteq Polls
  BY ShapeFields DEF IInv, Typed, TypeOK, ReporterState, Held
<1>c. InOnePlace /\ NoneLost
  BY DEF IInv, Conserved, PollsConserved
<1>s. ASSUME UNCHANGED <<unsent, confirmed, stored>>, Carried' = Carried
      PROVE  UNCHANGED Ledger!ledgerVars
  BY <1>s DEF Ledger!ledgerVars
<1>r. ASSUME UNCHANGED <<unsent, confirmed, stored>>, reporter'.batch = reporter.batch,
             \A w \in Workers : worker'[w].batch = worker[w].batch
      PROVE  UNCHANGED Ledger!ledgerVars
  BY <1>r, <1>s DEF Carried, Held
<1>1. CASE CollectRuntimeMetrics
  <2>1. /\ counter + 1 \in 1..MaxPolls /\ unsent' = unsent \cup {counter + 1}
        /\ UNCHANGED <<reporter, worker, confirmed, stored>>
    BY <1>0, <1>1, AgentAssumption DEF CollectRuntimeMetrics
  <2>2. Carried' = Carried
    BY <2>1 DEF Carried, Held
  <2>3. counter + 1 \notin unsent \cup Carried \cup confirmed
    BY <1>0, <1>c DEF NoneLost
  <2>4. Ledger!Record
    BY <2>1, <2>2, <2>3 DEF Ledger!Record, Ledger!Known
  <2> QED
    BY <2>4 DEF Ledger!LedgerNext
<1>2. ASSUME NEW n \in CpuCounts, CollectSystemMetrics(n)
      PROVE  UNCHANGED Ledger!ledgerVars
  BY <1>2, <1>r DEF CollectSystemMetrics, historyVars
<1>3. ASSUME NEW c \in collectors, CollectorStops(c)
      PROVE  UNCHANGED Ledger!ledgerVars
  BY <1>3, <1>r DEF CollectorStops, historyVars
<1>4. CASE Cancel
  BY <1>4, <1>r DEF Cancel, historyVars
<1>5. CASE CollectBatch
  <2>1. /\ unsent' = {} /\ reporter'.batch.polls = unsent /\ reporter.batch.polls = {}
        /\ UNCHANGED <<worker, confirmed, stored>>
    BY <1>5 DEF CollectBatch, IInv, Conserved
  <2>2. Carried' = Carried \cup unsent
    BY <2>1 DEF Carried, Held
  <2>3. Ledger!TakeAll
    BY <2>1, <2>2 DEF Ledger!TakeAll
  <2> QED
    BY <2>3 DEF Ledger!LedgerNext
<1>6. ASSUME NEW w \in Workers, Offer(w)
      PROVE  UNCHANGED Ledger!ledgerVars
  <2> DEFINE chunk == IF reporter.left <= BatchSize THEN reporter.batch ELSE NoBatch
             taken == [IdleWorker EXCEPT !.phase = "ready", !.batch = chunk]
  <2>1. worker' = [worker EXCEPT ![w] = taken] /\ taken \in Shape /\ taken.batch = chunk
    BY <1>0, <1>6, EmptyTyped, Taken DEF Offer
  <2> HIDE DEF taken
  <2>2. worker'[w].batch = chunk /\ \A v \in Workers : v # w => worker'[v] = worker[v]
    BY <1>0, <2>1, WorkerSet
  <2>3. worker[w].batch = NoBatch /\ NoBatch.polls = {}
    BY <1>0, <1>6 DEF Offer, Shape, NoBatch
  <2>4. reporter'.batch = IF reporter.left <= BatchSize THEN NoBatch ELSE reporter.batch
    <3>1. CASE reporter.left <= BatchSize
      BY <1>6, <3>1 DEF Offer
    <3>2. CASE ~(reporter.left <= BatchSize)
      <4>1. reporter' = [reporter EXCEPT !.left = @ - BatchSize]
        BY <1>6, <3>2 DEF Offer
      <4> QED
        BY <3>2, <4>1 DEF IInv, Typed, TypeOK, ReporterState
    <3> QED
      BY <3>1, <3>2
  <2>5. Carried' = Carried
    <3>1. Held(w)' \cup reporter'.batch.polls = Held(w) \cup reporter.batch.polls
      BY <2>2, <2>3, <2>4 DEF Held
    <3>2. \A v \in Workers : v # w => Held(v)' = Held(v)
      BY <2>2 DEF Held
    <3> QED
      BY <3>1, <3>2 DEF Carried
  <2> QED
    BY <1>6, <1>s, <2>5 DEF Offer, historyVars
<1>7. CASE ReporterStops
  <2>1. /\ unsent' = unsent \cup reporter.batch.polls /\ reporter'.batch.polls = {}
        /\ UNCHANGED <<worker, confirmed, stored>>
    BY <1>7 DEF ReporterStops, ReturnCounters, NoBatch
  <2>2. Carried' = Carried \ reporter.batch.polls
    <3>1. \A w \in Workers : Held(w)' = Held(w) /\ Held(w) \cap reporter.batch.polls = {}
      BY <1>c, <2>1 DEF Held, InOnePlace
    <3> QED
      BY <2>1, <3>1 DEF Carried
  <2>3. reporter.batch.polls \in SUBSET Carried
    BY DEF Carried
  <2>4. Ledger!HandBack
    BY <2>1, <2>2, <2>3 DEF Ledger!HandBack
  <2> QED
    BY <2>4 DEF Ledger!LedgerNext
<1>8. ASSUME NEW w \in Workers, WorkerStep(w)
      PROVE  [Ledger!LedgerNext]_(Ledger!ledgerVars)
  <2>1. UNCHANGED <<reporter, stored>>
    BY <1>8, WorkerStepKinds DEF IInv
  <2>2. PICK r \in Shape :
          /\ worker' = [worker EXCEPT ![w] = r]
          /\ \/ (Keeps(w, r) \/ HandsBack(w, r)) /\ NotAcknowledged(w)
             \/ Acknowledges(w, r)
    BY <1>8, WorkerStepKinds DEF IInv
  <2>3. worker'[w] = r /\ \A v \in Workers : v # w => worker'[v] = worker[v]
    BY <1>0, <2>2, WorkerSet
  <2>4. Held(w) \in SUBSET Carried
    BY DEF Carried
  <2>5. ASSUME r = IdleWorker
        PROVE  Carried' = Carried \ Held(w)
    <3>1. Held(w)' = {} /\ \A v \in Workers : v # w => Held(v)' = Held(v)
      BY <2>3, <2>5 DEF Held, IdleWorker, NoBatch
    <3>2. Held(w) \cap reporter.batch.polls = {}
          /\ \A v \in Workers : v # w => Held(v) \cap Held(w) = {}
      BY <1>c DEF InOnePlace
    <3> QED
      BY <2>1, <3>1, <3>2 DEF Carried
  <2>6. CASE Keeps(w, r) /\ UNCHANGED confirmed
    BY <1>r, <2>1, <2>3, <2>6 DEF Keeps
  <2>7. CASE HandsBack(w, r) /\ UNCHANGED confirmed
    <3>1. Ledger!HandBack
      BY <2>1, <2>4, <2>5, <2>7 DEF Ledger!HandBack, HandsBack, ReturnCounters, Held
    <3> QED
      BY <3>1 DEF Ledger!LedgerNext
  <2>8. CASE Acknowledges(w, r)
    <3>1. Held(w) \in SUBSET (Carried \cap total)
      BY <1>0, <2>4, <2>8 DEF Acknowledges, IInv, Counted
    <3>2. Ledger!Confirm
      BY <2>1, <2>5, <2>8, <3>1 DEF Ledger!Confirm, Acknowledges
    <3> QED
      BY <3>2 DEF Ledger!LedgerNext
  <2> QED
    BY <2>2, <2>6, <2>7, <2>8 DEF NotAcknowledged
<1>9. ASSUME NEW S \in SUBSET (unsent \cup Carried \cup confirmed), AddToTotal(S),
             UNCHANGED <<unsent, confirmed>>, Carried' = Carried
      PROVE  Ledger!LedgerNext
  <2>1. {p \in Polls : stored'[p] >= 1} = total \cup (S \cap Polls)
    BY <1>0, <1>9 DEF AddToTotal
  <2>2. S \subseteq Polls
    BY <1>0, <1>9 DEF Carried, IInv, Typed, TypeOK, Batch
  <2>3. {p \in Polls : stored'[p] >= 1} = total \cup S
    BY <2>1, <2>2
  <2>4. Ledger!Count
    BY <1>9, <2>3 DEF Ledger!Count, Ledger!Known
  <2> QED
    BY <2>4 DEF Ledger!LedgerNext
<1>10. ASSUME NEW w \in Workers, ServerStores(w)
       PROVE  Ledger!LedgerNext
  <2>1. worker' = [worker EXCEPT ![w] = [worker[w] EXCEPT !.stored = TRUE]]
    BY <1>10 DEF ServerStores
  <2>2. \A v \in Workers : Held(v)' = Held(v)
    BY <1>0, <1>10, <2>1, Served, WorkerSet DEF ServerStores, Held
  <2>3. Carried' = Carried
    BY <1>10, <2>2 DEF Carried, ServerStores
  <2>4. Held(w) \in SUBSET (unsent \cup Carried \cup confirmed)
    BY DEF Carried
  <2> QED
    BY <1>9, <1>10, <2>3, <2>4 DEF ServerStores, historyVars
<1>11. ASSUME NEW polls \in Batches, ServedLate(polls)
       PROVE  Ledger!LedgerNext
  <2>1. polls \in SUBSET (unsent \cup Carried \cup confirmed)
    BY <1>c, <1>11 DEF ServedLate, IInv, AbandonedWereMade, NoneLost
  <2>2. Carried' = Carried
    BY <1>11 DEF ServedLate, Carried, Held
  <2> QED
    BY <1>9, <1>11, <2>1, <2>2 DEF ServedLate
<1>12. CASE UNCHANGED vars
  BY <1>12, <1>r DEF vars, historyVars
<1> QED
  BY <1>1, <1>2, <1>3, <1>4, <1>5, <1>6, <1>7, <1>8, <1>10, <1>11, <1>12 DEF Next, Finished

\* The pipeline with its workers, retries and faults implements the ledger of
\* polls: every poll waits, travels or is confirmed, and is confirmed only after
\* it was counted.
THEOREM AgentImplementsLedger == Spec => LedgerImplemented
<1>1. Init /\ [][Next]_vars /\ []IInv => Ledger!LedgerSpec
  BY InitLedger, NextLedger, PTL DEF Ledger!LedgerSpec
<1> QED
  BY <1>1, AlwaysIInv DEF Spec, LedgerImplemented
=============================================================================
