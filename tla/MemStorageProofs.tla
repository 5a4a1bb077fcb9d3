--------------------------- MODULE MemStorageProofs ---------------------------
(***************************************************************************)
(* Theorems about MemStorage, for any calls by any number of requests:     *)
(* what a call returns was true while it was under way.  The lemmas of the *)
(* last part say how its updates implement MetricStore, provided no Update *)
(* is asked for with a malformed metric.                                   *)
(***************************************************************************)
EXTENDS MemStorage, BatchProofs, SequenceTheorems, TLAPS

-----------------------------------------------------------------------------
(* The versions of the rows. *)

\* The versions are a sequence that is never empty.
Recorded == (\E S : versions \in Seq(S)) /\ Len(versions) \in Nat \ {0}

\* Nobody can see rows that are not the last version.
Settled == writer = None => rows = versions[Len(versions)]

LEMMA VersionAdded ==
    ASSUME Recorded, NEW contents, versions' = Append(versions, contents)
    PROVE  /\ Recorded' /\ Len(versions') = Len(versions) + 1
           /\ versions'[Len(versions')] = contents
           /\ \A i \in 1..Len(versions) : versions'[i] = versions[i]
<1>1. PICK S : versions \in Seq(S)
  BY DEF Recorded
<1>2. PICK T : T = S \cup {contents}
  OBVIOUS
<1>3. versions \in Seq(T) /\ contents \in T
  BY <1>1, <1>2
<1>4. /\ versions' \in Seq(T) /\ Len(versions') = Len(versions) + 1
      /\ versions'[Len(versions) + 1] = contents
      /\ \A i \in 1..Len(versions) : versions'[i] = versions[i]
  BY <1>3, AppendProperties
<1>5. Len(versions) \in Nat \ {0}
  BY DEF Recorded
<1>6. Recorded'
  BY <1>4, <1>5 DEF Recorded
<1> QED
  BY <1>4, <1>6

-----------------------------------------------------------------------------
(* The invariant. *)

\* Who stores holds the lock, and nobody else does.
Locking ==
    /\ writer \in Requests \cup {None}
    /\ \A r \in Requests : work[r].phase = "storing" <=> writer = r

\* What a call has come to, by the kind of call it is.
Course(r) ==
    /\ work[r].phase \in Phases
    /\ work[r].phase \in {"waiting", "storing"} => Updates(r)
    /\ work[r].phase = "reading" => ~Updates(r)
    /\ work[r].phase = "half" => ask[r].method = "GetAll"
    /\ since[r] \in 0..Len(versions)
    /\ work[r].phase # "new" => since[r] # 0
    /\ work[r].phase = "absent" => result[r] = Missing

\* A gauge page that is half read.
HalfRead(r) ==
    work[r].phase = "half" =>
        \E i \in since[r]..Len(versions) : result[r] = [gauges |-> OfType(versions[i], "gauge")]

\* What ReadsAreCurrent says of one call.
Current(r) ==
    /\ ask[r].method = "Get" /\ work[r].phase \in {"ok", "absent"} =>
          \E i \in since[r]..Len(versions) : result[r] = LookedUp(versions[i], Asked(r))
    /\ ask[r].method = "Update" /\ work[r].phase = "ok" =>
          result[r] = LookedUp(versions[since[r]], Asked(r))
    /\ ask[r].method = "GetAll" /\ work[r].phase = "ok" =>
          \E i \in since[r]..Len(versions) : \E j \in i..Len(versions) :
             /\ result[r].gauges = OfType(versions[i], "gauge")
             /\ result[r].counters = OfType(versions[j], "counter")

\* The functions from requests are what they are.
Shape ==
    /\ DOMAIN work = Requests /\ DOMAIN result = Requests /\ DOMAIN since = Requests
    /\ \A r \in Requests : work[r] = [phase |-> work[r].phase, left |-> work[r].left]

MemInv ==
    /\ Shape
    /\ Recorded /\ Settled /\ Locking
    /\ \A r \in Requests : Course(r) /\ HalfRead(r) /\ Current(r)

-----------------------------------------------------------------------------
(* The steps of a call. *)

\* A step of r leaves the part of the invariant about every other call alone,
\* as long as the versions are kept.
LEMMA OtherCalls ==
    ASSUME MemInv, NEW r \in Requests, NEW q \in Requests, q # r,
           ask' = ask, work'[q] = work[q], result'[q] = result[q], since'[q] = since[q],
           Len(versions') \in Nat, Len(versions') >= Len(versions),
           \A i \in 1..Len(versions) : versions'[i] = versions[i]
    PROVE  Course(q)' /\ HalfRead(q)' /\ Current(q)'
<1>1. Course(q) /\ HalfRead(q) /\ Current(q) /\ Len(versions) \in Nat \ {0}
  BY DEF MemInv, Recorded
<1>2. Course(q)'
  BY <1>1 DEF Course, Updates
<1>3. since[q] # 0 => \A i \in since[q]..Len(versions) :
          i \in 1..Len(versions) /\ i \in since[q]..Len(versions')
  BY <1>1 DEF Course
<1>4. work[q].phase # "new" => since[q] # 0
  BY <1>1 DEF Course
<1>5. HalfRead(q)'
  <2> SUFFICES ASSUME work[q].phase = "half"
               PROVE  \E i \in since[q]..Len(versions') :
                          result[q] = [gauges |-> OfType(versions'[i], "gauge")]
    BY DEF HalfRead, OfType
  <2>1. PICK i \in since[q]..Len(versions) : result[q] = [gauges |-> OfType(versions[i], "gauge")]
    BY <1>1 DEF HalfRead
  <2>2. i \in since[q]..Len(versions') /\ versions'[i] = versions[i]
    BY <1>3, <1>4, <2>1
  <2> QED
    BY <2>1, <2>2
<1>6. Current(q)'
  <2>1. ASSUME ask[q].method = "Get", work[q].phase \in {"ok", "absent"}
        PROVE  \E i \in since[q]..Len(versions') : result[q] = LookedUp(versions'[i], Asked(q))
    <3>1. PICK i \in since[q]..Len(versions) : result[q] = LookedUp(versions[i], Asked(q))
      BY <1>1, <2>1 DEF Current
    <3>2. i \in since[q]..Len(versions') /\ versions'[i] = versions[i]
      BY <1>3, <1>4, <2>1, <3>1
    <3> QED
      BY <3>1, <3>2
  <2>2. ASSUME ask[q].method = "Update", work[q].phase = "ok"
        PROVE  result[q] = LookedUp(versions'[since[q]], Asked(q))
    <3>1. result[q] = LookedUp(versions[since[q]], Asked(q))
      BY <1>1, <2>2 DEF Current
    <3>2. since[q] \in 1..Len(versions)
      BY <1>1, <2>2 DEF Course
    <3> QED
      BY <3>1, <3>2
  <2>3. ASSUME ask[q].method = "GetAll", work[q].phase = "ok"
        PROVE  \E i \in since[q]..Len(versions') : \E j \in i..Len(versions') :
                   /\ result[q].gauges = OfType(versions'[i], "gauge")
                   /\ result[q].counters = OfType(versions'[j], "counter")
    <3>1. PICK i \in since[q]..Len(versions) : \E j \in i..Len(versions) :
                   /\ result[q].gauges = OfType(versions[i], "gauge")
                   /\ result[q].counters = OfType(versions[j], "counter")
      BY <1>1, <2>3 DEF Current
    <3>2. PICK j \in i..Len(versions) :
                   /\ result[q].gauges = OfType(versions[i], "gauge")
                   /\ result[q].counters = OfType(versions[j], "counter")
      BY <3>1
    <3>3. /\ i \in since[q]..Len(versions') /\ versions'[i] = versions[i]
          /\ j \in i..Len(versions') /\ versions'[j] = versions[j]
      BY <1>1, <1>3, <1>4, <2>3, <3>1, <3>2 DEF Course
    <3> QED
      BY <3>2, <3>3
  <2> QED
    BY <2>1, <2>2, <2>3 DEF Current, Asked
<1> QED
  BY <1>2, <1>5, <1>6

\* What a request asked for does not change, nor what the other calls see,
\* while no version is added.
LEMMA OneCall ==
    ASSUME MemInv, NEW r \in Requests, UNCHANGED <<ask, versions>>,
           \A q \in Requests : q # r =>
               work'[q] = work[q] /\ result'[q] = result[q] /\ since'[q] = since[q],
           Course(r)', HalfRead(r)', Current(r)'
    PROVE  \A q \in Requests : Course(q)' /\ HalfRead(q)' /\ Current(q)'
<1> SUFFICES ASSUME NEW q \in Requests, q # r
             PROVE  Course(q)' /\ HalfRead(q)' /\ Current(q)'
  OBVIOUS
<1>1. /\ Len(versions') \in Nat /\ Len(versions') >= Len(versions)
      /\ \A i \in 1..Len(versions) : versions'[i] = versions[i]
  BY DEF MemInv, Recorded
<1> QED
  BY <1>1, OtherCalls

LEMMA BeginKeepsInv ==
    ASSUME MemInv, NEW r \in Requests, Begin(r)
    PROVE  MemInv'
<1>1. /\ work[r].phase = "new"
      /\ since' = [since EXCEPT ![r] = Len(versions)]
      /\ UNCHANGED <<ask, rows, writer, result, versions>>
  BY DEF Begin
<1>2. /\ Len(versions) \in Nat \ {0}
      /\ DOMAIN work = Requests /\ DOMAIN since = Requests /\ DOMAIN result = Requests
  BY DEF MemInv, Recorded, Shape
<1>3. PICK begun : work' = [work EXCEPT ![r] = begun] /\ begun =
         CASE ~Updates(r) -> [phase |-> "reading", left |-> <<>>]
           [] ask[r].method = "Update" -> [phase |-> "waiting", left |-> ask[r].metrics]
           [] ask[r].method = "UpdateBatch" /\ ask[r].metrics = <<>> ->
                 [phase |-> "ok", left |-> <<>>]
           [] ask[r].method = "UpdateBatch" /\ ~AllValid(ask[r].metrics) ->
                 [phase |-> "invalid", left |-> <<>>]
           [] OTHER -> [phase |-> "waiting", left |-> AggregateBatch(ask[r].metrics)]
  BY DEF Begin
<1>4. /\ begun = [phase |-> begun.phase, left |-> begun.left]
      /\ begun.phase \in {"reading", "waiting", "ok", "invalid"}
      /\ begun.phase = "reading" => ~Updates(r)
      /\ begun.phase = "waiting" => Updates(r)
      /\ begun.phase = "ok" => ask[r].method = "UpdateBatch"
  BY <1>3 DEF Updates
<1>5. work'[r] = begun /\ since'[r] = Len(versions)
  BY <1>1, <1>2, <1>3
<1>6. \A q \in Requests : q # r => work'[q] = work[q] /\ since'[q] = since[q]
  BY <1>1, <1>2, <1>3
<1>7. Shape' /\ Recorded' /\ Settled' /\ Locking'
  <2>1. Shape'
    BY <1>1, <1>2, <1>3, <1>4, <1>5, <1>6 DEF MemInv, Shape
  <2>2. Recorded' /\ Settled'
    BY <1>1 DEF MemInv, Recorded, Settled
  <2>3. Locking'
    BY <1>1, <1>4, <1>5, <1>6 DEF MemInv, Locking
  <2> QED
    BY <2>1, <2>2, <2>3
<1>8. Course(r)' /\ HalfRead(r)' /\ Current(r)'
  <2>1. Course(r)'
    BY <1>1, <1>2, <1>4, <1>5 DEF Course, Updates, Phases
  <2>2. HalfRead(r)'
    BY <1>4, <1>5 DEF HalfRead
  <2>3. Current(r)'
    BY <1>1, <1>4, <1>5 DEF Current
  <2> QED
    BY <2>1, <2>2, <2>3
<1> QED
  BY <1>1, <1>6, <1>7, <1>8, OneCall DEF MemInv

\* Nobody stores while the lock is free, and only its holder does.
LEMMA LockKeepsInv ==
    ASSUME MemInv, NEW r \in Requests, Lock(r)
    PROVE  MemInv'
<1>1. /\ work[r].phase = "waiting" /\ writer = None /\ writer' = r
      /\ UNCHANGED <<ask, rows, result, versions, since>>
  BY DEF Lock
<1>2. DOMAIN work = Requests /\ work[r] = [phase |-> work[r].phase, left |-> work[r].left]
  BY DEF MemInv, Shape
<1>3. /\ DOMAIN work' = Requests
      /\ work'[r] = [phase |-> "storing", left |-> work[r].left]
      /\ \A q \in Requests : q # r => work'[q] = work[q]
  BY <1>2 DEF Lock
<1>4. Shape' /\ Recorded' /\ Settled' /\ Locking'
  <2>1. Shape'
    BY <1>1, <1>3 DEF MemInv, Shape
  <2>2. Recorded' /\ Settled'
    BY <1>1, NoneAssumption DEF MemInv, Recorded, Settled
  <2>3. Locking'
    BY <1>1, <1>3, NoneAssumption DEF MemInv, Locking
  <2> QED
    BY <2>1, <2>2, <2>3
<1>5. Course(r)' /\ HalfRead(r)' /\ Current(r)'
  <2>1. Course(r)'
    BY <1>1, <1>3 DEF MemInv, Course, Updates, Phases
  <2>2. HalfRead(r)' /\ Current(r)'
    BY <1>1, <1>3 DEF HalfRead, Current
  <2> QED
    BY <2>1, <2>2
<1> QED
  BY <1>1, <1>3, <1>4, <1>5, OneCall DEF MemInv

LEMMA StoreNextKeepsInv ==
    ASSUME MemInv, NEW r \in Requests, StoreNext(r)
    PROVE  MemInv'
<1>1. /\ work[r].phase = "storing" /\ UNCHANGED <<ask, writer, result, versions, since>>
  BY DEF StoreNext
<1>2. DOMAIN work = Requests /\ work[r] = [phase |-> work[r].phase, left |-> work[r].left]
  BY DEF MemInv, Shape
<1>3. /\ DOMAIN work' = Requests
      /\ work'[r] = [phase |-> "storing", left |-> Tail(work[r].left)]
      /\ \A q \in Requests : q # r => work'[q] = work[q]
  BY <1>1, <1>2 DEF StoreNext
<1>4. Shape' /\ Recorded' /\ Settled' /\ Locking'
  <2>1. Shape'
    BY <1>1, <1>3 DEF MemInv, Shape
  <2>2. Recorded' /\ Settled'
    BY <1>1, NoneAssumption DEF MemInv, Recorded, Settled, Locking
  <2>3. Locking'
    BY <1>1, <1>3 DEF MemInv, Locking
  <2> QED
    BY <2>1, <2>2, <2>3
<1>5. Course(r)' /\ HalfRead(r)' /\ Current(r)'
  <2>1. Course(r)'
    BY <1>1, <1>3 DEF MemInv, Course, Updates
  <2>2. HalfRead(r)' /\ Current(r)'
    BY <1>1, <1>3 DEF HalfRead, Current
  <2> QED
    BY <2>1, <2>2
<1> QED
  BY <1>1, <1>3, <1>4, <1>5, OneCall DEF MemInv

\* The rows a writer leaves are a version, the one its own answer is taken from.
LEMMA UnlockKeepsInv ==
    ASSUME MemInv, NEW r \in Requests, Unlock(r)
    PROVE  MemInv'
<1>1. /\ work[r].phase = "storing" /\ writer' = None
      /\ versions' = Append(versions, rows)
      /\ since' = [since EXCEPT ![r] = Len(versions')]
      /\ UNCHANGED <<ask, rows>>
  BY DEF Unlock
<1>2. /\ DOMAIN work = Requests /\ DOMAIN result = Requests /\ DOMAIN since = Requests
      /\ work[r] = [phase |-> work[r].phase, left |-> work[r].left]
      /\ Len(versions) \in Nat \ {0} /\ writer = r /\ Updates(r)
  BY <1>1 DEF MemInv, Shape, Recorded, Locking, Course
<1>3. /\ DOMAIN work' = Requests
      /\ work'[r] = [phase |-> "ok", left |-> work[r].left]
      /\ \A q \in Requests : q # r => work'[q] = work[q]
  BY <1>2 DEF Unlock
<1>4. /\ DOMAIN result' = Requests
      /\ ask[r].method = "Update" => result'[r] = LookedUp(rows, Asked(r))
      /\ \A q \in Requests : q # r => result'[q] = result[q]
  BY <1>2 DEF Unlock
<1>5. /\ DOMAIN since' = Requests /\ since'[r] = Len(versions')
      /\ \A q \in Requests : q # r => since'[q] = since[q]
  BY <1>1, <1>2
<1>6. /\ Recorded' /\ Len(versions') = Len(versions) + 1
      /\ versions'[Len(versions')] = rows
      /\ \A i \in 1..Len(versions) : versions'[i] = versions[i]
  BY <1>1, VersionAdded DEF MemInv
<1>7. Shape' /\ Settled' /\ Locking'
  <2>1. Shape'
    BY <1>2, <1>3, <1>4, <1>5 DEF MemInv, Shape
  <2>2. Settled'
    BY <1>1, <1>6 DEF Settled
  <2>3. Locking'
    BY <1>1, <1>2, <1>3, NoneAssumption DEF MemInv, Locking
  <2> QED
    BY <2>1, <2>2, <2>3
<1>8. Course(r)' /\ HalfRead(r)' /\ Current(r)'
  <2>1. Course(r)'
    BY <1>1, <1>2, <1>3, <1>5, <1>6 DEF Course, Updates, Phases
  <2>2. HalfRead(r)'
    BY <1>3 DEF HalfRead
  <2>3. Asked(r)' = Asked(r)
    BY <1>1 DEF Asked
  <2>4. Current(r)'
    BY <1>1, <1>2, <1>3, <1>4, <1>5, <1>6, <2>3 DEF Current, Updates
  <2> QED
    BY <2>1, <2>2, <2>4
<1>9. \A q \in Requests : q # r => Course(q)' /\ HalfRead(q)' /\ Current(q)'
  BY <1>1, <1>2, <1>3, <1>4, <1>5, <1>6, OtherCalls
<1> QED
  BY <1>6, <1>7, <1>8, <1>9 DEF MemInv

\* A lookup without a writer is a lookup in the last version.
LEMMA GetKeepsInv ==
    ASSUME MemInv, NEW r \in Requests, Get(r)
    PROVE  MemInv'
<1>1. /\ ask[r].method = "Get" /\ work[r].phase = "reading" /\ writer = None
      /\ UNCHANGED <<ask, rows, writer, versions, since>>
  BY DEF Get
<1>2. /\ DOMAIN work = Requests /\ DOMAIN result = Requests
      /\ work[r] = [phase |-> work[r].phase, left |-> work[r].left]
      /\ Len(versions) \in Nat \ {0} /\ since[r] \in 1..Len(versions)
      /\ rows = versions[Len(versions)]
  BY <1>1 DEF MemInv, Shape, Recorded, Settled, Course
<1>3. /\ DOMAIN work' = Requests
      /\ work'[r] = [phase |-> work'[r].phase, left |-> work'[r].left]
      /\ work'[r].phase = IF Asked(r) \in DOMAIN rows THEN "ok" ELSE "absent"
      /\ \A q \in Requests : q # r => work'[q] = work[q]
  BY <1>2 DEF Get
<1>4. /\ DOMAIN result' = Requests /\ result'[r] = LookedUp(rows, Asked(r))
      /\ \A q \in Requests : q # r => result'[q] = result[q]
  BY <1>2 DEF Get
<1>5. Shape' /\ Recorded' /\ Settled' /\ Locking'
  <2>1. Shape'
    BY <1>1, <1>3, <1>4 DEF MemInv, Shape
  <2>2. Recorded' /\ Settled'
    BY <1>1 DEF MemInv, Recorded, Settled
  <2>3. Locking'
    BY <1>1, <1>3 DEF MemInv, Locking
  <2> QED
    BY <2>1, <2>2, <2>3
<1>6. Course(r)' /\ HalfRead(r)' /\ Current(r)'
  <2>1. Course(r)'
    BY <1>1, <1>2, <1>3, <1>4 DEF MemInv, Course, Updates, Phases, LookedUp
  <2>2. HalfRead(r)'
    BY <1>3 DEF HalfRead
  <2>3. result'[r] = LookedUp(versions[Len(versions)], Asked(r)) /\ Asked(r)' = Asked(r)
    BY <1>1, <1>2, <1>4 DEF Asked
  <2>4. Len(versions) \in since[r]..Len(versions)
    BY <1>2
  <2>5. Current(r)'
    BY <1>1, <2>3, <2>4 DEF Current
  <2> QED
    BY <2>1, <2>2, <2>5
<1> QED
  BY <1>1, <1>3, <1>4, <1>5, <1>6, OneCall DEF MemInv

LEMMA GetAllGaugesKeepsInv ==
    ASSUME MemInv, NEW r \in Requests, GetAllGauges(r)
    PROVE  MemInv'
<1>1. /\ ask[r].method = "GetAll" /\ work[r].phase = "reading" /\ writer = None
      /\ UNCHANGED <<ask, rows, writer, versions, since>>
  BY DEF GetAllGauges
<1>2. /\ DOMAIN work = Requests /\ DOMAIN result = Requests
      /\ work[r] = [phase |-> work[r].phase, left |-> work[r].left]
      /\ Len(versions) \in Nat \ {0} /\ since[r] \in 1..Len(versions)
      /\ rows = versions[Len(versions)]
  BY <1>1 DEF MemInv, Shape, Recorded, Settled, Course
<1>3. /\ DOMAIN work' = Requests
      /\ work'[r] = [phase |-> "half", left |-> work[r].left]
      /\ \A q \in Requests : q # r => work'[q] = work[q]
  BY <1>2 DEF GetAllGauges
<1>4. /\ DOMAIN result' = Requests /\ result'[r] = [gauges |-> OfType(rows, "gauge")]
      /\ \A q \in Requests : q # r => result'[q] = result[q]
  BY <1>2 DEF GetAllGauges
<1>5. Shape' /\ Recorded' /\ Settled' /\ Locking'
  <2>1. Shape'
    BY <1>1, <1>3, <1>4 DEF MemInv, Shape
  <2>2. Recorded' /\ Settled'
    BY <1>1 DEF MemInv, Recorded, Settled
  <2>3. Locking'
    BY <1>1, <1>3 DEF MemInv, Locking
  <2> QED
    BY <2>1, <2>2, <2>3
<1>6. Course(r)' /\ HalfRead(r)' /\ Current(r)'
  <2>1. Course(r)'
    BY <1>1, <1>2, <1>3 DEF MemInv, Course, Updates, Phases
  <2>2. Len(versions) \in since[r]..Len(versions)
    BY <1>2
  <2>3. HalfRead(r)'
    BY <1>1, <1>2, <1>4, <2>2 DEF HalfRead
  <2>4. Current(r)'
    BY <1>3 DEF Current
  <2> QED
    BY <2>1, <2>3, <2>4
<1> QED
  BY <1>1, <1>3, <1>4, <1>5, <1>6, OneCall DEF MemInv

\* The counters are those of the last version, which is no older than the one
\* the gauges are from.
LEMMA GetAllCountersKeepsInv ==
    ASSUME MemInv, NEW r \in Requests, GetAllCounters(r)
    PROVE  MemInv'
<1>1. /\ work[r].phase = "half" /\ writer = None
      /\ UNCHANGED <<ask, rows, writer, versions, since>>
  BY DEF GetAllCounters
<1>2. /\ DOMAIN work = Requests /\ DOMAIN result = Requests
      /\ work[r] = [phase |-> work[r].phase, left |-> work[r].left]
      /\ Len(versions) \in Nat \ {0} /\ since[r] \in 1..Len(versions)
      /\ rows = versions[Len(versions)] /\ ask[r].method = "GetAll"
  BY <1>1 DEF MemInv, Shape, Recorded, Settled, Course
<1>3. /\ DOMAIN work' = Requests
      /\ work'[r] = [phase |-> "ok", left |-> work[r].left]
      /\ \A q \in Requests : q # r => work'[q] = work[q]
  BY <1>2 DEF GetAllCounters
<1>4. /\ DOMAIN result' = Requests
      /\ result'[r].gauges = result[r].gauges
      /\ result'[r].counters = OfType(rows, "counter")
      /\ \A q \in Requests : q # r => result'[q] = result[q]
  BY <1>2 DEF GetAllCounters
<1>5. Shape' /\ Recorded' /\ Settled' /\ Locking'
  <2>1. Shape'
    BY <1>1, <1>3, <1>4 DEF MemInv, Shape
  <2>2. Recorded' /\ Settled'
    BY <1>1 DEF MemInv, Recorded, Settled
  <2>3. Locking'
    BY <1>1, <1>3 DEF MemInv, Locking
  <2> QED
    BY <2>1, <2>2, <2>3
<1>6. Course(r)' /\ HalfRead(r)' /\ Current(r)'
  <2>1. Course(r)'
    BY <1>1, <1>2, <1>3 DEF MemInv, Course, Updates, Phases
  <2>2. HalfRead(r)'
    BY <1>3 DEF HalfRead
  <2>3. PICK i \in since[r]..Len(versions) : result[r] = [gauges |-> OfType(versions[i], "gauge")]
    BY <1>1 DEF MemInv, HalfRead
  <2>4. /\ result'[r].gauges = OfType(versions[i], "gauge")
        /\ result'[r].counters = OfType(versions[Len(versions)], "counter")
        /\ Len(versions) \in i..Len(versions)
    BY <1>2, <1>4, <2>3
  <2>5. Current(r)'
    BY <1>1, <1>2, <1>3, <2>3, <2>4 DEF Current
  <2> QED
    BY <2>1, <2>2, <2>5
<1> QED
  BY <1>1, <1>3, <1>4, <1>5, <1>6, OneCall DEF MemInv

-----------------------------------------------------------------------------
(* The theorem. *)

LEMMA InitMemInv == MemInit => MemInv
<1> SUFFICES ASSUME MemInit PROVE MemInv
  OBVIOUS
<1>1. versions \in Seq({rows}) /\ Len(versions) = 1 /\ versions[1] = rows
  BY DEF MemInit
<1>2. Recorded /\ Settled
  BY <1>1 DEF Recorded, Settled
<1>3. Shape /\ Locking
  BY NoneAssumption DEF MemInit, Shape, Locking
<1>4. \A r \in Requests : Course(r) /\ HalfRead(r) /\ Current(r)
  BY <1>1 DEF MemInit, Course, HalfRead, Current, Phases
<1> QED
  BY <1>2, <1>3, <1>4 DEF MemInv

LEMMA StepKeepsMemInv ==
    ASSUME MemInv, [MemNext]_memVars
    PROVE  MemInv'
<1>1. CASE MemNext
  BY <1>1, BeginKeepsInv, LockKeepsInv, StoreNextKeepsInv, UnlockKeepsInv, GetKeepsInv,
     GetAllGaugesKeepsInv, GetAllCountersKeepsInv DEF MemNext, StorageStep
<1>2. CASE UNCHANGED memVars
  BY <1>2 DEF memVars, MemInv, Shape, Recorded, Settled, Locking, Course, HalfRead, Current,
     Updates, Asked
<1> QED
  BY <1>1, <1>2

\* Whatever the calls and however they interleave, what a call returns was true
\* between its begin and its end; only a page may show a batch by half, and then
\* its counters are the newer ones.
THEOREM WhatIsReadIsCurrent == MemSpec => []ReadsAreCurrent
<1>1. MemInv => ReadsAreCurrent
  BY DEF MemInv, Current, ReadsAreCurrent
<1> QED
  BY InitMemInv, StepKeepsMemInv, <1>1, PTL DEF MemSpec

-----------------------------------------------------------------------------
(* What the updates make of the rows.                                         *)

\* The values and deltas that requests send.
Amounts == (UNION {Values(asked[r].metrics) : asked \in Asks, r \in Requests}) \ {Missing}

\* Nobody updates with a malformed metric, and a writer will have made of the
\* last version what the metrics of its request make of it one after another.
Pending(r) ==
    /\ work[r].phase \in {"waiting", "storing"} =>
          AllValid(ask[r].metrics) /\ ask[r].metrics # <<>>
    /\ work[r].phase = "waiting" =>
          work[r].left \in {ask[r].metrics, AggregateBatch(ask[r].metrics)}
    /\ work[r].phase = "storing" =>
          /\ work[r].left \in Seq(Metrics(Amounts))
          /\ Folded("upsert", rows, work[r].left)
                = Folded("upsert", versions[Len(versions)], ask[r].metrics)

Updating ==
    /\ ask \in Asks
    /\ Rowed(rows, Amounts)
    /\ \A r \in Requests : Pending(r)

\* Update does not check its metric: whoever calls it has.
Checked(r) == ask[r].method = "Update" => AllValid(ask[r].metrics)

\* What the abstract storage sees.
Requested == [r \in Requests |-> ask[r].metrics]
Applied == [r \in Requests |->
    IF Updates(r) /\ ask[r].metrics # <<>> /\ work[r].phase = "ok" THEN 1 ELSE 0]
stored == <<Requested, Last(versions), Applied>>

LEMMA MetricsSent ==
    ASSUME ask \in Asks, NEW r \in Requests, AllValid(ask[r].metrics)
    PROVE  ask[r].metrics \in Seq(Metrics(Amounts))
<1>1. IsBatch(ask[r].metrics)
  BY MemAssumption
<1>2. Values(ask[r].metrics) \ {Missing} \subseteq Amounts
  <2>1. Values(ask[r].metrics) \in {Values(asked[q].metrics) : asked \in Asks, q \in Requests}
    OBVIOUS
  <2> QED
    BY <2>1 DEF Amounts
<1> QED
  BY <1>1, <1>2, ValidBatch

LEMMA OtherPending ==
    ASSUME NEW q \in Requests, Pending(q), ask' = ask, work'[q] = work[q],
           work[q].phase = "storing" => UNCHANGED <<rows, versions>>
    PROVE  Pending(q)'
BY DEF Pending

\* A step without an effect on the rows that others see.
LEMMA Unseen ==
    ASSUME NEW r \in Requests, UNCHANGED <<ask, versions>>,
           \A q \in Requests : q # r => work'[q] = work[q],
           Updates(r) /\ ask[r].metrics # <<>> => (work'[r].phase = "ok" <=> work[r].phase = "ok")
    PROVE  UNCHANGED stored
<1>1. Requested' = Requested /\ Last(versions)' = Last(versions)
  BY DEF Requested, Last
<1>2. Applied' = Applied
  BY DEF Applied, Updates
<1> QED
  BY <1>1, <1>2 DEF stored

\* The abstract storage folds as MemStorage does.
LEMMA SameFold ==
    ASSUME NEW base, NEW seq
    PROVE  Store!FoldLeft(Store!Upsert, base, seq) = FoldLeft(Upsert, base, seq)
BY DEF Store!FoldLeft, Store!MapThenFoldSet, Store!Upsert, Store!Key, Store!Max,
       FoldLeft, MapThenFoldSet, Upsert, Key, Max

LEMMA BeginUpdates ==
    ASSUME MemInv, Updating, NEW r \in Requests, Begin(r), Checked(r)
    PROVE  Updating' /\ UNCHANGED stored
<1>1. /\ work[r].phase = "new" /\ UNCHANGED <<ask, rows, versions>>
      /\ DOMAIN work = Requests
  BY DEF Begin, MemInv, Shape
<1>2. PICK begun : work' = [work EXCEPT ![r] = begun] /\ begun =
         CASE ~Updates(r) -> [phase |-> "reading", left |-> <<>>]
           [] ask[r].method = "Update" -> [phase |-> "waiting", left |-> ask[r].metrics]
           [] ask[r].method = "UpdateBatch" /\ ask[r].metrics = <<>> ->
                 [phase |-> "ok", left |-> <<>>]
           [] ask[r].method = "UpdateBatch" /\ ~AllValid(ask[r].metrics) ->
                 [phase |-> "invalid", left |-> <<>>]
           [] OTHER -> [phase |-> "waiting", left |-> AggregateBatch(ask[r].metrics)]
  BY DEF Begin
<1>3. work'[r] = begun /\ \A q \in Requests : q # r => work'[q] = work[q]
  BY <1>1, <1>2
<1>4. ask[r].method = "Update" => ask[r].metrics # <<>>
  <2>1. ask[r].method = "Update" => Len(ask[r].metrics) = 1
    BY MemAssumption DEF Updating
  <2> QED
    BY <2>1
<1>5. /\ begun.phase \in {"reading", "waiting", "ok", "invalid"}
      /\ begun.phase = "waiting" =>
            /\ AllValid(ask[r].metrics) /\ ask[r].metrics # <<>>
            /\ begun.left \in {ask[r].metrics, AggregateBatch(ask[r].metrics)}
      /\ begun.phase = "ok" => ask[r].metrics = <<>>
  BY <1>2, <1>4 DEF Checked, Updates
<1>6. Pending(r)'
  BY <1>1, <1>3, <1>5 DEF Pending
<1>7. Updating'
  BY <1>1, <1>3, <1>6, OtherPending DEF Updating, Rowed
<1>8. UNCHANGED stored
  BY <1>1, <1>3, <1>5, Unseen
<1> QED
  BY <1>7, <1>8

\* The rows a writer finds are those everybody has seen last.
LEMMA LockUpdates ==
    ASSUME MemInv, Updating, NEW r \in Requests, Lock(r)
    PROVE  Updating' /\ UNCHANGED stored
<1>1. /\ work[r].phase = "waiting" /\ writer = None /\ UNCHANGED <<ask, rows, versions>>
      /\ work' = [work EXCEPT ![r].phase = "storing"]
      /\ DOMAIN work = Requests /\ work[r] = [phase |-> work[r].phase, left |-> work[r].left]
      /\ rows = versions[Len(versions)]
  BY DEF Lock, MemInv, Shape, Settled
<1>2. /\ work'[r].phase = "storing" /\ work'[r].left = work[r].left
      /\ \A q \in Requests : q # r => work'[q] = work[q]
  BY <1>1
<1>3. ask[r].metrics \in Seq(Metrics(Amounts))
  BY <1>1, MetricsSent DEF Updating, Pending
<1>4. Counting(rows) /\ rows = [k \in DOMAIN rows |-> rows[k]]
  BY DEF Updating, Rowed, Counting
<1>5. /\ AggregateBatch(ask[r].metrics) \in Seq(Metrics(Amounts))
      /\ FoldLeft(Upsert, rows, AggregateBatch(ask[r].metrics)) = FoldLeft(Upsert, rows, ask[r].metrics)
  BY <1>3, <1>4, Aggregated
<1>6. Folded("upsert", rows, AggregateBatch(ask[r].metrics)) = Folded("upsert", rows, ask[r].metrics)
  <2> DEFINE S == Metrics(Amounts)
  <2>1. ask[r].metrics \in Seq(S) /\ AggregateBatch(ask[r].metrics) \in Seq(S)
    BY <1>3, <1>5
  <2> HIDE DEF S
  <2> QED
    BY <1>5, <2>1, FoldLeftUpsert
<1>7. /\ work[r].left \in Seq(Metrics(Amounts))
      /\ Folded("upsert", rows, work[r].left) = Folded("upsert", rows, ask[r].metrics)
  BY <1>1, <1>3, <1>5, <1>6 DEF Updating, Pending
<1>8. Pending(r)'
  BY <1>1, <1>2, <1>7 DEF Updating, Pending
<1>9. Updating'
  BY <1>1, <1>2, <1>8, OtherPending DEF Updating, Rowed
<1> QED
  BY <1>1, <1>2, <1>9, Unseen

LEMMA StoreNextUpdates ==
    ASSUME MemInv, Updating, NEW r \in Requests, StoreNext(r)
    PROVE  Updating' /\ UNCHANGED stored
<1>1. /\ work[r].phase = "storing" /\ work[r].left # <<>> /\ writer = r
      /\ rows' = Upsert(rows, Head(work[r].left))
      /\ work' = [work EXCEPT ![r].left = Tail(@)]
      /\ UNCHANGED <<ask, versions>>
      /\ DOMAIN work = Requests /\ work[r] = [phase |-> work[r].phase, left |-> work[r].left]
  BY DEF StoreNext, MemInv, Shape, Locking
<1>2. /\ work'[r].phase = "storing" /\ work'[r].left = Tail(work[r].left)
      /\ \A q \in Requests : q # r => work'[q] = work[q] /\ work[q].phase # "storing"
  BY <1>1 DEF MemInv, Locking
<1>3. /\ work[r].left \in Seq(Metrics(Amounts))
      /\ Folded("upsert", rows, work[r].left)
            = Folded("upsert", versions[Len(versions)], ask[r].metrics)
  BY <1>1 DEF Updating, Pending
<1>4. /\ Head(work[r].left) \in Metrics(Amounts) /\ Tail(work[r].left) \in Seq(Metrics(Amounts))
      /\ Folded("upsert", rows, work[r].left)
            = Folded("upsert", Step("upsert", rows, Head(work[r].left)), Tail(work[r].left))
  <2> DEFINE S == Metrics(Amounts)
  <2>1. work[r].left \in Seq(S) /\ work[r].left # <<>>
    BY <1>1, <1>3
  <2>2. Head(work[r].left) \in S /\ Tail(work[r].left) \in Seq(S)
    BY <2>1, HeadTailProperties
  <2>3. Folded("upsert", rows, work[r].left)
           = Folded("upsert", Step("upsert", rows, Head(work[r].left)), Tail(work[r].left))
    <3> HIDE DEF S
    <3> QED
      BY <2>1, FoldedHead
  <2> QED
    BY <2>2, <2>3
<1>5. Step("upsert", rows, Head(work[r].left)) = rows'
  BY <1>1 DEF Step
<1>6. Pending(r)'
  BY <1>1, <1>2, <1>3, <1>4, <1>5 DEF Updating, Pending
<1>7. Rowed(rows', Amounts)
  BY <1>1, <1>4, UpsertRowed DEF Updating
<1>8. Updating'
  <2>1. ASSUME NEW q \in Requests, q # r
        PROVE  Pending(q)'
    BY <1>1, <1>2, <2>1, OtherPending DEF Updating
  <2>2. Rowed(rows, Amounts)'
    BY <1>7 DEF Rowed, Amounts
  <2>3. ask' \in Asks
    BY <1>1 DEF Updating
  <2> QED
    BY <1>6, <2>1, <2>2, <2>3 DEF Updating
<1> QED
  BY <1>1, <1>2, <1>8, Unseen

\* What a writer shows when it unlocks is one update of the abstract storage.
LEMMA UnlockUpdates ==
    ASSUME MemInv, Updating, NEW r \in Requests, Unlock(r)
    PROVE  Updating' /\ Store!Next
<1>1. /\ work[r].phase = "storing" /\ work[r].left = <<>> /\ writer = r
      /\ work' = [work EXCEPT ![r].phase = "ok"]
      /\ versions' = Append(versions, rows)
      /\ UNCHANGED <<ask, rows>> /\ Updates(r)
      /\ DOMAIN work = Requests /\ work[r] = [phase |-> work[r].phase, left |-> work[r].left]
  BY DEF Unlock, MemInv, Shape, Locking, Course
<1>2. /\ work'[r].phase = "ok"
      /\ \A q \in Requests : q # r => work'[q] = work[q] /\ work[q].phase # "storing"
  BY <1>1 DEF MemInv, Locking
<1>3. versions'[Len(versions')] = rows
  BY <1>1, VersionAdded DEF MemInv
<1>4. /\ AllValid(ask[r].metrics) /\ ask[r].metrics # <<>>
      /\ rows = Folded("upsert", versions[Len(versions)], ask[r].metrics)
  BY <1>1, FoldedEmpty DEF Updating, Pending
<1>5. Updating'
  <2>1. Pending(r)'
    BY <1>2 DEF Pending
  <2> QED
    BY <1>1, <1>2, <2>1, OtherPending DEF Updating, Rowed, Amounts
<1>6. FoldLeft(Upsert, versions[Len(versions)], ask[r].metrics) = rows
  <2> DEFINE S == Metrics(Amounts)
  <2>1. ask[r].metrics \in Seq(S)
    BY <1>4, MetricsSent DEF Updating
  <2> HIDE DEF S
  <2> QED
    BY <1>4, <2>1, FoldLeftUpsert
<1>7. Store!Apply(r)
  <2>1. Store!AllValid(Requested[r])
    BY <1>4 DEF Requested, Store!AllValid, Store!Valid, Store!NoName, AllValid, Valid, NoName
  <2>2. Last(versions)' = Store!FoldLeft(Store!Upsert, Last(versions), Requested[r])
    BY <1>3, <1>6, SameFold DEF Requested, Last
  <2>3. /\ Applied[r] = 0 /\ Applied'[r] = 1
        /\ \A q \in Requests : q # r => Applied'[q] = Applied[q]
    BY <1>1, <1>2, <1>4 DEF Applied, Updates
  <2>4. Applied' = [Applied EXCEPT ![r] = @ + 1]
    <3>1. /\ Applied = [q \in Requests |-> Applied[q]] /\ Applied' = [q \in Requests |-> Applied'[q]]
          /\ Applied'[r] = Applied[r] + 1
      BY <2>3 DEF Applied
    <3> QED
      BY <2>3, <3>1
  <2>5. Requested' = Requested
    BY <1>1 DEF Requested
  <2> QED
    BY <2>1, <2>2, <2>3, <2>4, <2>5 DEF Store!Apply, Requested, Applied
<1> QED
  BY <1>5, <1>7 DEF Store!Next

LEMMA ReadUpdates ==
    ASSUME MemInv, Updating, NEW r \in Requests, Get(r) \/ GetAllGauges(r) \/ GetAllCounters(r)
    PROVE  Updating' /\ UNCHANGED stored
<1>1. /\ UNCHANGED <<ask, rows, versions>> /\ DOMAIN work = Requests
      /\ work[r] = [phase |-> work[r].phase, left |-> work[r].left] /\ ~Updates(r)
  BY DEF Get, GetAllGauges, GetAllCounters, MemInv, Shape, Course, Updates
<1>2. /\ work'[r].phase \in {"ok", "absent", "half"}
      /\ \A q \in Requests : q # r => work'[q] = work[q]
  BY <1>1 DEF Get, GetAllGauges, GetAllCounters
<1>3. Pending(r)'
  BY <1>2 DEF Pending
<1>4. Updating'
  BY <1>1, <1>2, <1>3, OtherPending DEF Updating, Rowed, Amounts
<1> QED
  BY <1>1, <1>2, <1>4, Unseen

\* As long as nobody asks for an Update of a malformed metric, every step of the
\* storage is an update of the abstract one or none at all.
CheckedNext == \E r \in Requests : (Begin(r) /\ Checked(r)) \/ StorageStep(r)

LEMMA StepUpdates ==
    ASSUME MemInv, Updating, [CheckedNext]_memVars
    PROVE  Updating' /\ [Store!Next]_stored
<1>1. CASE CheckedNext
  BY <1>1, BeginUpdates, LockUpdates, StoreNextUpdates, UnlockUpdates, ReadUpdates
     DEF CheckedNext, StorageStep
<1>2. CASE UNCHANGED memVars
  <2>1. UNCHANGED stored
    BY <1>2 DEF memVars, stored, Requested, Applied, Updates, Last
  <2>2. Updating'
    BY <1>2, OtherPending DEF memVars, Updating, Rowed, Amounts
  <2> QED
    BY <2>1, <2>2
<1> QED
  BY <1>1, <1>2

LEMMA InitUpdates == MemInit => Updating /\ Store!Init
<1> SUFFICES ASSUME MemInit
             PROVE  Updating /\ Store!Init
  OBVIOUS
<1>1. rows = <<>> /\ versions = <<rows>> /\ ask \in Asks
      /\ \A r \in Requests : work[r].phase = "new"
  BY DEF MemInit
<1>2. Updating
  BY <1>1 DEF Updating, Rowed, Pending
<1>3. Last(versions) = <<>>
  BY <1>1 DEF Last
<1>4. Applied = [r \in Requests |-> 0]
  BY <1>1 DEF Applied
<1> QED
  BY <1>1, <1>2, <1>3, <1>4 DEF Store!Init, Applied

===============================================================================
