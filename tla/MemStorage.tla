----------------------------- MODULE MemStorage -----------------------------
(***************************************************************************)
(* MemStorage without its snapshot file: the calls of concurrent requests  *)
(* under the read-write lock.  A call that only reads is one step of a     *)
(* reader that found no writer; a writer stores one metric after another.  *)
(***************************************************************************)
EXTENDS BatchAggregation, RequestIds

CONSTANT
    Asks        \* what the requests may call: for each its method and its metrics

Methods == {"UpdateBatch", "Update", "Get", "GetAll"}

ASSUME MemAssumption ==
    \A asked \in Asks : \A r \in Requests :
        /\ asked[r].method \in Methods
        /\ IsBatch(asked[r].metrics)
        /\ asked[r].method \in {"Update", "Get"} => Len(asked[r].metrics) = 1

VARIABLES
    ask,        \* the call each request makes
    rows,       \* gauges and counters: type and name -> value or total
    writer,     \* who holds the write lock
    work,       \* how far each call has come, and what it has still to store
    result,     \* what each call returned
    versions,   \* history: the rows after each update
    since       \* history: the last version that was there when a call began

memVars == <<ask, rows, writer, work, result, versions, since>>

MemInit ==
    /\ ask \in Asks
    /\ rows = <<>>
    /\ writer = None
    /\ work = [r \in Requests |-> [phase |-> "new", left |-> <<>>]]
    /\ result = [r \in Requests |-> Missing]
    /\ versions = <<rows>>
    /\ since = [r \in Requests |-> 0]

Updates(r) == ask[r].method \in {"UpdateBatch", "Update"}
Asked(r) == Key(ask[r].metrics[1])
OfType(contents, mtype) ==
    [k \in {key \in DOMAIN contents : key[1] = mtype} |-> contents[k]]
LookedUp(contents, k) == IF k \in DOMAIN contents THEN contents[k] ELSE Missing

\* Variant: the malformed metrics of a batch are skipped.
BeginSkipping(r) ==
    /\ work[r].phase = "new"
    /\ work' = [work EXCEPT ![r] =
           IF Updates(r)
             THEN [phase |-> "waiting", left |-> AggregateBatch(SelectSeq(ask[r].metrics, Valid))]
             ELSE [phase |-> "reading", left |-> <<>>]]
    /\ since' = [since EXCEPT ![r] = Len(versions)]
    /\ UNCHANGED <<ask, rows, writer, result, versions>>

\* A batch is validated and aggregated before the lock is asked for.
Begin(r) ==
    /\ work[r].phase = "new"
    /\ work' = [work EXCEPT ![r] =
           CASE ~Updates(r) -> [phase |-> "reading", left |-> <<>>]
             [] ask[r].method = "Update" -> [phase |-> "waiting", left |-> ask[r].metrics]
             [] ask[r].method = "UpdateBatch" /\ ask[r].metrics = <<>> ->
                   [phase |-> "ok", left |-> <<>>]
             [] ask[r].method = "UpdateBatch" /\ ~AllValid(ask[r].metrics) ->
                   [phase |-> "invalid", left |-> <<>>]
             [] OTHER -> [phase |-> "waiting", left |-> AggregateBatch(ask[r].metrics)]]
    /\ since' = [since EXCEPT ![r] = Len(versions)]
    /\ UNCHANGED <<ask, rows, writer, result, versions>>

\* Variant: the read lock is taken, which lets other readers in.
LockShared(r) ==
    /\ work[r].phase = "waiting"
    /\ writer' = r
    /\ work' = [work EXCEPT ![r].phase = "storing"]
    /\ UNCHANGED <<ask, rows, result, versions, since>>

Lock(r) ==
    /\ work[r].phase = "waiting" /\ writer = None
    /\ writer' = r
    /\ work' = [work EXCEPT ![r].phase = "storing"]
    /\ UNCHANGED <<ask, rows, result, versions, since>>

StoreNext(r) ==
    /\ work[r].phase = "storing" /\ work[r].left # <<>>
    /\ rows' = Upsert(rows, Head(work[r].left))
    /\ work' = [work EXCEPT ![r].left = Tail(@)]
    /\ UNCHANGED <<ask, writer, result, versions, since>>

\* Variant: a return without an Unlock.
UnlockForgotten(r) ==
    /\ work[r].phase = "storing" /\ work[r].left = <<>>
    /\ work' = [work EXCEPT ![r].phase = "ok"]
    /\ result' = [result EXCEPT ![r] =
           IF ask[r].method = "Update" THEN LookedUp(rows, Asked(r)) ELSE @]
    /\ versions' = Append(versions, rows)
    /\ since' = [since EXCEPT ![r] = Len(versions')]
    /\ UNCHANGED <<ask, rows, writer>>

\* UpdateGauge and UpdateCounter return what is stored now.
Unlock(r) ==
    /\ work[r].phase = "storing" /\ work[r].left = <<>>
    /\ writer' = None
    /\ work' = [work EXCEPT ![r].phase = "ok"]
    /\ result' = [result EXCEPT ![r] =
           IF ask[r].method = "Update" THEN LookedUp(rows, Asked(r)) ELSE @]
    /\ versions' = Append(versions, rows)
    /\ since' = [since EXCEPT ![r] = Len(versions')]
    /\ UNCHANGED <<ask, rows>>

\* GetGauge and GetCounter.
Get(r) ==
    /\ ask[r].method = "Get" /\ work[r].phase = "reading" /\ writer = None
    /\ result' = [result EXCEPT ![r] = LookedUp(rows, Asked(r))]
    /\ work' = [work EXCEPT ![r].phase = IF Asked(r) \in DOMAIN rows THEN "ok" ELSE "absent"]
    /\ UNCHANGED <<ask, rows, writer, versions, since>>

\* Variant: the gauges are copied without the lock.
GetAllGaugesUnlocked(r) ==
    /\ ask[r].method = "GetAll" /\ work[r].phase = "reading"
    /\ result' = [result EXCEPT ![r] = [gauges |-> OfType(rows, "gauge")]]
    /\ work' = [work EXCEPT ![r].phase = "half"]
    /\ UNCHANGED <<ask, rows, writer, versions, since>>

\* ListHandler asks for the gauges first,
GetAllGauges(r) ==
    /\ ask[r].method = "GetAll" /\ work[r].phase = "reading" /\ writer = None
    /\ result' = [result EXCEPT ![r] = [gauges |-> OfType(rows, "gauge")]]
    /\ work' = [work EXCEPT ![r].phase = "half"]
    /\ UNCHANGED <<ask, rows, writer, versions, since>>

\* and then for the counters.
GetAllCounters(r) ==
    /\ work[r].phase = "half" /\ writer = None
    /\ result' = [result EXCEPT ![r] =
           [gauges |-> @.gauges, counters |-> OfType(rows, "counter")]]
    /\ work' = [work EXCEPT ![r].phase = "ok"]
    /\ UNCHANGED <<ask, rows, writer, versions, since>>

StorageStep(r) ==
    \/ Lock(r) \/ StoreNext(r) \/ Unlock(r)
    \/ Get(r) \/ GetAllGauges(r) \/ GetAllCounters(r)

MemNext == \E r \in Requests : Begin(r) \/ StorageStep(r)

MemSpec == MemInit /\ [][MemNext]_memVars

-----------------------------------------------------------------------------
(* Properties. *)

Phases == {"new", "waiting", "storing", "reading", "half", "ok", "absent", "invalid"}

MemTypeOK ==
    /\ ask \in Asks
    /\ \A k \in DOMAIN rows : k[1] \in {"counter", "gauge"}
    /\ writer \in Requests \cup {None}
    /\ \A r \in Requests : /\ work[r].phase \in Phases
                           /\ work[r].phase = "storing" <=> writer = r
                           /\ since[r] \in 0..Len(versions)

Store == INSTANCE MetricStore WITH
    Singles <- {},
    Workloads <- {[r \in Requests |-> asked[r].metrics] : asked \in Asks},
    batch <- [r \in Requests |-> ask[r].metrics],
    rows <- Last(versions),
    applied <- [r \in Requests |->
        IF Updates(r) /\ ask[r].metrics # <<>> /\ work[r].phase = "ok" THEN 1 ELSE 0]

\* Updates have their effect one after another, each in full and as if its
\* metrics had been stored one by one; a malformed batch has none.
MemImplementsStore == Store!Spec

\* What a call returns was true between its begin and its end.  A lookup finds
\* no update half stored and misses none that had been answered before.  An
\* update returns what it has stored itself.  The page of all metrics may show a
\* batch by half, since it is read under two locks, but only one way round: its
\* counters are never older than its gauges.
ReadsAreCurrent ==
    \A r \in Requests :
        /\ ask[r].method = "Get" /\ work[r].phase \in {"ok", "absent"} =>
              \E i \in since[r]..Len(versions) : result[r] = LookedUp(versions[i], Asked(r))
        /\ ask[r].method = "Update" /\ work[r].phase = "ok" =>
              result[r] = LookedUp(versions[since[r]], Asked(r))
        /\ ask[r].method = "GetAll" /\ work[r].phase = "ok" =>
              \E i \in since[r]..Len(versions) : \E j \in i..Len(versions) :
                 /\ result[r].gauges = OfType(versions[i], "gauge")
                 /\ result[r].counters = OfType(versions[j], "counter")
=============================================================================
