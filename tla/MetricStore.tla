---------------------------- MODULE MetricStore ----------------------------
(***************************************************************************)
(* What a storage promises about updates: the rows change by whole updates *)
(* only, each with the effect its metrics have one after another as the    *)
(* client sent them; a malformed batch has no effect, and a batch has it   *)
(* once at most.                                                           *)
(***************************************************************************)
EXTENDS BatchAggregation

CONSTANTS
    Requests,   \* calls of the storage
    Singles,    \* those that update one metric; the others update a batch
    Workloads   \* what the calls may be made with: a batch for each of them

VARIABLES
    batch,      \* the metrics of each call, as the client sent them
    rows,       \* type and name -> total of the counter or value of the gauge
    applied     \* how often each call has had its effect

Init ==
    /\ batch \in Workloads
    /\ rows = <<>>
    /\ applied = [r \in Requests |-> 0]

Apply(r) ==
    /\ AllValid(batch[r])
    /\ r \notin Singles => applied[r] = 0
    /\ rows' = FoldLeft(Upsert, rows, batch[r])
    /\ applied' = [applied EXCEPT ![r] = @ + 1]
    /\ UNCHANGED batch

Next == \E r \in Requests : Apply(r)

Spec == Init /\ [][Next]_<<batch, rows, applied>>
=============================================================================
