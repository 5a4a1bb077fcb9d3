-------------------------- MODULE BatchAggregation --------------------------
(***************************************************************************)
(* aggregateBatch: a batch is validated, folded into one metric per name   *)
(* and type, and put in the order of types and names; Upsert is what       *)
(* storing one metric makes of the rows of a storage.  A name is a number, *)
(* its place among the names; NoName is the empty one.                     *)
(***************************************************************************)
EXTENDS Integers, SequencesExt

CONSTANT Missing        \* the value or the delta is not there

NoName == 0
Key(metric) == <<metric.mtype, metric.id>>

Valid(metric) ==
    /\ metric.id # NoName
    /\ metric.mtype \in {"gauge", "counter"}
    /\ metric.amount # Missing

AllValid(metrics) == \A i \in DOMAIN metrics : Valid(metrics[i])

\* What a client can send: models.Metrics with an int64, or none, as a delta.
IsBatch(metrics) ==
    /\ metrics \in Seq(ToSet(metrics))
    /\ \A m \in ToSet(metrics) :
          /\ m = [mtype |-> m.mtype, id |-> m.id, amount |-> m.amount]
          /\ m.id \in Nat
          /\ m.mtype = "counter" => m.amount \in Int \cup {Missing}

\* A gauge is replaced, a counter that is not there counts from zero.
Upsert(rows, metric) ==
    [k \in DOMAIN rows \cup {Key(metric)} |->
        IF k # Key(metric) THEN rows[k]
        ELSE IF metric.mtype = "counter" /\ k \in DOMAIN rows
               THEN rows[k] + metric.amount ELSE metric.amount]

\* Variant: a counter that is there already is overwritten like a gauge.
MergeLast(out, metric) ==
    IF \E i \in DOMAIN out : Key(out[i]) = Key(metric)
      THEN [i \in DOMAIN out |-> IF Key(out[i]) = Key(metric) THEN metric ELSE out[i]]
      ELSE Append(out, metric)

\* A gauge keeps the last value, the deltas of a counter are summed.
Merged(old, metric) ==
    IF metric.mtype = "gauge" THEN metric ELSE [metric EXCEPT !.amount = @ + old.amount]

\* Each metric stays in the place where it was first seen.
Merge(out, metric) ==
    IF \E i \in DOMAIN out : Key(out[i]) = Key(metric)
      THEN [i \in DOMAIN out |->
               IF Key(out[i]) = Key(metric) THEN Merged(out[i], metric) ELSE out[i]]
      ELSE Append(out, metric)

\* "counter" is before "gauge".
Before(a, b) ==
    \/ a.mtype = "counter" /\ b.mtype = "gauge"
    \/ a.mtype = b.mtype /\ a.id < b.id

\* Variant: in the order of the client.
Unsorted(metrics) == FoldLeft(Merge, <<>>, metrics)

Rearrangements(list) ==
    {[i \in DOMAIN list |-> list[p[i]]] : p \in Injection(DOMAIN list, DOMAIN list)}

\* slices.SortFunc: in the list it returns nothing comes after what it is before.
Sorted(metrics) ==
    CHOOSE list \in Rearrangements(metrics) :
        \A i, j \in DOMAIN list : i < j => ~Before(list[j], list[i])

AggregateBatch(metrics) == Sorted(FoldLeft(Merge, <<>>, metrics))
=============================================================================
