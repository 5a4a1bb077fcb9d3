----------------------------- MODULE MCPgStorage -----------------------------
(* Instances of PgStorage: batches that name the same rows in opposite orders, *)
(* repeat a metric, mix both types under one name or are malformed, and a      *)
(* single upsert of a row they write.                                          *)
EXTENDS PgStorage, TLC

CONSTANTS b1, b2, u1

Counter(id, delta) == [mtype |-> "counter", id |-> id, amount |-> delta]
Gauge(id, value) == [mtype |-> "gauge", id |-> id, amount |-> value]

Load(x, y, z) == (b1 :> x) @@ (b2 :> y) @@ (u1 :> z)

Crossing == Load(<<Counter(1, 1), Counter(2, 1)>>, <<Counter(2, 2), Counter(1, 2)>>,
                 <<Gauge(1, Missing)>>)
BothTypes == Load(<<Gauge(1, 1), Counter(1, 1), Gauge(1, 2)>>, <<Counter(1, 1), Gauge(1, 3)>>,
                  <<Counter(0, 1)>>)
Repeated == Load(<<Counter(2, 1), Counter(1, 1), Counter(2, 2)>>, <<>>, <<Counter(2, 5)>>)
Malformed == Load(<<Counter(1, 1), Counter(2, Missing)>>, <<Counter(1, 2), Gauge(1, 1)>>,
                  <<Gauge(1, 2)>>)

OneCounter == {u1 :> <<Counter(1, 1)>>}

MCWorkloads == {Crossing, BothTypes, Repeated, Malformed}
=============================================================================
