----------------------------- MODULE MCService -----------------------------
(* Two requests: every pair of ways through the middleware, and every pair of *)
(* things to ask of the storage.                                              *)
EXTENDS Service, TLC

Counter(id, delta) == [mtype |-> "counter", id |-> id, amount |-> delta]
Gauge(id, value) == [mtype |-> "gauge", id |-> id, amount |-> value]

HttpCall(signature, size, encoding, accepts) ==
    [signature |-> signature, size |-> size, encoding |-> encoding, accepts |-> accepts]

Unsigned == <<
    HttpCall("none", "fits", "identity", FALSE), HttpCall("none", "too large", "gzip", TRUE),
    HttpCall("none", "fits", "broken", TRUE)>>
Signed == <<
    HttpCall("good", "fits", "gzip", TRUE), HttpCall("bad", "fits", "gzip", TRUE),
    HttpCall("good", "too large", "identity", TRUE), HttpCall("good", "cut off", "gzip", FALSE)>>

MCCalls == ToSet(Unsigned \o Signed)

Asking(method, metrics, handler, readable) ==
    [ask |-> [method |-> method, metrics |-> metrics],
     endpoint |-> [handler |-> handler, readable |-> readable]]

Batch(metrics) == Asking("UpdateBatch", metrics, "UpdatesJSONHandler", TRUE)
Update(metric, handler) == Asking("Update", <<metric>>, handler, TRUE)
Lookup(metric, handler) == Asking("Get", <<metric>>, handler, TRUE)
List == Asking("GetAll", <<>>, "ListHandler", TRUE)
Ping == Asking("GetAll", <<>>, "PingHandler", TRUE)

Store3 == Batch(<<Gauge(1, 1), Counter(1, 1), Gauge(2, 1)>>)

Askings == <<
    Store3, List,
    Update(Counter(1, 4), "UpdateJSONHandler"), Update(Gauge(1, NaN), "UpdateHandler"),
    Lookup(Counter(1, Missing), "ValueHandler"), Lookup(Gauge(1, Missing), "ValueJSONHandler"),
    Batch(<<Counter(1, 1), Gauge(2, Missing)>>), Batch(<<>>),
    Update(Gauge(NoName, 4), "UpdateJSONHandler"), Update(Counter(NoName, 1), "UpdateHandler"),
    Asking("Get", <<Gauge(1, Missing)>>, "ValueJSONHandler", FALSE), Ping>>

CONSTANTS r1, r2

Scenario(key, c, asking, d, other) ==
    [signing |-> key,
     request |-> (r1 :> [call |-> c, ask |-> asking.ask, endpoint |-> asking.endpoint])
              @@ (r2 :> [call |-> d, ask |-> other.ask, endpoint |-> other.endpoint])]

\* What is asked first are the calls that may succeed, with all the others.
MCScenarios ==
    {Scenario(TRUE, c, Store3, d, List) : c, d \in MCCalls}
    \cup {Scenario(FALSE, c, Store3, d, List) : c, d \in ToSet(Unsigned)}
    \cup {Scenario(FALSE, Unsigned[1], Askings[i], Unsigned[1], Askings[j]) :
             i \in 1..6, j \in DOMAIN Askings}

MCAsks == {[r \in {r1, r2} |-> s.request[r].ask] : s \in MCScenarios}

MCOutcomes ==
    {Error(status) : status \in {400, 404, 500}} \cup {Page, Text, Empty}
=============================================================================
