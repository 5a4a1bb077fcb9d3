------------------------------ MODULE Service ------------------------------
(***************************************************************************)
(* The server with the metrics in memory: the handlers between the         *)
(* middleware and MemStorage.  A handler refuses what it cannot use, asks  *)
(* the storage, and turns what the storage says into an answer.            *)
(***************************************************************************)
EXTENDS Middleware, MemStorage

CONSTANTS
    Scenarios,  \* whether there is a key, and each request: its call, ask and endpoint
    NaN         \* a value JSON cannot encode

\* What the handlers that read a body call, and then the others.
MethodsOf == [
    UpdateJSONHandler |-> {"Update"}, UpdatesJSONHandler |-> {"UpdateBatch"},
    ValueJSONHandler |-> {"Get"},
    UpdateHandler |-> {"Update"}, ValueHandler |-> {"Get"}, ListHandler |-> {"GetAll"},
    PingHandler |-> {"GetAll"}]

BodyHandlers == {"UpdateJSONHandler", "UpdatesJSONHandler", "ValueJSONHandler"}

VARIABLE endpoint   \* the handler each request is for, and whether its body can be decoded

ASSUME ServiceAssumption ==
    \A s \in Scenarios : \A r \in Requests :
        LET e == s.request[r].endpoint
        IN  /\ e.handler \in DOMAIN MethodsOf /\ e.readable \in BOOLEAN
            /\ s.request[r].ask.method \in MethodsOf[e.handler]

serviceVars == <<chainVars, memVars, endpoint>>

ServiceInit ==
    /\ \E s \in Scenarios :
          /\ signing = s.signing
          /\ call = [r \in Requests |-> s.request[r].call]
          /\ ask = [r \in Requests |-> s.request[r].ask]
          /\ endpoint = [r \in Requests |-> s.request[r].endpoint]
    /\ ChainInit /\ MemInit

-----------------------------------------------------------------------------
(* The handlers: the status they refuse a request with before they ask the    *)
(* storage, or 0, and what they say when the storage has succeeded.           *)

Reply(status, compressible, hasBody) ==
    [status |-> status, compressible |-> compressible, body |-> hasBody]

\* http.Error; an answer in JSON or HTML; one in plain text; one without a body.
Error(status) == Reply(status, FALSE, TRUE)
Page == Reply(200, TRUE, TRUE)
Text == Reply(200, FALSE, TRUE)
Empty == Reply(200, FALSE, FALSE)

ASSUME OutcomesAssumption ==
    {Error(status) : status \in {400, 404, 500}} \cup {Page, Text, Empty} \subseteq Outcomes

Metric(r) == ask[r].metrics[1]
KnownType(r) == Metric(r).mtype \in {"gauge", "counter"}
Readable(r) == endpoint[r].readable

Unless(usable, status) == IF usable THEN 0 ELSE status

UpdateJSONHandler(r) ==
    [refusal |-> Unless(Readable(r) /\ Valid(Metric(r)), 400), success |-> Page]

UpdatesJSONHandler(r) == [refusal |-> Unless(Readable(r), 400), success |-> Page]

UpdateHandler(r) ==
    [refusal |-> IF Metric(r).id = NoName THEN 404 ELSE Unless(Valid(Metric(r)), 400),
     success |-> Empty]

ValueJSONHandler(r) ==
    [refusal |-> Unless(Readable(r) /\ Metric(r).id # NoName /\ KnownType(r), 400),
     success |-> IF result[r] = NaN THEN Error(500) ELSE Page]

ValueHandler(r) == [refusal |-> Unless(KnownType(r), 400), success |-> Text]

ListHandler(r) == [refusal |-> 0, success |-> Page]

\* There is no database to ping.
PingHandler(r) == [refusal |-> 500, success |-> Empty]

Handler(r) ==
    CASE endpoint[r].handler = "UpdateJSONHandler"  -> UpdateJSONHandler(r)
      [] endpoint[r].handler = "UpdatesJSONHandler" -> UpdatesJSONHandler(r)
      [] endpoint[r].handler = "UpdateHandler"      -> UpdateHandler(r)
      [] endpoint[r].handler = "ValueJSONHandler"   -> ValueJSONHandler(r)
      [] endpoint[r].handler = "ValueHandler"       -> ValueHandler(r)
      [] endpoint[r].handler = "ListHandler"        -> ListHandler(r)
      [] OTHER                                      -> PingHandler(r)

NeedsStorage(r) ==
    Handler(r).refusal = 0 /\ ~(ask[r].method = "UpdateBatch" /\ ask[r].metrics = <<>>)

\* Variant: an error of the storage is not told.
AnswerUnchecked(r) ==
    IF Handler(r).refusal # 0 THEN Error(Handler(r).refusal) ELSE Handler(r).success

\* writeStorageError says 400 for a malformed metric and 404 for a missing one.
Answer(r) ==
    IF Handler(r).refusal # 0 THEN Error(Handler(r).refusal)
    ELSE CASE work[r].phase = "invalid"      -> Error(400)
           [] work[r].phase = "absent"       -> Error(404)
           [] OTHER                           -> Handler(r).success

-----------------------------------------------------------------------------

\* The handlers of a POST with a body decode it first.
DecodeBody(r) ==
    /\ endpoint[r].handler \in BodyHandlers /\ Decode(r)
    /\ UNCHANGED <<memVars, endpoint>>

Decoded(r) == at[r] = "handle" /\ (endpoint[r].handler \in BodyHandlers => input[r] # None)

AskStorage(r) ==
    /\ Decoded(r) /\ NeedsStorage(r) /\ Begin(r)
    /\ UNCHANGED <<chainVars, endpoint>>

StorageWorks(r) ==
    /\ at[r] = "handle" /\ StorageStep(r)
    /\ UNCHANGED <<chainVars, endpoint>>

StorageReturned(r) == work[r].phase \in {"ok", "absent", "invalid"}

HandlerReplies(r) ==
    /\ Decoded(r)
    /\ NeedsStorage(r) => StorageReturned(r)
    /\ Respond(r, Answer(r))
    /\ UNCHANGED <<memVars, endpoint>>

\* The methods of the storage themselves do not panic.
HandlerPanics(r) ==
    /\ work[r].phase = "new" \/ StorageReturned(r)
    /\ Panic(r)
    /\ UNCHANGED <<memVars, endpoint>>

Arrives(r) == Receive(r) /\ UNCHANGED <<memVars, endpoint>>

GoesOn(r) ==
    \/ MiddlewareStep(r) /\ UNCHANGED <<memVars, endpoint>>
    \/ DecodeBody(r) \/ AskStorage(r) \/ StorageWorks(r) \/ HandlerReplies(r)

ServiceNext == \E r \in Requests : Arrives(r) \/ GoesOn(r) \/ HandlerPanics(r)

\* A request that has come goes on while it can.
ServiceSpec ==
    /\ ServiceInit /\ [][ServiceNext]_serviceVars
    /\ \A r \in Requests : WF_serviceVars(GoesOn(r))

-----------------------------------------------------------------------------
(* Properties. *)

\* Both parts stay well typed together: no object is in its pool twice, and the
\* write lock is held by the one call that is storing.
ServiceTypeOK == ChainTypeOK /\ MemTypeOK

\* A request that HashMiddleware turns away leaves no trace: no handler reads
\* its body, and the storage is never asked.
RejectedLeavesNoTrace ==
    \A r \in Requests : signing /\ Verdict(call[r]) # 0 =>
        input[r] = None /\ work[r].phase = "new"

\* The status tells what became of the request: an update that was answered with
\* success has been stored, one that was answered with an error has not, and a
\* lookup is answered with 404 only if the metric was not there.
StatusIsTrue ==
    \A r \in Requests : at[r] = "done" /\ ~Unwinding(r) =>
        /\ Updates(r) /\ ask[r].metrics # <<>> =>
              (out[r].status = 200 <=> work[r].phase = "ok")
        /\ ~Updates(r) /\ out[r].status = 200 => work[r].phase = "ok"
        /\ ask[r].method = "Get" /\ out[r].status = 404 => result[r] = Missing

\* Every request is answered and forgotten, whatever the others do.
EveryRequestAnswered == \A r \in Requests : (at[r] # "new") ~> (at[r] = "done")
=============================================================================
