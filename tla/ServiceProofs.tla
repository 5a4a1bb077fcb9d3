---------------------------- MODULE ServiceProofs ----------------------------
(***************************************************************************)
(* Theorems about Service: its middleware and its storage do what they do  *)
(* by themselves, so what is proved of each holds of the two together; and *)
(* what only the two together show, that a status is true.                 *)
(***************************************************************************)
EXTENDS Service, MiddlewareProofs, MemStorageProofs

-----------------------------------------------------------------------------
(* The handlers. *)

\* A handler refuses a request with one of three statuses and answers in one of
\* four ways otherwise.
LEMMA HandlerKinds ==
    ASSUME NEW r \in Requests
    PROVE  /\ Handler(r).refusal \in {0, 400, 404, 500}
           /\ Handler(r).success \in {Error(500), Page, Text, Empty}
BY DEF Handler, UpdateJSONHandler, UpdatesJSONHandler, UpdateHandler, ValueJSONHandler, ValueHandler,
       ListHandler, PingHandler, Unless

LEMMA AnswerKinds ==
    ASSUME NEW r \in Requests
    PROVE  \/ Handler(r).refusal # 0 /\ Answer(r) = Error(Handler(r).refusal)
           \/ Handler(r).refusal = 0 /\ work[r].phase = "invalid" /\ Answer(r) = Error(400)
           \/ Handler(r).refusal = 0 /\ work[r].phase = "absent" /\ Answer(r) = Error(404)
           \/ /\ Handler(r).refusal = 0 /\ work[r].phase \notin {"invalid", "absent"}
              /\ Answer(r) = Handler(r).success
BY DEF Answer

LEMMA AnswerAllowed ==
    ASSUME NEW r \in Requests
    PROVE  Answer(r) \in Outcomes
BY HandlerKinds, AnswerKinds, OutcomesAssumption

-----------------------------------------------------------------------------
(* The parts. *)

LEMMA StepOfTheParts ==
    ASSUME [ServiceNext]_serviceVars
    PROVE  [ChainNext]_chainVars /\ [MemNext]_memVars
<1>1. CASE UNCHANGED serviceVars
  BY <1>1 DEF serviceVars
<1>2. ASSUME NEW r \in Requests, Arrives(r) \/ GoesOn(r) \/ HandlerPanics(r)
      PROVE  [ChainNext]_chainVars /\ [MemNext]_memVars
  <2>1. CASE Arrives(r)
    BY <2>1 DEF Arrives, ChainNext
  <2>2. CASE HandlerPanics(r)
    BY <2>2 DEF HandlerPanics, ChainNext, HandlerStep
  <2>3. CASE MiddlewareStep(r) /\ UNCHANGED <<memVars, endpoint>>
    BY <2>3 DEF ChainNext
  <2>4. CASE DecodeBody(r)
    BY <2>4 DEF DecodeBody, ChainNext, HandlerStep
  <2>5. CASE AskStorage(r) \/ StorageWorks(r)
    BY <2>5 DEF AskStorage, StorageWorks, MemNext
  <2>6. CASE HandlerReplies(r)
    BY <2>6, AnswerAllowed DEF HandlerReplies, ChainNext, HandlerStep
  <2> QED
    BY <1>2, <2>1, <2>2, <2>3, <2>4, <2>5, <2>6 DEF GoesOn
<1> QED
  BY <1>1, <1>2 DEF ServiceNext

\* The middleware of the service is the middleware by itself (main.go,
\* newRouter): what the handlers do between is one of the things a handler may do.
THEOREM ServiceImplementsChain == ServiceSpec => ChainSpec
<1>1. ServiceInit => ChainInit
  BY DEF ServiceInit
<1> QED
  BY <1>1, StepOfTheParts, PTL DEF ServiceSpec, ChainSpec

\* The storage of the service is the storage by itself (main.go, runServer).
THEOREM ServiceImplementsMem == ServiceSpec => MemSpec
<1>1. ServiceInit => MemInit
  BY DEF ServiceInit
<1> QED
  BY <1>1, StepOfTheParts, PTL DEF ServiceSpec, MemSpec

\* What holds of the parts holds of the service: every handler reads its own
\* body, nothing is kept, the answers arrive intact, what is read is current, and
\* the pools keep their promise.
THEOREM PartsHold ==
    ServiceSpec => [](OwnInput /\ NothingKept /\ AnswersIntact /\ ReadsAreCurrent) /\ PoolsKept
BY ServiceImplementsChain, ServiceImplementsMem, ReadsItsOwnBody, GivesEverythingBack, AnswersArrive,
   WhatIsReadIsCurrent, PoolsKeepTheirPromise, PTL

-----------------------------------------------------------------------------
(* How far a request has come. *)

Early == {"new", "verify", "inflate"}
Late == Stages \ (Early \cup {"handle"})
Leaving == {"sign", "send", "putBuffer", "recover", "log", "done"}

\* A step of the middleware takes its request towards the handler, or turns it
\* away, or takes it further from the handler; one that is leaving goes on leaving.
LEMMA MiddlewareMoves ==
    ASSUME IInv, NEW r \in Requests, MiddlewareStep(r)
    PROVE  /\ UNCHANGED <<call, signing, input>>
           /\ \A q \in Requests : q # r => at'[q] = at[q] /\ outcome'[q] = outcome[q]
           /\ \/ at[r] \in Early /\ at'[r] \in Early \cup {"handle"} /\ outcome'[r] = outcome[r]
              \/ at[r] \in Early /\ at'[r] \in Late /\ outcome'[r].status \in {400, 413}
              \/ at[r] \in Late /\ at'[r] \in Late /\ outcome'[r] = outcome[r]
           /\ at[r] \in Leaving => at'[r] \in Leaving
           /\ at[r] = "verify" /\ Verdict(call[r]) # 0 => at'[r] = Outside
<1>1. /\ at \in [Requests -> Stages] /\ outcome \in [Requests -> Decided] /\ Typed
  BY DEF IInv, Typed
<1>2. \A status : Rejection(status).status = status
  BY DEF Rejection
<1>3. Outside \in {"sign", "log"} /\ Beyond(r) \in {"sign", "log", "putBuffer", "recover"}
  BY DEF Outside, Beyond
<1>4. CASE Verify(r)
  <2>1. /\ at[r] = "verify" /\ UNCHANGED <<call, signing, input>>
        /\ \/ Verdict(call[r]) = 0 /\ at' = [at EXCEPT ![r] = "inflate"] /\ UNCHANGED outcome
           \/ /\ Verdict(call[r]) # 0 /\ at' = [at EXCEPT ![r] = Outside]
              /\ outcome' = [outcome EXCEPT ![r] = Rejection(Verdict(call[r]))]
    BY <1>4 DEF Verify, Reject, given
  <2>2. Verdict(call[r]) \in {0, 400, 413}
    BY DEF Verdict
  <2> QED
    BY <1>1, <1>2, <1>3, <2>1, <2>2 DEF Early, Late, Stages, Leaving
<1>5. CASE Inflate(r)
  <2>1. /\ at[r] = "inflate" /\ UNCHANGED <<call, signing, input>>
        /\ \/ at' = [at EXCEPT ![r] = "handle"] /\ UNCHANGED outcome
           \/ /\ at' = [at EXCEPT ![r] = Outside]
              /\ outcome' = [outcome EXCEPT ![r] = Rejection(400)]
    BY <1>5 DEF Inflate, Reject, given
  <2> QED
    BY <1>1, <1>2, <1>3, <2>1 DEF Early, Late, Stages, Leaving
<1>6. CASE Write(r) \/ CloseWriter(r) \/ PutWriter(r) \/ CloseBody(r)
  <2>1. /\ at[r] \in {"write", "flush", "putWriter", "close"}
        /\ UNCHANGED <<call, signing, input, outcome>>
    BY <1>6 DEF Write, CloseWriter, PutWriter, CloseBody, given
  <2>2. \E stage \in Late : at' = [at EXCEPT ![r] = stage]
    BY <1>3, <1>6 DEF Write, CloseWriter, PutWriter, CloseBody, Early, Late, Stages
  <2> QED
    BY <1>1, <2>1, <2>2 DEF Early, Late, Stages, Leaving
<1>7. CASE Sign(r) \/ Send(r) \/ PutBuffer(r) \/ Log(r) \/ \E status \in {500, 504} : Recover(r, status)
  <2>1. /\ at[r] \in Leaving /\ UNCHANGED <<call, signing, input, outcome>>
    BY <1>7 DEF Sign, Send, PutBuffer, Log, Recover, given, Leaving
  <2>2. \E stage \in Leaving : at' = [at EXCEPT ![r] = stage]
    BY <1>7 DEF Sign, Send, PutBuffer, Log, Recover, Leaving
  <2> QED
    BY <1>1, <2>1, <2>2 DEF Early, Late, Stages, Leaving
<1> QED
  BY <1>4, <1>5, <1>6, <1>7 DEF MiddlewareStep

\* A step of the storage is about one call.
LEMMA StorageMoves ==
    ASSUME MemInv, NEW r \in Requests, Begin(r) \/ StorageStep(r)
    PROVE  /\ UNCHANGED ask
           /\ \A q \in Requests : q # r => work'[q] = work[q] /\ result'[q] = result[q]
<1>1. DOMAIN work = Requests /\ DOMAIN result = Requests
  BY DEF MemInv, Shape
<1>2. CASE Begin(r)
  BY <1>1, <1>2 DEF Begin
<1>3. CASE StorageStep(r)
  BY <1>1, <1>3 DEF StorageStep, Lock, StoreNext, Unlock, Get, GetAllGauges, GetAllCounters
<1> QED
  BY <1>2, <1>3

-----------------------------------------------------------------------------
(* Rejected requests. *)

Turned(r) ==
    signing /\ Verdict(call[r]) # 0 =>
        at[r] \in {"new", "verify"} \cup Leaving /\ input[r] = None /\ work[r].phase = "new"

Parts == IInv /\ MemInv
TurnedInv == \A r \in Requests : Turned(r)

LEMMA StepKeepsTurned ==
    ASSUME Parts, TurnedInv, [ServiceNext]_serviceVars
    PROVE  TurnedInv'
<1>1. /\ IInv /\ MemInv /\ at \in [Requests -> Stages] /\ DOMAIN work = Requests
      /\ input \in [Requests -> Requests \cup {None}]
  BY DEF Parts, IInv, Typed, MemInv, Shape
<1>2. CASE UNCHANGED serviceVars
  BY <1>2 DEF serviceVars, chainVars, memVars, given, TurnedInv, Turned
<1>3. ASSUME NEW r \in Requests, Arrives(r) \/ GoesOn(r) \/ HandlerPanics(r),
             NEW q \in Requests
      PROVE  Turned(q)'
  <2>1. Turned(q)
    BY DEF TurnedInv
  <2>2. CASE Arrives(r)
    <3>1. UNCHANGED <<call, signing, input, work>>
      BY <2>2 DEF Arrives, Receive, given, memVars
    <3>2. (signing => at' = [at EXCEPT ![r] = "verify"])
      BY <2>2 DEF Arrives, Receive
    <3> QED
      BY <1>1, <2>1, <3>1, <3>2 DEF Turned
  <2>3. CASE MiddlewareStep(r) /\ UNCHANGED <<memVars, endpoint>>
    <3>1. UNCHANGED work
      BY <2>3 DEF memVars
    <3>2. at[r] # "new"
      BY <2>3 DEF MiddlewareStep, Verify, Inflate, Write, CloseWriter, PutWriter, CloseBody, Sign, Send,
                  PutBuffer, Log, Recover
    <3>3. signing => Outside = "sign"
      BY DEF Outside
    <3> QED
      BY <1>1, <2>1, <2>3, <3>1, <3>2, <3>3, MiddlewareMoves DEF Turned, Leaving
  <2>4. CASE DecodeBody(r)
    <3>1. /\ at[r] = "handle" /\ UNCHANGED <<call, signing, at, work>>
          /\ \A p \in Requests : p # r => input'[p] = input[p]
      BY <1>1, <2>4 DEF DecodeBody, Decode, given, memVars
    <3> QED
      BY <2>1, <3>1 DEF Turned, Leaving
  <2>5. CASE AskStorage(r) \/ StorageWorks(r)
    <3>1. at[r] = "handle" /\ UNCHANGED <<call, signing, at, input>>
      BY <2>5 DEF AskStorage, StorageWorks, Decoded, chainVars, given
    <3>2. \A p \in Requests : p # r => work'[p] = work[p]
      BY <1>1, <2>5, StorageMoves DEF AskStorage, StorageWorks
    <3> QED
      BY <2>1, <3>1, <3>2 DEF Turned, Leaving
  <2>6. CASE HandlerReplies(r) \/ HandlerPanics(r)
    <3>1. at[r] = "handle" /\ UNCHANGED <<call, signing, input, work>>
      BY <2>6 DEF HandlerReplies, HandlerPanics, Respond, Panic, given, memVars
    <3>2. \A p \in Requests : p # r => at'[p] = at[p]
      BY <1>1, <2>6 DEF HandlerReplies, HandlerPanics, Respond, Panic
    <3> QED
      BY <2>1, <3>1, <3>2 DEF Turned, Leaving
  <2> QED
    BY <1>3, <2>2, <2>3, <2>4, <2>5, <2>6 DEF GoesOn
<1> QED
  BY <1>2, <1>3 DEF ServiceNext, TurnedInv

LEMMA PartsHeld == ServiceSpec => []Parts
<1>1. ServiceInit => Parts
  BY Initially, InitMemInv DEF ServiceInit, Parts
<1>2. Parts /\ [ServiceNext]_serviceVars => Parts'
  BY StepOfTheParts, EveryStepKeeps, StepKeepsMemInv DEF Parts
<1> QED
  BY <1>1, <1>2, PTL DEF ServiceSpec

\* A request that HashMiddleware turns away leaves no trace, whatever the other
\* requests do (hash.go).
THEOREM NoTrace == ServiceSpec => []RejectedLeavesNoTrace
<1>1. ServiceInit => TurnedInv
  BY DEF ServiceInit, ChainInit, MemInit, TurnedInv, Turned
<1>2. TurnedInv => RejectedLeavesNoTrace
  BY DEF TurnedInv, Turned, RejectedLeavesNoTrace
<1>3. Parts /\ TurnedInv /\ [ServiceNext]_serviceVars => TurnedInv'
  BY StepKeepsTurned
<1> QED
  BY <1>1, <1>2, <1>3, PartsHeld, PTL DEF ServiceSpec

-----------------------------------------------------------------------------
(* The status of an answer. *)

\* The endpoint a request is for calls the method it asks for.
Suited(r) ==
    /\ endpoint[r].handler \in DOMAIN MethodsOf
    /\ ask[r].method \in MethodsOf[endpoint[r].handler]

\* The storage is asked by a handler that has not refused, once.
Consulted(r) ==
    /\ at[r] \in Early => work[r].phase = "new"
    /\ work[r].phase # "new" => NeedsStorage(r)

\* What was decided for a request tells what became of it.
Told(r) ==
    at[r] \in Late /\ ~Unwinding(r) =>
        /\ Updates(r) /\ ask[r].metrics # <<>> =>
              (outcome[r].status = 200 <=> work[r].phase = "ok")
        /\ ~Updates(r) /\ outcome[r].status = 200 => work[r].phase = "ok"
        /\ ask[r].method = "Get" /\ outcome[r].status = 404 => result[r] = Missing

StatusInv == \A r \in Requests : Suited(r) /\ Consulted(r) /\ Told(r)

LEMMA MethodsFit ==
    ASSUME NEW r \in Requests, Suited(r)
    PROVE  \/ /\ endpoint[r].handler \in {"UpdateJSONHandler", "UpdateHandler"}
              /\ ask[r].method = "Update"
           \/ endpoint[r].handler = "UpdatesJSONHandler" /\ ask[r].method = "UpdateBatch"
           \/ endpoint[r].handler \in {"ValueJSONHandler", "ValueHandler"} /\ ask[r].method = "Get"
           \/ endpoint[r].handler \in {"ListHandler", "PingHandler"} /\ ask[r].method = "GetAll"
BY DEF Suited, MethodsOf

\* A handler that only reads never says 404 by itself, and one that updates has
\* nothing but good to say of a success.
LEMMA Refusals ==
    ASSUME NEW r \in Requests, Suited(r)
    PROVE  /\ Handler(r).refusal = 404 => Updates(r)
           /\ Updates(r) => Handler(r).success \in {Page, Empty}
BY MethodsFit DEF Updates, Handler, UpdateJSONHandler, UpdatesJSONHandler, UpdateHandler, ValueJSONHandler,
   ValueHandler, ListHandler, PingHandler, Unless

LEMMA Statuses ==
    /\ \A status : Error(status).status = status
    /\ Page.status = 200 /\ Text.status = 200 /\ Empty.status = 200
<1>1. \A status : Error(status).status = status
  BY DEF Error, Reply
<1>2. Page.status = 200 /\ Text.status = 200 /\ Empty.status = 200
  BY DEF Page, Text, Empty, Reply
<1> QED
  BY <1>1, <1>2

\* A handler refuses for what the request is, not for what the storage holds.
LEMMA RefusalFixed ==
    ASSUME NEW r \in Requests, UNCHANGED <<endpoint, ask>>
    PROVE  /\ Handler(r)'.refusal = Handler(r).refusal
           /\ NeedsStorage(r)' <=> NeedsStorage(r)
<1>1. Handler(r)'.refusal = Handler(r).refusal
  BY DEF Handler, UpdateJSONHandler, UpdatesJSONHandler, UpdateHandler, ValueJSONHandler, ValueHandler,
         ListHandler, PingHandler, Unless, Readable, KnownType, Metric
<1> QED
  BY <1>1 DEF NeedsStorage

LEMMA ReplyTells ==
    ASSUME Parts, NEW r \in Requests, Suited(r), Consulted(r), HandlerReplies(r)
    PROVE  Told(r)'
<1>1. /\ Decoded(r) /\ (NeedsStorage(r) => StorageReturned(r)) /\ outcome \in [Requests -> Decided]
      /\ outcome' = [outcome EXCEPT ![r] = Answer(r)]
      /\ UNCHANGED <<ask, work, result>>
  BY DEF HandlerReplies, Respond, memVars, Parts, IInv, Typed
<1>2. outcome'[r] = Answer(r)
  BY <1>1
<1>3. /\ work[r].phase # "new" => Handler(r).refusal = 0
      /\ work[r].phase = "absent" => result[r] = Missing
      /\ ask[r].method \in {"Update", "UpdateBatch"} <=> Updates(r)
  BY DEF Consulted, NeedsStorage, Parts, MemInv, Course, Updates
<1>4. CASE Handler(r).refusal # 0
  <2>1. outcome'[r].status = Handler(r).refusal /\ outcome'[r].status \in {400, 404, 500}
    BY <1>2, <1>4, AnswerKinds, HandlerKinds, Statuses
  <2>2. work[r].phase = "new"
    BY <1>3, <1>4
  <2>3. outcome'[r].status = 404 => Updates(r)
    BY <2>1, Refusals
  <2> QED
    BY <1>1, <2>1, <2>2, <2>3 DEF Told, Updates
<1>5. CASE Handler(r).refusal = 0 /\ ~NeedsStorage(r)
  <2>1. ask[r].method = "UpdateBatch" /\ ask[r].metrics = <<>>
    BY <1>5 DEF NeedsStorage
  <2> QED
    BY <1>1, <2>1 DEF Told, Updates
<1>6. CASE Handler(r).refusal = 0 /\ NeedsStorage(r)
  <2>1. work[r].phase \in {"ok", "absent", "invalid"}
    BY <1>1, <1>6 DEF StorageReturned
  <2>2. CASE work[r].phase = "invalid"
    <3>1. outcome'[r].status = 400
      BY <1>2, <1>6, <2>2, AnswerKinds, Statuses
    <3> QED
      BY <1>1, <2>2, <3>1 DEF Told, Updates
  <2>3. CASE work[r].phase = "absent"
    <3>1. outcome'[r].status = 404
      BY <1>2, <1>6, <2>3, AnswerKinds, Statuses
    <3> QED
      BY <1>1, <1>3, <2>3, <3>1 DEF Told, Updates
  <2>4. CASE work[r].phase = "ok"
    <3>1. outcome'[r] = Handler(r).success
      BY <1>2, <1>6, <2>4, AnswerKinds
    <3>2. outcome'[r].status \in {200, 500} /\ (Updates(r) => outcome'[r].status = 200)
      BY <3>1, HandlerKinds, Refusals, Statuses
    <3> QED
      BY <1>1, <2>4, <3>2 DEF Told, Updates
  <2> QED
    BY <2>1, <2>2, <2>3, <2>4
<1> QED
  BY <1>4, <1>5, <1>6

LEMMA StepKeepsStatus ==
    ASSUME Parts, StatusInv, [ServiceNext]_serviceVars
    PROVE  StatusInv'
<1>1. /\ IInv /\ MemInv /\ at \in [Requests -> Stages] /\ outcome \in [Requests -> Decided]
  BY DEF Parts, IInv, Typed
<1>2. UNCHANGED <<endpoint, ask>>
  <2>1. CASE UNCHANGED serviceVars
    BY <2>1 DEF serviceVars, memVars
  <2>2. ASSUME NEW r \in Requests, Begin(r) \/ StorageStep(r) PROVE UNCHANGED ask
    BY <1>1, <2>2, StorageMoves
  <2>3. CASE ServiceNext
    BY <2>2, <2>3 DEF ServiceNext, Arrives, GoesOn, HandlerPanics, DecodeBody, AskStorage, StorageWorks,
                      HandlerReplies, memVars
  <2> QED
    BY <2>1, <2>3
<1>3. ASSUME NEW q \in Requests PROVE Suited(q)'
  BY <1>2 DEF StatusInv, Suited
<1>4. ASSUME NEW q \in Requests, at'[q] = at[q], outcome'[q] = outcome[q],
             work'[q] = work[q], result'[q] = result[q]
      PROVE  Consulted(q)' /\ Told(q)'
  <2>1. Consulted(q) /\ Told(q)
    BY DEF StatusInv
  <2>2. Consulted(q)'
    BY <1>2, <1>4, <2>1, RefusalFixed DEF Consulted
  <2>3. Told(q)'
    BY <1>2, <1>4, <2>1 DEF Told, Unwinding, Updates
  <2> QED
    BY <2>2, <2>3
<1>5. CASE UNCHANGED serviceVars
  BY <1>3, <1>4, <1>5 DEF serviceVars, chainVars, memVars, StatusInv
<1>6. ASSUME NEW r \in Requests, Arrives(r) \/ GoesOn(r) \/ HandlerPanics(r)
      PROVE  StatusInv'
  <2>1. Suited(r) /\ Consulted(r) /\ Told(r)
    BY DEF StatusInv
  <2>2. ASSUME at[r] \notin Early, at'[r] \notin Early, work'[r].phase = "new" \/ NeedsStorage(r)
        PROVE  Consulted(r)'
    BY <1>2, <2>2, RefusalFixed DEF Consulted
  <2>3. CASE Arrives(r)
    <3>1. /\ at[r] = "new" /\ at'[r] \in {"verify", "inflate"}
          /\ \A q \in Requests : q # r => at'[q] = at[q]
          /\ UNCHANGED <<outcome, work, result>>
      BY <1>1, <2>3 DEF Arrives, Receive, memVars
    <3>2. Consulted(r)' /\ Told(r)'
      BY <1>2, <2>1, <3>1 DEF Consulted, Told, Early, Late
    <3> QED
      BY <1>3, <1>4, <3>1, <3>2 DEF StatusInv
  <2>4. CASE MiddlewareStep(r) /\ UNCHANGED <<memVars, endpoint>>
    <3>1. UNCHANGED <<work, result>>
      BY <2>4 DEF memVars
    <3>2. /\ \A q \in Requests : q # r => at'[q] = at[q] /\ outcome'[q] = outcome[q]
          /\ \/ at[r] \in Early /\ at'[r] \in Early \cup {"handle"} /\ outcome'[r] = outcome[r]
             \/ at[r] \in Early /\ at'[r] \in Late /\ outcome'[r].status \in {400, 413}
             \/ at[r] \in Late /\ at'[r] \in Late /\ outcome'[r] = outcome[r]
      BY <1>1, <2>4, MiddlewareMoves
    <3>3. Consulted(r)'
      BY <1>2, <2>1, <3>1, <3>2, RefusalFixed DEF Consulted, Early, Late
    <3>4. Told(r)'
      <4>1. CASE at[r] \in Early /\ at'[r] \in Early \cup {"handle"}
        BY <4>1 DEF Told, Early, Late
      <4>2. CASE at[r] \in Early /\ at'[r] \in Late /\ outcome'[r].status \in {400, 413}
        <5>1. work[r].phase = "new" /\ outcome'[r].status # 200 /\ outcome'[r].status # 404
          BY <2>1, <4>2 DEF Consulted
        <5> QED
          BY <3>1, <5>1 DEF Told
      <4>3. CASE at[r] \in Late /\ at'[r] \in Late /\ outcome'[r] = outcome[r]
        BY <1>2, <2>1, <3>1, <4>3 DEF Told, Unwinding, Updates
      <4> QED
        BY <3>2, <4>1, <4>2, <4>3
    <3> QED
      BY <1>3, <1>4, <3>1, <3>2, <3>3, <3>4 DEF StatusInv
  <2>5. CASE DecodeBody(r)
    <3>1. UNCHANGED <<at, outcome, work, result>>
      BY <2>5 DEF DecodeBody, Decode, memVars
    <3> QED
      BY <1>3, <1>4, <3>1 DEF StatusInv
  <2>6. CASE AskStorage(r) \/ StorageWorks(r)
    <3>1. /\ at[r] = "handle" /\ UNCHANGED <<at, outcome>>
          /\ \A q \in Requests : q # r => work'[q] = work[q] /\ result'[q] = result[q]
      BY <1>1, <2>6, StorageMoves DEF AskStorage, StorageWorks, Decoded, chainVars
    <3>2. NeedsStorage(r)
      <4>1. ASSUME StorageStep(r) PROVE work[r].phase # "new"
        BY <4>1 DEF StorageStep, Lock, StoreNext, Unlock, Get, GetAllGauges, GetAllCounters
      <4> QED
        BY <2>1, <2>6, <4>1 DEF AskStorage, StorageWorks, Consulted
    <3>3. Consulted(r)' /\ Told(r)'
      BY <2>2, <3>1, <3>2 DEF Told, Early, Late
    <3> QED
      BY <1>3, <1>4, <3>1, <3>3 DEF StatusInv
  <2>7. CASE HandlerReplies(r) \/ HandlerPanics(r)
    <3>1. /\ at[r] = "handle" /\ at'[r] \in Late /\ UNCHANGED <<work, result>>
          /\ \A q \in Requests : q # r => at'[q] = at[q] /\ outcome'[q] = outcome[q]
      BY <1>1, <2>7 DEF HandlerReplies, HandlerPanics, Respond, Panic, memVars, Early, Late, Stages
    <3>2. Consulted(r)'
      BY <2>1, <2>2, <3>1 DEF Consulted, Early, Late
    <3>3. Told(r)'
      <4>1. CASE HandlerReplies(r)
        BY <2>1, <4>1, ReplyTells
      <4>2. CASE HandlerPanics(r)
        <5>1. outcome'[r] = PanicOutcome
          BY <1>1, <4>2 DEF HandlerPanics, Panic
        <5> QED
          BY <5>1 DEF Told, Unwinding
      <4> QED
        BY <2>7, <4>1, <4>2
    <3> QED
      BY <1>3, <1>4, <3>1, <3>2, <3>3 DEF StatusInv
  <2> QED
    BY <1>6, <2>3, <2>4, <2>5, <2>6, <2>7 DEF GoesOn
<1> QED
  BY <1>5, <1>6 DEF ServiceNext

LEMMA InitStatus == ServiceInit => StatusInv
<1> SUFFICES ASSUME ServiceInit, NEW r \in Requests PROVE Suited(r) /\ Consulted(r) /\ Told(r)
  BY DEF StatusInv
<1>1. at[r] = "new" /\ work[r].phase = "new"
  BY DEF ServiceInit, ChainInit, MemInit
<1>2. Suited(r)
  BY ServiceAssumption DEF ServiceInit, Suited
<1> QED
  BY <1>1, <1>2 DEF Consulted, Told, Late, Early

\* The status tells what became of the request: what was answered with success
\* has been stored, what was answered with an error has not, and a 404 means that
\* the metric was not there (update.go, value.go).
THEOREM StatusTells == ServiceSpec => []StatusIsTrue
<1>1. ServiceInit => StatusInv
  BY InitStatus
<1>2. Parts /\ StatusInv /\ [ServiceNext]_serviceVars => StatusInv'
  BY StepKeepsStatus
<1>3. StatusInv /\ AnswersIntact => StatusIsTrue
  <2> SUFFICES ASSUME StatusInv, AnswersIntact, NEW r \in Requests, at[r] = "done", ~Unwinding(r)
               PROVE  /\ Updates(r) /\ ask[r].metrics # <<>> =>
                            (out[r].status = 200 <=> work[r].phase = "ok")
                      /\ ~Updates(r) /\ out[r].status = 200 => work[r].phase = "ok"
                      /\ ask[r].method = "Get" /\ out[r].status = 404 => result[r] = Missing
    BY DEF StatusIsTrue
  <2>1. out[r].status = outcome[r].status /\ Told(r) /\ at[r] \in Late
    BY DEF AnswersIntact, StatusInv, Late, Stages, Early
  <2> QED
    BY <2>1 DEF Told
<1> QED
  BY <1>1, <1>2, <1>3, PartsHeld, ServiceImplementsChain, AnswersArrive, PTL DEF ServiceSpec

-----------------------------------------------------------------------------
(* The storage and its promise.                                               *)

\* The handlers of a single update refuse a malformed metric: the storage is
\* never asked to store one.
LEMMA AskedIsChecked ==
    ASSUME Updating, NEW r \in Requests, Suited(r), AskStorage(r)
    PROVE  Checked(r)
<1> SUFFICES ASSUME ask[r].method = "Update"
             PROVE  AllValid(ask[r].metrics)
  BY DEF Checked
<1>1. endpoint[r].handler \in {"UpdateJSONHandler", "UpdateHandler"}
  BY MethodsFit
<1>2. Handler(r).refusal = 0
  BY DEF AskStorage, NeedsStorage
<1>3. Valid(Metric(r))
  BY <1>1, <1>2 DEF Handler, UpdateJSONHandler, UpdateHandler, Unless
<1>4. IsBatch(ask[r].metrics) /\ Len(ask[r].metrics) = 1
  BY MemAssumption DEF Updating
<1>5. DOMAIN ask[r].metrics = {1}
  BY <1>4, LenProperties DEF IsBatch
<1> QED
  BY <1>3, <1>5 DEF AllValid, Metric

LEMMA StepKeepsUpdates ==
    ASSUME Parts, StatusInv, Updating, [ServiceNext]_serviceVars
    PROVE  Updating' /\ [Store!Next]_stored
<1>1. CASE UNCHANGED serviceVars
  BY <1>1, StepUpdates DEF serviceVars, Parts
<1>2. CASE ServiceNext
  <2>1. PICK r \in Requests : Arrives(r) \/ GoesOn(r) \/ HandlerPanics(r)
    BY <1>2 DEF ServiceNext
  <2>2. CASE AskStorage(r)
    <3>1. Begin(r) /\ Checked(r)
      BY <2>2, AskedIsChecked DEF StatusInv, AskStorage
    <3> QED
      BY <3>1, StepUpdates DEF Parts, CheckedNext
  <2>3. CASE StorageWorks(r)
    BY <2>3, StepUpdates DEF StorageWorks, Parts, CheckedNext
  <2>4. CASE \/ Arrives(r) \/ HandlerPanics(r) \/ DecodeBody(r) \/ HandlerReplies(r)
             \/ MiddlewareStep(r) /\ UNCHANGED <<memVars, endpoint>>
    <3>1. UNCHANGED memVars
      BY <2>4 DEF Arrives, HandlerPanics, DecodeBody, HandlerReplies
    <3> QED
      BY <3>1, StepUpdates DEF Parts
  <2> QED
    BY <2>1, <2>2, <2>3, <2>4 DEF GoesOn
<1> QED
  BY <1>1, <1>2

\* The invariant of the service and its storage together.
LEMMA StorageHeld == ServiceSpec => [](Parts /\ StatusInv /\ Updating)
<1>1. ServiceInit => Updating
  BY InitUpdates DEF ServiceInit
<1>2. Parts /\ StatusInv /\ Updating /\ [ServiceNext]_serviceVars => StatusInv' /\ Updating'
  BY StepKeepsStatus, StepKeepsUpdates
<1> QED
  BY <1>1, <1>2, PartsHeld, InitStatus, PTL DEF ServiceSpec

\* The updates have their effect one after another, each in full, once, and as if
\* its metrics had been stored one by one, whatever else the requests do; a
\* malformed one has none (MemStorage.UpdateBatch, UpdateGauge, UpdateCounter).
THEOREM ServiceImplementsStore == ServiceSpec => MemImplementsStore
<1>1. ServiceInit => Store!Init
  BY InitUpdates DEF ServiceInit
<1>2. Parts /\ StatusInv /\ Updating /\ [ServiceNext]_serviceVars => [Store!Next]_stored
  BY StepKeepsUpdates
<1>3. ServiceSpec => []Parts /\ []StatusInv /\ []Updating
  BY StorageHeld, PTL
<1> QED
  BY <1>1, <1>2, <1>3, PTL
     DEF ServiceSpec, MemImplementsStore, Store!Spec, stored, Requested, Applied

\* Both parts stay well typed together: no object is in its pool twice, the write
\* lock is held by the one call that is storing, and the rows are counters and
\* gauges (pool.go, memory.go).
THEOREM ServiceTyped == ServiceSpec => []ServiceTypeOK
<1>1. Parts /\ Updating => MemTypeOK
  <2> SUFFICES ASSUME Parts, Updating
               PROVE  MemTypeOK
    OBVIOUS
  <2>1. Locking /\ \A r \in Requests : Course(r)
    BY DEF Parts, MemInv
  <2>2. \A k \in DOMAIN rows : k[1] \in {"counter", "gauge"}
    BY DEF Updating, Rowed
  <2> QED
    BY <2>1, <2>2 DEF MemTypeOK, Updating, Locking, Course
<1>2. ChainTypeOK /\ MemTypeOK => ServiceTypeOK
  BY DEF ServiceTypeOK
<1>3. ServiceSpec => []ChainTypeOK
  BY ServiceImplementsChain, ChainTyped, PTL
<1> QED
  BY <1>1, <1>2, <1>3, StorageHeld, PTL
===============================================================================
