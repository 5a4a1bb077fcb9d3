------------------------ MODULE AuditPublisherProofs ------------------------
(***************************************************************************)
(* Theorems about AuditPublisher, for any observers, events, callers of    *)
(* Close and length of the queues: nothing is sent on a closed queue, each *)
(* event is delivered or dropped once for each observer it is owed to, in  *)
(* the order of publication, and a Close that returned nil has delivered   *)
(* everything.                                                             *)
(***************************************************************************)
EXTENDS AuditPublisher, SequenceTheorems, FiniteSetTheorems, TLAPS

-----------------------------------------------------------------------------
(* Sequences without repetition. *)

LEMMA AppendNew ==
    ASSUME NEW S, NEW s \in Seq(S), NEW e \in S
    PROVE  /\ ToSet(Append(s, e)) = ToSet(s) \cup {e}
           /\ IsInjective(s) /\ e \notin ToSet(s) => IsInjective(Append(s, e))
<1>1. /\ DOMAIN s = 1..Len(s) /\ Len(s) \in Nat
      /\ DOMAIN Append(s, e) = 1..(Len(s) + 1)
      /\ \A i \in 1..Len(s) : Append(s, e)[i] = s[i]
      /\ Append(s, e)[Len(s) + 1] = e
  BY AppendProperties, LenProperties
<1> QED
  BY <1>1 DEF ToSet, IsInjective

LEMMA TailOfDistinct ==
    ASSUME NEW S, NEW s \in Seq(S), s # <<>>
    PROVE  /\ ToSet(s) = ToSet(Tail(s)) \cup {Head(s)}
           /\ IsInjective(s) => IsInjective(Tail(s)) /\ Head(s) \notin ToSet(Tail(s))
<1>1. /\ DOMAIN s = 1..Len(s) /\ Len(s) \in Nat /\ Len(s) # 0
      /\ DOMAIN Tail(s) = 1..(Len(s) - 1)
      /\ \A i \in 1..(Len(s) - 1) : Tail(s)[i] = s[i + 1]
      /\ Head(s) = s[1]
  BY HeadTailProperties, LenProperties, EmptySeq
<1>2. ToSet(s) = ToSet(Tail(s)) \cup {Head(s)}
  <2>1. ASSUME NEW i \in 1..Len(s)
        PROVE  s[i] \in ToSet(Tail(s)) \cup {Head(s)}
    <3>1. CASE i = 1
      BY <1>1, <3>1
    <3>2. CASE i # 1
      <4>1. i - 1 \in 1..(Len(s) - 1) /\ Tail(s)[i - 1] = s[i]
        BY <1>1, <3>2
      <4> QED
        BY <1>1, <4>1 DEF ToSet
    <3> QED
      BY <3>1, <3>2
  <2>2. ASSUME NEW i \in 1..(Len(s) - 1)
        PROVE  Tail(s)[i] \in ToSet(s)
    BY <1>1 DEF ToSet
  <2>3. Head(s) \in ToSet(s)
    BY <1>1 DEF ToSet
  <2> QED
    BY <1>1, <2>1, <2>2, <2>3 DEF ToSet
<1>3. IsInjective(s) => IsInjective(Tail(s))
  BY <1>1 DEF IsInjective
<1>4. IsInjective(s) => Head(s) \notin ToSet(Tail(s))
  BY <1>1 DEF IsInjective, ToSet
<1> QED
  BY <1>2, <1>3, <1>4

LEMMA CountOfDistinct ==
    ASSUME NEW S, NEW s \in Seq(S), IsInjective(s), NEW e
    PROVE  Cardinality({i \in DOMAIN s : s[i] = e}) = IF e \in ToSet(s) THEN 1 ELSE 0
<1>1. CASE e \in ToSet(s)
  <2>1. PICK i \in DOMAIN s : s[i] = e
    BY <1>1 DEF ToSet
  <2>2. {j \in DOMAIN s : s[j] = e} = {i}
    BY <2>1 DEF IsInjective
  <2> QED
    BY <1>1, <2>2, FS_Singleton
<1>2. CASE e \notin ToSet(s)
  <2>1. {j \in DOMAIN s : s[j] = e} = {}
    BY <1>2 DEF ToSet
  <2> QED
    BY <1>2, <2>1, FS_EmptySet
<1> QED
  BY <1>1, <1>2

-----------------------------------------------------------------------------
(* Typing. *)

Publication == [phase : {"new", "sending", "done"}, left : Seq(Observers)]

Typed ==
    /\ workers \in Seq(Observers)
    /\ queue \in [Observers -> Seq(Events)]
    /\ \A o \in Observers : Len(queue[o]) <= QueueSize
    /\ holding \in [Observers -> Events \cup {NoEvent}]
    /\ deliverer \in [Observers -> {"none", "running", "gone"}]
    /\ publish \in [Events -> Publication]
    /\ closed \in BOOLEAN /\ done \in BOOLEAN /\ fileOpen \in BOOLEAN
    /\ closer \in [Closers -> {"new", "waiting", "drained", "expired"}]
    /\ attempted \in [Observers -> Seq(Events)]
    /\ lost \in [Observers -> SUBSET Events]
    /\ owed \in [Events -> SUBSET Observers]
    /\ earlier \in [Events -> SUBSET Events]

LEMMA OfferedOn ==
    ASSUME NEW p \in Publication, NEW left \in Seq(Observers)
    PROVE  /\ [p EXCEPT !.left = left] \in Publication
           /\ [p EXCEPT !.left = left].left = left
           /\ [p EXCEPT !.left = left].phase = p.phase
BY DEF Publication

LEMMA PhaseSet ==
    ASSUME NEW p \in Publication, NEW phase \in {"new", "sending", "done"}
    PROVE  /\ [p EXCEPT !.phase = phase] \in Publication
           /\ [p EXCEPT !.phase = phase].left = p.left
           /\ [p EXCEPT !.phase = phase].phase = phase
BY DEF Publication

LEMMA Members ==
    ASSUME NEW S, NEW s \in Seq(S)
    PROVE  ToSet(s) \subseteq S
BY ElementOfSeq, LenProperties DEF ToSet

LEMMA TypedInit == Init => Typed
<1> SUFFICES ASSUME Init PROVE Typed
  OBVIOUS
<1>1. /\ <<>> \in Seq(Observers) /\ <<>> \in Seq(Events) /\ Len(<<>>) = 0 /\ 0 <= QueueSize
      /\ [phase |-> "new", left |-> <<>>] \in Publication
  BY EmptySeq, AuditAssumption DEF Publication
<1>2. queue \in [Observers -> Seq(Events)] /\ \A o \in Observers : Len(queue[o]) <= QueueSize
  BY <1>1 DEF Init
<1>3. publish \in [Events -> Publication]
  BY <1>1 DEF Init
<1> QED
  BY <1>1, <1>2, <1>3 DEF Init, Typed

LEMMA TypedStep ==
    ASSUME Typed, [Next]_auditVars
    PROVE  Typed'
<1> USE DEF Typed, publication, delivery, closing
<1>1. ASSUME NEW o \in Observers, Register(o)
      PROVE  Typed'
  BY <1>1, AppendProperties DEF Register
<1>2. ASSUME NEW e \in Events, PublishBegins(e)
      PROVE  Typed'
  <2>1. ToSet(workers) \in SUBSET Observers
    BY Members
  <2>2. [phase |-> "sending", left |-> workers] \in Publication
    BY DEF Publication
  <2> QED
    BY <1>2, <2>1, <2>2 DEF PublishBegins
<1>3. ASSUME NEW e \in Events, Offer(e)
      PROVE  Typed'
  <2> DEFINE o == Head(publish[e].left)
             rest == Tail(publish[e].left)
  <2>1. publish[e].left \in Seq(Observers) /\ o \in Observers /\ rest \in Seq(Observers)
    BY <1>3, HeadTailProperties DEF Publication, Offer
  <2>2. publish' \in [Events -> Publication]
    <3>1. [publish[e] EXCEPT !.left = rest] \in Publication
      BY <2>1, OfferedOn
    <3>2. publish' = [publish EXCEPT ![e] = [publish[e] EXCEPT !.left = rest]]
      BY <1>3 DEF Offer, OfferTo
    <3> QED
      BY <3>1, <3>2
  <2>3. /\ queue' \in [Observers -> Seq(Events)]
        /\ \A p \in Observers : Len(queue'[p]) <= QueueSize
        /\ lost' \in [Observers -> SUBSET Events]
    <3>1. CASE HasRoom(o)
      <4>1. queue' = [queue EXCEPT ![o] = Append(queue[o], e)] /\ lost' = lost
        BY <1>3, <3>1 DEF Offer, OfferTo
      <4>2. Append(queue[o], e) \in Seq(Events) /\ Len(Append(queue[o], e)) = Len(queue[o]) + 1
            /\ Len(queue[o]) \in Nat
        BY <2>1, AppendProperties, LenProperties
      <4>3. Len(Append(queue[o], e)) <= QueueSize
        BY <3>1, <4>2, AuditAssumption DEF HasRoom
      <4>4. queue' \in [Observers -> Seq(Events)]
        BY <2>1, <4>1, <4>2
      <4>5. \A p \in Observers : Len(queue'[p]) <= QueueSize
        BY <2>1, <4>1, <4>3
      <4> QED
        BY <4>1, <4>4, <4>5
    <3>2. CASE ~HasRoom(o)
      <4>1. queue' = queue /\ lost' = [lost EXCEPT ![o] = lost[o] \cup {e}]
        BY <1>3, <3>2 DEF Offer, OfferTo
      <4> QED
        BY <2>1, <4>1
    <3> QED
      BY <3>1, <3>2
  <2> QED
    BY <1>3, <2>2, <2>3 DEF Offer, OfferTo
<1>4. ASSUME NEW e \in Events, PublishEnds(e)
      PROVE  Typed'
  <2>1. [publish[e] EXCEPT !.phase = "done"] \in Publication
    BY PhaseSet
  <2>2. publish' = [publish EXCEPT ![e] = [publish[e] EXCEPT !.phase = "done"]]
    BY <1>4 DEF PublishEnds
  <2>3. publish' \in [Events -> Publication]
    BY <2>1, <2>2
  <2> QED
    BY <1>4, <2>3 DEF PublishEnds
<1>5. ASSUME NEW o \in Observers, Deliver(o)
      PROVE  Typed'
  <2>1. /\ Head(queue[o]) \in Events /\ Tail(queue[o]) \in Seq(Events)
        /\ Len(Tail(queue[o])) = Len(queue[o]) - 1 /\ Len(queue[o]) \in Nat
    BY <1>5, HeadTailProperties, LenProperties DEF Deliver
  <2>2. Len(Tail(queue[o])) <= QueueSize
    BY <2>1, AuditAssumption
  <2>3. queue' = [queue EXCEPT ![o] = Tail(queue[o])]
    BY <1>5 DEF Deliver, Hand
  <2>4. queue' \in [Observers -> Seq(Events)]
    BY <2>1, <2>3
  <2>5. \A p \in Observers : Len(queue'[p]) <= QueueSize
    BY <2>2, <2>3
  <2>6. holding' \in [Observers -> Events \cup {NoEvent}]
    BY <1>5, <2>1 DEF Deliver, Hand
  <2> QED
    BY <1>5, <2>4, <2>5, <2>6 DEF Deliver, Hand
<1>6. ASSUME NEW o \in Observers, UpdateReturns(o)
      PROVE  Typed'
  <2>1. holding[o] \in Events
    BY <1>6 DEF UpdateReturns
  <2>2. Append(attempted[o], holding[o]) \in Seq(Events)
    BY <2>1, AppendProperties
  <2>3. attempted' \in [Observers -> Seq(Events)]
    BY <1>6, <2>2 DEF UpdateReturns
  <2>4. holding' \in [Observers -> Events \cup {NoEvent}]
    BY <1>6 DEF UpdateReturns
  <2> QED
    BY <1>6, <2>3, <2>4 DEF UpdateReturns
<1>7. ASSUME NEW o \in Observers, DelivererEnds(o)
      PROVE  Typed'
  BY <1>7 DEF DelivererEnds
<1>8. ASSUME NEW c \in Closers, CloseQueues(c)
      PROVE  Typed'
  BY <1>8 DEF CloseQueues
<1>9. CASE Drained
  BY <1>9 DEF Drained
<1>10. ASSUME NEW c \in Closers, CloseReturns(c)
       PROVE  Typed'
  BY <1>10 DEF CloseReturns
<1>11. ASSUME NEW c \in Closers, CloseFile(c)
       PROVE  Typed'
  BY <1>11 DEF CloseFile
<1>12. CASE UNCHANGED auditVars
  BY <1>12 DEF auditVars
<1> QED
  BY <1>1, <1>2, <1>3, <1>4, <1>5, <1>6, <1>7, <1>8, <1>9, <1>10, <1>11, <1>12 DEF Next

LEMMA TypedImpliesTypeOK == Typed => TypeOK
<1> SUFFICES ASSUME Typed PROVE TypeOK
  OBVIOUS
<1>1. ToSet(workers) \subseteq Observers
  BY Members DEF Typed
<1>2. \A o \in Observers : ToSet(queue[o]) \subseteq Events /\ ToSet(attempted[o]) \subseteq Events
  BY Members DEF Typed
<1>3. ASSUME NEW e \in Events
      PROVE  /\ publish[e].phase \in {"new", "sending", "done"}
             /\ ToSet(publish[e].left) \subseteq Observers
  BY Members DEF Typed, Publication
<1> QED
  BY <1>1, <1>2, <1>3 DEF Typed, TypeOK

\* Every reachable state of the publisher is well typed; a queue never holds
\* more than its size.
THEOREM PublisherTyped == Spec => []TypeOK
<1>1. Spec => []Typed
  BY TypedInit, TypedStep, PTL DEF Spec
<1> QED
  BY <1>1, TypedImpliesTypeOK, PTL

-----------------------------------------------------------------------------
(* Closing: what a closed publisher, an ended deliverer and a drained Close   *)
(* exclude.                                                                   *)

Closing ==
    /\ closed => Unread
    /\ done => closed /\ \A o \in Observers : deliverer[o] # "running"
    /\ \A o \in Observers :
          /\ deliverer[o] # "running" => queue[o] = <<>> /\ holding[o] = NoEvent
          /\ deliverer[o] = "gone" => closed
          /\ deliverer[o] = "none" =>
                o \notin ToSet(workers) /\ \A e \in Events : o \notin ToSet(publish[e].left)
    /\ \A c \in Closers : closer[c] = "drained" => done
    /\ ~fileOpen => \E c \in Closers : closer[c] = "drained"

LEMMA ClosingInit == Init => Closing
BY DEF Init, Closing, Unread, Sending, ToSet

LEMMA ClosingStep ==
    ASSUME Typed, Closing, [Next]_auditVars
    PROVE  Closing'
<1> USE DEF Typed, Closing, Unread, Sending, publication, delivery, closing
<1>1. ASSUME NEW o \in Observers, Register(o)
      PROVE  Closing'
  <2>1. ToSet(workers') = ToSet(workers) \cup {o}
    BY <1>1, AppendNew DEF Register
  <2>2. /\ deliverer'[o] = "running"
        /\ \A p \in Observers : p # o => deliverer'[p] = deliverer[p]
    BY <1>1 DEF Register
  <2> QED
    BY <1>1, <2>1, <2>2 DEF Register
<1>2. ASSUME NEW e \in Events, PublishBegins(e)
      PROVE  Closing'
  <2>1. \A f \in Events : publish'[f].left = IF f = e THEN workers ELSE publish[f].left
    BY <1>2 DEF PublishBegins
  <2> QED
    BY <1>2, <2>1 DEF PublishBegins
<1>3. ASSUME NEW e \in Events, Offer(e)
      PROVE  Closing'
  <2> DEFINE o == Head(publish[e].left)
             rest == Tail(publish[e].left)
  <2>1. /\ publish[e].left \in Seq(Observers) /\ o \in Observers /\ rest \in Seq(Observers)
        /\ ToSet(publish[e].left) = ToSet(rest) \cup {o}
    BY <1>3, HeadTailProperties, TailOfDistinct DEF Publication, Offer
  <2>2. ~closed /\ deliverer[o] = "running"
    BY <1>3, <2>1 DEF Offer
  <2>3. /\ publish' = [publish EXCEPT ![e] = [publish[e] EXCEPT !.left = rest]]
        /\ publish[e] \in Publication
    BY <1>3 DEF Offer, OfferTo
  <2>4. \A f \in Events : ToSet(publish'[f].left) \subseteq ToSet(publish[f].left)
    BY <2>1, <2>3, OfferedOn
  <2>5. \A p \in Observers : p # o => queue'[p] = queue[p]
    BY <1>3, <2>1 DEF Offer, OfferTo
  <2> QED
    BY <1>3, <2>2, <2>4, <2>5 DEF Offer, OfferTo
<1>4. ASSUME NEW e \in Events, PublishEnds(e)
      PROVE  Closing'
  <2>1. /\ publish' = [publish EXCEPT ![e] = [publish[e] EXCEPT !.phase = "done"]]
        /\ publish[e] \in Publication
    BY <1>4 DEF PublishEnds
  <2>2. /\ \A f \in Events : publish'[f].left = publish[f].left
        /\ publish'[e].phase = "done"
        /\ \A f \in Events : f # e => publish'[f].phase = publish[f].phase
    BY <2>1, PhaseSet
  <2> QED
    BY <1>4, <2>2 DEF PublishEnds
<1>5. ASSUME NEW o \in Observers, Deliver(o)
      PROVE  Closing'
  BY <1>5 DEF Deliver, Hand, Free
<1>6. ASSUME NEW o \in Observers, UpdateReturns(o)
      PROVE  Closing'
  BY <1>6 DEF UpdateReturns
<1>7. ASSUME NEW o \in Observers, DelivererEnds(o)
      PROVE  Closing'
  BY <1>7 DEF DelivererEnds, Free
<1>8. ASSUME NEW c \in Closers, CloseQueues(c)
      PROVE  Closing'
  BY <1>8 DEF CloseQueues
<1>9. CASE Drained
  BY <1>9 DEF Drained
<1>10. ASSUME NEW c \in Closers, CloseReturns(c)
       PROVE  Closing'
  BY <1>10 DEF CloseReturns
<1>11. ASSUME NEW c \in Closers, CloseFile(c)
       PROVE  Closing'
  BY <1>11 DEF CloseFile
<1>12. CASE UNCHANGED auditVars
  BY <1>12 DEF auditVars
<1> QED
  BY <1>1, <1>2, <1>3, <1>4, <1>5, <1>6, <1>7, <1>8, <1>9, <1>10, <1>11, <1>12 DEF Next

LEMMA TypedAndClosing == Spec => [](Typed /\ Closing)
<1>1. Init => Typed /\ Closing
  BY TypedInit, ClosingInit
<1>2. Typed /\ Closing /\ [Next]_auditVars => (Typed /\ Closing)'
  BY TypedStep, ClosingStep
<1> QED
  BY <1>1, <1>2, PTL DEF Spec

\* No call of Publish is in the middle of its sends when the queues are closed,
\* and none gets there any more.
THEOREM NeverSendsAfterClose == Spec => []NoSendAfterClose
<1>1. Typed /\ Closing => NoSendAfterClose
  BY DEF Closing, NoSendAfterClose
<1> QED
  BY <1>1, TypedAndClosing, PTL

\* A Close that returned nil has delivered everything, and closeAudit closes the
\* file after that only.
THEOREM DrainedHasDelivered == Spec => []DrainedMeansDelivered
<1>1. Typed /\ Closing => DrainedMeansDelivered
  BY DEF Closing, DrainedMeansDelivered
<1> QED
  BY <1>1, TypedAndClosing, PTL

-----------------------------------------------------------------------------
(* The account of an event at an observer: not offered yet, lost, or          *)
(* somewhere on its way, once.                                                *)

LEMMA Regroup ==
    \A s, t, u \in Seq(Events) : (s \o t) \o u = s \o (t \o u)
BY ConcatAssociative

LEMMA ReceivedIsSeq ==
    ASSUME Typed, NEW o \in Observers
    PROVE  Received(o) \in Seq(Events)
<1>1. attempted[o] \in Seq(Events) /\ queue[o] \in Seq(Events)
  BY DEF Typed
<1>2. (IF holding[o] = NoEvent THEN <<>> ELSE <<holding[o]>>) \in Seq(Events)
  BY EmptySeq DEF Typed
<1> QED
  BY <1>1, <1>2, ConcatProperties DEF Received

\* The way from the queue through Update changes nothing of what is received.
LEMMA HandedOn ==
    ASSUME Typed, NEW o \in Observers, Deliver(o) \/ UpdateReturns(o), NEW p \in Observers
    PROVE  Received(p)' = Received(p)
<1>1. CASE p # o
  BY <1>1 DEF Deliver, Hand, UpdateReturns, Received, Typed
<1>2. CASE p = o /\ Deliver(o)
  <2> DEFINE e == Head(queue[o])
             rest == Tail(queue[o])
  <2>1. queue[o] \in Seq(Events) /\ attempted[o] \in Seq(Events) /\ queue[o] # <<>>
    BY <1>2 DEF Typed, Deliver
  <2>2. e \in Events /\ rest \in Seq(Events) /\ <<e>> \in Seq(Events)
    BY <2>1, HeadTailProperties
  <2>3. queue[o] = <<e>> \o rest
    <3>1. /\ DOMAIN queue[o] = 1..Len(queue[o]) /\ Len(queue[o]) \in Nat
          /\ Len(rest) = Len(queue[o]) - 1
          /\ \A i \in 1..Len(rest) : rest[i] = queue[o][i + 1]
          /\ e = queue[o][1]
      BY <2>1, HeadTailProperties, LenProperties
    <3>2. /\ <<e>> \o rest \in Seq(Events) /\ Len(<<e>> \o rest) = 1 + Len(rest)
          /\ \A i \in 1..(1 + Len(rest)) :
                (<<e>> \o rest)[i] = IF i <= 1 THEN e ELSE rest[i - 1]
      BY <2>2, ConcatProperties
    <3>3. \A i \in 1..Len(queue[o]) : queue[o][i] = (<<e>> \o rest)[i]
      BY <3>1, <3>2
    <3> QED
      BY <2>1, <3>1, <3>2, <3>3, SeqEqual
  <2>4. e # NoEvent
    BY <2>2, AuditAssumption
  <2>5. /\ holding[o] = NoEvent /\ holding'[o] = e /\ queue'[o] = rest
        /\ attempted'[o] = attempted[o]
    BY <1>2 DEF Deliver, Hand, Free, Typed
  <2>6. /\ Received(o) = (attempted[o] \o <<>>) \o queue[o]
        /\ Received(o)' = (attempted[o] \o <<e>>) \o rest
    BY <2>4, <2>5 DEF Received
  <2>7. attempted[o] \o <<>> = attempted[o]
    BY <2>1, ConcatEmptySeq
  <2>8. (attempted[o] \o <<e>>) \o rest = attempted[o] \o (<<e>> \o rest)
    BY <2>1, <2>2, Regroup
  <2> QED
    BY <1>2, <2>3, <2>6, <2>7, <2>8
<1>3. CASE p = o /\ UpdateReturns(o)
  <2>1. /\ attempted[o] \in Seq(Events) /\ holding[o] \in Events /\ holding[o] # NoEvent
        /\ attempted'[o] = Append(attempted[o], holding[o]) /\ holding'[o] = NoEvent
        /\ queue'[o] = queue[o]
    BY <1>3 DEF Typed, UpdateReturns
  <2>2. /\ Append(attempted[o], holding[o]) = attempted[o] \o <<holding[o]>>
        /\ Append(attempted[o], holding[o]) \in Seq(Events)
    BY <2>1, AppendIsConcat, AppendProperties
  <2>3. Append(attempted[o], holding[o]) \o <<>> = Append(attempted[o], holding[o])
    BY <2>2, ConcatEmptySeq
  <2>4. /\ Received(o) = (attempted[o] \o <<holding[o]>>) \o queue[o]
        /\ Received(o)' = (Append(attempted[o], holding[o]) \o <<>>) \o queue[o]
    BY <2>1 DEF Received
  <2> QED
    BY <1>3, <2>2, <2>3, <2>4
<1> QED
  BY <1>1, <1>2, <1>3

\* An event that is queued comes last.
LEMMA Queued ==
    ASSUME Typed, NEW o \in Observers, NEW e \in Events,
           queue'[o] = Append(queue[o], e), UNCHANGED <<holding, attempted>>
    PROVE  Received(o)' = Append(Received(o), e)
<1> DEFINE busy == IF holding[o] = NoEvent THEN <<>> ELSE <<holding[o]>>
           before == attempted[o] \o busy
<1>1. /\ attempted[o] \in Seq(Events) /\ queue[o] \in Seq(Events) /\ busy \in Seq(Events)
      /\ <<e>> \in Seq(Events)
  BY EmptySeq DEF Typed
<1>2. before \in Seq(Events)
  BY <1>1, ConcatProperties
<1>3. Received(o) = before \o queue[o] /\ Received(o)' = before \o queue'[o]
  BY DEF Received
<1> HIDE DEF before
<1>4. queue'[o] = queue[o] \o <<e>>
  BY <1>1, AppendIsConcat
<1>5. before \o (queue[o] \o <<e>>) = (before \o queue[o]) \o <<e>>
  BY <1>1, <1>2, Regroup
<1>6. before \o queue[o] \in Seq(Events)
  BY <1>1, <1>2, ConcatProperties
<1>7. Append(before \o queue[o], e) = (before \o queue[o]) \o <<e>>
  BY <1>6, AppendIsConcat
<1> QED
  BY <1>3, <1>4, <1>5, <1>7

Offered(o, e) == o \in owed[e] /\ o \notin ToSet(publish[e].left)
Arrived(o, e) == e \in ToSet(Received(o))

Behind(all) == \A i, j \in DOMAIN all : i < j => all[j] \notin earlier[all[i]]

Account(o) ==
    /\ IsInjective(Received(o)) /\ Behind(Received(o))
    /\ \A e \in Events : /\ Arrived(o, e) \/ e \in lost[o] <=> Offered(o, e)
                         /\ ~(Arrived(o, e) /\ e \in lost[o])

Call(e) ==
    /\ IsInjective(publish[e].left) /\ ToSet(publish[e].left) \subseteq owed[e]
    /\ publish[e].phase = "new" => owed[e] = {}
    /\ \A f \in earlier[e] : publish[f].phase = "done"

Accounts ==
    /\ IsInjective(workers)
    /\ \A e \in Events : Call(e)
    /\ \A o \in Observers : Account(o)

LEMMA AccountsInit == Init => Accounts
<1> SUFFICES ASSUME Init PROVE Accounts
  OBVIOUS
<1>1. \A o \in Observers : Received(o) = <<>>
  BY ConcatEmptySeq, EmptySeq DEF Init, Received
<1>2. ToSet(<<>>) = {} /\ IsInjective(<<>>) /\ Behind(<<>>)
  BY DEF ToSet, IsInjective, Behind
<1> QED
  BY <1>1, <1>2 DEF Init, Accounts, Account, Call, Arrived, Offered

\* A step that moves no event to another account keeps them all.
LEMMA AccountKept ==
    ASSUME Accounts, NEW o \in Observers,
           Received(o)' = Received(o), lost'[o] = lost[o], earlier' = earlier,
           \A e \in Events : (Offered(o, e)' <=> Offered(o, e))
    PROVE  Account(o)'
BY DEF Accounts, Account, Arrived, Behind

LEMMA AccountsStep ==
    ASSUME Typed, Closing, Accounts, [Next]_auditVars
    PROVE  Accounts'
<1>1. ASSUME NEW o \in Observers, Register(o)
      PROVE  Accounts'
  <2>1. workers \in Seq(Observers) /\ IsInjective(workers) /\ o \notin ToSet(workers)
    BY <1>1 DEF Typed, Closing, Accounts, Register
  <2>2. IsInjective(workers')
    BY <1>1, <2>1, AppendNew DEF Register
  <2>3. UNCHANGED <<queue, publication, lost, holding, attempted>>
    BY <1>1 DEF Register
  <2>4. \A p \in Observers : Account(p)'
    BY <2>3, AccountKept DEF publication, Received, Offered
  <2>5. \A e \in Events : Call(e)'
    BY <2>3 DEF Accounts, Call, publication
  <2> QED
    BY <2>2, <2>4, <2>5 DEF Accounts
<1>2. ASSUME NEW e \in Events, PublishBegins(e)
      PROVE  Accounts'
  <2>1. /\ publish' = [publish EXCEPT ![e] = [phase |-> "sending", left |-> workers]]
        /\ owed' = [owed EXCEPT ![e] = ToSet(workers)]
        /\ earlier' = [earlier EXCEPT ![e] = {f \in Events : publish[f].phase = "done"}]
        /\ UNCHANGED <<workers, queue, lost, delivery, closing>>
        /\ publish[e].phase = "new"
    BY <1>2 DEF PublishBegins
  <2>2. /\ \A f \in Events : f # e => /\ publish'[f] = publish[f] /\ owed'[f] = owed[f]
                                     /\ earlier'[f] = earlier[f]
        /\ publish'[e].phase = "sending" /\ publish'[e].left = workers /\ owed'[e] = ToSet(workers)
        /\ earlier'[e] = {f \in Events : publish[f].phase = "done"}
    BY <2>1 DEF Typed
  <2>3. owed[e] = {} /\ IsInjective(workers)
    BY <2>1 DEF Accounts, Call
  <2>4. \A f \in Events : Call(f)'
    <3>1. Call(e)'
      BY <2>1, <2>2, <2>3 DEF Call
    <3>2. ASSUME NEW f \in Events, f # e
          PROVE  Call(f)'
      <4>1. earlier[f] \subseteq Events /\ Call(f)
        BY DEF Typed, Accounts
      <4> QED
        BY <2>1, <2>2, <3>2, <4>1 DEF Call
    <3> QED
      BY <3>1, <3>2
  <2>5. ASSUME NEW o \in Observers
        PROVE  Account(o)'
    <3>1. Received(o)' = Received(o) /\ lost'[o] = lost[o]
      BY <2>1 DEF delivery, Received
    <3>2. /\ ~Offered(o, e) /\ ~Offered(o, e)'
          /\ \A f \in Events : (Offered(o, f)' <=> Offered(o, f))
      <4>1. ~Offered(o, e) /\ ~Offered(o, e)'
        BY <2>2, <2>3 DEF Offered
      <4>2. \A f \in Events : f # e => (Offered(o, f)' <=> Offered(o, f))
        BY <2>2 DEF Offered
      <4> QED
        BY <4>1, <4>2
    <3>3. Account(o) /\ ~Arrived(o, e)
      BY <3>2 DEF Accounts, Account
    <3>4. Behind(Received(o))'
      <4>1. \A i \in DOMAIN Received(o) : Received(o)[i] \in Events /\ Received(o)[i] # e
        BY <3>3, ReceivedIsSeq, LenProperties, ElementOfSeq DEF Arrived, ToSet
      <4>2. \A i \in DOMAIN Received(o) : earlier'[Received(o)[i]] = earlier[Received(o)[i]]
        BY <2>2, <4>1
      <4> QED
        BY <3>1, <3>3, <4>2 DEF Account, Behind
    <3> QED
      BY <3>1, <3>2, <3>3, <3>4 DEF Account, Arrived
  <2> QED
    BY <2>1, <2>3, <2>4, <2>5 DEF Accounts
<1>3. ASSUME NEW e \in Events, Offer(e)
      PROVE  Accounts'
  <2>1. /\ publish[e] \in Publication /\ publish[e].left \in Seq(Observers)
        /\ publish[e].phase = "sending" /\ publish[e].left # <<>>
        /\ IsInjective(publish[e].left) /\ ToSet(publish[e].left) \subseteq owed[e]
    BY <1>3 DEF Typed, Publication, Offer, Sending, Accounts, Call
  <2> PICK o \in Observers, rest \in Seq(Observers) :
             o = Head(publish[e].left) /\ rest = Tail(publish[e].left)
    BY <2>1, HeadTailProperties
  <2>2. /\ IsInjective(rest)
        /\ ToSet(publish[e].left) = ToSet(rest) \cup {o} /\ o \notin ToSet(rest)
    BY <2>1, TailOfDistinct
  <2>3. /\ publish' = [publish EXCEPT ![e] = [publish[e] EXCEPT !.left = rest]]
        /\ UNCHANGED <<workers, owed, earlier, delivery, closing>>
        /\ IF HasRoom(o)
              THEN queue' = [queue EXCEPT ![o] = Append(queue[o], e)] /\ UNCHANGED lost
              ELSE lost' = [lost EXCEPT ![o] = lost[o] \cup {e}] /\ UNCHANGED queue
    BY <1>3 DEF Offer, OfferTo
  <2>4. /\ publish'[e].left = rest /\ \A f \in Events : publish'[f].phase = publish[f].phase
        /\ \A f \in Events : f # e => publish'[f].left = publish[f].left
    BY <2>1, <2>2, <2>3, OfferedOn DEF Typed
  <2>5. \A f \in Events : Call(f)'
    <3>1. \A f \in Events : Call(f) /\ earlier[f] \subseteq Events
      BY DEF Accounts, Typed
    <3> QED
      BY <2>1, <2>2, <2>3, <2>4, <3>1 DEF Call
  <2>6. /\ Offered(o, e)' /\ ~Offered(o, e)
        /\ \A p \in Observers : \A f \in Events :
              p # o \/ f # e => (Offered(p, f)' <=> Offered(p, f))
    BY <2>1, <2>2, <2>3, <2>4 DEF Offered
  <2>7. Account(o) /\ ~Arrived(o, e) /\ e \notin lost[o] /\ Received(o) \in Seq(Events)
    BY <2>2, <2>6, ReceivedIsSeq DEF Accounts, Account
  <2>8. ASSUME NEW p \in Observers, p # o
        PROVE  Account(p)'
    <3>1. queue'[p] = queue[p] /\ lost'[p] = lost[p] /\ UNCHANGED <<holding, attempted, earlier>>
      BY <2>3, <2>8 DEF Typed, delivery
    <3>2. Received(p)' = Received(p)
      BY <3>1 DEF Received
    <3> QED
      BY <2>6, <2>8, <3>1, <3>2, AccountKept
  <2>9. Account(o)'
    <3>1. CASE HasRoom(o)
      <4>1. queue'[o] = Append(queue[o], e) /\ lost' = lost /\ UNCHANGED <<holding, attempted, earlier>>
        BY <2>2, <2>3, <3>1 DEF Typed, delivery
      <4>2. Received(o)' = Append(Received(o), e)
        BY <2>2, <4>1, Queued
      <4>3. IsInjective(Received(o))' /\ ToSet(Received(o)') = ToSet(Received(o)) \cup {e}
        <5>1. IsInjective(Received(o)) /\ e \notin ToSet(Received(o))
          BY <2>7 DEF Arrived, Account
        <5>2. /\ IsInjective(Append(Received(o), e))
              /\ ToSet(Append(Received(o), e)) = ToSet(Received(o)) \cup {e}
          BY <2>7, <5>1, AppendNew
        <5> QED
          BY <4>2, <5>2
      <4>4. Behind(Received(o))'
        <5>1. /\ DOMAIN Received(o) = 1..Len(Received(o)) /\ Len(Received(o)) \in Nat
              /\ DOMAIN Received(o)' = 1..(Len(Received(o)) + 1)
              /\ \A i \in 1..Len(Received(o)) : Received(o)'[i] = Received(o)[i]
              /\ Received(o)'[Len(Received(o)) + 1] = e
          BY <2>7, <4>2, AppendProperties, LenProperties
        <5>2. \A i \in 1..Len(Received(o)) : Received(o)[i] \in Events
          BY <2>7, ElementOfSeq
        <5>3. \A f \in Events : e \notin earlier[f]
          BY <2>1 DEF Accounts, Call
        <5>4. ASSUME NEW i \in DOMAIN Received(o)', NEW j \in DOMAIN Received(o)', i < j
              PROVE  Received(o)'[j] \notin earlier[Received(o)'[i]]
          <6>1. i \in 1..Len(Received(o)) /\ Received(o)'[i] = Received(o)[i]
            BY <5>1, <5>4
          <6>2. CASE j = Len(Received(o)) + 1
            BY <5>1, <5>2, <5>3, <6>1, <6>2
          <6>3. CASE j # Len(Received(o)) + 1
            BY <2>7, <5>1, <5>4, <6>1, <6>3 DEF Account, Behind
          <6> QED
            BY <6>2, <6>3
        <5> QED
          BY <4>1, <5>4 DEF Behind
      <4> QED
        BY <2>2, <2>6, <2>7, <4>1, <4>3, <4>4 DEF Account, Arrived
    <3>2. CASE ~HasRoom(o)
      <4>1. /\ queue' = queue /\ UNCHANGED <<holding, attempted, earlier>>
            /\ lost'[o] = lost[o] \cup {e}
        BY <2>2, <2>3, <3>2 DEF Typed, delivery
      <4>2. Received(o)' = Received(o)
        BY <4>1 DEF Received
      <4>3. Behind(Received(o))'
        BY <2>7, <4>1, <4>2 DEF Account, Behind
      <4> QED
        BY <2>2, <2>6, <2>7, <4>1, <4>2, <4>3 DEF Account, Arrived
    <3> QED
      BY <3>1, <3>2
  <2> QED
    BY <2>3, <2>5, <2>8, <2>9 DEF Accounts
<1>4. ASSUME NEW e \in Events, PublishEnds(e)
      PROVE  Accounts'
  <2>1. /\ publish' = [publish EXCEPT ![e] = [publish[e] EXCEPT !.phase = "done"]]
        /\ publish[e] \in Publication
        /\ UNCHANGED <<workers, queue, owed, earlier, lost, delivery>>
    BY <1>4 DEF PublishEnds, Typed
  <2>2. /\ \A f \in Events : publish'[f].left = publish[f].left
        /\ publish'[e].phase = "done"
        /\ \A f \in Events : f # e => publish'[f].phase = publish[f].phase
    BY <2>1, PhaseSet DEF Typed
  <2>3. \A f \in Events : Call(f)'
    <3>1. \A f \in Events : Call(f) /\ earlier[f] \subseteq Events
      BY DEF Accounts, Typed
    <3> QED
      BY <2>1, <2>2, <3>1 DEF Call
  <2>4. \A o \in Observers : Account(o)'
    BY <2>1, <2>2, AccountKept DEF delivery, Received, Offered
  <2> QED
    BY <2>1, <2>3, <2>4 DEF Accounts
<1>5. ASSUME NEW o \in Observers, Deliver(o) \/ UpdateReturns(o)
      PROVE  Accounts'
  <2>1. UNCHANGED <<workers, publication, lost>>
    BY <1>5 DEF Deliver, Hand, UpdateReturns
  <2>2. \A p \in Observers : Account(p)'
    BY <1>5, <2>1, HandedOn, AccountKept DEF publication, Offered
  <2>3. \A e \in Events : Call(e)'
    BY <2>1 DEF Accounts, Call, publication
  <2> QED
    BY <2>1, <2>2, <2>3 DEF Accounts
<1>6. ASSUME UNCHANGED <<workers, queue, publication, lost, holding, attempted>>
      PROVE  Accounts'
  <2>1. \A p \in Observers : Account(p)'
    BY <1>6, AccountKept DEF publication, Received, Offered
  <2>2. \A e \in Events : Call(e)'
    BY <1>6 DEF Accounts, Call, publication
  <2> QED
    BY <1>6, <2>1, <2>2 DEF Accounts
<1>7. ASSUME NEW o \in Observers, DelivererEnds(o)
      PROVE  Accounts'
  BY <1>6, <1>7 DEF DelivererEnds
<1>8. ASSUME NEW c \in Closers, CloseQueues(c) \/ CloseReturns(c) \/ CloseFile(c)
      PROVE  Accounts'
  BY <1>6, <1>8 DEF CloseQueues, CloseReturns, CloseFile, delivery
<1>9. CASE Drained
  BY <1>6, <1>9 DEF Drained, delivery
<1>10. CASE UNCHANGED auditVars
  BY <1>6, <1>10 DEF auditVars, delivery
<1> QED
  BY <1>1, <1>2, <1>3, <1>4, <1>5, <1>7, <1>8, <1>9, <1>10 DEF Next

LEMMA AllAccounts == Spec => [](Typed /\ Closing /\ Accounts)
<1>1. Init => Typed /\ Closing /\ Accounts
  BY TypedInit, ClosingInit, AccountsInit
<1>2. Typed /\ Closing /\ Accounts /\ [Next]_auditVars => (Typed /\ Closing /\ Accounts)'
  BY TypedStep, ClosingStep, AccountsStep
<1> QED
  BY <1>1, <1>2, PTL DEF Spec

\* Every observer receives the events in the order of their publication, through
\* its queue, its deliverer and its losses.
THEOREM OrderIsKept == Spec => []InPublishedOrder
<1>1. Accounts => InPublishedOrder
  BY DEF Accounts, Account, Behind, InPublishedOrder
<1> QED
  BY <1>1, AllAccounts, PTL

\* An event is delivered to or dropped for every observer it was offered to,
\* once, and reaches nobody else.
THEOREM EveryEventAccountedFor == Spec => []AccountedFor
<1>1. Typed /\ Accounts => AccountedFor
  <2> SUFFICES ASSUME Typed, Accounts, NEW o \in Observers, NEW e \in Events
               PROVE  Cardinality({i \in DOMAIN Received(o) : Received(o)[i] = e})
                          + (IF e \in lost[o] THEN 1 ELSE 0)
                      = IF o \in owed[e] \ ToSet(publish[e].left) THEN 1 ELSE 0
    BY DEF AccountedFor
  <2>1. Account(o) /\ Received(o) \in Seq(Events)
    BY ReceivedIsSeq DEF Accounts
  <2>2. Cardinality({i \in DOMAIN Received(o) : Received(o)[i] = e}) = IF Arrived(o, e) THEN 1 ELSE 0
    BY <2>1, CountOfDistinct DEF Account, Arrived
  <2> QED
    BY <2>1, <2>2 DEF Account, Offered
<1> QED
  BY <1>1, AllAccounts, PTL
=============================================================================
