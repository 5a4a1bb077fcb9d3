--------------------------- MODULE AuditPublisher ---------------------------
(***************************************************************************)
(* The audit of internal/audit: a publisher that fans every event out to   *)
(* a bounded queue per observer, a delivery goroutine per observer, and a  *)
(* Close that drains them, as closeAudit of cmd/server uses it.            *)
(*                                                                         *)
(* Publish holds the read lock while it offers its event to one observer   *)
(* after the other, so two requests may interleave in it; Register and     *)
(* Close hold the write lock and are single steps.  An event stands for    *)
(* the request that publishes it.                                          *)
(***************************************************************************)
EXTENDS Naturals, SequencesExt

CONSTANTS
    Observers,      \* the receivers that may be registered
    File,           \* the FileObserver, the one closeAudit has to close
    Stuck,          \* the receivers whose Update may never return
    Events,         \* one per request whose metrics were stored
    Closers,        \* the callers of Close
    QueueSize,      \* how many events may wait for one observer
    NoEvent         \* what an observer is handed between two deliveries

ASSUME AuditAssumption ==
    /\ File \in Observers /\ Stuck \subseteq Observers
    /\ IsFiniteSet(Observers) /\ IsFiniteSet(Events)
    /\ QueueSize \in Nat \ {0}
    /\ NoEvent \notin Events

VARIABLES
    workers,    \* Publisher.workers: the registered observers in order
    queue,      \* worker.queue of each observer
    holding,    \* the event Update is busy with
    deliverer,  \* the delivery goroutine of each observer
    publish,    \* the call of Publish for each event, and whom it has yet to offer it to
    closed,     \* Publisher.closed
    done,       \* Publisher.done is closed
    closer,     \* the calls of Close
    fileOpen,   \* FileObserver.file is open
    attempted,  \* history: the events each observer was handed, in order
    lost,       \* history: the events dropped for each observer
    owed,       \* history: who was registered when Publish took the lock
    earlier     \* history: the events whose Publish had returned by then

publication == <<publish, owed, earlier>>
delivery == <<holding, deliverer, attempted>>
closing == <<closed, done, closer, fileOpen>>
auditVars == <<workers, queue, publication, lost, delivery, closing>>

Sending(e) == publish[e].phase = "sending"

Init ==
    /\ workers = <<>>
    /\ queue = [o \in Observers |-> <<>>]
    /\ holding = [o \in Observers |-> NoEvent]
    /\ deliverer = [o \in Observers |-> "none"]
    /\ publish = [e \in Events |-> [phase |-> "new", left |-> <<>>]]
    /\ closed = FALSE /\ done = FALSE
    /\ closer = [c \in Closers |-> "new"]
    /\ fileOpen = TRUE
    /\ attempted = [o \in Observers |-> <<>>]
    /\ lost = [o \in Observers |-> {}]
    /\ owed = [e \in Events |-> {}]
    /\ earlier = [e \in Events |-> {}]

-----------------------------------------------------------------------------
(* The write lock: nobody is between RLock and RUnlock. *)

Unread == \A e \in Events : ~Sending(e)

\* An observer registered after Close is ignored.
Register(o) ==
    /\ Unread /\ ~closed
    /\ deliverer[o] = "none"
    /\ workers' = Append(workers, o)
    /\ deliverer' = [deliverer EXCEPT ![o] = "running"]
    /\ UNCHANGED <<queue, publication, lost, holding, attempted, closing>>

\* Variant: Close does not wait for the readers of the lock.
CloseQueuesUnlocked(c) ==
    /\ closer[c] = "new"
    /\ closed' = TRUE
    /\ closer' = [closer EXCEPT ![c] = "waiting"]
    /\ UNCHANGED <<workers, queue, publication, lost, delivery, done, fileOpen>>

\* The first part of Close; the queues are closed once, a second call only
\* joins the waiting.
CloseQueues(c) ==
    /\ Unread
    /\ closer[c] = "new"
    /\ closed' = TRUE
    /\ closer' = [closer EXCEPT ![c] = "waiting"]
    /\ UNCHANGED <<workers, queue, publication, lost, delivery, done, fileOpen>>

-----------------------------------------------------------------------------
(* Publish. *)

\* Publish takes the read lock and finds the publisher open; after Close it
\* returns at once and changes nothing.
PublishBegins(e) ==
    /\ ~closed
    /\ publish[e].phase = "new"
    /\ publish' = [publish EXCEPT ![e] = [phase |-> "sending", left |-> workers]]
    /\ owed' = [owed EXCEPT ![e] = ToSet(workers)]
    /\ earlier' = [earlier EXCEPT ![e] = {f \in Events : publish[f].phase = "done"}]
    /\ UNCHANGED <<workers, queue, lost, delivery, closing>>

\* The deliverer of o waits for an event.
Free(o) == deliverer[o] = "running" /\ holding[o] = NoEvent

\* Variant: one event more than the queue holds.
HasRoomForOneMore(o) == Len(queue[o]) <= QueueSize

HasRoom(o) == Len(queue[o]) < QueueSize

\* The event is queued for o or lost, and left is whom it is still to be offered.
OfferTo(o, e, left) ==
    /\ publish' = [publish EXCEPT ![e].left = left]
    /\ IF HasRoom(o)
         THEN queue' = [queue EXCEPT ![o] = Append(@, e)] /\ UNCHANGED lost
         ELSE lost' = [lost EXCEPT ![o] = @ \cup {e}] /\ UNCHANGED queue
    /\ UNCHANGED <<workers, owed, earlier, delivery, closing>>

\* Variant: the loop ends at the first queue that is full.
OfferUntilFull(e) ==
    /\ Sending(e)
    /\ publish[e].left # <<>>
    /\ LET o == Head(publish[e].left)
       IN  OfferTo(o, e, IF HasRoom(o) THEN Tail(publish[e].left) ELSE <<>>)

\* Variant: the queues have no room of their own, and the send waits for the
\* deliverer to take the event.
OfferBlocking(e) ==
    /\ Sending(e)
    /\ publish[e].left # <<>>
    /\ LET o == Head(publish[e].left)
       IN  Free(o) /\ queue[o] = <<>> /\ OfferTo(o, e, Tail(publish[e].left))

\* The non-blocking send to the next observer.
Offer(e) ==
    /\ Sending(e)
    /\ publish[e].left # <<>>
    /\ OfferTo(Head(publish[e].left), e, Tail(publish[e].left))

\* The read lock is released; the losses are reported after that.
PublishEnds(e) ==
    /\ Sending(e)
    /\ publish[e].left = <<>>
    /\ publish' = [publish EXCEPT ![e].phase = "done"]
    /\ UNCHANGED <<workers, queue, owed, earlier, lost, delivery, closing>>

-----------------------------------------------------------------------------
(* deliver: the goroutine of one observer. *)

Hand(o, e, rest) ==
    /\ holding' = [holding EXCEPT ![o] = e]
    /\ queue' = [queue EXCEPT ![o] = rest]
    /\ UNCHANGED <<workers, publication, lost, deliverer, attempted, closing>>

\* Variant: the newest event first.
DeliverNewest(o) == Free(o) /\ queue[o] # <<>> /\ Hand(o, Last(queue[o]), Front(queue[o]))

\* Variant: one goroutine delivers to all the observers.
DeliverInTurn(o) ==
    /\ \A p \in Observers : holding[p] = NoEvent
    /\ Free(o) /\ queue[o] # <<>> /\ Hand(o, Head(queue[o]), Tail(queue[o]))

\* The next event of the queue is handed to Update.
Deliver(o) == Free(o) /\ queue[o] # <<>> /\ Hand(o, Head(queue[o]), Tail(queue[o]))

\* Update returns, with the event delivered or with an error for OnError; it
\* is not tried again either way.
UpdateReturns(o) ==
    /\ holding[o] # NoEvent
    /\ attempted' = [attempted EXCEPT ![o] = Append(@, holding[o])]
    /\ holding' = [holding EXCEPT ![o] = NoEvent]
    /\ UNCHANGED <<workers, queue, publication, lost, deliverer, closing>>

\* Variant: the goroutine ends as soon as the publisher is closed.
DelivererLeaves(o) ==
    /\ closed /\ Free(o)
    /\ deliverer' = [deliverer EXCEPT ![o] = "gone"]
    /\ UNCHANGED <<workers, queue, publication, lost, holding, attempted, closing>>

\* The queue is closed and empty.
DelivererEnds(o) ==
    /\ closed /\ Free(o) /\ queue[o] = <<>>
    /\ deliverer' = [deliverer EXCEPT ![o] = "gone"]
    /\ UNCHANGED <<workers, queue, publication, lost, holding, attempted, closing>>

-----------------------------------------------------------------------------
(* The rest of Close, and closeAudit. *)

\* Variant: the wait group counts every observer that could be configured.
DrainedByAll ==
    /\ closed /\ ~done
    /\ \A o \in Observers : deliverer[o] = "gone"
    /\ done' = TRUE
    /\ UNCHANGED <<workers, queue, publication, lost, delivery, closed, closer, fileOpen>>

\* The goroutine started by the first Close has waited for all the deliverers.
Drained ==
    /\ closed /\ ~done
    /\ \A o \in Observers : deliverer[o] # "running"
    /\ done' = TRUE
    /\ UNCHANGED <<workers, queue, publication, lost, delivery, closed, closer, fileOpen>>

\* Close returns nil once the queues are drained, or the error of its context.
CloseReturns(c) ==
    /\ closer[c] = "waiting"
    /\ \/ done /\ closer' = [closer EXCEPT ![c] = "drained"]
       \/ closer' = [closer EXCEPT ![c] = "expired"]
    /\ UNCHANGED <<workers, queue, publication, lost, delivery, closed, done, fileOpen>>

\* closeAudit closes the file, but only after a drain that was complete.
CloseFile(c) ==
    /\ closer[c] = "drained" /\ fileOpen
    /\ fileOpen' = FALSE
    /\ UNCHANGED <<workers, queue, publication, lost, delivery, closed, done, closer>>

Next ==
    \/ \E o \in Observers : Register(o)
    \/ \E e \in Events : PublishBegins(e)
    \/ \E e \in Events : Offer(e)
    \/ \E e \in Events : PublishEnds(e)
    \/ \E o \in Observers : Deliver(o)
    \/ \E o \in Observers : UpdateReturns(o)
    \/ \E o \in Observers : DelivererEnds(o)
    \/ \E c \in Closers : CloseQueues(c)
    \/ Drained
    \/ \E c \in Closers : CloseReturns(c)
    \/ \E c \in Closers : CloseFile(c)

\* Goroutines that can go on do; an Update ends by itself or by the delivery
\* timeout, except that of a receiver that ignores its context.
Fairness ==
    /\ \A e \in Events : WF_auditVars(Offer(e)) /\ WF_auditVars(PublishEnds(e))
    /\ \A o \in Observers : WF_auditVars(Deliver(o)) /\ WF_auditVars(DelivererEnds(o))
    /\ \A o \in Observers \ Stuck : WF_auditVars(UpdateReturns(o))
    /\ WF_auditVars(Drained)

Spec == Init /\ [][Next]_auditVars

FairSpec == Spec /\ Fairness

-----------------------------------------------------------------------------
(* Properties. *)

TypeOK ==
    /\ ToSet(workers) \subseteq Observers
    /\ \A o \in Observers : /\ ToSet(queue[o]) \subseteq Events
                            /\ Len(queue[o]) <= QueueSize
    /\ holding \in [Observers -> Events \cup {NoEvent}]
    /\ deliverer \in [Observers -> {"none", "running", "gone"}]
    /\ \A e \in Events : /\ publish[e].phase \in {"new", "sending", "done"}
                         /\ ToSet(publish[e].left) \subseteq Observers
    /\ closed \in BOOLEAN /\ done \in BOOLEAN /\ fileOpen \in BOOLEAN
    /\ closer \in [Closers -> {"new", "waiting", "drained", "expired"}]
    /\ \A o \in Observers : ToSet(attempted[o]) \subseteq Events
    /\ lost \in [Observers -> SUBSET Events]
    /\ owed \in [Events -> SUBSET Observers]
    /\ earlier \in [Events -> SUBSET Events]

\* Publish never sends on a closed queue, which would panic: no call is past
\* its check of closed when Close has closed the queues.
NoSendAfterClose == closed => Unread

\* Everything an observer was, is being or will be handed.
Received(o) ==
    attempted[o] \o (IF holding[o] = NoEvent THEN <<>> ELSE <<holding[o]>>) \o queue[o]

\* Each observer gets the events in the order they were published: one whose
\* Publish had returned before another one began is never behind it.
InPublishedOrder ==
    \A o \in Observers :
        LET all == Received(o)
        IN  \A i, j \in DOMAIN all : i < j => all[j] \notin earlier[all[i]]

\* An event reaches or is dropped for every observer registered when it was
\* published, exactly once, whatever happens to it at the other observers; it
\* reaches nobody else.
AccountedFor ==
    \A o \in Observers, e \in Events :
        LET all == Received(o)
            copies == Cardinality({i \in DOMAIN all : all[i] = e})
                        + (IF e \in lost[o] THEN 1 ELSE 0)
        IN  copies = IF o \in owed[e] \ ToSet(publish[e].left) THEN 1 ELSE 0

\* A Close that returned nil has delivered everything: no event is queued or
\* on its way to any observer, and none can come.  So closeAudit closes the
\* file only when nothing will be written to it any more.
DrainedMeansDelivered ==
    (~fileOpen \/ \E c \in Closers : closer[c] = "drained") =>
        /\ \A o \in Observers : queue[o] = <<>> /\ holding[o] = NoEvent
        /\ Unread

\* Publish returns although a receiver may be stuck for ever.
PublishReturns == \A e \in Events : Sending(e) ~> (publish[e].phase = "done")

\* A stuck receiver does not keep the events of the others from being delivered.
HealthyObserversServed ==
    \A o \in Observers \ Stuck, e \in Events :
        (e \in ToSet(queue[o])) ~> (e \in ToSet(attempted[o]))

\* After Close the queues are drained, unless a stuck receiver holds an event.
CloseDrains == closed ~> (done \/ \E o \in Stuck : holding[o] # NoEvent)
=============================================================================
