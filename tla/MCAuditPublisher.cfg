\* Three requests race a Close; a queue holds two of their events.  A hung file
\* system holds up the file; the URL is bounded by its timeout.
\* The publisher may stop: there are only so many events and calls of Close.
SPECIFICATION FairSpec
CONSTANTS
    File = file
    Observers = {file, url}
    Stuck = {file}
    Events = {e1, e2, e3}
    Closers = {c1}
    QueueSize = 2
    NoEvent = NoEvent
INVARIANTS
    TypeOK
    NoSendAfterClose
    InPublishedOrder
    AccountedFor
    DrainedMeansDelivered
PROPERTIES
    PublishReturns
    HealthyObserversServed
    CloseDrains
CHECK_DEADLOCK FALSE
