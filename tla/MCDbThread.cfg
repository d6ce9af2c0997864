\* Three queries: one running, one waiting in the list, one being queued.
SPECIFICATION Spec
CONSTANTS
    Tasks = {t1, t2, t3}
    NoTask = NoTask
CHECK_DEADLOCK FALSE
INVARIANTS
    InterruptHitsCancelled
PROPERTIES
    PublishedIsFinal
    ImplementsPromise
    ConnectedIsCalled
    JoinReturns
