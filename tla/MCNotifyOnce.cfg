\* Two overlapping calls of notify_waiters() against two waiters: enough for
\* a wake to fall in each gap of notified() and for a second call to come
\* after a waiter has gone back to sleep.
SPECIFICATION Spec
CONSTANTS
    Notifiers = {n1, n2}
    Waiters = {w1, w2}
INVARIANTS
    Inv
    NoLostWakeup
    NoSpuriousReturn
PROPERTIES
    EveryWaiterReturns
    ImplementsLatch
CHECK_DEADLOCK FALSE
