\* Two threads of the application that call shutdown() and graceful_shutdown()
\* with and without a duration, at any time and again and again, against two
\* connections: the smallest number in which one task can be ending while
\* another begins.
SPECIFICATION Safety
CONSTANTS
    Users = {u1, u2}
    Ops = {"shutdown", "graceful_none", "graceful_some"}
    Conns = {c1, c2}
    Tls = FALSE
    FirstRequestTimeout = FALSE
    LocalAddrs = {"Some"}
SYMMETRY Symmetry
INVARIANTS
    Inv
    CountInv
    NoLostConnEnd
    DrainedUnlessStale
    NobodyStranded
PROPERTIES
    DrainIsFinal
    ImplementsLifecycle
    CutOnlyByShutdown
