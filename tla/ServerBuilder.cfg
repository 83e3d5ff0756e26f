\* One value beside the default for each setting, two versions, both TLS
\* libraries: a lost or mixed-up setting shows whatever the order of calls.
\* A server that serves, failed or panicked is no longer built.
SPECIFICATION Spec
CONSTANTS
    Durations = {"d1"}
    Handles = {"h1"}
    Handlers = {"f1"}
    Inners = {"own"}
INVARIANTS
    NothingLost
    SpeaksOnlyAsked
CHECK_DEADLOCK FALSE
