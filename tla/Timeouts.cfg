\* One connection with a TLS handshake and a first_request_timeout; the
\* application waits for the address and shuts the server down, before, during
\* or after graceful_shutdown(None).  Nothing is assumed of the client,
\* except by IndefiniteReturns, which assumes that it finishes its request.
\* Deadlock is not checked: serve() dropped before it binds leaves listening()
\* waiting.
SPECIFICATION Spec
CONSTANTS
    Users = {u1}
    Ops = {"shutdown", "graceful_none", "listening"}
    Conns = {c1}
    Tls = TRUE
    FirstRequestTimeout = TRUE
    LocalAddrs = {"None", "Some"}
INVARIANTS
    WakeOwed
    ListeningTold
PROPERTIES
    UsesLatches
    ShutdownIsFinal
    ShutdownRunsDown
    ListeningReturns
    IndefiniteReturns
    FirstRequestUnlessGraceful
    HandshakeBounded
    ShutdownEndsAll
CHECK_DEADLOCK FALSE
