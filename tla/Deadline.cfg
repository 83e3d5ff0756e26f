\* graceful_shutdown() with a duration, again and again, and two connections:
\* one can be in the backlog or be accepted while the other drains, and the
\* drop which ends the drain can follow another one.
SPECIFICATION Spec
CONSTANTS
    Users = {u1}
    Ops = {"graceful_some"}
    Conns = {c1, c2}
    Tls = FALSE
    FirstRequestTimeout = FALSE
    LocalAddrs = {"Some"}
PROPERTIES
    GracefulReturns
    NoClientHangs
