\* One connection with a first_request_timeout and a graceful_shutdown(None);
\* nothing is assumed of the client.
SPECIFICATION Spec
CONSTANTS
    Users = {u1}
    Ops = {"graceful_none"}
    Conns = {c1}
    Tls = FALSE
    FirstRequestTimeout = TRUE
    LocalAddrs = {"Some"}
PROPERTY FirstRequestOrClosed
