\* One connection with a first_request_timeout.
SPECIFICATION Safety
CONSTANTS
    Users = {u1}
    Ops = {"shutdown"}
    Conns = {c1}
    Tls = FALSE
    FirstRequestTimeout = TRUE
    LocalAddrs = {"Some"}
PROPERTY TimeoutSparesServed
