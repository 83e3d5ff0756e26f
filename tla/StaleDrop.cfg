\* The smallest instance of a drop that straddles graceful_shutdown(): one
\* connection ends while another is accepted.
SPECIFICATION Safety
CONSTANTS
    Users = {u1}
    Ops = {"graceful_none"}
    Conns = {c1, c2}
    Tls = FALSE
    FirstRequestTimeout = FALSE
    LocalAddrs = {"Some"}
SYMMETRY Symmetry
INVARIANT DrainComplete
