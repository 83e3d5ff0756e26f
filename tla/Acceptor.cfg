\* Every stack, configuration and set of options from the listener, on a
\* platform that ignores one of the keepalive parameters.  A connection whose
\* acceptor is done or has failed stops.
SPECIFICATION Spec
CONSTANTS
    Supported = {"interval"}
INVARIANTS
    OptionsBeforeBytes
CHECK_DEADLOCK FALSE
