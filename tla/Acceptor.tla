------------------------------ MODULE Acceptor ------------------------------
(***************************************************************************)
(* The acceptor stack of one connection: the acceptors of                  *)
(* src/src/accept.rs and the futures of the TLS acceptors around them      *)
(* (src/src/tls_rustls/future.rs, src/src/tls_openssl/future.rs).          *)
(*                                                                         *)
(* The socket starts with the options it has from its listener; each call  *)
(* that sets one can fail.  The services the stack wraps around the        *)
(* application's are left out: their types keep them in place.             *)
(***************************************************************************)

CONSTANT Supported   \* keepalive parameters of the platform beside "time"

Params == {"time", "interval", "retries"}

ASSUME SupportedAssumption == Supported \subseteq Params

VARIABLES inner,     \* the acceptor of the raw socket
          tls,       \* the TLS acceptor it is the inner acceptor of
          config,    \* TcpConfigAcceptor.config
          pc,        \* where the accept future is
          socket,    \* the socket's options
          elapsed    \* the handshake's timer has run out

vars == <<inner, tls, config, pc, socket, elapsed>>
stack == <<inner, tls, config>>

Acceptors == {"default", "no_delay", "local_addr", "tcp_config"}
PCs == {"inner", "set_keepalive", "inner_done", "handshake", "open", "failed", "panicked"}
Options == [nodelay : BOOLEAN, keepalive : BOOLEAN, params : SUBSET Params]

TypeOK ==
    /\ inner \in Acceptors
    /\ tls \in {"none", "rustls", "openssl"}
    /\ config \in Options
    /\ pc \in PCs
    /\ socket \in Options
    /\ elapsed \in BOOLEAN

(* Any stack, any TcpSocketConfig (parameters only with a keepalive), any  *)
(* options from the listener.                                              *)
Init ==
    /\ inner \in Acceptors
    /\ tls \in {"none", "rustls", "openssl"}
    /\ config \in {o \in Options : o.params # {} => o.keepalive}
    /\ inner # "tcp_config" => config = [nodelay |-> FALSE, keepalive |-> FALSE, params |-> {}]
    /\ pc = "inner"
    /\ socket \in {o \in Options : o.params = {}}
    /\ elapsed = FALSE
-----------------------------------------------------------------------------
(* The inner acceptors are functions that answer at once.                  *)
Goto(next) == pc' = next

AcceptDefault ==
    /\ pc = "inner"
    /\ inner = "default"
    /\ Goto("inner_done")
    /\ UNCHANGED <<stack, socket, elapsed>>

(* stream.set_nodelay(true), and its error if it fails.                    *)
AcceptNoDelay ==
    /\ pc = "inner"
    /\ inner = "no_delay"
    /\ \/ Goto("inner_done") /\ socket' = [socket EXCEPT !.nodelay = TRUE]
       \/ Goto("failed") /\ UNCHANGED socket
    /\ UNCHANGED <<stack, elapsed>>

(* stream.local_addr() may fail.                                           *)
AcceptLocalAddr ==
    /\ pc = "inner"
    /\ inner = "local_addr"
    /\ Goto("inner_done") \/ Goto("failed")
    /\ UNCHANGED <<stack, socket, elapsed>>

(* The parameters that are given and that the platform has.                *)
Asked == config.params \cap ({"time"} \cup Supported)

(* TcpConfigAcceptor: set_nodelay(true) if the configuration says so; a    *)
(* configuration that says nodelay(false) turns nothing off ...            *)
TcpNodelay ==
    /\ pc = "inner"
    /\ inner = "tcp_config"
    /\ \/ /\ socket' = [socket EXCEPT !.nodelay = @ \/ config.nodelay]
          /\ Goto("set_keepalive")
       \/ config.nodelay /\ Goto("failed") /\ UNCHANGED socket
    /\ UNCHANGED <<stack, elapsed>>

(* Mutant: an error of set_tcp_keepalive is ignored.                       *)
TcpKeepaliveIgnored ==
    /\ pc = "set_keepalive"
    /\ Goto("inner_done")
    /\ \/ config.keepalive /\ socket' = [socket EXCEPT !.keepalive = TRUE, !.params = Asked]
       \/ UNCHANGED socket
    /\ UNCHANGED <<stack, elapsed>>

(* ... then set_tcp_keepalive (external), which turns keepalive on, then   *)
(* sets the parameters one by one, and can fail at each of these.          *)
TcpKeepalive ==
    /\ pc = "set_keepalive"
    /\ IF config.keepalive
       THEN \/ /\ Goto("inner_done")
               /\ socket' = [socket EXCEPT !.keepalive = TRUE, !.params = Asked]
            \/ /\ Goto("failed")
               /\ \/ UNCHANGED socket
                  \/ \E ps \in SUBSET Asked :
                        socket' = [socket EXCEPT !.keepalive = TRUE, !.params = ps]
       ELSE Goto("inner_done") /\ UNCHANGED socket
    /\ UNCHANGED <<stack, elapsed>>
-----------------------------------------------------------------------------
(* Without TLS the connection is hyper's as soon as the inner acceptor is  *)
(* done; with TLS the handshake begins, and with it its timer.  OpenSSL's  *)
(* future unwraps the results of Ssl::new and SslStream::new, and panics   *)
(* in the connection's task if one is an error.                            *)
InnerReady ==
    /\ pc = "inner_done"
    /\ \/ tls = "none" /\ Goto("open")
       \/ tls # "none" /\ Goto("handshake")
       \/ tls = "openssl" /\ Goto("panicked")
    /\ UNCHANGED <<stack, socket, elapsed>>

Elapse ==
    /\ pc = "handshake"
    /\ ~elapsed
    /\ elapsed' = TRUE
    /\ UNCHANGED <<stack, pc, socket>>

(* A poll looks at the handshake before it looks at the timer, so one that *)
(* is complete, or has failed, ends by its own result.                     *)
HandshakeOk ==
    /\ pc = "handshake"
    /\ Goto("open")
    /\ UNCHANGED <<stack, socket, elapsed>>

HandshakeErr ==
    /\ pc = "handshake"
    /\ Goto("failed")
    /\ UNCHANGED <<stack, socket, elapsed>>

HandshakeTimedOut ==
    /\ pc = "handshake"
    /\ elapsed
    /\ Goto("failed")
    /\ UNCHANGED <<stack, socket, elapsed>>

Next ==
    \/ AcceptDefault \/ AcceptNoDelay \/ AcceptLocalAddr
    \/ TcpNodelay \/ TcpKeepalive
    \/ InnerReady \/ Elapse \/ HandshakeOk \/ HandshakeErr \/ HandshakeTimedOut

Spec == Init /\ [][Next]_vars
-----------------------------------------------------------------------------
(* README.md: "The inner acceptor runs first, so TCP_NODELAY and keepalive *)
(* are set on the raw socket before the handshake starts."  No byte flows  *)
(* on a socket some of whose options could not be set.                     *)
OptionsSet ==
    /\ inner = "no_delay" \/ config.nodelay => socket.nodelay
    /\ config.keepalive => socket.keepalive /\ socket.params = Asked

OptionsBeforeBytes == pc \in {"handshake", "open"} => OptionsSet

(* The inductive invariant behind it: how far the options have come.       *)
Accepted == pc \in {"inner_done", "handshake", "open"}

StackInv ==
    /\ Accepted => OptionsSet
    /\ pc = "set_keepalive" => inner = "tcp_config"
    /\ pc = "set_keepalive" /\ config.nodelay => socket.nodelay
    /\ inner # "tcp_config" => ~config.nodelay /\ ~config.keepalive

Inv == TypeOK /\ StackInv
=============================================================================
