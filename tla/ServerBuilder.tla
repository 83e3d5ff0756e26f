--------------------------- MODULE ServerBuilder ----------------------------
(***************************************************************************)
(* src/src/server.rs and the two TLS modules: how a Server is put together *)
(* before serve() runs it.  Each method takes the server and gives it back *)
(* changed; acceptor() and map() change its type, so they build a new      *)
(* struct field by field.  The application may call them in any order and  *)
(* as often as it likes.                                                   *)
(*                                                                         *)
(* hyper-util's Builder is external: a version that can be chosen once and *)
(* a header read timeout.  The timers it is given for HTTP/1 and HTTP/2,   *)
(* and a listener's non-blocking mode, are not modelled: nothing here      *)
(* reads them.                                                             *)
(***************************************************************************)
CONSTANTS Durations,  \* durations the application passes
          Handles,    \* Handles it passes
          Handlers,   \* error handlers it passes
          Inners      \* acceptors of its own

VARIABLES phase,      \* "start", "building", "serving", "failed" or "panicked"
          server,     \* the fields of Server
          asked       \* history: the last value asked for, by setting

vars == <<phase, server, asked>>

Libraries == {"rustls", "openssl"}
Versions == {"http1", "http2"}

(* A plain acceptor is its own "inner" and has no TLS around it.           *)
Plain(i) == [tls |-> "none", handshake_timeout |-> "none", inner |-> i]

(* RustlsAcceptor::new and OpenSSLAcceptor::new.                           *)
NewTls(l) == [tls |-> l, handshake_timeout |-> "10s", inner |-> "default"]

(* handshake_timeout() and acceptor() of the TLS acceptors.                *)
HandshakeTimeout(a, d) == [a EXCEPT !.handshake_timeout = d]
InnerAcceptor(a, i) ==
    [tls |-> a.tls, handshake_timeout |-> a.handshake_timeout, inner |-> i]

Times == {"10s"} \cup Durations
InnerChoices == {"default"} \cup Inners
TlsAcceptors ==
    {InnerAcceptor(HandshakeTimeout(NewTls(l), d), i) :
        l \in Libraries, d \in Times, i \in InnerChoices}
Acceptors == TlsAcceptors \cup {Plain(i) : i \in InnerChoices}

(* default_builder(): header_read_timeout(None) replaces hyper's default.  *)
DefaultBuilder == [version |-> "any", header_read_timeout |-> "none"]

(* Server::bind and Server::from_listener.                                 *)
NewServer(l) ==
    [acceptor |-> Plain("default"),
     builder |-> DefaultBuilder,
     listener |-> l,
     handle |-> "own",
     http_version |-> "any",
     first_request_timeout |-> "none",
     accept_error_handler |-> "none"]

Servers ==
    [acceptor : Acceptors,
     builder : [version : {"any"} \cup Versions,
                header_read_timeout : {"none"} \cup Durations],
     listener : {"none", "address", "handed"},
     handle : {"own"} \cup Handles,
     http_version : {"any"} \cup Versions,
     first_request_timeout : {"none"} \cup Durations,
     accept_error_handler : {"none"} \cup Handlers]

(* The settings the application can ask for, and where the server keeps    *)
(* them.                                                                   *)
Settings(s) ==
    [acceptor |-> s.acceptor,
     header_read_timeout |-> s.builder.header_read_timeout,
     listener |-> s.listener,
     handle |-> s.handle,
     version |-> s.http_version,
     first_request_timeout |-> s.first_request_timeout,
     accept_error_handler |-> s.accept_error_handler]

TypeOK ==
    /\ phase \in {"start", "building", "serving", "failed", "panicked"}
    /\ server \in Servers

Init ==
    /\ phase = "start"
    /\ server = NewServer("none")
    /\ asked = Settings(NewServer("none"))

Ask(k, v) == asked' = [asked EXCEPT ![k] = v]
-----------------------------------------------------------------------------
(* Mutant: the version is left behind, as it was before 0.9.0.             *)
AcceptorLosesVersion(s, a) ==
    [NewServer(s.listener) EXCEPT
        !.acceptor = a,
        !.builder = s.builder,
        !.handle = s.handle,
        !.first_request_timeout = s.first_request_timeout,
        !.accept_error_handler = s.accept_error_handler]

(* The struct that acceptor() and map() build.                             *)
WithAcceptor(s, a) ==
    [acceptor |-> a,
     builder |-> s.builder,
     listener |-> s.listener,
     handle |-> s.handle,
     http_version |-> s.http_version,
     first_request_timeout |-> s.first_request_timeout,
     accept_error_handler |-> s.accept_error_handler]

(* A new server on listener l, with the acceptor bind_rustls,              *)
(* from_tcp_rustls, from_unix_rustls and bind_openssl add.                 *)
Begin(l, t) ==
    /\ phase = "start"
    /\ phase' = "building"
    /\ server' = IF t = "none" THEN NewServer(l)
                               ELSE WithAcceptor(NewServer(l), NewTls(t))
    /\ asked' = [Settings(NewServer(l)) EXCEPT
                    !.acceptor = IF t = "none" THEN Plain("default") ELSE NewTls(t)]

Bind == \E t \in {"none"} \cup Libraries : Begin("address", t)

FromListener == Begin("handed", "none")

(* from_tcp and from_unix: set_nonblocking(true) and from_std succeed ...  *)
FromStd == \E t \in {"none", "rustls"} : Begin("handed", t)

(* ... or one of them fails, and no server is made.                        *)
FromStdErr ==
    /\ phase = "start"
    /\ phase' = "failed"
    /\ UNCHANGED <<server, asked>>

Set(s, k, v) ==
    /\ phase = "building"
    /\ server' = s
    /\ Ask(k, v)
    /\ UNCHANGED phase

Acceptor(a) == Set(WithAcceptor(server, a), "acceptor", a)

(* map(): the closure gets the acceptor there is, gives it another inner   *)
(* acceptor or another timeout (a method of the default inner acceptor     *)
(* only), or wraps a plain one in TLS.                                     *)
Mapped(a) ==
    {InnerAcceptor(a, i) : i \in Inners}
        \cup {HandshakeTimeout(b, d) : b \in {a} \cap {NewTls(a.tls)}, d \in Durations}
        \cup {InnerAcceptor(NewTls(l), a.inner) : l \in Libraries}

Map ==
    \E a \in Mapped(server.acceptor) :
        /\ a \in Acceptors
        /\ Acceptor(a)

(* get_mut(): the caller assigns another acceptor of the same type.        *)
GetMut(a) ==
    /\ a.tls = server.acceptor.tls
    /\ a.inner = server.acceptor.inner
    /\ Set([server EXCEPT !.acceptor = a], "acceptor", a)

(* http_builder(): the caller sets an option in place.                     *)
HttpBuilder(d) ==
    Set([server EXCEPT !.builder.header_read_timeout = d], "header_read_timeout", d)

(* http1_only() and http2_only(); hyper-util asserts that no version was   *)
(* chosen before.                                                          *)
HttpOnly(v) ==
    /\ server.builder.version = "any"
    /\ Set([server EXCEPT !.http_version = v, !.builder.version = v], "version", v)

HttpOnlyPanics ==
    /\ phase = "building"
    /\ server.builder.version # "any"
    /\ phase' = "panicked"
    /\ UNCHANGED <<server, asked>>

Handle(h) == Set([server EXCEPT !.handle = h], "handle", h)

FirstRequestTimeout(d) ==
    Set([server EXCEPT !.first_request_timeout = d], "first_request_timeout", d)

AcceptErrorHandler(f) ==
    Set([server EXCEPT !.accept_error_handler = f], "accept_error_handler", f)

Serve ==
    /\ phase = "building"
    /\ phase' = "serving"
    /\ UNCHANGED <<server, asked>>

Create == Bind \/ FromListener \/ FromStd \/ FromStdErr

Configure ==
    \/ \E a \in Acceptors : Acceptor(a) \/ GetMut(a)
    \/ Map
    \/ \E d \in {"none"} \cup Durations : HttpBuilder(d) \/ FirstRequestTimeout(d)
    \/ \E v \in Versions : HttpOnly(v)
    \/ \E h \in Handles : Handle(h)
    \/ \E f \in Handlers : AcceptErrorHandler(f)

Next == Create \/ Configure \/ HttpOnlyPanics \/ Serve

Spec == Init /\ [][Next]_vars
-----------------------------------------------------------------------------
(* serve(): with a version serve_connection() follows hyper's builder,     *)
(* without one serve_connection_with_upgrades() looks at the client's      *)
(* first bytes, whatever the builder's version.                            *)
Protocols(s) ==
    IF s.http_version = "any" \/ s.builder.version = "any"
        THEN Versions ELSE {s.builder.version}
Upgrades(s) == s.http_version = "any"

(* Whatever the order of the calls, the server that serve() gets has every *)
(* setting at the last value asked for.                                    *)
NothingLost == phase # "start" => Settings(server) = asked

(* "Only accepts HTTP/1." and "Only accepts HTTP/2." hold whatever is      *)
(* called before and after, and without them both are spoken and upgrades  *)
(* work.                                                                   *)
SpeaksOnlyAsked ==
    phase # "start" =>
        /\ Protocols(server) = IF asked.version = "any" THEN Versions
                                                        ELSE {asked.version}
        /\ Upgrades(server) <=> asked.version = "any"

(* The two version fields agree.                                           *)
Inv ==
    /\ TypeOK
    /\ asked = Settings(server)
    /\ server.builder.version = server.http_version
=============================================================================
