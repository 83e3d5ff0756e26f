------------------------ MODULE ServerBuilderProofs -------------------------
(***************************************************************************)
(* The builder methods keep every setting, in any order of any number of   *)
(* calls, whatever the values passed.                                      *)
(***************************************************************************)
EXTENDS ServerBuilder, TLAPS

(* The acceptors a new server can start with.                              *)
LEMMA FirstAcceptors ==
  /\ Plain("default") \in Acceptors
  /\ \A l \in Libraries : NewTls(l) \in Acceptors
  <1>1. ASSUME NEW l \in Libraries PROVE NewTls(l) \in TlsAcceptors
    <2>1. NewTls(l) = InnerAcceptor(HandshakeTimeout(NewTls(l), "10s"), "default")
      BY DEF NewTls, InnerAcceptor, HandshakeTimeout
    <2> QED
      BY <2>1 DEF TlsAcceptors, Times, InnerChoices
  <1> QED
    BY <1>1 DEF Acceptors, InnerChoices

LEMMA NewServerOK ==
  ASSUME NEW l \in {"none", "address", "handed"}
  PROVE  /\ NewServer(l) \in Servers
         /\ NewServer(l).builder.version = NewServer(l).http_version
         /\ NewServer(l).listener = l
  <1>1. DefaultBuilder \in [version : {"any"} \cup Versions,
                            header_read_timeout : {"none"} \cup Durations]
    BY DEF DefaultBuilder
  <1>2. NewServer(l) \in Servers
    BY <1>1, FirstAcceptors DEF NewServer, Servers
  <1> QED
    BY <1>2 DEF NewServer, DefaultBuilder

LEMMA WithAcceptorOK ==
  ASSUME NEW s \in Servers, NEW a \in Acceptors
  PROVE  /\ WithAcceptor(s, a) \in Servers
         /\ WithAcceptor(s, a).builder = s.builder
         /\ WithAcceptor(s, a).http_version = s.http_version
         /\ WithAcceptor(s, a).listener = s.listener
         /\ Settings(WithAcceptor(s, a)) = [Settings(s) EXCEPT !.acceptor = a]
  BY DEF WithAcceptor, Servers, Settings

LEMMA InvInit == Init => Inv
  <1> SUFFICES ASSUME Init PROVE Inv
    OBVIOUS
  <1>1. server \in Servers /\ server.builder.version = server.http_version
    BY NewServerOK DEF Init
  <1> QED
    BY <1>1 DEF Init, Inv, TypeOK

LEMMA InvBegin ==
  ASSUME Inv, NEW l \in {"address", "handed"},
         NEW t \in {"none"} \cup Libraries, Begin(l, t)
  PROVE  Inv'
  <1>1. CASE t = "none"
    <2>1. server' = NewServer(l) /\ phase' = "building"
      BY <1>1 DEF Begin
    <2>2. asked' = Settings(NewServer(l))
      BY <1>1 DEF Begin, Settings, NewServer
    <2> QED
      BY <2>1, <2>2, NewServerOK DEF Inv, TypeOK
  <1>2. CASE t # "none"
    <2>1. /\ server' = WithAcceptor(NewServer(l), NewTls(t))
          /\ asked' = [Settings(NewServer(l)) EXCEPT !.acceptor = NewTls(t)]
          /\ phase' = "building"
      BY <1>2 DEF Begin
    <2>2. NewServer(l) \in Servers /\ NewTls(t) \in Acceptors
      BY <1>2, NewServerOK, FirstAcceptors
    <2>3. /\ server' \in Servers
          /\ server'.builder.version = server'.http_version
          /\ server'.listener = l
          /\ asked' = Settings(server')
      BY <2>1, <2>2, NewServerOK, WithAcceptorOK
    <2> QED
      BY <2>1, <2>3 DEF Inv, TypeOK
  <1> QED
    BY <1>1, <1>2

(* A method that changes one setting.                                      *)
LEMMA InvSet ==
  ASSUME Inv, NEW s \in Servers, NEW k, NEW v, Set(s, k, v),
         s.builder.version = s.http_version,
         s.listener = server.listener,
         Settings(s) = [Settings(server) EXCEPT ![k] = v]
  PROVE  Inv'
  BY DEF Inv, TypeOK, Set, Ask

LEMMA InvAcceptor ==
  ASSUME Inv, NEW a \in Acceptors, Acceptor(a)
  PROVE  Inv'
  <1>1. server \in Servers
    BY DEF Inv, TypeOK
  <1> QED
    BY <1>1, WithAcceptorOK, InvSet DEF Acceptor, Inv

LEMMA InvConfigure == Inv /\ Configure => Inv'
  <1> SUFFICES ASSUME Inv, Configure PROVE Inv'
    OBVIOUS
  <1>0. /\ server \in Servers /\ server.builder.version = server.http_version
    BY DEF Inv, TypeOK
  <1>1. ASSUME NEW a \in Acceptors, GetMut(a) PROVE Inv'
    <2> DEFINE s == [server EXCEPT !.acceptor = a]
    <2>1. Set(s, "acceptor", a)
      BY <1>1 DEF GetMut
    <2>2. /\ s \in Servers /\ s.builder = server.builder
          /\ s.http_version = server.http_version /\ s.listener = server.listener
          /\ Settings(s) = [Settings(server) EXCEPT !["acceptor"] = a]
      BY <1>0 DEF Servers, Settings
    <2> HIDE DEF s
    <2> QED
      BY <1>0, <2>1, <2>2, InvSet
  <1>2. ASSUME NEW d \in {"none"} \cup Durations, HttpBuilder(d) PROVE Inv'
    <2> DEFINE s == [server EXCEPT !.builder.header_read_timeout = d]
    <2>1. Set(s, "header_read_timeout", d)
      BY <1>2 DEF HttpBuilder
    <2>2. /\ s \in Servers /\ s.builder.version = server.builder.version
          /\ s.http_version = server.http_version /\ s.listener = server.listener
          /\ Settings(s) = [Settings(server) EXCEPT !["header_read_timeout"] = d]
      <3> DEFINE b == [server.builder EXCEPT !.header_read_timeout = d]
      <3>1. s = [server EXCEPT !.builder = b]
        OBVIOUS
      <3>2. /\ b \in [version : {"any"} \cup Versions,
                      header_read_timeout : {"none"} \cup Durations]
            /\ b.version = server.builder.version
            /\ b.header_read_timeout = d
        BY <1>0 DEF Servers
      <3> HIDE DEF b
      <3>3. /\ s.acceptor = server.acceptor /\ s.builder = b
            /\ s.listener = server.listener /\ s.handle = server.handle
            /\ s.http_version = server.http_version
            /\ s.first_request_timeout = server.first_request_timeout
            /\ s.accept_error_handler = server.accept_error_handler
        BY <1>0, <3>1 DEF Servers
      <3>4. s \in Servers
        BY <1>0, <3>1, <3>2 DEF Servers
      <3> HIDE DEF s
      <3>5. Settings(s) = [Settings(server) EXCEPT !["header_read_timeout"] = d]
        BY <3>2, <3>3 DEF Settings
      <3> QED
        BY <3>2, <3>3, <3>4, <3>5
    <2> HIDE DEF s
    <2> QED
      BY <1>0, <2>1, <2>2, InvSet
  <1>3. ASSUME NEW d \in {"none"} \cup Durations, FirstRequestTimeout(d) PROVE Inv'
    <2> DEFINE s == [server EXCEPT !.first_request_timeout = d]
    <2>1. Set(s, "first_request_timeout", d)
      BY <1>3 DEF FirstRequestTimeout
    <2>2. /\ s \in Servers /\ s.builder = server.builder
          /\ s.http_version = server.http_version /\ s.listener = server.listener
          /\ Settings(s) = [Settings(server) EXCEPT !["first_request_timeout"] = d]
      BY <1>0 DEF Servers, Settings
    <2> HIDE DEF s
    <2> QED
      BY <1>0, <2>1, <2>2, InvSet
  <1>4. ASSUME NEW v \in Versions, HttpOnly(v) PROVE Inv'
    <2> DEFINE s == [server EXCEPT !.http_version = v, !.builder.version = v]
    <2>1. Set(s, "version", v)
      BY <1>4 DEF HttpOnly
    <2>2. /\ s \in Servers /\ s.builder.version = v
          /\ s.http_version = v /\ s.listener = server.listener
          /\ Settings(s) = [Settings(server) EXCEPT !["version"] = v]
      <3> DEFINE b == [server.builder EXCEPT !.version = v]
      <3>1. s = [server EXCEPT !.http_version = v, !.builder = b]
        BY <1>0 DEF Servers
      <3>2. /\ b \in [version : {"any"} \cup Versions,
                      header_read_timeout : {"none"} \cup Durations]
            /\ b.version = v
            /\ b.header_read_timeout = server.builder.header_read_timeout
        BY <1>0 DEF Servers
      <3> HIDE DEF b
      <3>3. /\ s.acceptor = server.acceptor /\ s.builder = b
            /\ s.listener = server.listener /\ s.handle = server.handle
            /\ s.http_version = v
            /\ s.first_request_timeout = server.first_request_timeout
            /\ s.accept_error_handler = server.accept_error_handler
        BY <1>0, <3>1 DEF Servers
      <3>4. s \in Servers
        BY <1>0, <3>1, <3>2 DEF Servers
      <3> HIDE DEF s
      <3>5. Settings(s) = [Settings(server) EXCEPT !["version"] = v]
        BY <3>2, <3>3 DEF Settings
      <3> QED
        BY <3>2, <3>3, <3>4, <3>5
    <2> HIDE DEF s
    <2> QED
      BY <1>0, <2>1, <2>2, InvSet
  <1>5. ASSUME NEW h \in Handles, Handle(h) PROVE Inv'
    <2> DEFINE s == [server EXCEPT !.handle = h]
    <2>1. Set(s, "handle", h)
      BY <1>5 DEF Handle
    <2>2. /\ s \in Servers /\ s.builder = server.builder
          /\ s.http_version = server.http_version /\ s.listener = server.listener
          /\ Settings(s) = [Settings(server) EXCEPT !["handle"] = h]
      BY <1>0 DEF Servers, Settings
    <2> HIDE DEF s
    <2> QED
      BY <1>0, <2>1, <2>2, InvSet
  <1>6. ASSUME NEW f \in Handlers, AcceptErrorHandler(f) PROVE Inv'
    <2> DEFINE s == [server EXCEPT !.accept_error_handler = f]
    <2>1. Set(s, "accept_error_handler", f)
      BY <1>6 DEF AcceptErrorHandler
    <2>2. /\ s \in Servers /\ s.builder = server.builder
          /\ s.http_version = server.http_version /\ s.listener = server.listener
          /\ Settings(s) = [Settings(server) EXCEPT !["accept_error_handler"] = f]
      BY <1>0 DEF Servers, Settings
    <2> HIDE DEF s
    <2> QED
      BY <1>0, <2>1, <2>2, InvSet
  <1>7. CASE Map
    BY <1>7, InvAcceptor DEF Map
  <1> QED
    BY <1>1, <1>2, <1>3, <1>4, <1>5, <1>6, <1>7, InvAcceptor DEF Configure

LEMMA InvNext == Inv /\ [Next]_vars => Inv'
  <1> SUFFICES ASSUME Inv, [Next]_vars PROVE Inv'
    OBVIOUS
  <1>1. CASE Bind
    BY <1>1, InvBegin DEF Bind
  <1>2. CASE FromListener
    BY <1>2, InvBegin DEF FromListener
  <1>3. CASE FromStd
    BY <1>3, InvBegin DEF FromStd, Libraries
  <1>4. CASE FromStdErr \/ HttpOnlyPanics \/ Serve \/ UNCHANGED vars
    BY <1>4 DEF FromStdErr, HttpOnlyPanics, Serve, vars, Inv, TypeOK
  <1> QED
    BY <1>1, <1>2, <1>3, <1>4, InvConfigure DEF Next, Create

(* The two version fields agree and every setting is where it was asked.   *)
THEOREM InvAlways == Spec => []Inv
  BY InvInit, InvNext, PTL DEF Spec

(* No builder method loses what another one set: acceptor() and map()      *)
(* carry over every field (CHANGELOG 0.9.0: they "now preserve the HTTP    *)
(* version").                                                              *)
THEOREM SettingsKept == Spec => []NothingLost
  <1>1. Inv => NothingLost
    BY DEF Inv, NothingLost
  <1> QED
    BY <1>1, InvAlways, PTL

(* A server speaks the protocol it was told to speak, and only that one.   *)
THEOREM VersionKept == Spec => []SpeaksOnlyAsked
  <1>1. Inv => SpeaksOnlyAsked
    <2> SUFFICES ASSUME Inv PROVE SpeaksOnlyAsked
      OBVIOUS
    <2>1. /\ server.builder.version = server.http_version
          /\ asked.version = server.http_version
          /\ server.http_version \in {"any"} \cup Versions
      BY DEF Inv, TypeOK, Servers, Settings
    <2> QED
      BY <2>1 DEF SpeaksOnlyAsked, Protocols, Upgrades, Versions
  <1> QED
    BY <1>1, InvAlways, PTL
=============================================================================
