---------------------------- MODULE ServerTests -----------------------------
(***************************************************************************)
(* The repository's own tests and examples of the server, run against the  *)
(* model: each is a server's options and a script of what its main task    *)
(* and its clients do and expect, in order.  Module Server is instantiated *)
(* with the options of the test; hyper's connection, which Server leaves   *)
(* open, does what the test's clients make it do.                          *)
(*                                                                         *)
(* The tests rely on a machine that is fast compared with their sleeps and *)
(* timeouts: time passes only when nothing else can happen.                *)
(***************************************************************************)
EXTENDS Naturals, Sequences

Clients == {"c1", "c2"}

VARIABLES addr, conn_count, graceful_dur, latch, call, heard,
          task, arm, http, elapsed, rx, stale,
          srv, polling, listener, backoff, deadline,
          test,      \* the test that runs
          at,        \* the step of its script that comes next
          want,      \* what each client has sent and not been answered
          errors     \* calls of the accept error handler

connVars == <<task, arm, http, elapsed, rx, stale>>
srvVars == <<srv, polling, listener, backoff, deadline>>
serverVars == <<addr, conn_count, graceful_dur, latch, call, heard, connVars, srvVars>>
testVars == <<test, at, want>>
allVars == <<serverVars, testVars, errors>>

S(tls, first_request_timeout) ==
    INSTANCE Server WITH
        Users <- {"main"},
        Ops <- {"shutdown", "graceful_none", "graceful_some", "listening"},
        Conns <- Clients,
        Tls <- tls,
        FirstRequestTimeout <- first_request_timeout,
        LocalAddrs <- {"Some"}
-----------------------------------------------------------------------------
(* The scripts.  A request that is awaited at once, or later.              *)
Connect(c) == <<<<"connect", c>>>>
Request(c) == <<<<"send", c, "request">>, <<"ok", c>>>>
RequestFails(c, kind) == <<<<"send", c, kind>>, <<"err", c>>>>
Started == <<<<"listening", "Some">>>>
ShutDown == <<<<"shutdown">>, <<"ended", "ok_shutdown">>>>

Test(options, script) == [options |-> options, script |-> script]

StartAndRequest(options) ==
    Test(options, Started \o Connect("c1") \o Request("c1") \o Request("c1"))

TestShutdown ==
    Test({}, Started \o Connect("c1") \o Request("c1")
             \o <<<<"shutdown">>>>
             \o RequestFails("c1", "request") \o <<<<"closed", "c1">>>>)

(* A slow request of the first client is under way, the second is idle.    *)
TestGracefulNoTimeout ==
    Test({}, Started \o Connect("c1") \o Connect("c2")
             \o Request("c1") \o Request("c2")
             \o <<<<"send", "c1", "request">>, <<"begun", "c1">>>>
             \o <<<<"graceful", "None">>>>
             \o RequestFails("c2", "request") \o RequestFails("c2", "request")
             \o <<<<"ok", "c1">>, <<"ended", "ok_drained">>>>)

(* The second client's request is slower than the grace period.            *)
TestGracefulTimeout ==
    Test({}, Started \o Connect("c1") \o Connect("c2")
             \o Request("c1") \o Request("c2")
             \o <<<<"send", "c1", "request">>, <<"send", "c2", "endless">>>>
             \o <<<<"begun", "c1">>, <<"begun", "c2">>, <<"graceful", "Some">>>>
             \o <<<<"ok", "c1">>, <<"ended", "ok_deadline">>, <<"err", "c2">>>>)

TestListeningNone ==
    Test({"occupied"}, <<<<"ended", "err">>, <<"listening", "None">>>>)

TestHeaderReadTimeout ==
    Test({"header_read_timeout"},
         Started \o Connect("c1") \o Request("c1")
         \o Connect("c2") \o <<<<"send", "c2", "partial">>, <<"closed", "c2">>>>
         \o ShutDown)

FirstTimeoutClosesIdle ==
    Test({"first_request_timeout"},
         Started \o Connect("c1") \o <<<<"closed", "c1">>, <<"sleep", "short">>>>
         \o <<<<"count", 0>>>> \o ShutDown)

FirstTimeoutKeepsEstablished ==
    Test({"first_request_timeout"},
         Started \o Connect("c1") \o Request("c1")
         \o <<<<"sleep", "long">>>> \o Request("c1") \o ShutDown)

AcceptErrorHandlerCalled ==
    Test({"failing_acceptor"},
         Started \o Connect("c1") \o <<<<"sleep", "short">>, <<"errors", 1>>>>
         \o ShutDown)

TlsTimeout ==
    Test({"tls"},
         Started \o <<<<"count", 0>>>>
         \o <<<<"send", "c1", "no_handshake">>>> \o Connect("c1")
         \o <<<<"sleep", "short">>, <<"count", 1>>, <<"sleep", "long">>, <<"count", 0>>>>)

HandshakeCancelled ==
    Test({"tls"},
         Started \o <<<<"send", "c1", "no_handshake">>>> \o Connect("c1")
         \o <<<<"sleep", "short">>, <<"count", 1>>>> \o ShutDown
         \o <<<<"sleep", "short">>, <<"count", 0>>>>)

(* The examples: a shutdown while a client is connected; a graceful one    *)
(* that waits for nobody, and one that waits until its deadline; a silent  *)
(* client and one that stops within its first request.                     *)
ExampleShutdown ==
    Test({}, Connect("c1") \o Request("c1") \o <<<<"sleep", "short">>>>
             \o ShutDown \o <<<<"closed", "c1">>>>)

ExampleGraceful ==
    Test({}, Connect("c1") \o Request("c1")
             \o <<<<"sleep", "short">>, <<"graceful", "Some">>>>
             \o <<<<"ended", "ok_drained">>, <<"count", 0>>>>)

ExampleGracefulDeadline ==
    Test({}, Connect("c1")
             \o <<<<"send", "c1", "endless">>, <<"begun", "c1">>, <<"graceful", "Some">>>>
             \o <<<<"sleep", "short">>, <<"count", 1>>, <<"ended", "ok_deadline">>>>)

ExampleTimeouts ==
    Test({"first_request_timeout", "header_read_timeout"},
         Connect("c1") \o Connect("c2") \o <<<<"send", "c2", "partial">>>>
         \o <<<<"closed", "c1">>, <<"closed", "c2">>, <<"sleep", "short">>, <<"count", 0>>>>)

Tests == {StartAndRequest({}), StartAndRequest({"tls"}), TestShutdown,
          TestGracefulNoTimeout, TestGracefulTimeout,
          TestListeningNone, TestHeaderReadTimeout, FirstTimeoutClosesIdle,
          FirstTimeoutKeepsEstablished, AcceptErrorHandlerCalled, TlsTimeout,
          HandshakeCancelled,
          ExampleShutdown, ExampleGraceful, ExampleGracefulDeadline, ExampleTimeouts}
-----------------------------------------------------------------------------
Has(option) == option \in test.options
Done == at > Len(test.script)
Now == test.script[at]

Init ==
    /\ S(FALSE, FALSE)!Init
    /\ listener = "unbound"
    /\ test \in Tests
    /\ at = 1
    /\ want = [c \in Clients |-> "nothing"]
    /\ errors = 0

(* The connection's task is over: its socket is closed.                    *)
Ended(c) == task[c] \in {"exit", "drop_check", "drop_wake", "gone", "refused"}

(* What hyper makes of the bytes of a client that sent w, and of the       *)
(* service: the state it goes on to.                                       *)
HttpStep(w, before, after, draining) ==
    \/ before = "closed" /\ after = "closed"
    \/ before \in {"new", "idle"} /\ w \in {"request", "endless"} /\ after = "busy"
    \/ before = "busy" /\ w = "request" /\ after = IF draining THEN "closed" ELSE "idle"
    \/ before = "new" /\ w = "partial" /\ after = "head"

Draining(c) == task[c] \in {"drain0", "drain"}

(* The client or the service has something for the task: it is woken.      *)
HasBytes(c) ==
    \/ task[c] = "accept" /\ want[c] # "no_handshake"
    \/ /\ task[c] \in {"first", "serve", "drain"}
       /\ \E after \in {"head", "busy", "idle", "closed"} :
             HttpStep(want[c], http[c], after, Draining(c))

(* A poll of serve_future: bytes, an answer, or nothing for now.           *)
ServeConn(c) ==
    /\ \/ HttpStep(want[c], http[c], http'[c], Draining(c))
       \/ ~HasBytes(c) /\ http'[c] = http[c]
    /\ want' = IF http[c] = "busy" /\ http'[c] # "busy"
               THEN [want EXCEPT ![c] = "nothing"] ELSE want
    /\ UNCHANGED <<srvVars, test, at, errors>>

(* The task's other steps; a connection the acceptor refused is reported.  *)
TaskStep(c, failed) ==
    /\ errors' = IF failed THEN errors + 1 ELSE errors
    /\ UNCHANGED <<srvVars, testVars>>

(* The clients of the tests speak HTTP/1: one that is idle is closed by    *)
(* graceful_shutdown().                                                    *)
Connection(tls, frt, c) ==
    \/ S(tls, frt)!FirstServe(c) /\ ServeConn(c)
    \/ S(tls, frt)!Serve(c) /\ ServeConn(c)
    \/ S(tls, frt)!Drain(c) /\ ServeConn(c)
    \/ /\ S(tls, frt)!Scheduled(c) \/ HasBytes(c)
       /\ S(tls, frt)!Pass(c)
       /\ TaskStep(c, FALSE)
    \/ /\ task[c] = "accept0" \/ want[c] = "no_handshake"
       /\ S(tls, frt)!AcceptPending(c)
       /\ TaskStep(c, FALSE)
    \/ /\ ~Has("failing_acceptor")
       /\ want[c] # "no_handshake"
       /\ S(tls, frt)!AcceptOk(c)
       /\ TaskStep(c, FALSE)
    \/ /\ Has("failing_acceptor")
       /\ S(tls, frt)!AcceptErr(c)
       /\ TaskStep(c, TRUE)
    \/ /\ S(tls, frt)!Notified(c)
       /\ ~(Draining(c)' /\ http'[c] = "idle")
       /\ TaskStep(c, S(tls, frt)!AcceptTimedOut(c))

(* The port is free or occupied.                                           *)
Socket == srv = "bind" => listener' = IF Has("occupied") THEN "failed" ELSE "open"

Serving(tls, frt) ==
    /\ \/ S(tls, frt)!ServeStep /\ Socket
       \/ S(tls, frt)!ReadyOk
       \/ \E c \in Clients : S(tls, frt)!AcceptStream(c) \/ S(tls, frt)!MakeOk(c)
       \/ S(tls, frt)!Continue("main") /\ UNCHANGED <<connVars, srvVars>>
    /\ UNCHANGED <<testVars, errors>>

(* Everything that can happen with no time passing.                        *)
Run ==
    \E tls, frt \in BOOLEAN :
        /\ tls = Has("tls")
        /\ frt = Has("first_request_timeout")
        /\ Serving(tls, frt) \/ \E c \in Clients : Connection(tls, frt, c)

Quiet == ~ENABLED Run

(* A timer runs out.  hyper's header read timeout closes a connection with *)
(* part of a request; as all is quiet, the poll finds no latch notified.   *)
HeaderReadTimeout(tls, frt, c) ==
    /\ Has("header_read_timeout")
    /\ task[c] \in {"first", "serve"}
    /\ http[c] = "head"
    /\ S(tls, frt)!PollServe(c, TRUE, task[c])
    /\ http'[c] = "closed"
    /\ UNCHANGED <<addr, conn_count, graceful_dur, latch, call, heard, srvVars>>

Timer ==
    \E tls, frt \in BOOLEAN :
        /\ tls = Has("tls")
        /\ frt = Has("first_request_timeout")
        /\ \/ \E c \in Clients : \/ S(tls, frt)!Elapse(c) /\ UNCHANGED srvVars
                                 \/ HeaderReadTimeout(tls, frt, c)
           \/ S(tls, frt)!DeadlineElapse
        /\ UNCHANGED <<testVars, errors>>
-----------------------------------------------------------------------------
(* The step of the script that comes next.  One that states what a test    *)
(* expects waits for it, as the test's await does, or never passes.        *)
Expected ==
    CASE Now[1] = "ok" -> want[Now[2]] = "nothing"
      [] Now[1] = "begun" -> http[Now[2]] = "busy" \/ want[Now[2]] = "nothing"
      [] Now[1] = "closed" -> Ended(Now[2])
      [] Now[1] = "ended" -> srv = Now[2]
      [] Now[1] = "count" -> conn_count = Now[2]
      [] Now[1] = "errors" -> errors = Now[2]
      [] Now[1] = "sleep" -> Quiet /\ (Now[2] = "long" => ~ENABLED Timer)
      [] OTHER -> FALSE

(* Time passes while the script waits for it.                              *)
Waits == /\ ~Done
         /\ Now[1] \in {"ok", "err", "closed", "ended"} \/ Now = <<"sleep", "long">>
Tick == Waits /\ Quiet /\ Timer

Advance == at' = at + 1 /\ UNCHANGED <<test, errors>>

Expect == /\ ~Done
          /\ Expected
          /\ Advance
          /\ UNCHANGED <<serverVars, want>>

Send == /\ ~Done
        /\ Now[1] = "send"
        /\ want' = [want EXCEPT ![Now[2]] = Now[3]]
        /\ Advance
        /\ UNCHANGED serverVars

Fails == /\ ~Done
         /\ Now[1] = "err"
         /\ Ended(Now[2])
         /\ want[Now[2]] # "nothing"
         /\ want' = [want EXCEPT ![Now[2]] = "nothing"]
         /\ Advance
         /\ UNCHANGED serverVars

Connects == /\ ~Done
            /\ Now[1] = "connect"
            /\ S(FALSE, FALSE)!Connect(Now[2])
            /\ Advance
            /\ UNCHANGED want

(* A call on the Handle; listening() is awaited.                           *)
Calls == /\ ~Done
         /\ \/ Now[1] = "shutdown" /\ S(FALSE, FALSE)!ShutdownStore("main")
            \/ Now[1] = "graceful" /\ S(FALSE, FALSE)!GracefulDur("main", Now[2])
            \/ /\ Now[1] = "listening"
               /\ heard["main"] = "pending"
               /\ S(FALSE, FALSE)!ListeningPoll("main")
         /\ IF Now[1] = "listening" THEN UNCHANGED <<at, test, errors>> ELSE Advance
         /\ UNCHANGED <<connVars, srvVars, want>>

Heard == /\ ~Done
         /\ Now[1] = "listening"
         /\ heard["main"] = Now[2]
         /\ Advance
         /\ UNCHANGED <<serverVars, want>>

(* The main task goes on when its call has returned.                       *)
Script == /\ call["main"] = "idle"
          /\ Expect \/ Send \/ Fails \/ Connects \/ Calls \/ Heard

Next == Run \/ Tick \/ Script

Spec == Init /\ [][Next]_allVars /\ WF_allVars(Next)
-----------------------------------------------------------------------------
(* Every test passes and every example does what its text says, in every   *)
(* order in which the runtime may poll the tasks: each expectation is met, *)
(* each await returns.                                                     *)
TestsPass == <>Done
=============================================================================
