----------------------------- MODULE Connection -----------------------------
(***************************************************************************)
(* The task that Server::serve spawns for a connection (src/src/server.rs) *)
(* and the drop of its Watcher (src/src/handle.rs).                        *)
(*                                                                         *)
(* A task is a sequence of select!s.  The one at "x0" is polled for the    *)
(* first time, the one at "x" has been polled before and its waits on the  *)
(* latches are registered.  A poll goes through the arms in order, and     *)
(* "arm" counts the arms on a latch it is past: a latch can be notified by *)
(* another thread after the look at it and before the rest of the poll.    *)
(***************************************************************************)
EXTENDS Handle

CONSTANTS Conns,                \* the connections clients open
          Tls,                  \* the acceptor has a handshake to do
          FirstRequestTimeout   \* Server.first_request_timeout is Some(_)

ASSUME ConnAssumption == /\ IsFiniteSet(Conns)
                         /\ Tls \in BOOLEAN
                         /\ FirstRequestTimeout \in BOOLEAN

VARIABLES task,      \* where each connection or its task is
          arm,       \* arms on a latch that the poll of its select! is past
          http,      \* what hyper has made of the connection's bytes
          elapsed,   \* the timer of the select! the task is in has run out
          rx,        \* first_request_rx: a request has been dispatched
          stale      \* history: drops that brought the count to zero before
                     \* the graceful latch was set, and may yet see it set

connVars == <<task, arm, http, elapsed, rx, stale>>

(* Before the task: not connected, in the listener's backlog, accepted but *)
(* not yet spawned, turned away.                                           *)
Unspawned == {"outside", "queued", "held", "refused"}
Accepting == {"accept0", "accept"}
First == {"first0", "first"}
Serving == {"serve0", "serve"}
Draining == {"drain0", "drain"}
(* The acceptor is done and hyper has the connection.                      *)
Open == First \cup Serving \cup Draining
(* The task holds its Watcher.                                             *)
Watching == Accepting \cup Open \cup {"exit"}
(* Inside Watcher::drop: before is_notified(), before the wake of conn_end *)
Dropping == {"drop_check", "drop_wake"}

HttpStates == {"new", "head", "busy", "idle", "closed"}

ConnTypeOK ==
    /\ task \in [Conns -> Unspawned \cup Watching \cup Dropping \cup {"gone"}]
    /\ arm \in [Conns -> 0..2]
    /\ http \in [Conns -> HttpStates]
    /\ elapsed \in [Conns -> BOOLEAN]
    /\ rx \in [Conns -> BOOLEAN]
    /\ stale \subseteq Conns

ConnInit ==
    /\ task = [c \in Conns |-> "outside"]
    /\ arm = [c \in Conns |-> 0]
    /\ http = [c \in Conns |-> "new"]
    /\ elapsed = [c \in Conns |-> FALSE]
    /\ rx = [c \in Conns |-> FALSE]
    /\ stale = {}

(* A poll of the select! ends, or the task goes on to the next one.        *)
Move(c, pc) == /\ task' = [task EXCEPT ![c] = pc]
               /\ arm' = [arm EXCEPT ![c] = 0]

Fresh == {"accept0", "first0", "serve0", "drain0"}

(* A poll of connection c's wait on latch l.                               *)
SeesIn(c, l) == Sees(l, task[c] \in Fresh)

(* The arm that the poll has come to is on latch l.  The two arms of the   *)
(* first select! are looked at in one step, as both just return.           *)
Looks(c, l) ==
    \/ task[c] \in Accepting /\ arm[c] = 0 /\ l \in {"shutdown", "graceful"}
    \/ task[c] \in First /\ \/ arm[c] = 0 /\ l = "shutdown"
                            \/ arm[c] = 1 /\ l = "graceful"
    \/ task[c] \in Serving /\ \/ arm[c] = 0 /\ l = "graceful"
                              \/ arm[c] = 1 /\ l = "shutdown"
    \/ task[c] \in Draining /\ arm[c] = 0 /\ l = "shutdown"

(* It finds the latch notified.                                            *)
Told(c, l) == Looks(c, l) /\ SeesIn(c, l)

(* It does not and goes on to the next arm ...                             *)
Pass(c) ==
    /\ \E l \in LatchNames : Looks(c, l)
    /\ \A l \in LatchNames : ~Told(c, l)
    /\ arm' = [arm EXCEPT ![c] = @ + 1]
    /\ UNCHANGED <<handleVars, task, http, elapsed, rx, stale>>

(* ... until it is past all arms on a latch.                               *)
Past(c) == \A l \in LatchNames : ~Looks(c, l)
-----------------------------------------------------------------------------
(* hyper, external.  A connection is "new" until its first byte, has part  *)
(* of a request ("head"), a request being answered ("busy") or is "idle"   *)
(* between requests; "closed" completes the future.  One poll goes as far  *)
(* as the client's bytes and the service allow, and may call the service:  *)
(* a step is <<what the connection becomes, whether it was "called">>.     *)
HyperSteps(h, keep_alive) ==
    IF h = "closed" THEN {<<"closed", "not">>}
    ELSE {<<h, "not">>, <<"closed", "not">>}
         \cup (IF h \in {"new", "head", "idle"}
               THEN {<<"head", "not">>, <<"busy", "called">>, <<"closed", "called">>}
               ELSE {})
         \cup (IF keep_alive
               THEN {<<"busy", "called">>, <<"idle", "called">>}
               ELSE {})
         \cup (IF keep_alive /\ h = "busy"
               THEN {<<"head", "not">>, <<"idle", "not">>}
               ELSE {})

(* graceful_shutdown() on hyper's connection turns keep-alive off: one on  *)
(* which nothing is under way closes, any other finishes its request.  One *)
(* that is idle stays until its client has answered a ping if it speaks    *)
(* HTTP/2.  Part of a request that is not the first, or that does not yet  *)
(* tell HTTP/1 from HTTP/2, is also given up.                              *)
HyperGraceful(h) ==
    CASE h \in {"new", "closed"} -> {"closed"}
      [] h \in {"head", "idle"} -> {h, "closed"}
      [] h = "busy" -> {"busy"}

(* A poll of serve_future.  FirstRequestService::call sends on the channel *)
(* when hyper first hands it a request.                                    *)
PollServe(c, keep_alive, next) ==
    \E s \in HyperSteps(http[c], keep_alive) :
        /\ http' = [http EXCEPT ![c] = s[1]]
        /\ rx' = [rx EXCEPT ![c] = @ \/ (FirstRequestTimeout /\ s[2] = "called")]
        /\ Move(c, IF s[1] = "closed" THEN "exit" ELSE next)
        /\ UNCHANGED <<elapsed, stale>>

(* Mutant: the acceptor's handshake has no timeout.                        *)
ElapseFirstOnly(c) ==
    /\ task[c] \in First
    /\ ~elapsed[c]
    /\ elapsed' = [elapsed EXCEPT ![c] = TRUE]
    /\ UNCHANGED <<handleVars, task, arm, http, rx, stale>>

(* Time passes while a task waits on a timer: the acceptor's handshake     *)
(* timeout, or sleep(timeout) in the first-request select!.                *)
Elapse(c) ==
    /\ task[c] = "accept" \/ task[c] \in First
    /\ ~elapsed[c]
    /\ elapsed' = [elapsed EXCEPT ![c] = TRUE]
    /\ UNCHANGED <<handleVars, task, arm, http, rx, stale>>
-----------------------------------------------------------------------------
(* The first select!: shutdown, graceful shutdown, the acceptor.           *)
AcceptCancelled(c) ==
    /\ task[c] \in Accepting
    /\ Told(c, "shutdown") \/ Told(c, "graceful")
    /\ Move(c, "exit")
    /\ UNCHANGED <<handleVars, http, elapsed, rx, stale>>

(* Mutant: the select! is not biased, the acceptor may be polled first.    *)
PollAcceptorUnlooked(c) == task[c] \in Accepting

PollAcceptor(c) == task[c] \in Accepting /\ Past(c)

AcceptOk(c) ==
    /\ PollAcceptor(c)
    /\ Move(c, IF FirstRequestTimeout THEN "first0" ELSE "serve0")
    /\ elapsed' = [elapsed EXCEPT ![c] = FALSE]
    /\ UNCHANGED <<handleVars, http, rx, stale>>

(* An error of the acceptor, or a panic in it: both end the task, and      *)
(* unwinding drops the Watcher too.                                        *)
AcceptErr(c) ==
    /\ PollAcceptor(c)
    /\ Move(c, "exit")
    /\ UNCHANGED <<handleVars, http, elapsed, rx, stale>>

(* The handshake waits for the client; its timer starts in the first poll. *)
AcceptPending(c) ==
    /\ PollAcceptor(c)
    /\ Tls
    /\ ~elapsed[c]
    /\ Move(c, "accept")
    /\ UNCHANGED <<handleVars, http, elapsed, rx, stale>>

AcceptTimedOut(c) == task[c] = "accept" /\ elapsed[c] /\ AcceptErr(c)
-----------------------------------------------------------------------------
(* The second select!, entered when there is a first_request_timeout:      *)
(* shutdown, graceful shutdown, the timer, the channel, serve_future.      *)
FirstShutdown(c) ==
    /\ task[c] \in First
    /\ Told(c, "shutdown")
    /\ Move(c, "exit")
    /\ UNCHANGED <<handleVars, http, elapsed, rx, stale>>

FirstGraceful(c) ==
    /\ task[c] \in First
    /\ Told(c, "graceful")
    /\ Move(c, "serve0")
    /\ UNCHANGED <<handleVars, http, elapsed, rx, stale>>

FirstUnnotified(c) == task[c] \in First /\ Past(c)

(* Mutant: the timer closes only connections that have sent nothing.       *)
TimedOutIfSilent(c) ==
    /\ FirstUnnotified(c)
    /\ elapsed[c]
    /\ http[c] = "new"
    /\ Move(c, "exit")
    /\ UNCHANGED <<handleVars, http, elapsed, rx, stale>>

FirstTimedOut(c) ==
    /\ FirstUnnotified(c)
    /\ elapsed[c]
    /\ Move(c, "exit")
    /\ UNCHANGED <<handleVars, http, elapsed, rx, stale>>

(* The sender lives in the service inside serve_future, so while the task  *)
(* is in this select! the channel is never closed without a send.          *)
FirstDispatched(c) ==
    /\ FirstUnnotified(c)
    /\ ~elapsed[c]
    /\ rx[c]
    /\ Move(c, "serve0")
    /\ UNCHANGED <<handleVars, http, elapsed, rx, stale>>

FirstServe(c) ==
    /\ FirstUnnotified(c)
    /\ ~elapsed[c]
    /\ ~rx[c]
    /\ PollServe(c, TRUE, "first")
    /\ UNCHANGED handleVars
-----------------------------------------------------------------------------
(* Mutant: the graceful arm ends the task.                                 *)
ServeGracefulDrops(c) ==
    /\ task[c] \in Serving
    /\ Told(c, "graceful")
    /\ Move(c, "exit")
    /\ UNCHANGED <<handleVars, http, elapsed, rx, stale>>

(* The last select!: graceful shutdown, shutdown, serve_future; and the    *)
(* one inside its first arm: shutdown, serve_future.                       *)
ServeGraceful(c) ==
    /\ task[c] \in Serving
    /\ Told(c, "graceful")
    /\ \E h \in HyperGraceful(http[c]) : http' = [http EXCEPT ![c] = h]
    /\ Move(c, "drain0")
    /\ UNCHANGED <<handleVars, elapsed, rx, stale>>

ServeShutdown(c) ==
    /\ task[c] \in Serving
    /\ Told(c, "shutdown")
    /\ Move(c, "exit")
    /\ UNCHANGED <<handleVars, http, elapsed, rx, stale>>

(* Mutant: the select! has no shutdown arm.                                *)
ServeUnstopped(c) ==
    /\ task[c] \in Serving
    /\ ~Looks(c, "graceful")
    /\ PollServe(c, TRUE, "serve")
    /\ UNCHANGED handleVars

Serve(c) ==
    /\ task[c] \in Serving
    /\ Past(c)
    /\ PollServe(c, TRUE, "serve")
    /\ UNCHANGED handleVars

(* Mutant: a draining connection is closed by shutdown() only when it has  *)
(* no request under way.                                                   *)
DrainShutdownIfIdle(c) ==
    /\ task[c] \in Draining
    /\ Told(c, "shutdown")
    /\ http[c] # "busy"
    /\ Move(c, "exit")
    /\ UNCHANGED <<handleVars, http, elapsed, rx, stale>>

DrainShutdown(c) ==
    /\ task[c] \in Draining
    /\ Told(c, "shutdown")
    /\ Move(c, "exit")
    /\ UNCHANGED <<handleVars, http, elapsed, rx, stale>>

Drain(c) ==
    /\ task[c] \in Draining
    /\ Past(c)
    /\ PollServe(c, FALSE, "drain")
    /\ UNCHANGED handleVars
-----------------------------------------------------------------------------
(* Watcher::drop at the end of the task, whose connection and timer are    *)
(* gone by then: conn_count.fetch_sub(1); if that was the last, look at    *)
(* the graceful latch; if it is set, conn_end.notify_waiters().            *)
EndTask(c, last) ==
    /\ task[c] = "exit"
    /\ conn_count' = conn_count - 1
    /\ Move(c, IF last THEN "drop_check" ELSE "gone")
    /\ stale' = IF last /\ ~IsNotified(latch["graceful"]) THEN stale \cup {c} ELSE stale
    /\ http' = [http EXCEPT ![c] = "closed"]
    /\ elapsed' = [elapsed EXCEPT ![c] = FALSE]
    /\ rx' = [rx EXCEPT ![c] = FALSE]
    /\ UNCHANGED <<addr, graceful_dur, latch, call, heard>>

(* Mutants: the value before the subtraction is compared with zero; every  *)
(* drop looks at the latch.                                                *)
DropSubOffByOne(c) == EndTask(c, conn_count = 0)
DropSubUnchecked(c) == EndTask(c, TRUE)

DropSub(c) == EndTask(c, conn_count - 1 = 0)

DropCheck(c) ==
    /\ task[c] = "drop_check"
    /\ IF IsNotified(latch["graceful"])
       THEN Store("conn_end") /\ Move(c, "drop_wake") /\ UNCHANGED stale
       ELSE UNCHANGED latch /\ Move(c, "gone") /\ stale' = stale \ {c}
    /\ UNCHANGED <<addr, conn_count, graceful_dur, call, heard, http, elapsed, rx>>

DropWake(c) ==
    /\ task[c] = "drop_wake"
    /\ Wake("conn_end")
    /\ Move(c, "gone")
    /\ UNCHANGED <<addr, conn_count, graceful_dur, call, heard, http, elapsed, rx, stale>>
-----------------------------------------------------------------------------
(* What the task does whatever the client does, and what waits for the     *)
(* client: the end of a handshake, and bytes for hyper.                    *)
Notified(c) ==
    \/ AcceptCancelled(c) \/ AcceptTimedOut(c)
    \/ FirstShutdown(c) \/ FirstGraceful(c) \/ FirstTimedOut(c) \/ FirstDispatched(c)
    \/ ServeGraceful(c) \/ ServeShutdown(c) \/ DrainShutdown(c)
    \/ DropSub(c) \/ DropCheck(c) \/ DropWake(c)

Client(c) ==
    \/ AcceptOk(c) \/ AcceptErr(c) \/ AcceptPending(c)
    \/ FirstServe(c) \/ Serve(c) \/ Drain(c)

Task(c) == Pass(c) \/ Notified(c) \/ Client(c) \/ Elapse(c)

(* The runtime polls a task that is new, has begun a poll or is woken: by  *)
(* a latch its select! waits on, its timer or its channel.                 *)
Scheduled(c) ==
    \/ task[c] \in Fresh
    \/ arm[c] > 0
    \/ SeesIn(c, "shutdown")
    \/ task[c] \notin Draining /\ SeesIn(c, "graceful")
    \/ task[c] \in Accepting \cup First /\ elapsed[c]
    \/ task[c] \in First /\ rx[c]
=============================================================================
