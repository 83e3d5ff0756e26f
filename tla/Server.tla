------------------------------- MODULE Server -------------------------------
(***************************************************************************)
(* Server::serve of src/src/server.rs, composed with the Handle it shares  *)
(* with the application and with the connection tasks it spawns.           *)
(*                                                                         *)
(* serve() is one future.  "polling" says that the current poll of it has  *)
(* gone past the shutdown arm of the outer select!: from there on the poll *)
(* runs to its next pending await without looking at shutdown again, and   *)
(* every new poll looks at shutdown first (Resume).                        *)
(***************************************************************************)
EXTENDS Connection

CONSTANT LocalAddrs   \* what get_local_addr().ok() may be of the bound socket

ASSUME LocalAddrsAssumption == LocalAddrs \subseteq Options

VARIABLES srv,        \* where serve() is
          polling,    \* the shutdown arm of this poll is behind
          listener,   \* incoming: not bound yet, open, failed to bind, dropped
          backoff,    \* accept() is in the sleep that follows an error
          deadline    \* sleep(duration) of wait_connections_end has run out

srvVars == <<srv, polling, listener, backoff, deadline>>
vars == <<handleVars, connVars, srvVars>>

Binding == {"bind", "set_addr", "addr_store", "addr_wake", "start"}
AcceptLoop == {"listen0", "listen", "graceful0", "graceful", "ready", "make"}
Waiting == {"timed_end0", "timed_end", "end0", "end"}
WaitEnd == {"count", "duration", "deadline_wake"} \cup Waiting
(* serve() has returned Ok by shutdown(), because the connections ended,   *)
(* or at the deadline; has returned Err; has been dropped by its caller.   *)
Ended == {"ok_shutdown", "ok_drained", "ok_deadline", "err", "dropped"}

TypeOK ==
    /\ HandleTypeOK
    /\ ConnTypeOK
    /\ srv \in Binding \cup AcceptLoop \cup WaitEnd \cup Ended
    /\ polling \in BOOLEAN
    /\ listener \in {"unbound", "open", "failed", "dropped"}
    /\ backoff \in BOOLEAN
    /\ deadline \in BOOLEAN

(* Server::bind has an address to bind, Server::from_listener and the      *)
(* from_* functions have a socket that is listening already.               *)
Init ==
    /\ HandleInit
    /\ ConnInit
    /\ srv = "bind"
    /\ polling = FALSE
    /\ listener \in {"unbound", "open"}
    /\ backoff = FALSE
    /\ deadline = FALSE

(* Mutant: the select! does not begin with shutdown when it is polled      *)
(* again.                                                                  *)
ResumeUnlooked == TRUE

(* A poll of serve() may begin, or is going on, past the shutdown arm.     *)
Resume == polling \/ ~Sees("shutdown", FALSE)

(* The listener goes, and with it the connections nobody has a task for.   *)
DropListener ==
    /\ listener' = "dropped"
    /\ task' = [c \in Conns |-> IF task[c] \in {"queued", "held"} THEN "refused"
                                                                  ELSE task[c]]
    /\ UNCHANGED <<arm, http, elapsed, rx, stale>>

(* The outer select! is over; the accept loop is dropped with its state.   *)
Leave(next) ==
    /\ srv' = next
    /\ polling' = FALSE
    /\ backoff' = FALSE
    /\ DropListener
    /\ UNCHANGED <<handleVars, deadline>>
-----------------------------------------------------------------------------
(* bind_incoming(), and notify_listening() with its result: addr, then the *)
(* two effects of addr_notify.notify_waiters().                            *)
Bind ==
    /\ srv = "bind"
    /\ listener' \in (IF listener = "open" THEN {"open"} ELSE {"open", "failed"})
    /\ srv' = "set_addr"
    /\ UNCHANGED <<handleVars, connVars, polling, backoff, deadline>>

SetAddr ==
    /\ srv = "set_addr"
    /\ addr' \in (IF listener = "open" THEN LocalAddrs ELSE {"None"})
    /\ srv' = "addr_store"
    /\ UNCHANGED <<conn_count, graceful_dur, latch, call, heard, connVars>>
    /\ UNCHANGED <<polling, listener, backoff, deadline>>

AddrStore ==
    /\ srv = "addr_store"
    /\ Store("addr_notify")
    /\ srv' = "addr_wake"
    /\ UNCHANGED <<addr, conn_count, graceful_dur, call, heard, connVars>>
    /\ UNCHANGED <<polling, listener, backoff, deadline>>

(* Mutant: a bind that failed notifies nobody.                             *)
AddrWakeIfBound ==
    /\ srv = "addr_wake"
    /\ IF listener = "open" THEN Wake("addr_notify") ELSE UNCHANGED latch
    /\ srv' = IF listener = "open" THEN "start" ELSE "err"
    /\ UNCHANGED <<addr, conn_count, graceful_dur, call, heard, connVars>>
    /\ UNCHANGED <<polling, listener, backoff, deadline>>

AddrWake ==
    /\ srv = "addr_wake"
    /\ Wake("addr_notify")
    /\ srv' = IF listener = "open" THEN "start" ELSE "err"
    /\ UNCHANGED <<addr, conn_count, graceful_dur, call, heard, connVars>>
    /\ UNCHANGED <<polling, listener, backoff, deadline>>

(* The outer select!, polled for the first time and then again after each  *)
(* pending await of the accept loop: shutdown first.                       *)
Start ==
    /\ srv = "start"
    /\ ~Sees("shutdown", TRUE)
    /\ srv' = "listen0"
    /\ polling' = TRUE
    /\ UNCHANGED <<handleVars, connVars, listener, backoff, deadline>>

Shutdown ==
    /\ \/ srv = "start" /\ Sees("shutdown", TRUE)
       \/ srv \in AcceptLoop /\ ~polling /\ Sees("shutdown", FALSE)
    /\ Leave("ok_shutdown")
-----------------------------------------------------------------------------
(* The select! of the accept loop: accept(), then graceful shutdown.  The  *)
(* loop makes new futures for every connection it takes ("listen0").       *)
Listening == srv \in {"listen0", "listen"} /\ Resume

AcceptStream(c) ==
    /\ Listening
    /\ ~backoff
    /\ task[c] = "queued"
    /\ Move(c, "held")
    /\ srv' = "ready"
    /\ polling' = TRUE
    /\ UNCHANGED <<handleVars, http, elapsed, rx, stale, listener, backoff, deadline>>

(* Polled to no avail, accept() leaves the poll to the graceful arm.       *)
NextArm == srv' = IF srv = "listen0" THEN "graceful0" ELSE "graceful"

(* accept_stream() fails; the handler is called and accept() sleeps.       *)
AcceptStreamErr ==
    /\ Listening
    /\ ~backoff
    /\ backoff' = TRUE
    /\ NextArm
    /\ polling' = TRUE
    /\ UNCHANGED <<handleVars, connVars, listener, deadline>>

BackoffDone ==
    /\ Listening
    /\ backoff
    /\ backoff' = FALSE
    /\ polling' = TRUE
    /\ UNCHANGED <<handleVars, connVars, srv, listener, deadline>>

(* Nothing to accept.  A parked loop is polled again only once it is woken *)
AcceptStreamPending ==
    /\ Listening
    /\ backoff \/ \A c \in Conns : task[c] # "queued"
    /\ srv = "listen0" \/ polling \/ Sees("graceful", FALSE)
    /\ NextArm
    /\ polling' = TRUE
    /\ UNCHANGED <<handleVars, connVars, listener, backoff, deadline>>

(* Mutant: drop(incoming) is missing.                                      *)
GracefulKeepsListener ==
    /\ srv \in {"graceful0", "graceful"}
    /\ Sees("graceful", srv = "graceful0")
    /\ srv' = "count"
    /\ UNCHANGED <<handleVars, connVars, polling, listener, backoff, deadline>>

(* The graceful arm: the loop returns and the listener is dropped before   *)
(* the wait for the connections begins.                                    *)
Graceful ==
    /\ srv \in {"graceful0", "graceful"}
    /\ Sees("graceful", srv = "graceful0")
    /\ Leave("count")

AcceptPark ==
    /\ srv \in {"graceful0", "graceful"}
    /\ ~Sees("graceful", srv = "graceful0")
    /\ srv' = "listen"
    /\ polling' = FALSE
    /\ UNCHANGED <<handleVars, connVars, listener, backoff, deadline>>

(* make_service.poll_ready(): an error ends serve().                       *)
ReadyOk ==
    /\ srv = "ready"
    /\ Resume
    /\ srv' = "make"
    /\ polling' = TRUE
    /\ UNCHANGED <<handleVars, connVars, listener, backoff, deadline>>

ReadyErr ==
    /\ srv = "ready"
    /\ Resume
    /\ Leave("err")

(* make_service() makes the service for the connection: the Watcher counts *)
(* it and its task is spawned.                                             *)
MakeOk(c) ==
    /\ srv = "make"
    /\ Resume
    /\ task[c] = "held"
    /\ conn_count' = conn_count + 1
    /\ Move(c, "accept0")
    /\ srv' = "listen0"
    /\ polling' = TRUE
    /\ UNCHANGED <<addr, graceful_dur, latch, call, heard>>
    /\ UNCHANGED <<http, elapsed, rx, stale, listener, backoff, deadline>>

(* Mutant: the connection is counted before make_service() and a failure   *)
(* leaves it counted.                                                      *)
MakeErrCounted(c) ==
    /\ srv = "make"
    /\ Resume
    /\ task[c] = "held"
    /\ conn_count' = conn_count + 1
    /\ Move(c, "refused")
    /\ srv' = "listen0"
    /\ polling' = TRUE
    /\ UNCHANGED <<addr, graceful_dur, latch, call, heard>>
    /\ UNCHANGED <<http, elapsed, rx, stale, listener, backoff, deadline>>

MakeErr(c) ==
    /\ srv = "make"
    /\ Resume
    /\ task[c] = "held"
    /\ Move(c, "refused")
    /\ srv' = "listen0"
    /\ polling' = TRUE
    /\ UNCHANGED <<handleVars, http, elapsed, rx, stale, listener, backoff, deadline>>

(* poll_ready() or make_service() is pending.                              *)
MakePark ==
    /\ srv \in {"ready", "make"}
    /\ polling
    /\ polling' = FALSE
    /\ UNCHANGED <<handleVars, connVars, srv, listener, backoff, deadline>>
-----------------------------------------------------------------------------
(* Handle::wait_connections_end, which does not wait on shutdown.          *)
LoadCount ==
    /\ srv = "count"
    /\ srv' = IF conn_count = 0 THEN "ok_drained" ELSE "duration"
    /\ UNCHANGED <<handleVars, connVars, polling, listener, backoff, deadline>>

ReadDuration ==
    /\ srv = "duration"
    /\ srv' = IF graceful_dur = "Some" THEN "timed_end0" ELSE "end0"
    /\ UNCHANGED <<handleVars, connVars, polling, listener, backoff, deadline>>

DeadlineElapse ==
    /\ srv \in {"timed_end0", "timed_end"}
    /\ ~deadline
    /\ deadline' = TRUE
    /\ UNCHANGED <<handleVars, connVars, srv, polling, listener, backoff>>

(* The deadline arm comes first and calls self.shutdown().                 *)
DeadlineStore ==
    /\ srv \in {"timed_end0", "timed_end"}
    /\ deadline
    /\ Store("shutdown")
    /\ srv' = "deadline_wake"
    /\ UNCHANGED <<addr, conn_count, graceful_dur, call, heard, connVars>>
    /\ UNCHANGED <<polling, listener, backoff, deadline>>

DeadlineWake ==
    /\ srv = "deadline_wake"
    /\ Wake("shutdown")
    /\ srv' = "ok_deadline"
    /\ UNCHANGED <<addr, conn_count, graceful_dur, call, heard, connVars>>
    /\ UNCHANGED <<polling, listener, backoff, deadline>>

ConnectionsEnded ==
    /\ srv \in Waiting
    /\ ~deadline
    /\ Sees("conn_end", srv \in {"timed_end0", "end0"})
    /\ srv' = "ok_drained"
    /\ UNCHANGED <<handleVars, connVars, polling, listener, backoff, deadline>>

(* Mutant: the wait registers without a look at the flag.                  *)
EndParkUnlooked ==
    /\ srv \in {"timed_end0", "end0"}
    /\ ~deadline
    /\ srv' = IF srv = "end0" THEN "end" ELSE "timed_end"
    /\ UNCHANGED <<handleVars, connVars, polling, listener, backoff, deadline>>

EndPark ==
    /\ srv \in {"timed_end0", "end0"}
    /\ ~deadline
    /\ ~Sees("conn_end", TRUE)
    /\ srv' = IF srv = "end0" THEN "end" ELSE "timed_end"
    /\ UNCHANGED <<handleVars, connVars, polling, listener, backoff, deadline>>
-----------------------------------------------------------------------------
(* The caller drops serve() at one of its awaits (an aborted task, a       *)
(* select! that took another arm); the connection tasks go on.             *)
ServeDropped ==
    /\ \/ srv \in {"bind", "timed_end", "end"}
       \/ srv \in AcceptLoop /\ ~polling
    /\ Leave("dropped")

(* A client connects: the system queues it on the listening socket.        *)
Connect(c) ==
    /\ listener = "open"
    /\ task[c] = "outside"
    /\ Move(c, "queued")
    /\ UNCHANGED <<handleVars, http, elapsed, rx, stale, srvVars>>

(* The steps serve() takes by itself, and those it takes when something    *)
(* outside it is ready: the listener, the make-service, the clock.         *)
ServeStep ==
    \/ Bind \/ SetAddr \/ AddrStore \/ AddrWake \/ Start \/ Shutdown
    \/ AcceptStreamPending \/ Graceful \/ AcceptPark
    \/ LoadCount \/ ReadDuration \/ DeadlineStore \/ DeadlineWake
    \/ ConnectionsEnded \/ EndPark

Next ==
    \/ \E u \in Users : User(u) /\ UNCHANGED <<connVars, srvVars>>
    \/ \E c \in Conns : Task(c) /\ UNCHANGED srvVars
    \/ \E c \in Conns : Connect(c) \/ AcceptStream(c) \/ MakeOk(c) \/ MakeErr(c)
    \/ ServeStep
    \/ AcceptStreamErr \/ BackoffDone \/ ReadyOk \/ ReadyErr \/ MakePark
    \/ DeadlineElapse \/ ServeDropped

Safety == Init /\ [][Next]_vars
-----------------------------------------------------------------------------
(* The runtime polls every task that is new or woken, timers fire, and a   *)
(* thread that has begun a call on its Handle finishes it.  Nothing is     *)
(* assumed of clients.                                                     *)
Poll(c) == Notified(c) \/ (Scheduled(c) /\ (Pass(c) \/ Client(c)))

Scheduling ==
    /\ \A u \in Users : WF_vars(Continue(u) /\ UNCHANGED <<connVars, srvVars>>)
    /\ \A c \in Conns : /\ WF_vars(Poll(c) /\ UNCHANGED srvVars)
                        /\ WF_vars(Elapse(c) /\ UNCHANGED srvVars)
    /\ WF_vars(ServeStep)
    /\ WF_vars(BackoffDone)
    /\ WF_vars(DeadlineElapse)

(* The application's make-service answers, and the listening socket does   *)
(* not fail for ever.                                                      *)
Environment ==
    /\ WF_vars(ReadyOk \/ ReadyErr)
    /\ \A c \in Conns : WF_vars(MakeOk(c) \/ MakeErr(c)) /\ SF_vars(AcceptStream(c))

(* Clients and services finish the requests that are under way, and answer *)
(* hyper's ping: a draining connection is polled until it is closed.       *)
RequestsFinish ==
    \A c \in Conns :
        /\ WF_vars(task[c] \in Draining /\ Pass(c) /\ UNCHANGED srvVars)
        /\ SF_vars(Drain(c) /\ http'[c] = "closed" /\ UNCHANGED srvVars)

Spec == Safety /\ Scheduling /\ Environment
-----------------------------------------------------------------------------
Watched == {c \in Conns : task[c] \in Watching}

(* connection_count() is the number of connection tasks that have not yet  *)
(* dropped their Watcher, whichever of its paths a task leaves by.         *)
CountInv == conn_count = Cardinality(Watched)

(* serve() never waits for an end that has already gone by: when the last  *)
(* Watcher is gone, conn_end has been notified (handle.rs, the load in     *)
(* wait_connections_end against the fetch_sub and is_notified in drop).    *)
NoLostConnEnd ==
    srv \in {"duration"} \cup Waiting
        /\ (\A c \in Conns : task[c] \notin Watching \cup Dropping)
    => IsWoken(latch["conn_end"])

(* What listening() returned is the address serve() published, never the   *)
(* initial None that notify_listening was about to overwrite.              *)
ListeningAgrees == \A u \in Users : heard[u] \in {"pending", addr}

(* After graceful_shutdown() serve() returns "drained" only when hyper has *)
(* no connection any more - unless a Watcher that brought the count to     *)
(* zero before the call looked at the graceful latch only after it.        *)
DrainedUnlessStale ==
    srv = "ok_drained" /\ stale = {} => \A c \in Conns : task[c] \notin Open

(* The inductive invariant behind these.                                   *)
(*                                                                         *)
(* serve() waits for the end, and conn_end is notified, only after the     *)
(* graceful latch is set ...                                               *)
GracefulFirst ==
    srv \in WaitEnd \cup {"ok_drained", "ok_deadline"} \/ IsNotified(latch["conn_end"])
    => IsNotified(latch["graceful"])

(* ... and from then on a task that is polled for the first time ends, so  *)
(* when none is past its first look at the latch none will ever be again.  *)
(* That is so when a drop that is not stale has brought the count to zero  *)
Admitting(c) == task[c] \in Accepting /\ arm[c] > 0
NoneOpen == \A c \in Conns : task[c] \notin Open \cup {"accept"} /\ ~Admitting(c)

FreshDropInv ==
    (\E c \in Conns : task[c] = "drop_check" /\ c \notin stale)
    => IsNotified(latch["graceful"]) /\ NoneOpen

(* ... and still when it has notified conn_end and serve() has returned.   *)
DrainInv ==
    stale = {} /\ (IsNotified(latch["conn_end"]) \/ srv = "ok_drained") => NoneOpen

(* notify_waiters() on conn_end stores the flag before it wakes.           *)
EndStored ==
    \A c \in Conns : task[c] = "drop_wake" => IsNotified(latch["conn_end"])

(* addr is final before anyone is told of it.                              *)
AddrInv ==
    /\ IsNotified(latch["addr_notify"]) => srv \notin {"bind", "set_addr", "addr_store"}
    /\ \A u \in Users : call[u] = "read_addr" \/ heard[u] # "pending"
                          => IsNotified(latch["addr_notify"])

CoreInv == /\ TypeOK
           /\ CountInv
           /\ GracefulFirst
           /\ NoLostConnEnd
           /\ FreshDropInv
           /\ DrainInv
           /\ EndStored
           /\ AddrInv
           /\ ListeningAgrees
-----------------------------------------------------------------------------
(* A client that has connected and has no task yet is in the backlog of an *)
(* open listener, or in the hands of a serve() that is making its service: *)
(* no error, no pending make-service and no way out of the accept loop     *)
(* leaves one behind with nobody to answer or to refuse it.                *)
NobodyStranded ==
    \A c \in Conns :
        /\ task[c] = "queued" => listener = "open" /\ srv \in Binding \cup AcceptLoop
        /\ task[c] = "held" => listener = "open" /\ srv \in {"ready", "make"}

(* notify_waiters() stores, then wakes.  Whoever has stored the flag of a  *)
(* latch still has the wake before it: no latch is left with its flag set  *)
(* and those who registered before asleep, not by a serve() that returns   *)
(* an error, times out or is dropped, either.                              *)
WakeOwed ==
    /\ latch["addr_notify"] = "stored" => srv = "addr_wake"
    /\ latch["shutdown"] = "stored" =>
           srv = "deadline_wake" \/ \E u \in Users : call[u] = "shutdown_wake"
    /\ latch["graceful"] = "stored" => \E u \in Users : call[u] = "graceful_wake"
    /\ latch["conn_end"] = "stored" => \E c \in Conns : task[c] = "drop_wake"

(* serve() has not told the address yet, or never will.                    *)
Untold == {"bind", "set_addr", "addr_store", "addr_wake", "dropped"}

(* listening() is not left asleep by a serve() that has bound or failed to *)
(* (handle.rs, notify_listening), and what it returns is the address that  *)
(* serve() published, and an address only of a listener that was bound.    *)
ListeningTold ==
    \A u \in Users :
        /\ call[u] = "listening" /\ srv \notin Untold => IsWoken(latch["addr_notify"])
        /\ heard[u] \in {"pending", addr}
        /\ heard[u] = "Some" => listener \in {"open", "dropped"}

(* The invariant behind these: one connection at a time is in the hands of *)
(* serve(), which has its listener until it leaves the accept loop ...     *)
HeldInv ==
    /\ srv \in {"ready", "make"} => \E c \in Conns : task[c] = "held"
    /\ \A c, d \in Conns : task[c] = "held" /\ task[d] = "held" => c = d

ListenerInv ==
    /\ srv = "bind" => listener \in {"unbound", "open"}
    /\ srv \in {"set_addr", "addr_store", "addr_wake"} => listener \in {"open", "failed"}
    /\ srv \in {"start"} \cup AcceptLoop => listener = "open"
    /\ srv \in WaitEnd \cup Ended => listener \in {"failed", "dropped"}

(* ... a poll of the accept loop that has begun is only ever left at a     *)
(* pending await, where shutdown is looked at again ...                    *)
PollInv ==
    /\ polling => srv \in AcceptLoop
    /\ srv \in {"listen0", "graceful0", "graceful"} => polling

(* ... and who has the wake of a latch before it has stored its flag.      *)
StoredInv ==
    /\ srv = "addr_wake" => IsNotified(latch["addr_notify"])
    /\ srv = "deadline_wake" => IsNotified(latch["shutdown"])
    /\ \A u \in Users :
          /\ call[u] = "shutdown_wake" => IsNotified(latch["shutdown"])
          /\ call[u] = "graceful_wake" => IsNotified(latch["graceful"])

ToldInv ==
    /\ srv \notin Untold => IsWoken(latch["addr_notify"])
    /\ addr = "Some" => listener \in {"open", "dropped"}

LoopInv == /\ NobodyStranded
           /\ HeldInv
           /\ ListenerInv
           /\ PollInv
           /\ WakeOwed
           /\ StoredInv
           /\ ToldInv

Inv == CoreInv /\ LoopInv
-----------------------------------------------------------------------------
(* README.md polls connection_count() after graceful_shutdown() and calls  *)
(* the server drained when it reads 0: from the moment that no task is     *)
(* past its first look at the latch, none ever is again - not one that is  *)
(* spawned later because the accept arm comes first in its select!, either *)
DrainIsFinal == [][IsNotified(latch["graceful"]) /\ NoneOpen => NoneOpen']_vars

(* README.md, "Shutdown without dropping requests": a task leaves a        *)
(* request that is being answered only when shutdown() has been called,    *)
(* by the application or at the deadline, or by the first-request timer.   *)
CutOnlyByShutdown ==
    [][\A c \in Conns :
        task[c] \in Open /\ http[c] = "busy" /\ task'[c] = "exit" =>
            \/ http'[c] = "closed"
            \/ IsNotified(latch["shutdown"])
            \/ task[c] \in First /\ elapsed[c]]_vars

(* The poll that the task is in has its look at shutdown behind it.        *)
PastShutdown(c) ==
    \/ task[c] \in Accepting \cup First /\ arm[c] > 0
    \/ task[c] \in Serving /\ arm[c] = 2
    \/ task[c] \in Draining /\ arm[c] > 0

(* server.rs, test_shutdown: "After shutdown, all client requests should   *)
(* fail."  Once shutdown() has woken those who wait, a task finishes at    *)
(* most the poll that had looked before and never begins another: outside  *)
(* such a poll no connection comes into service and hyper is given nothing *)
(* to do on those that are; and a serve() that was pending in its accept   *)
(* loop does nothing but return.                                           *)
ShutdownIsFinal ==
    [][IsWoken(latch["shutdown"]) =>
        /\ \A c \in Conns : ~PastShutdown(c) =>
              /\ ~PastShutdown(c)'
              /\ task'[c] \in Open => task[c] \in Open
              /\ task[c] \in Open => rx'[c] = rx[c] /\ http'[c] \in {http[c], "closed"}
        /\ srv \in AcceptLoop /\ ~polling => srv' \in {srv, "ok_shutdown", "dropped"}]_vars

(* How much a connection, and serve(), can still do.                       *)
TaskRank(pc) ==
    CASE pc = "outside" -> 11
      [] pc = "queued" -> 10
      [] pc = "held" -> 9
      [] pc \in Accepting -> 8
      [] pc \in First -> 7
      [] pc \in Serving -> 6
      [] pc \in Draining -> 5
      [] pc = "exit" -> 4
      [] pc = "drop_check" -> 3
      [] pc = "drop_wake" -> 2
      [] pc \in {"gone", "refused"} -> 1

(* A poll goes on to its end, or to a look at shutdown.                    *)
PollRank(pc, n) ==
    CASE pc \in First -> (IF n = 0 THEN 0 ELSE 3 - n)
      [] pc \in Serving -> (IF n = 2 THEN 2 ELSE 1 - n)
      [] OTHER -> (IF n = 0 THEN 0 ELSE 1)

Rank(c) == 4 * TaskRank(task[c]) + PollRank(task[c], arm[c])
                                 + (IF elapsed[c] THEN 0 ELSE 1)

ServeStage(pc) ==
    CASE pc = "bind" -> 18
      [] pc = "set_addr" -> 17
      [] pc = "addr_store" -> 16
      [] pc = "addr_wake" -> 15
      [] pc = "start" -> 14
      [] pc = "listen0" -> 13
      [] pc = "graceful0" -> 11
      [] pc = "listen" -> 10
      [] pc = "graceful" -> 8
      [] pc = "ready" -> 7
      [] pc = "make" -> 6
      [] pc = "count" -> 5
      [] pc = "duration" -> 4
      [] pc \in {"timed_end0", "end0"} -> 3
      [] pc \in {"timed_end", "end"} -> 2
      [] pc = "deadline_wake" -> 1
      [] pc \in Ended -> 0

(* A poll that has begun goes through the arms of a select! to its end.    *)
ServeRank == ServeStage(srv) + (IF polling THEN 4 ELSE 0) + (IF backoff THEN 1 ELSE 0)
                             + (IF deadline THEN 0 ELSE 1)

(* After shutdown() the server runs down: every step of serve(), a task or *)
(* a client brings a connection nearer to its end and none back, or leaves *)
(* them where they are and brings serve() nearer to its return.  No poll,  *)
(* timer or error keeps it going for ever.                                 *)
ShutdownRunsDown ==
    [][IsWoken(latch["shutdown"]) =>
        \/ UNCHANGED <<connVars, srvVars>>
        \/ /\ \A c \in Conns : Rank(c)' <= Rank(c)
           /\ \/ \E c \in Conns : Rank(c)' < Rank(c)
              \/ ServeRank' < ServeRank]_vars

(* The contract of module Lifecycle: a connection is in service while      *)
(* hyper has it, or the poll that may hand it over is under way.           *)
L == INSTANCE Lifecycle WITH
        graceful <- latch["graceful"],
        shutdown <- latch["shutdown"],
        served <- {c \in Conns : task[c] \in Open \/ Admitting(c)},
        straddled <- stale # {},
        outcome <- IF srv \in Ended THEN srv ELSE "running"

(* serve(), the connection tasks and the calls on the Handle implement it. *)
ImplementsLifecycle == L!Spec

(* README.md: "shutdown waits for requests that are still in flight".      *)
DrainComplete ==
    srv = "ok_drained" => \A c \in Conns : task[c] \in Open => http[c] # "busy"

(* server.rs: "Bound the time before the first request is dispatched"; its *)
(* test: "The connection has already served a request, so the first        *)
(* request timeout no longer applies."                                     *)
TimeoutSparesServed == [][\A c \in Conns : FirstTimedOut(c) => ~rx[c]]_vars
-----------------------------------------------------------------------------
(* shutdown() ends serve() and every connection task, wherever they are,   *)
(* with no help from clients.                                              *)
ShutdownEndsAll ==
    IsNotified(latch["shutdown"]) ~>
        srv \in Ended /\ \A c \in Conns : task[c] \notin Watching \cup Dropping

(* After graceful_shutdown() serve() returns, by its deadline if it has    *)
(* one and whatever clients do, or waits without a deadline because the    *)
(* last call before it looked gave none.                                   *)
GracefulReturns ==
    IsNotified(latch["graceful"]) ~> srv \in Ended \cup {"end0", "end"}

(* That wait ends too when the requests under way are finished.            *)
IndefiniteReturns ==
    RequestsFinish => (srv \in {"end0", "end"} ~> srv \in Ended)

(* A client in the backlog is taken or refused; none hangs because serve() *)
(* has stopped accepting and waits for other connections to end.           *)
NoClientHangs == \A c \in Conns : task[c] = "queued" ~> task[c] # "queued"

(* listening() returns, whether the bind succeeded or failed.              *)
ListeningReturns ==
    \A u \in Users : call[u] = "listening" ~> (call[u] # "listening" \/ srv = "dropped")

(* server.rs, first_request_timeout: "If the client does not send a        *)
(* complete first request within this duration, the connection is closed." *)
FirstRequestOrClosed ==
    \A c \in Conns : task[c] \in First ~> rx[c] \/ task[c] \notin Open

(* Until graceful_shutdown() is called that is so.                         *)
FirstRequestUnlessGraceful ==
    \A c \in Conns : task[c] \in First ~>
        rx[c] \/ task[c] \notin Open \/ IsNotified(latch["graceful"])

(* A TLS handshake the client does not finish ends with its timeout.       *)
HandshakeBounded == \A c \in Conns : task[c] \in Accepting ~> task[c] \notin Accepting
=============================================================================
