------------------------------ MODULE LatchUse ------------------------------
(***************************************************************************)
(* Server and the four latches of its Handle.  Modules Handle, Connection  *)
(* and Server read and write a latch by the operators of LatchState; here  *)
(* every wait of theirs is shown to be one that module Latch describes,    *)
(* which is what the code of NotifyOnce has been shown to implement.       *)
(***************************************************************************)
EXTENDS Server

(* A wait on a latch, seen from where the task is that makes it: it is     *)
(* "registered" from the look that found the latch unset; one that is      *)
(* dropped, or ends in the poll that returns from it, is "idle" again.     *)
Waits(registered, returned) ==
    IF registered THEN "registered" ELSE IF returned THEN "returned" ELSE "idle"

(* The poll that the task is in has its look at graceful behind it.        *)
PastGraceful(c) ==
    \/ Admitting(c)
    \/ task[c] \in First /\ arm[c] = 2
    \/ task[c] \in Serving /\ arm[c] > 0

(* The tasks on handle.wait_shutdown() and wait_graceful_shutdown().       *)
TaskShutdownWaits ==
    [c \in Conns |->
        Waits(task[c] \in {"accept", "first", "serve", "drain"} \/ PastShutdown(c), FALSE)]
TaskGracefulWaits ==
    [c \in Conns |->
        Waits(task[c] \in {"accept", "first", "serve"} \/ PastGraceful(c),
              task[c] \in Draining)]

(* serve() on both, and on conn_end in wait_connections_end.               *)
LoopShutdownWait == [w \in {"serve"} |-> Waits(srv \in AcceptLoop, srv = "ok_shutdown")]
LoopGracefulWait == [w \in {"serve"} |-> Waits(srv \in {"listen", "graceful"}, srv = "count")]
LoopConnEndWait == [w \in {"serve"} |-> Waits(srv \in {"timed_end", "end"}, FALSE)]

(* The callers of listening() on addr_notify.                              *)
ListeningWaits == [u \in Users |-> Waits(call[u] = "listening", call[u] = "read_addr")]

TS == INSTANCE Latch WITH
        Waiters <- Conns, state <- latch["shutdown"], waiter <- TaskShutdownWaits
TG == INSTANCE Latch WITH
        Waiters <- Conns, state <- latch["graceful"], waiter <- TaskGracefulWaits
LS == INSTANCE Latch WITH
        Waiters <- {"serve"}, state <- latch["shutdown"], waiter <- LoopShutdownWait
LG == INSTANCE Latch WITH
        Waiters <- {"serve"}, state <- latch["graceful"], waiter <- LoopGracefulWait
LE == INSTANCE Latch WITH
        Waiters <- {"serve"}, state <- latch["conn_end"], waiter <- LoopConnEndWait
UL == INSTANCE Latch WITH
        Waiters <- Users, state <- latch["addr_notify"], waiter <- ListeningWaits

(* The waits whose return leaves no trace of its own in the state, so that *)
(* the instances above cannot tell it from a wait that is dropped: a task  *)
(* leaves the arms on a latch of the select! it is in, and serve() its     *)
(* wait for the connections, only if the latch is notified - or another    *)
(* arm (the acceptor, the timer, the channel, hyper) has ended the select! *)
ReturnsTold ==
    [][/\ srv \in Waiting /\ srv' = "ok_drained" => IsNotified(latch["conn_end"])
       /\ \A c \in Conns :
             /\ task[c] \in Accepting /\ task'[c] = "exit" =>
                    \/ Admitting(c)
                    \/ IsNotified(latch["shutdown"])
                    \/ IsNotified(latch["graceful"])
             /\ task[c] \in Open /\ task'[c] = "exit" =>
                    \/ http'[c] = "closed"
                    \/ task[c] \in First /\ elapsed[c]
                    \/ IsNotified(latch["shutdown"])
             /\ task[c] \in First /\ task'[c] \in Serving =>
                    rx[c] \/ IsNotified(latch["graceful"])]_vars

(* serve(), the tasks and the callers of the Handle use every latch as     *)
(* module Latch allows: nobody goes to sleep on a latch whose flag is set, *)
(* nobody returns from a wait before the latch is notified, a flag is      *)
(* never taken back, and no wake comes before its store.                   *)
UsesLatches ==
    /\ TS!Safety /\ TG!Safety
    /\ LS!Safety /\ LG!Safety /\ LE!Safety
    /\ UL!Safety
    /\ ReturnsTold
=============================================================================
