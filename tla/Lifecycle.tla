----------------------------- MODULE Lifecycle ------------------------------
(***************************************************************************)
(* What a Handle and serve() promise the application, without tasks,       *)
(* select!s, timers or counters: connections are served until one of the   *)
(* two shutdowns is asked for, none is taken into service after it, and    *)
(* serve() returns once, for a reason that holds when it returns.          *)
(***************************************************************************)
EXTENDS LatchState

CONSTANT Conns

VARIABLES graceful,    \* graceful_shutdown() has been called, everyone told
          shutdown,    \* shutdown() likewise; the deadline of a drain calls it
          served,      \* connections in service
          straddled,   \* a connection's end and graceful_shutdown() overlap
          outcome      \* how serve() returned, or "running"

vars == <<graceful, shutdown, served, straddled, outcome>>

Outcomes == {"ok_shutdown", "ok_drained", "ok_deadline", "err", "dropped"}

Init ==
    /\ graceful = "unset"
    /\ shutdown = "unset"
    /\ served = {}
    /\ straddled = FALSE
    /\ outcome = "running"

(* A latch goes forward or stays.                                          *)
Forward(l, m) == m \in {l, StoreFlag(l), WakeAll(l)}

AskGraceful ==
    /\ Forward(graceful, graceful')
    /\ UNCHANGED <<shutdown, served, straddled, outcome>>

AskShutdown ==
    /\ Forward(shutdown, shutdown')
    /\ UNCHANGED <<graceful, served, straddled, outcome>>

(* No connection is taken into service once everyone is told of a shutdown *)
Admit(c) ==
    /\ c \notin served
    /\ ~IsWoken(graceful)
    /\ ~IsWoken(shutdown)
    /\ served' = served \cup {c}
    /\ UNCHANGED <<graceful, shutdown, straddled, outcome>>

Close(c) ==
    /\ c \in served
    /\ served' = served \ {c}
    /\ UNCHANGED <<graceful, shutdown, straddled, outcome>>

(* Which connection ends overlap the call is for the scheduler to say.     *)
Straddle ==
    /\ straddled' \in BOOLEAN
    /\ UNCHANGED <<graceful, shutdown, served, outcome>>

(* serve() returns Ok because of shutdown(); because the connections have  *)
(* ended after graceful_shutdown(); because its deadline has passed, and   *)
(* then everyone is told to stop.  It can also fail or be dropped.         *)
Return(r) ==
    /\ outcome = "running"
    /\ r = "ok_shutdown" => IsNotified(shutdown)
    /\ r = "ok_drained" => IsNotified(graceful) /\ (straddled \/ served = {})
    /\ r = "ok_deadline" => IsNotified(graceful) /\ IsWoken(shutdown')
    /\ Forward(shutdown, shutdown')
    /\ outcome' = r
    /\ UNCHANGED <<graceful, served, straddled>>

Next ==
    \/ AskGraceful \/ AskShutdown \/ Straddle
    \/ \E c \in Conns : Admit(c) \/ Close(c)
    \/ \E r \in Outcomes : Return(r)

Spec == Init /\ [][Next]_vars
=============================================================================
