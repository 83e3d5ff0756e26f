------------------------------- MODULE Handle -------------------------------
(***************************************************************************)
(* src/src/handle.rs: the state a Handle, its clones, the serve() future   *)
(* and every connection task share, and the calls an application makes on  *)
(* a Handle.                                                               *)
(*                                                                         *)
(* Each NotifyOnce is a latch of module LatchState; what module NotifyOnce *)
(* shows of the code is all that is used of it.  A critical section, an    *)
(* atomic operation and each of the two effects of notify_waiters is one   *)
(* step, so the calls of several threads interleave as finely as they can. *)
(***************************************************************************)
EXTENDS Naturals, FiniteSets, LatchState

CONSTANTS Users,   \* threads or tasks of the application that hold a Handle
          Ops      \* the calls they make, of AllOps

AllOps == {"shutdown", "graceful_none", "graceful_some", "listening"}

ASSUME OpsAssumption == Ops \subseteq AllOps

VARIABLES addr,          \* HandleInner.addr
          conn_count,    \* HandleInner.conn_count
          graceful_dur,  \* HandleInner.graceful_dur
          latch,         \* addr_notify, shutdown, graceful and conn_end
          call,          \* where each user is in a call on its Handle
          heard          \* what each user's last listening() returned

handleVars == <<addr, conn_count, graceful_dur, latch, call, heard>>

Options == {"None", "Some"}
LatchNames == {"addr_notify", "shutdown", "graceful", "conn_end"}
CallPCs == {"idle", "shutdown_wake", "graceful_store", "graceful_wake",
            "listening", "read_addr"}

HandleTypeOK ==
    /\ addr \in Options
    /\ conn_count \in Nat
    /\ graceful_dur \in Options
    /\ latch \in [LatchNames -> LatchStates]
    /\ call \in [Users -> CallPCs]
    /\ heard \in [Users -> Options \cup {"pending"}]

(* HandleInner::default().                                                 *)
HandleInit ==
    /\ addr = "None"
    /\ conn_count = 0
    /\ graceful_dur = "None"
    /\ latch = [l \in LatchNames |-> "unset"]
    /\ call = [u \in Users |-> "idle"]
    /\ heard = [u \in Users |-> "pending"]
-----------------------------------------------------------------------------
(* A task that polls a wait on latch l: a future it has just created reads *)
(* the flag, one that it has polled before has to have been woken.         *)
Sees(l, fresh) == IF fresh THEN IsNotified(latch[l]) ELSE IsWoken(latch[l])

Store(l) == latch' = [latch EXCEPT ![l] = StoreFlag(@)]
Wake(l) == latch' = [latch EXCEPT ![l] = WakeAll(@)]

Goto(u, pc) == call' = [call EXCEPT ![u] = pc]

(* Handle::shutdown.                                                       *)
ShutdownStore(u) ==
    /\ "shutdown" \in Ops
    /\ call[u] = "idle"
    /\ Store("shutdown")
    /\ Goto(u, "shutdown_wake")
    /\ UNCHANGED <<addr, conn_count, graceful_dur, heard>>

ShutdownWake(u) ==
    /\ call[u] = "shutdown_wake"
    /\ Wake("shutdown")
    /\ Goto(u, "idle")
    /\ UNCHANGED <<addr, conn_count, graceful_dur, heard>>

(* Handle::graceful_shutdown(d): the duration is written in a critical     *)
(* section of its own before the latch is notified.                        *)
GracefulDur(u, d) ==
    /\ IF d = "None" THEN "graceful_none" \in Ops ELSE "graceful_some" \in Ops
    /\ call[u] = "idle"
    /\ graceful_dur' = d
    /\ Goto(u, "graceful_store")
    /\ UNCHANGED <<addr, conn_count, latch, heard>>

GracefulStore(u) ==
    /\ call[u] = "graceful_store"
    /\ Store("graceful")
    /\ Goto(u, "graceful_wake")
    /\ UNCHANGED <<addr, conn_count, graceful_dur, heard>>

(* Mutant: those who wait already are not woken.                           *)
GracefulUnwoken(u) ==
    /\ call[u] = "graceful_wake"
    /\ Goto(u, "idle")
    /\ UNCHANGED <<addr, conn_count, graceful_dur, latch, heard>>

GracefulWake(u) ==
    /\ call[u] = "graceful_wake"
    /\ Wake("graceful")
    /\ Goto(u, "idle")
    /\ UNCHANGED <<addr, conn_count, graceful_dur, heard>>

(* Mutant: listening() reads addr without waiting for the latch.           *)
ListeningUnlatched(u) ==
    /\ "listening" \in Ops
    /\ call[u] = "idle"
    /\ Goto(u, "read_addr")
    /\ UNCHANGED <<addr, conn_count, graceful_dur, latch, heard>>

(* Handle::listening: wait on addr_notify, then read addr.                 *)
ListeningPoll(u) ==
    /\ "listening" \in Ops
    /\ call[u] = "idle"
    /\ Goto(u, IF Sees("addr_notify", TRUE) THEN "read_addr" ELSE "listening")
    /\ UNCHANGED <<addr, conn_count, graceful_dur, latch, heard>>

ListeningWoken(u) ==
    /\ call[u] = "listening"
    /\ Sees("addr_notify", FALSE)
    /\ Goto(u, "read_addr")
    /\ UNCHANGED <<addr, conn_count, graceful_dur, latch, heard>>

ReadAddr(u) ==
    /\ call[u] = "read_addr"
    /\ heard' = [heard EXCEPT ![u] = addr]
    /\ Goto(u, "idle")
    /\ UNCHANGED <<addr, conn_count, graceful_dur, latch>>

(* What a user does to finish a call it has begun.                         *)
Continue(u) ==
    \/ ShutdownWake(u) \/ GracefulStore(u) \/ GracefulWake(u)
    \/ ListeningWoken(u) \/ ReadAddr(u)

User(u) ==
    \/ ShutdownStore(u)
    \/ \E d \in Options : GracefulDur(u, d)
    \/ ListeningPoll(u)
    \/ Continue(u)
=============================================================================
