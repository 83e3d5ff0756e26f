----------------------------- MODULE NotifyOnce -----------------------------
(***************************************************************************)
(* src/src/notify_once.rs: a flag and a tokio Notify that together make a  *)
(* one-shot notification.  Threads in Notifiers call notify_waiters(),     *)
(* tasks in Waiters await notified(); every access to shared memory is a   *)
(* step of its own, so all interleavings of the two are covered.           *)
(*                                                                         *)
(* tokio's Notify is external and modelled from how it is used here: it    *)
(* counts the calls of notify_waiters, a Notified future remembers the     *)
(* count it was created at, and enabling it registers it unless the count  *)
(* has moved since.                                                        *)
(***************************************************************************)
EXTENDS Naturals

CONSTANTS Notifiers,   \* threads that each call notify_waiters() once
          Waiters      \* tasks that await notified(), again and again

VARIABLES notified,    \* NotifyOnce.notified: the AtomicBool
          calls,       \* NotifyOnce.notify: calls of Notify::notify_waiters
          ready,       \* the Notified futures that have been woken
          registered,  \* the Notified futures in the Notify's list
          snapshot,    \* the count each Notified future was created at
          npc,         \* where each notifier is in notify_waiters()
          wpc          \* where each waiter is in notified()

vars == <<notified, calls, ready, registered, snapshot, npc, wpc>>

NotifierPCs == {"idle", "stored", "done"}
WaiterPCs == {"idle", "created", "enabled", "awaiting", "returned"}

TypeOK ==
    /\ notified \in BOOLEAN
    /\ calls \in Nat
    /\ ready \subseteq Waiters
    /\ registered \subseteq Waiters
    /\ snapshot \in [Waiters -> Nat]
    /\ npc \in [Notifiers -> NotifierPCs]
    /\ wpc \in [Waiters -> WaiterPCs]

Init ==
    /\ notified = FALSE
    /\ calls = 0
    /\ ready = {}
    /\ registered = {}
    /\ snapshot = [w \in Waiters |-> 0]
    /\ npc = [n \in Notifiers |-> "idle"]
    /\ wpc = [w \in Waiters |-> "idle"]
-----------------------------------------------------------------------------
(* Mutant: the flag is not stored, the wake is all there is.               *)
StoreOmitted(n) ==
    /\ npc[n] = "idle"
    /\ npc' = [npc EXCEPT ![n] = "stored"]
    /\ UNCHANGED <<notified, calls, ready, registered, snapshot, wpc>>

(* notify_waiters(): self.notified.store(true, SeqCst).                    *)
StoreNotified(n) ==
    /\ npc[n] = "idle"
    /\ notified' = TRUE
    /\ npc' = [npc EXCEPT ![n] = "stored"]
    /\ UNCHANGED <<calls, ready, registered, snapshot, wpc>>

(* notify_waiters(): self.notify.notify_waiters(), which empties the list  *)
(* of registered futures and wakes each of them.                           *)
NotifyWaiters(n) ==
    /\ npc[n] = "stored"
    /\ calls' = calls + 1
    /\ ready' = ready \cup registered
    /\ registered' = {}
    /\ npc' = [npc EXCEPT ![n] = "done"]
    /\ UNCHANGED <<notified, snapshot, wpc>>

(* notified(): pin!(self.notify.notified()).                               *)
CreateNotified(w) ==
    /\ wpc[w] = "idle"
    /\ snapshot' = [snapshot EXCEPT ![w] = calls]
    /\ wpc' = [wpc EXCEPT ![w] = "created"]
    /\ UNCHANGED <<notified, calls, ready, registered, npc>>

(* Mutant: enable() is not called, so the flag is looked at while the      *)
(* future is not in the list.                                              *)
EnableOmitted(w) ==
    /\ wpc[w] = "created"
    /\ wpc' = [wpc EXCEPT ![w] = "enabled"]
    /\ UNCHANGED <<notified, calls, ready, registered, snapshot, npc>>

(* notified(): notified.as_mut().enable().                                 *)
Enable(w) ==
    /\ wpc[w] = "created"
    /\ IF snapshot[w] = calls
       THEN registered' = registered \cup {w} /\ UNCHANGED ready
       ELSE ready' = ready \cup {w} /\ UNCHANGED registered
    /\ wpc' = [wpc EXCEPT ![w] = "enabled"]
    /\ UNCHANGED <<notified, calls, snapshot, npc>>

(* notified(): the flag is looked at only after enable(); if it is set the *)
(* call returns, and the Notified future is dropped.                       *)
CheckNotified(w) ==
    /\ wpc[w] = "enabled"
    /\ IF notified
       THEN /\ wpc' = [wpc EXCEPT ![w] = "returned"]
            /\ ready' = ready \ {w}
            /\ registered' = registered \ {w}
       ELSE /\ wpc' = [wpc EXCEPT ![w] = "awaiting"]
            /\ UNCHANGED <<ready, registered>>
    /\ UNCHANGED <<notified, calls, snapshot, npc>>

(* notified(): notified.await is over once the future has been woken.      *)
Awaited(w) ==
    /\ wpc[w] = "awaiting"
    /\ w \in ready
    /\ ready' = ready \ {w}
    /\ wpc' = [wpc EXCEPT ![w] = "returned"]
    /\ UNCHANGED <<notified, calls, registered, snapshot, npc>>

(* A call of notified() is dropped at its await point (a select! took      *)
(* another arm), or a later call is made by the same task.                 *)
Drop(w) ==
    /\ wpc[w] \in {"awaiting", "returned"}
    /\ wpc' = [wpc EXCEPT ![w] = "idle"]
    /\ ready' = ready \ {w}
    /\ registered' = registered \ {w}
    /\ UNCHANGED <<notified, calls, snapshot, npc>>

Notify(n) == StoreNotified(n) \/ NotifyWaiters(n)

Wait(w) == \/ CreateNotified(w) \/ Enable(w) \/ CheckNotified(w)
           \/ Awaited(w) \/ Drop(w)

Next == (\E n \in Notifiers : Notify(n)) \/ (\E w \in Waiters : Wait(w))

(* A call that has begun runs on: the lines of notify_waiters() and the    *)
(* first poll of notified() contain no await, and a woken task is polled.  *)
Fairness ==
    /\ \A n \in Notifiers : WF_vars(NotifyWaiters(n))
    /\ \A w \in Waiters : WF_vars(Enable(w) \/ CheckNotified(w)) /\ WF_vars(Awaited(w))

Safety == Init /\ [][Next]_vars

Spec == Safety /\ Fairness
-----------------------------------------------------------------------------
(* No waiter sleeps through the notification: when the flag is set and a   *)
(* waiter is asleep, its wake-up is on the way - it has been woken, or a   *)
(* notifier is between its store and its wake and the waiter is still in   *)
(* the list that wake empties (notify_once.rs, the comment in notified()). *)
NoLostWakeup ==
    \A w \in Waiters : wpc[w] = "awaiting" /\ notified =>
        \/ w \in ready
        \/ w \in registered /\ \E n \in Notifiers : npc[n] = "stored"

(* notified() never returns before the notification was made.              *)
NoSpuriousReturn ==
    \A w \in Waiters : wpc[w] = "returned" => notified

(* The inductive invariant behind the two.  It adds how the counter of the *)
(* Notify, the flag and the list fit together: the counter moves only      *)
(* after the flag is set, a future past enable() is in the list or woken,  *)
(* and one that went to sleep before the first wake was in its list.       *)
Inv ==
    /\ TypeOK
    /\ calls > 0 => notified
    /\ notified /\ calls = 0 => \E n \in Notifiers : npc[n] = "stored"
    /\ \A n \in Notifiers : npc[n] # "idle" => notified
    /\ \A w \in Waiters :
        /\ snapshot[w] <= calls
        /\ w \in ready => calls > 0
        /\ wpc[w] \in {"enabled", "awaiting"} => w \in registered \cup ready
        /\ wpc[w] = "awaiting" /\ calls > 0 => w \in ready
        /\ wpc[w] = "returned" => notified

(* A task that starts to wait, and is not dropped, returns once a          *)
(* notification has been made, in whatever order the steps of the two      *)
(* calls interleave.                                                       *)
EveryWaiterReturns ==
    \A w \in Waiters :
        (notified /\ wpc[w] \in {"created", "enabled", "awaiting"})
            ~> (wpc[w] \in {"returned", "idle"})
-----------------------------------------------------------------------------
(* The latch of module Latch: what is left of the counter is whether any   *)
(* call has reached it, and a waiter counts as registered once it sleeps.  *)
LatchOf == IF ~notified THEN "unset" ELSE IF calls = 0 THEN "stored" ELSE "woken"

WaiterOf == [w \in Waiters |->
                IF wpc[w] \in {"idle", "created", "enabled"} THEN "idle"
                ELSE IF wpc[w] = "awaiting" THEN "registered" ELSE "returned"]

L == INSTANCE Latch WITH state <- LatchOf, waiter <- WaiterOf

(* NotifyOnce implements the one-shot latch, fairness included: a          *)
(* registered waiter can be woken whenever the latch says so.              *)
ImplementsLatch == L!Spec
=============================================================================
