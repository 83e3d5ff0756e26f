----------------------------- MODULE LatchState -----------------------------
(***************************************************************************)
(* The states a NotifyOnce goes through, and what a task that polls its    *)
(* `notified()` future sees in each.  A call of NotifyOnce::notify_waiters *)
(* has two effects that other threads can tell apart: it stores the flag,  *)
(* then it wakes the futures that are registered with the tokio Notify.    *)
(*                                                                         *)
(*   "unset"   no call has stored the flag                                 *)
(*   "stored"  the flag is set, the registered futures are not yet woken   *)
(*   "woken"   some call has also woken the registered futures             *)
(*                                                                         *)
(* Module NotifyOnce shows that the code behaves like this; modules Handle *)
(* and above use a latch through these operators only.                     *)
(***************************************************************************)

LatchStates == {"unset", "stored", "woken"}

(* The flag, as NotifyOnce::is_notified and the first poll of a new        *)
(* `notified()` future read it.                                            *)
IsNotified(s) == s # "unset"

(* What a future sees that was polled before and is registered.            *)
IsWoken(s) == s = "woken"

(* The two effects of notify_waiters; both are idempotent.                 *)
StoreFlag(s) == IF s = "unset" THEN "stored" ELSE s
WakeAll(s) == "woken"
=============================================================================
