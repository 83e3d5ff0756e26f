-------------------------- MODULE NotifyOnceProofs --------------------------
(***************************************************************************)
(* NotifyOnce for every number of notifiers and waiters: Inv is inductive, *)
(* it implies that no wake-up is lost and none is spurious, and the code   *)
(* is a step-by-step implementation of the latch of module Latch.          *)
(***************************************************************************)
EXTENDS NotifyOnce, TLAPS

(* A new NotifyOnce satisfies Inv.                                         *)
LEMMA InitInv == Init => Inv
<1> SUFFICES ASSUME Init PROVE Inv
  OBVIOUS
<1>1. TypeOK /\ ~notified
  BY DEF Init, TypeOK, NotifierPCs, WaiterPCs
<1> QED
  BY <1>1 DEF Init, Inv

(* No step of notify_waiters() or of notified() breaks Inv.                *)
LEMMA NextInv == Inv /\ [Next]_vars => Inv'
<1> SUFFICES ASSUME Inv, [Next]_vars PROVE Inv'
  OBVIOUS
<1> USE DEF Inv, TypeOK, NotifierPCs, WaiterPCs
<1>1. ASSUME NEW n \in Notifiers, StoreNotified(n) PROVE Inv'
  BY <1>1 DEF StoreNotified
<1>2. ASSUME NEW n \in Notifiers, NotifyWaiters(n) PROVE Inv'
  BY <1>2 DEF NotifyWaiters
<1>3. ASSUME NEW w \in Waiters, CreateNotified(w) PROVE Inv'
  BY <1>3 DEF CreateNotified
<1>4. ASSUME NEW w \in Waiters, Enable(w) PROVE Inv'
  BY <1>4 DEF Enable
<1>5. ASSUME NEW w \in Waiters, CheckNotified(w) PROVE Inv'
  BY <1>5 DEF CheckNotified
<1>6. ASSUME NEW w \in Waiters, Awaited(w) PROVE Inv'
  BY <1>6 DEF Awaited
<1>7. ASSUME NEW w \in Waiters, Drop(w) PROVE Inv'
  BY <1>7 DEF Drop
<1>8. CASE UNCHANGED vars
  BY <1>8 DEF vars
<1> QED
  BY <1>1, <1>2, <1>3, <1>4, <1>5, <1>6, <1>7, <1>8 DEF Next, Notify, Wait

(* Inv holds of every NotifyOnce, however its callers interleave.          *)
THEOREM InvAlways == Safety => []Inv
  BY InitInv, NextInv, PTL DEF Safety

(* No waiter of notified() sleeps through a notification.                  *)
THEOREM LostWakeupFree == Safety => []NoLostWakeup
<1>1. Inv => NoLostWakeup
  BY DEF Inv, TypeOK, NoLostWakeup
<1> QED
  BY <1>1, InvAlways, PTL

(* notified() returns only after notify_waiters() has been called.         *)
THEOREM SpuriousReturnFree == Safety => []NoSpuriousReturn
<1>1. Inv => NoSpuriousReturn
  BY DEF Inv, NoSpuriousReturn
<1> QED
  BY <1>1, InvAlways, PTL
-----------------------------------------------------------------------------
(* The new NotifyOnce is the new latch.                                    *)
LEMMA InitRefines == Init => L!Init
  BY DEF Init, L!Init, LatchOf, WaiterOf

(* Every step is one of the latch's, or leaves the latch as it is.         *)
LEMMA NextRefines == Inv /\ [Next]_vars => [L!Next]_(L!vars)
<1> SUFFICES ASSUME Inv, [Next]_vars PROVE [L!Next]_(L!vars)
  OBVIOUS
<1> USE DEF Inv, TypeOK, LatchOf, WaiterOf
<1>1. ASSUME NEW n \in Notifiers, StoreNotified(n) PROVE L!Store
  BY <1>1 DEF StoreNotified, L!Store, L!StoreFlag
<1>2. ASSUME NEW n \in Notifiers, NotifyWaiters(n) PROVE L!Wake
  BY <1>2 DEF NotifyWaiters, L!Wake, L!IsNotified, L!WakeAll
<1>3. ASSUME NEW w \in Waiters, CreateNotified(w) PROVE UNCHANGED L!vars
  BY <1>3 DEF CreateNotified, L!vars
<1>4. ASSUME NEW w \in Waiters, Enable(w) PROVE UNCHANGED L!vars
  BY <1>4 DEF Enable, L!vars
<1>5. ASSUME NEW w \in Waiters, CheckNotified(w) PROVE L!FirstPoll(w)
  BY <1>5 DEF CheckNotified, L!FirstPoll, L!IsNotified
<1>6. ASSUME NEW w \in Waiters, Awaited(w) PROVE L!Repoll(w)
  <2>1. L!IsWoken(LatchOf) /\ UNCHANGED LatchOf
    BY <1>6 DEF Awaited, L!IsWoken
  <2>2. WaiterOf[w] = "registered" /\ WaiterOf' = [WaiterOf EXCEPT ![w] = "returned"]
    BY <1>6 DEF Awaited
  <2> QED
    BY <2>1, <2>2 DEF L!Repoll
<1>7. ASSUME NEW w \in Waiters, Drop(w) PROVE L!Rewind(w)
  BY <1>7 DEF Drop, L!Rewind
<1>8. CASE UNCHANGED vars
  BY <1>8 DEF vars, L!vars
<1> QED
  BY <1>1, <1>2, <1>3, <1>4, <1>5, <1>6, <1>7, <1>8
  DEF Next, Notify, Wait, L!Next

(* NotifyOnce implements the one-shot latch (all but its fairness).        *)
THEOREM RefinesLatch == Safety => L!Safety
  BY InitRefines, NextRefines, InvAlways, PTL DEF Safety, L!Safety
=============================================================================
