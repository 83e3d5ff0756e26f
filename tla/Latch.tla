------------------------------- MODULE Latch --------------------------------
(***************************************************************************)
(* What NotifyOnce promises: a one-shot latch.  Once a notification has    *)
(* been made every present and future waiter returns, none returns before  *)
(* it, and no notification falls between a waiter's look at the flag and   *)
(* its going to sleep.                                                     *)
(***************************************************************************)
EXTENDS LatchState

CONSTANT Waiters

VARIABLES state,    \* the latch
          waiter    \* what each waiter is doing

vars == <<state, waiter>>

WaiterStates == {"idle", "registered", "returned"}

TypeOK == /\ state \in LatchStates
          /\ waiter \in [Waiters -> WaiterStates]

Init == /\ state = "unset"
        /\ waiter = [w \in Waiters |-> "idle"]

Store == /\ state' = StoreFlag(state)
         /\ UNCHANGED waiter

Wake == /\ IsNotified(state)
        /\ state' = WakeAll(state)
        /\ UNCHANGED waiter

(* The first poll of a wait: it either returns at once or registers.       *)
FirstPoll(w) ==
    /\ waiter[w] = "idle"
    /\ waiter' = [waiter EXCEPT ![w] = IF IsNotified(state) THEN "returned"
                                                            ELSE "registered"]
    /\ UNCHANGED state

Repoll(w) ==
    /\ waiter[w] = "registered"
    /\ IsWoken(state)
    /\ waiter' = [waiter EXCEPT ![w] = "returned"]
    /\ UNCHANGED state

(* A wait is dropped when another arm of its select! is ready, and a task  *)
(* that has returned from one wait may start another.                      *)
Rewind(w) ==
    /\ waiter[w] \in {"registered", "returned"}
    /\ waiter' = [waiter EXCEPT ![w] = "idle"]
    /\ UNCHANGED state

Next == \/ Store
        \/ Wake
        \/ \E w \in Waiters : FirstPoll(w) \/ Repoll(w) \/ Rewind(w)

Safety == Init /\ [][Next]_vars

Spec == Safety /\ \A w \in Waiters : WF_vars(Repoll(w))
=============================================================================
