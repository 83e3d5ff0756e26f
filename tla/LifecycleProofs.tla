-------------------------- MODULE LifecycleProofs ---------------------------
(***************************************************************************)
(* Server implements Lifecycle, for any finite set of connections and any  *)
(* users; what a drain that is over and a request under way can count on.  *)
(***************************************************************************)
EXTENDS ServerProofs

(* What the contract sees of a state.                                      *)
InService(c) == task[c] \in Open \/ Admitting(c)
Served == {c \in Conns : InService(c)}
Outcome == IF srv \in Ended THEN srv ELSE "running"

LEMMA ContractState ==
  ASSUME UNCHANGED <<latch, stale>>, Served' = Served, Outcome' = Outcome
  PROVE  UNCHANGED L!vars
  BY DEF L!vars, Served, InService, Outcome

(* A connection gets into service only by a poll of its first select! that *)
(* has looked at both latches.                                             *)
LEMMA AdmitEffect ==
  ASSUME TypeOK, NEW c \in Conns, Working(c), ~InService(c), InService(c)'
  PROVE  ~IsWoken(latch["graceful"]) /\ ~IsWoken(latch["shutdown"])
<1> USE DEF Accepting, Open, First, Serving, Draining, Move, TypeOK, ConnTypeOK, InService,
            Admitting
<1>1. CASE Pass(c)
  <2>1. task' = task /\ ~Told(c, "graceful") /\ ~Told(c, "shutdown")
    BY <1>1 DEF Pass, LatchNames
  <2>2. task[c] \in Accepting /\ arm[c] = 0
    BY <2>1
  <2> QED
    BY <2>1, <2>2 DEF Told, Looks, SeesIn, Sees, IsNotified, IsWoken
<1>2. CASE AcceptOk(c) \/ AcceptErr(c) \/ AcceptTimedOut(c) \/ AcceptPending(c)
  <2>1. task[c] \in Accepting /\ Past(c)
    BY <1>2 DEF AcceptOk, AcceptErr, AcceptTimedOut, AcceptPending, PollAcceptor
  <2>2. arm[c] # 0
    BY <2>1, PastPolled
  <2> QED
    BY <2>1, <2>2
<1>3. CASE AcceptCancelled(c)
  BY <1>3 DEF AcceptCancelled
<1>4. CASE Elapse(c)
  BY <1>4 DEF Elapse
<1>5. CASE FirstShutdown(c) \/ FirstGraceful(c) \/ FirstTimedOut(c) \/ FirstDispatched(c)
             \/ FirstServe(c)
  BY <1>5 DEF FirstShutdown, FirstGraceful, FirstTimedOut, FirstDispatched, FirstServe,
     FirstUnnotified
<1>6. CASE ServeGraceful(c) \/ ServeShutdown(c) \/ Serve(c) \/ DrainShutdown(c) \/ Drain(c)
  BY <1>6 DEF ServeGraceful, ServeShutdown, Serve, DrainShutdown, Drain
<1> QED
  BY <1>1, <1>2, <1>3, <1>4, <1>5, <1>6 DEF Working

(* A step of a connection task is an Admit, a Close, or no step.           *)
LEMMA WorkingRefines ==
  ASSUME CoreInv, NEW c \in Conns, Working(c), UNCHANGED srvVars
  PROVE  [L!Next]_(L!vars)
<1>1. TypeOK
  BY DEF CoreInv
<1>2. PICK x \in Watching : task' = [task EXCEPT ![c] = x]
  BY <1>1, WorkingEffect
<1>3. UNCHANGED <<latch, stale>> /\ \A d \in Conns \ {c} : arm'[d] = arm[d]
  BY <1>1, WorkingEffect DEF handleVars
<1>4. Outcome' = Outcome /\ srv' = srv
  BY DEF srvVars, Outcome
<1>5. \A d \in Conns \ {c} : InService(d)' = InService(d)
  BY <1>1, <1>2, <1>3 DEF TypeOK, ConnTypeOK, InService, Admitting
<1>6. CASE ~InService(c) /\ InService(c)'
  <2>1. ~IsWoken(latch["graceful"]) /\ ~IsWoken(latch["shutdown"])
    BY <1>1, <1>6, AdmitEffect
  <2>2. Served' = Served \cup {c} /\ c \notin Served
    BY <1>5, <1>6 DEF Served
  <2>3. L!Admit(c)
    BY <1>3, <1>4, <2>1, <2>2 DEF L!Admit, L!IsWoken, IsWoken, Served, InService, Outcome
  <2> QED
    BY <2>3 DEF L!Next
<1>7. CASE InService(c) /\ ~InService(c)'
  <2>1. Served' = Served \ {c} /\ c \in Served
    BY <1>5, <1>7 DEF Served
  <2>2. L!Close(c)
    BY <1>3, <1>4, <2>1 DEF L!Close, Served, InService, Outcome
  <2> QED
    BY <2>2 DEF L!Next
<1>8. CASE InService(c) <=> InService(c)'
  <2>1. Served' = Served
    BY <1>5, <1>8 DEF Served
  <2> QED
    BY <1>3, <1>4, <2>1, ContractState
<1> QED
  BY <1>6, <1>7, <1>8

(* Watcher::drop changes what is straddled, and nothing else of the        *)
(* contract.                                                               *)
LEMMA DropRefines ==
  ASSUME CoreInv, NEW c \in Conns, DropSub(c) \/ DropCheck(c) \/ DropWake(c), UNCHANGED srvVars
  PROVE  [L!Next]_(L!vars)
<1>1. TypeOK
  BY DEF CoreInv
<1>2. latch'["graceful"] = latch["graceful"] /\ latch'["shutdown"] = latch["shutdown"]
  BY <1>1 DEF DropSub, EndTask, DropCheck, DropWake, Store, Wake, TypeOK, HandleTypeOK,
     LatchNames
<1>3. Outcome' = Outcome
  BY DEF srvVars, Outcome
<1>4. Served' = Served
  BY <1>1 DEF DropSub, EndTask, DropCheck, DropWake, Move, Served, InService, Admitting,
     TypeOK, ConnTypeOK, Accepting, Open, First, Serving, Draining
<1>5. L!Straddle
  <2>1. (stale # {})' \in BOOLEAN
    OBVIOUS
  <2> QED
    BY <1>2, <1>3, <1>4, <2>1 DEF L!Straddle, Served, InService, Outcome
<1> QED
  BY <1>5 DEF L!Next

(* The calls on a Handle.                                                  *)
LEMMA UserRefines ==
  ASSUME CoreInv, NEW u \in Users, User(u), UNCHANGED <<connVars, srvVars>>
  PROVE  [L!Next]_(L!vars)
<1>1. latch \in [LatchNames -> LatchStates]
  BY DEF CoreInv, TypeOK, HandleTypeOK
<1>2. Served' = Served /\ Outcome' = Outcome /\ stale' = stale
  BY DEF connVars, srvVars, Served, InService, Admitting, Outcome
<1>3. CASE ShutdownStore(u) \/ ShutdownWake(u)
  <2>1. /\ latch'["graceful"] = latch["graceful"]
        /\ latch'["shutdown"] \in {StoreFlag(latch["shutdown"]), WakeAll(latch["shutdown"])}
    BY <1>1, <1>3 DEF ShutdownStore, ShutdownWake, Store, Wake, LatchNames
  <2>2. L!AskShutdown
    BY <1>2, <2>1 DEF L!AskShutdown, L!Forward, L!StoreFlag, L!WakeAll, StoreFlag, WakeAll,
       Served, InService, Outcome
  <2> QED
    BY <2>2 DEF L!Next
<1>4. CASE GracefulStore(u) \/ GracefulWake(u)
  <2>1. /\ latch'["shutdown"] = latch["shutdown"]
        /\ latch'["graceful"] \in {StoreFlag(latch["graceful"]), WakeAll(latch["graceful"])}
    BY <1>1, <1>4 DEF GracefulStore, GracefulWake, Store, Wake, LatchNames
  <2>2. L!AskGraceful
    BY <1>2, <2>1 DEF L!AskGraceful, L!Forward, L!StoreFlag, L!WakeAll, StoreFlag, WakeAll,
       Served, InService, Outcome
  <2> QED
    BY <2>2 DEF L!Next
<1>5. CASE \/ \E d \in Options : GracefulDur(u, d)
           \/ ListeningPoll(u) \/ ListeningWoken(u) \/ ReadAddr(u)
  <2>1. latch' = latch
    BY <1>5 DEF GracefulDur, ListeningPoll, ListeningWoken, ReadAddr
  <2> QED
    BY <1>2, <2>1, ContractState
<1> QED
  BY <1>3, <1>4, <1>5 DEF User, Continue
-----------------------------------------------------------------------------
(* serve() returns for reason r and touches no connection that has a task. *)
LEMMA ReturnRefines ==
  ASSUME NEW r \in Ended, srv \notin Ended, srv' = r,
         UNCHANGED <<latch, stale>>, Served' = Served,
         r = "ok_shutdown" => IsNotified(latch["shutdown"]),
         r = "ok_drained" => IsNotified(latch["graceful"]) /\ (stale # {} \/ Served = {}),
         r # "ok_deadline"
  PROVE  [L!Next]_(L!vars)
<1>1. L!Return(r)
  BY DEF L!Return, L!Forward, L!IsNotified, IsNotified, Served, InService
<1>2. r \in L!Outcomes
  BY DEF Ended, L!Outcomes
<1> QED
  BY <1>1, <1>2 DEF L!Next

(* serve() goes on, and touches no connection that has a task.             *)
LEMMA GoesOn ==
  ASSUME srv \notin Ended, srv' \notin Ended, UNCHANGED <<latch, stale>>, Served' = Served
  PROVE  [L!Next]_(L!vars)
  BY ContractState DEF Outcome

LEMMA MovesServeNone ==
  ASSUME NoTaskMoves
  PROVE  Served' = Served
  BY DEF NoTaskMoves, Unspawned, Served, InService, Admitting, Accepting, Open, First, Serving,
     Draining

LEMMA LeaveServesNone ==
  ASSUME TypeOK, NEW next, Leave(next)
  PROVE  srv' = next /\ UNCHANGED <<latch, stale>> /\ Served' = Served
  BY LeaveEffect, MovesServeNone DEF handleVars

(* The steps of serve() that neither publish, expire nor spawn.            *)
LEMMA MovingRefines ==
  ASSUME CoreInv, Moving
  PROVE  [L!Next]_(L!vars)
<1>1. TypeOK
  BY DEF CoreInv
<1>2. UNCHANGED <<latch, stale>> /\ Served' = Served
  BY <1>1, MovingEffect, MovesServeNone DEF handleVars
<1> USE DEF Ended, Binding, AcceptLoop, WaitEnd, Waiting
<1>3. CASE Shutdown
  <2>1. /\ IsNotified(latch["shutdown"])
        /\ srv \notin Ended
        /\ srv' = "ok_shutdown"
    BY <1>3 DEF Shutdown, Sees, IsNotified, IsWoken, Leave
  <2> QED
    BY <1>2, <2>1, ReturnRefines
<1>4. CASE ReadyErr
  <2>1. srv \notin Ended /\ srv' = "err"
    BY <1>4 DEF ReadyErr, Leave
  <2> QED
    BY <1>2, <2>1, ReturnRefines
<1>5. CASE ServeDropped
  <2>1. srv \notin Ended /\ srv' = "dropped"
    BY <1>5 DEF ServeDropped, Leave
  <2> QED
    BY <1>2, <2>1, ReturnRefines
<1>6. CASE \/ Bind \/ Start \/ AcceptStreamErr \/ BackoffDone
           \/ AcceptStreamPending \/ AcceptPark \/ ReadyOk \/ MakePark
           \/ ReadDuration \/ DeadlineElapse \/ EndPark
  <2>1. srv \notin Ended /\ srv' \notin Ended
    BY <1>6 DEF Bind, Start, AcceptStreamErr, BackoffDone, AcceptStreamPending, AcceptPark,
       ReadyOk, MakePark, ReadDuration, DeadlineElapse, EndPark, Listening, NextArm
  <2> QED
    BY <1>2, <2>1, GoesOn
<1>7. ASSUME NEW c \in Conns, Connect(c) \/ AcceptStream(c) \/ MakeErr(c)
      PROVE  [L!Next]_(L!vars)
  <2>1. CASE Connect(c)
    BY <1>2, <2>1, ContractState DEF Connect, srvVars, Outcome
  <2>2. CASE AcceptStream(c) \/ MakeErr(c)
    BY <1>2, <2>2, GoesOn DEF AcceptStream, MakeErr, Listening
  <2> QED
    BY <1>7, <2>1, <2>2
<1> QED
  BY <1>3, <1>4, <1>5, <1>6, <1>7 DEF Moving

(* notify_listening(), and serve()'s return when the bind failed.          *)
LEMMA PublishingRefines ==
  ASSUME CoreInv, Publishing
  PROVE  [L!Next]_(L!vars)
<1>1. latch \in [LatchNames -> LatchStates]
  BY DEF CoreInv, TypeOK, HandleTypeOK
<1>2. Served' = Served /\ stale' = stale
  BY DEF Publishing, SetAddr, AddrStore, AddrWake, connVars, Served, InService, Admitting
<1>3. latch'["graceful"] = latch["graceful"] /\ latch'["shutdown"] = latch["shutdown"]
  BY <1>1 DEF Publishing, SetAddr, AddrStore, AddrWake, Store, Wake, LatchNames
<1>4. Outcome = "running" /\ Outcome' \in {"running", "err"}
  BY DEF Publishing, SetAddr, AddrStore, AddrWake, Outcome, Ended
<1>5. CASE Outcome' = "running"
  BY <1>2, <1>3, <1>4, <1>5 DEF L!vars, Served, InService, Outcome
<1>6. CASE Outcome' = "err"
  <2>1. L!Return("err")
    BY <1>2, <1>3, <1>4, <1>6 DEF L!Return, L!Forward, Served, InService, Outcome
  <2> QED
    BY <2>1 DEF L!Next, L!Outcomes
<1> QED
  BY <1>4, <1>5, <1>6

(* The deadline: shutdown() on the way out.                                *)
LEMMA ExpiringRefines ==
  ASSUME CoreInv, Expiring
  PROVE  [L!Next]_(L!vars)
<1>1. latch \in [LatchNames -> LatchStates] /\ GracefulFirst
  BY DEF CoreInv, TypeOK, HandleTypeOK
<1>2. Served' = Served /\ stale' = stale /\ latch'["graceful"] = latch["graceful"]
  BY <1>1 DEF Expiring, DeadlineStore, DeadlineWake, connVars, Served, InService, Admitting,
     Store, Wake, LatchNames
<1>3. CASE DeadlineStore
  <2>1. Outcome' = Outcome
    BY <1>3 DEF DeadlineStore, Outcome, Ended
  <2>2. latch'["shutdown"] = StoreFlag(latch["shutdown"])
    BY <1>1, <1>3 DEF DeadlineStore, Store, LatchNames
  <2>3. L!AskShutdown
    BY <1>2, <2>1, <2>2 DEF L!AskShutdown, L!Forward, L!StoreFlag, StoreFlag, Served, InService, Outcome
  <2> QED
    BY <2>3 DEF L!Next
<1>4. CASE DeadlineWake
  <2>1. srv \notin Ended /\ srv' = "ok_deadline" /\ IsNotified(latch["graceful"])
    BY <1>1, <1>4 DEF DeadlineWake, Ended, GracefulFirst, WaitEnd
  <2>2. latch'["shutdown"] = "woken"
    BY <1>1, <1>4 DEF DeadlineWake, Wake, WakeAll, LatchNames
  <2>3. L!Return("ok_deadline")
    BY <1>2, <2>1, <2>2 DEF L!Return, L!Forward, L!WakeAll, L!IsWoken, L!IsNotified,
       IsNotified, Served, InService, Ended
  <2> QED
    BY <2>3 DEF L!Next, L!Outcomes
<1> QED
  BY <1>3, <1>4 DEF Expiring

(* The end of the accept loop and the two ways in which the wait for the   *)
(* connections ends without a deadline: nobody is in service then, or a    *)
(* drop straddles the call.                                                *)
LEMMA EndingRefines ==
  ASSUME CoreInv, Graceful \/ LoadCount \/ ConnectionsEnded
  PROVE  [L!Next]_(L!vars)
<1>1. TypeOK /\ CountInv /\ GracefulFirst /\ DrainInv
  BY DEF CoreInv
<1>2. CASE Graceful
  <2>1. srv' = "count" /\ UNCHANGED <<latch, stale>> /\ Served' = Served
    BY <1>1, <1>2, LeaveServesNone DEF Graceful
  <2>2. srv \notin Ended /\ srv' \notin Ended
    BY <1>2, <2>1 DEF Graceful, Ended
  <2> QED
    BY <2>1, <2>2, GoesOn
<1>3. CASE LoadCount
  <2>1. UNCHANGED <<latch, stale>> /\ Served' = Served /\ srv \notin Ended
    BY <1>3 DEF LoadCount, handleVars, connVars, Served, InService, Admitting, Ended
  <2>2. CASE conn_count = 0
    <3>1. Watched = {}
      BY <1>1, <2>2, WatchedFinite, FS_EmptySet DEF CountInv
    <3>2. Served = {}
      BY <3>1 DEF Watched, Served, InService, Admitting, Watching
    <3>3. IsNotified(latch["graceful"]) /\ srv' = "ok_drained"
      BY <1>1, <1>3, <2>2 DEF LoadCount, GracefulFirst, WaitEnd
    <3> QED
      BY <2>1, <3>2, <3>3, ReturnRefines DEF Ended
  <2>3. CASE conn_count # 0
    <3>1. srv' \notin Ended
      BY <1>3, <2>3 DEF LoadCount, Ended
    <3> QED
      BY <2>1, <3>1, GoesOn
  <2> QED
    BY <2>2, <2>3
<1>4. CASE ConnectionsEnded
  <2>1. /\ UNCHANGED <<latch, stale>>
        /\ Served' = Served
        /\ srv \notin Ended
        /\ srv' = "ok_drained"
    BY <1>4 DEF ConnectionsEnded, handleVars, connVars, Served, InService, Admitting, Ended,
       Waiting
  <2>2. IsNotified(latch["conn_end"])
    BY <1>4 DEF ConnectionsEnded, Sees, IsNotified, IsWoken
  <2>3. IsNotified(latch["graceful"])
    BY <1>1, <2>2 DEF GracefulFirst
  <2>4. stale # {} \/ Served = {}
    BY <1>1, <2>2 DEF DrainInv, NoneOpen, Served, InService
  <2> QED
    BY <2>1, <2>3, <2>4, ReturnRefines DEF Ended
<1> QED
  BY <1>2, <1>3, <1>4

LEMMA MakeOkRefines ==
  ASSUME CoreInv, NEW c \in Conns, MakeOk(c)
  PROVE  [L!Next]_(L!vars)
<1>1. /\ task \in [Conns -> Unspawned \cup Watching \cup Dropping \cup {"gone"}]
      /\ arm \in [Conns -> 0..2]
  BY DEF CoreInv, TypeOK, ConnTypeOK
<1>2. Served' = Served
  <2>1. \A d \in Conns : InService(d)' <=> InService(d)
    BY <1>1 DEF MakeOk, Move, InService, Admitting, Accepting, Open, First, Serving, Draining
  <2> QED
    BY <2>1 DEF Served
<1> QED
  BY <1>2, GoesOn DEF MakeOk, Ended

(* Every step of the server is one of the contract's, or none.             *)
LEMMA NextRefines == CoreInv /\ [Next]_vars => [L!Next]_(L!vars)
<1> SUFFICES ASSUME CoreInv, [Next]_vars PROVE [L!Next]_(L!vars)
  OBVIOUS
<1>1. ASSUME NEW u \in Users, User(u), UNCHANGED <<connVars, srvVars>>
      PROVE  [L!Next]_(L!vars)
  BY <1>1, UserRefines
<1>2. ASSUME NEW c \in Conns, Task(c), UNCHANGED srvVars PROVE [L!Next]_(L!vars)
  <2>1. Working(c) \/ DropSub(c) \/ DropCheck(c) \/ DropWake(c)
    BY <1>2 DEF Task, Notified, Client, Working
  <2> QED
    BY <1>2, <2>1, WorkingRefines, DropRefines
<1>3. ASSUME NEW c \in Conns, Connect(c) \/ AcceptStream(c) \/ MakeOk(c) \/ MakeErr(c)
      PROVE  [L!Next]_(L!vars)
  BY <1>3, MovingRefines, MakeOkRefines DEF Moving
<1>4. CASE ServeStep
  BY <1>4, MovingRefines, PublishingRefines, ExpiringRefines, EndingRefines
  DEF ServeStep, Moving, Publishing, Expiring
<1>5. CASE \/ AcceptStreamErr \/ BackoffDone \/ ReadyOk \/ ReadyErr \/ MakePark
           \/ DeadlineElapse \/ ServeDropped
  BY <1>5, MovingRefines DEF Moving
<1>6. CASE UNCHANGED vars
  BY <1>6, ContractState DEF vars, handleVars, connVars, srvVars, Served, InService, Admitting,
     Outcome
<1> QED
  BY <1>1, <1>2, <1>3, <1>4, <1>5, <1>6 DEF Next

LEMMA InitRefines == Init => L!Init
<1> SUFFICES ASSUME Init PROVE L!Init
  OBVIOUS
<1>1. \A c \in Conns : task[c] \notin Open /\ ~Admitting(c)
  BY DEF Init, ConnInit, Admitting, Accepting, Open, First, Serving, Draining
<1>2. latch["graceful"] = "unset" /\ latch["shutdown"] = "unset" /\ stale = {}
  BY DEF Init, HandleInit, ConnInit, LatchNames
<1>3. srv \notin Ended
  BY DEF Init, Ended
<1> QED
  BY <1>1, <1>2, <1>3 DEF L!Init

(* Whatever the tasks, the application and the runtime do, the server      *)
(* keeps the contract of module Lifecycle.                                 *)
THEOREM RefinesLifecycle == Safety => ImplementsLifecycle
  BY InitRefines, NextRefines, CoreAlways, PTL DEF Safety, ImplementsLifecycle, L!Spec
-----------------------------------------------------------------------------
(* Where a step can take connection d, when it is not one of d's own task. *)
Stays(d) == task'[d] = task[d] /\ arm'[d] = arm[d]
Spawning(d) ==
    /\ task[d] \in Unspawned
    /\ task'[d] \in Unspawned \/ (task'[d] = "accept0" /\ arm'[d] = 0)

LEMMA OthersStay ==
  ASSUME CoreInv, [Next]_vars, NEW d \in Conns
  PROVE  \/ Stays(d)
         \/ Spawning(d)
         \/ task[d] \in {"exit"} \cup Dropping /\ task'[d] \in Dropping \cup {"gone"}
         \/ Working(d)
<1> USE DEF Stays, Spawning
<1>1. TypeOK
  BY DEF CoreInv
<1>2. ASSUME NEW u \in Users, User(u), UNCHANGED <<connVars, srvVars>>
      PROVE  Stays(d)
  BY <1>2 DEF connVars
<1>3. ASSUME NEW c \in Conns, Task(c), UNCHANGED srvVars
      PROVE  \/ Stays(d)
             \/ task[d] \in {"exit"} \cup Dropping /\ task'[d] \in Dropping \cup {"gone"}
             \/ Working(d)
  <2>1. CASE Working(c)
    <3>1. PICK x \in Watching : task' = [task EXCEPT ![c] = x]
      BY <1>1, <2>1, WorkingEffect
    <3>2. \A e \in Conns \ {c} : arm'[e] = arm[e]
      BY <1>1, <2>1, WorkingEffect
    <3> QED
      BY <1>1, <2>1, <3>1, <3>2 DEF TypeOK, ConnTypeOK
  <2>2. CASE DropSub(c) \/ DropCheck(c) \/ DropWake(c)
    BY <1>1, <2>2 DEF DropSub, EndTask, DropCheck, DropWake, Move, TypeOK, ConnTypeOK,
       Dropping
  <2> QED
    BY <1>3, <2>1, <2>2 DEF Task, Notified, Client, Working
<1>4. ASSUME Moving PROVE Stays(d) \/ Spawning(d)
  BY <1>1, <1>4, MovingEffect DEF NoTaskMoves
<1>5. ASSUME NEW c \in Conns, MakeOk(c) PROVE Stays(d) \/ Spawning(d)
  BY <1>1, <1>5 DEF MakeOk, Move, TypeOK, ConnTypeOK, Unspawned
<1>6. ASSUME Graceful PROVE Stays(d) \/ Spawning(d)
  BY <1>1, <1>6, LeaveEffect DEF Graceful, NoTaskMoves
<1>7. ASSUME Publishing \/ Expiring \/ LoadCount \/ ConnectionsEnded PROVE Stays(d)
  BY <1>7 DEF Publishing, Expiring, SetAddr, AddrStore, AddrWake, DeadlineStore,
     DeadlineWake, LoadCount, ConnectionsEnded, connVars
<1>8. CASE UNCHANGED vars
  BY <1>8 DEF vars, connVars
<1> QED
  BY <1>2, <1>3, <1>4, <1>5, <1>6, <1>7, <1>8
  DEF Next, ServeStep, Moving, Publishing, Expiring

(* The first poll of a new task ends it once the graceful latch is set.    *)
LEMMA NoneOpenStep ==
  CoreInv /\ [Next]_vars => (IsNotified(latch["graceful"]) /\ NoneOpen => NoneOpen')
<1> SUFFICES ASSUME CoreInv, [Next]_vars, IsNotified(latch["graceful"]), NoneOpen,
                    NEW d \in Conns
             PROVE  ~Beyond(d)'
  BY DEF NoneOpen, Beyond
<1>1. ~Beyond(d)
  BY DEF NoneOpen, Beyond
<1>2. TypeOK
  BY DEF CoreInv
<1>3. CASE Working(d)
  BY <1>1, <1>2, <1>3, WorkingEffect
<1> QED
  BY <1>1, <1>3, OthersStay DEF Stays, Spawning, Unspawned, Dropping, Beyond, Admitting,
     Accepting, Open, First, Serving, Draining

(* A drain that is over stays over, for any number of connections and      *)
(* however late the accept loop looks at the graceful latch.               *)
THEOREM DrainStaysOver == Safety => DrainIsFinal
<1>1. CoreInv /\ [Next]_vars
        => [IsNotified(latch["graceful"]) /\ NoneOpen => NoneOpen']_vars
  BY NoneOpenStep
<1> QED
  BY <1>1, CoreAlways, PTL DEF Safety, DrainIsFinal

(* The loop of README.md, "while watcher.connection_count() > 0": when the *)
(* count has been zero after graceful_shutdown(), no connection is served  *)
(* any more, then or ever.                                                 *)
THEOREM ZeroCountIsFinal ==
  Safety => [](IsNotified(latch["graceful"]) /\ conn_count = 0 => []NoneOpen)
<1> DEFINE Over == IsNotified(latch["graceful"]) /\ NoneOpen
<1>1. CoreInv /\ IsNotified(latch["graceful"]) /\ conn_count = 0 => Over
  <2> SUFFICES ASSUME CoreInv, conn_count = 0 PROVE NoneOpen
    OBVIOUS
  <2>1. Watched = {}
    BY WatchedFinite, FS_EmptySet DEF CoreInv, CountInv
  <2> QED
    BY <2>1 DEF Watched, Watching, Accepting, NoneOpen, Admitting
<1>2. CoreInv /\ [Next]_vars /\ Over => Over'
  <2> SUFFICES ASSUME CoreInv, [Next]_vars, Over PROVE IsNotified(latch'["graceful"])
    BY NoneOpenStep
  <2>1. [L!Next]_(L!vars)
    BY NextRefines
  <2> QED
    BY <2>1 DEF L!Next, L!vars, L!AskGraceful, L!AskShutdown, L!Straddle, L!Admit, L!Close,
       L!Return, L!Forward, L!StoreFlag, L!WakeAll, IsNotified
<1>3. Over => NoneOpen
  OBVIOUS
<1> QED
  BY <1>1, <1>2, <1>3, CoreAlways, PTL DEF Safety

(* A poll of hyper ends the task only when hyper is done.                  *)
LEMMA PollServeExit ==
  ASSUME ConnTypeOK, NEW c \in Conns, NEW k, NEW next \in Open, PollServe(c, k, next),
         task'[c] = "exit"
  PROVE  http'[c] = "closed"
  BY DEF PollServe, Move, ConnTypeOK, Open, First, Serving, Draining

(* Graceful shutdown never cuts off a request that is being answered; only *)
(* shutdown() and the first-request timer do.                              *)
THEOREM RequestsKept == Safety => CutOnlyByShutdown
<1> DEFINE Kept == \A c \in Conns :
        task[c] \in Open /\ http[c] = "busy" /\ task'[c] = "exit" =>
            \/ http'[c] = "closed"
            \/ IsNotified(latch["shutdown"])
            \/ task[c] \in First /\ elapsed[c]
<1>1. CoreInv /\ [Next]_vars => [Kept]_vars
  <2> SUFFICES ASSUME CoreInv, [Next]_vars, NEW c \in Conns, task[c] \in Open, task'[c] = "exit"
               PROVE  \/ http'[c] = "closed"
                      \/ IsNotified(latch["shutdown"])
                      \/ task[c] \in First /\ elapsed[c]
    OBVIOUS
  <2>1. ConnTypeOK
    BY DEF CoreInv, TypeOK
  <2>2. Working(c)
    BY OthersStay DEF Stays, Spawning, Unspawned, Dropping, Open, First, Serving, Draining
  <2> USE DEF Open, First, Serving, Draining, Accepting
  <2>3. CASE FirstServe(c) \/ Serve(c) \/ Drain(c)
    BY <2>1, <2>3, PollServeExit DEF FirstServe, Serve, Drain
  <2>4. CASE FirstShutdown(c) \/ ServeShutdown(c) \/ DrainShutdown(c)
    BY <2>4 DEF FirstShutdown, ServeShutdown, DrainShutdown, Told, SeesIn, Sees,
       IsNotified, IsWoken
  <2>5. CASE FirstTimedOut(c)
    BY <2>5 DEF FirstTimedOut, FirstUnnotified
  <2>6. CASE Pass(c) \/ Elapse(c) \/ FirstGraceful(c) \/ FirstDispatched(c) \/ ServeGraceful(c)
    BY <2>1, <2>6 DEF Pass, Elapse, FirstGraceful, FirstDispatched, ServeGraceful, Move,
       ConnTypeOK
  <2>7. CASE AcceptCancelled(c) \/ AcceptOk(c) \/ AcceptErr(c) \/ AcceptPending(c)
               \/ AcceptTimedOut(c)
    BY <2>7 DEF AcceptCancelled, AcceptOk, AcceptErr, AcceptPending, AcceptTimedOut,
       PollAcceptor
  <2> QED
    BY <2>2, <2>3, <2>4, <2>5, <2>6, <2>7 DEF Working
<1> QED
  BY <1>1, CoreAlways, PTL DEF Safety, CutOnlyByShutdown
=============================================================================
