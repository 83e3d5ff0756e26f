----------------------------- MODULE LoopProofs -----------------------------
(***************************************************************************)
(* The accept loop of Server for any users and connections: nobody is left *)
(* behind in the backlog, no latch is left half notified, shutdown() is    *)
(* the end of every request and leaves the server finitely many steps, and *)
(* every wait on a latch is one that module Latch allows.                  *)
(***************************************************************************)
EXTENDS LifecycleProofs, LatchUse

Backlog == {"queued", "held"}

(* The parts of LoopInv about where serve() and the backlog are, and those *)
(* about the latches.                                                      *)
PlacePart == NobodyStranded /\ HeldInv /\ ListenerInv /\ PollInv
LatchPart == WakeOwed /\ StoredInv /\ ToldInv

(* What a step must leave alone for PlacePart to survive it.               *)
LEMMA PlaceQuiet ==
  ASSUME PlacePart,
         UNCHANGED <<srv, listener, polling>>,
         \A c \in Conns : task[c] \in Backlog \/ task'[c] \in Backlog => task'[c] = task[c]
  PROVE  PlacePart'
<1> USE DEF PlacePart, Backlog
<1>1. NobodyStranded'
  BY DEF NobodyStranded
<1>2. HeldInv'
  BY DEF HeldInv
<1>3. ListenerInv' /\ PollInv'
  BY DEF ListenerInv, PollInv
<1> QED
  BY <1>1, <1>2, <1>3

(* A call on the Handle preserves LoopInv.                                 *)
LEMMA UserLoop ==
  ASSUME CoreInv, LoopInv, NEW u \in Users, User(u), UNCHANGED <<connVars, srvVars>>
  PROVE  LoopInv'
<1>1. PlacePart /\ LatchPart
  BY DEF LoopInv, PlacePart, LatchPart
<1>2. /\ latch \in [LatchNames -> LatchStates]
      /\ call \in [Users -> CallPCs]
  BY DEF CoreInv, TypeOK, HandleTypeOK
<1>3. UNCHANGED <<task, srv, polling, listener>>
  BY DEF connVars, srvVars
<1>4. PlacePart'
  BY <1>1, <1>3, PlaceQuiet
<1>5. addr' = addr /\ latch'["addr_notify"] = latch["addr_notify"]
        /\ latch'["conn_end"] = latch["conn_end"]
  BY <1>2 DEF User, Continue, ShutdownStore, ShutdownWake, GracefulDur, GracefulStore,
     GracefulWake, ListeningPoll, ListeningWoken, ReadAddr, Store, Wake, LatchNames
<1>6. ToldInv'
  BY <1>1, <1>3, <1>5 DEF LatchPart, ToldInv
<1> SUFFICES WakeOwed' /\ StoredInv'
  BY <1>4, <1>6 DEF LoopInv, PlacePart
<1> USE DEF LatchNames, LatchStates, LatchPart, WakeOwed, StoredInv, Store, Wake, StoreFlag, WakeAll,
        IsNotified, Goto
<1>7. CASE ShutdownStore(u)
  BY <1>1, <1>2, <1>3, <1>7 DEF ShutdownStore
<1>8. CASE ShutdownWake(u)
  BY <1>1, <1>2, <1>3, <1>8 DEF ShutdownWake
<1>9. CASE GracefulStore(u)
  BY <1>1, <1>2, <1>3, <1>9 DEF GracefulStore
<1>10. CASE GracefulWake(u)
  BY <1>1, <1>2, <1>3, <1>10 DEF GracefulWake
<1>11. CASE \/ \E d \in Options : GracefulDur(u, d)
            \/ ListeningPoll(u) \/ ListeningWoken(u) \/ ReadAddr(u)
  BY <1>1, <1>2, <1>3, <1>11 DEF GracefulDur, ListeningPoll, ListeningWoken, ReadAddr
<1> QED
  BY <1>7, <1>8, <1>9, <1>10, <1>11 DEF User, Continue

(* A step of a connection task preserves LoopInv: of the latches it moves  *)
(* conn_end at most, and that only to be woken by itself.                  *)
LEMMA TaskLoop ==
  ASSUME CoreInv, LoopInv, NEW c \in Conns, Task(c), UNCHANGED srvVars
  PROVE  LoopInv'
<1>1. PlacePart /\ LatchPart
  BY DEF LoopInv, PlacePart, LatchPart
<1>2. /\ TypeOK
      /\ task \in [Conns -> TaskStates]
      /\ latch \in [LatchNames -> LatchStates]
  BY DEF CoreInv, TypeOK, HandleTypeOK, ConnTypeOK, TaskStates
<1>3. UNCHANGED <<srv, polling, listener>>
  BY DEF srvVars
<1> USE DEF LatchNames, TaskStates, Backlog, Watching, Accepting, Open, First, Serving,
        Draining, Dropping
<1>4. /\ UNCHANGED <<addr, call>>
      /\ \A l \in LatchNames \ {"conn_end"} : latch'[l] = latch[l]
      /\ \A d \in Conns : task[d] \in Backlog \/ task'[d] \in Backlog => task'[d] = task[d]
      /\ latch'["conn_end"] = "stored" => \E d \in Conns : task'[d] = "drop_wake"
  <2>1. CASE Working(c)
    <3>1. UNCHANGED handleVars /\ task[c] \in Accepting \cup Open
      BY <1>2, <2>1, WorkingEffect
    <3>2. PICK x \in Watching : task' = [task EXCEPT ![c] = x]
      BY <1>2, <2>1, WorkingEffect
    <3> QED
      BY <1>1, <1>2, <3>1, <3>2 DEF handleVars, LatchPart, WakeOwed
  <2>2. CASE DropSub(c)
    BY <1>1, <1>2, <2>2 DEF DropSub, EndTask, Move, LatchPart, WakeOwed
  <2>3. CASE DropCheck(c)
    BY <1>1, <1>2, <2>3 DEF DropCheck, Store, Move, LatchPart, WakeOwed
  <2>4. CASE DropWake(c)
    BY <1>1, <1>2, <2>4 DEF DropWake, Wake, WakeAll, Move
  <2> QED
    BY <2>1, <2>2, <2>3, <2>4 DEF Task, Notified, Client, Working
<1>5. PlacePart'
  BY <1>1, <1>3, <1>4, PlaceQuiet
<1>6. WakeOwed' /\ StoredInv' /\ ToldInv'
  BY <1>1, <1>3, <1>4 DEF LatchPart, WakeOwed, StoredInv, ToldInv
<1> QED
  BY <1>5, <1>6 DEF LoopInv, PlacePart
-----------------------------------------------------------------------------
(* What a step of serve() must do for LatchPart to survive it when it      *)
(* touches no latch: it owes the wakes it owed before.                     *)
LEMMA LatchQuiet ==
  ASSUME LatchPart,
         UNCHANGED <<addr, latch, call>>,
         \A c \in Conns : task[c] = "drop_wake" => task'[c] = "drop_wake",
         srv' = "addr_wake" <=> srv = "addr_wake",
         srv' = "deadline_wake" <=> srv = "deadline_wake",
         srv' \notin Untold => srv \notin Untold,
         listener \in {"open", "dropped"} => listener' \in {"open", "dropped"}
  PROVE  LatchPart'
<1> USE DEF LatchPart
<1>1. WakeOwed'
  BY DEF WakeOwed
<1>2. StoredInv'
  BY DEF StoredInv
<1>3. ToldInv'
  BY DEF ToldInv
<1> QED
  BY <1>1, <1>2, <1>3

(* serve() leaves the accept loop, or is dropped: its listener goes, and   *)
(* with it the backlog.                                                    *)
LEMMA LeaveLoop ==
  ASSUME CoreInv, LoopInv, NEW next \in {"count"} \cup Ended, Leave(next),
         srv \notin Untold \ {"bind"}, srv # "deadline_wake",
         srv = "bind" => next = "dropped"
  PROVE  LoopInv'
<1>1. PlacePart /\ LatchPart
  BY DEF LoopInv, PlacePart, LatchPart
<1>2. /\ srv' = next
      /\ UNCHANGED <<addr, latch, call>>
      /\ polling' = FALSE /\ listener' = "dropped"
      /\ task' = [c \in Conns |-> IF task[c] \in Backlog THEN "refused" ELSE task[c]]
  BY DEF Leave, DropListener, handleVars, Backlog
<1>3. \A c \in Conns : /\ task'[c] \notin Backlog
                       /\ task[c] = "drop_wake" => task'[c] = "drop_wake"
  BY <1>2 DEF Backlog
<1>4. PlacePart'
  BY <1>2, <1>3 DEF PlacePart, NobodyStranded, HeldInv, ListenerInv, PollInv, Backlog,
     AcceptLoop, Ended
<1>5. srv' \notin {"addr_wake", "deadline_wake"}
  BY <1>2 DEF Ended
<1>6. LatchPart'
  BY <1>1, <1>2, <1>3, <1>5, LatchQuiet DEF Untold
<1> QED
  BY <1>4, <1>6 DEF LoopInv, PlacePart, LatchPart

(* serve() goes on in the accept loop, or in the wait for the connections, *)
(* and touches nothing of the Handle, the tasks and the listener.          *)
LEMMA StayLoop ==
  ASSUME LoopInv,
         UNCHANGED <<handleVars, connVars, listener>>,
         \/ srv \in {"start"} \cup AcceptLoop /\ srv' \in AcceptLoop
         \/ srv \in WaitEnd \ {"deadline_wake"}
              /\ srv' \in (WaitEnd \ {"deadline_wake"}) \cup {"ok_drained"},
         srv' \in {"ready", "make"} <=> srv \in {"ready", "make"},
         polling' => srv' \in AcceptLoop,
         srv' \in {"listen0", "graceful0", "graceful"} => polling'
  PROVE  LoopInv'
<1>1. PlacePart /\ LatchPart
  BY DEF LoopInv, PlacePart, LatchPart
<1>2. UNCHANGED <<addr, latch, call, task, listener>>
  BY DEF handleVars, connVars
<1> USE DEF AcceptLoop, WaitEnd, Waiting, Ended, Binding
<1>3. NobodyStranded'
  BY <1>1, <1>2 DEF PlacePart, NobodyStranded, ListenerInv
<1>4. HeldInv'
  BY <1>1, <1>2 DEF PlacePart, HeldInv
<1>5. ListenerInv'
  BY <1>1, <1>2 DEF PlacePart, ListenerInv
<1>6. PollInv'
  BY DEF PollInv
<1>7. LatchPart'
  <2>1. /\ srv' \notin {"addr_wake", "deadline_wake"}
        /\ srv \notin {"addr_wake", "deadline_wake"}
        /\ srv \notin Untold
    BY DEF Untold
  <2> QED
    BY <1>1, <1>2, <2>1, LatchQuiet
<1> QED
  BY <1>3, <1>4, <1>5, <1>6, <1>7 DEF LoopInv, LatchPart

(* The accept loop and the wait for the connections preserve LoopInv.      *)
LEMMA ServeLoop ==
  ASSUME CoreInv, LoopInv,
         \/ Start \/ Shutdown \/ AcceptStreamErr \/ BackoffDone \/ AcceptStreamPending
         \/ Graceful \/ AcceptPark \/ ReadyOk \/ ReadyErr \/ MakePark
         \/ LoadCount \/ ReadDuration \/ DeadlineElapse \/ ConnectionsEnded \/ EndPark
         \/ ServeDropped
  PROVE  LoopInv'
<1> USE DEF AcceptLoop, WaitEnd, Waiting, Ended, Untold
<1>1. polling \in BOOLEAN /\ PollInv
  BY DEF CoreInv, TypeOK, LoopInv
<1>2. CASE Shutdown \/ Graceful \/ ReadyErr \/ ServeDropped
  BY <1>2, LeaveLoop DEF Shutdown, Graceful, ReadyErr, ServeDropped
<1>3. CASE Start
  BY <1>3, StayLoop DEF Start
<1>4. CASE AcceptStreamErr
  BY <1>4, StayLoop DEF AcceptStreamErr, Listening, NextArm
<1>5. CASE BackoffDone
  BY <1>5, StayLoop DEF BackoffDone, Listening
<1>6. CASE AcceptStreamPending
  BY <1>6, StayLoop DEF AcceptStreamPending, Listening, NextArm
<1>7. CASE AcceptPark
  BY <1>7, StayLoop DEF AcceptPark
<1>8. CASE ReadyOk
  BY <1>8, StayLoop DEF ReadyOk
<1>9. CASE MakePark
  BY <1>9, StayLoop DEF MakePark
<1>10. CASE LoadCount
  BY <1>1, <1>10, StayLoop DEF LoadCount, PollInv
<1>11. CASE ReadDuration
  BY <1>1, <1>11, StayLoop DEF ReadDuration, PollInv
<1>12. CASE DeadlineElapse
  BY <1>1, <1>12, StayLoop DEF DeadlineElapse, PollInv
<1>13. CASE ConnectionsEnded
  BY <1>1, <1>13, StayLoop DEF ConnectionsEnded, PollInv
<1>14. CASE EndPark
  BY <1>1, <1>14, StayLoop DEF EndPark, PollInv
<1> QED
  BY <1>2, <1>3, <1>4, <1>5, <1>6, <1>7, <1>8, <1>9, <1>10, <1>11, <1>12, <1>13, <1>14

(* A connection on its way from the client to its task preserves LoopInv.  *)
LEMMA AdmissionLoop ==
  ASSUME CoreInv, LoopInv, NEW c \in Conns,
         Connect(c) \/ AcceptStream(c) \/ MakeOk(c) \/ MakeErr(c)
  PROVE  LoopInv'
<1>1. PlacePart /\ LatchPart
  BY DEF LoopInv, PlacePart, LatchPart
<1>2. task \in [Conns -> TaskStates]
  BY DEF CoreInv, TypeOK, ConnTypeOK, TaskStates
<1>3. UNCHANGED <<addr, latch, call, listener>>
  BY DEF Connect, AcceptStream, MakeOk, MakeErr, handleVars, srvVars
<1> USE DEF AcceptLoop, Binding, WaitEnd, Waiting, Ended, PlacePart, NobodyStranded, HeldInv,
        ListenerInv, PollInv
<1>4. CASE Connect(c)
  <2>1. /\ task[c] = "outside"
        /\ task' = [task EXCEPT ![c] = "queued"]
        /\ listener = "open"
        /\ UNCHANGED <<srv, polling, listener>>
    BY <1>4 DEF Connect, Move, srvVars
  <2>2. srv \in Binding \cup AcceptLoop
    BY <1>1, <2>1 DEF CoreInv, TypeOK
  <2>3. PlacePart'
    BY <1>1, <1>2, <2>1, <2>2
  <2>4. LatchPart'
    BY <1>1, <1>2, <1>3, <2>1, LatchQuiet
  <2> QED
    BY <2>3, <2>4 DEF LoopInv, LatchPart
<1>5. CASE AcceptStream(c)
  <2>1. /\ srv \in {"listen0", "listen"}
        /\ task[c] = "queued"
        /\ task' = [task EXCEPT ![c] = "held"]
        /\ srv' = "ready" /\ polling' = TRUE
    BY <1>5 DEF AcceptStream, Listening, Move
  <2>2. PlacePart'
    BY <1>1, <1>2, <1>3, <2>1
  <2>3. LatchPart'
    BY <1>1, <1>2, <1>3, <2>1, LatchQuiet DEF Untold
  <2> QED
    BY <2>2, <2>3 DEF LoopInv, LatchPart
<1>6. CASE MakeOk(c) \/ MakeErr(c)
  <2>1. PICK x \in {"accept0", "refused"} : task' = [task EXCEPT ![c] = x]
    BY <1>6 DEF MakeOk, MakeErr, Move
  <2>2. srv = "make" /\ task[c] = "held" /\ srv' = "listen0" /\ polling' = TRUE
    BY <1>6 DEF MakeOk, MakeErr
  <2>3. PlacePart'
    BY <1>1, <1>2, <1>3, <2>1, <2>2
  <2>4. LatchPart'
    BY <1>1, <1>2, <1>3, <2>1, <2>2, LatchQuiet DEF Untold
  <2> QED
    BY <2>3, <2>4 DEF LoopInv, LatchPart
<1> QED
  BY <1>4, <1>5, <1>6

(* Binding, notify_listening() and the deadline's shutdown() preserve      *)
(* LoopInv: serve() has each wake before it from the store on.             *)
LEMMA NotifyLoop ==
  ASSUME CoreInv, LoopInv, Bind \/ Publishing \/ Expiring
  PROVE  LoopInv'
<1>1. PlacePart /\ LatchPart
  BY DEF LoopInv, PlacePart, LatchPart
<1>2. latch \in [LatchNames -> LatchStates]
  BY DEF CoreInv, TypeOK, HandleTypeOK
<1>3. UNCHANGED <<task, call, polling>>
  BY DEF Bind, Publishing, Expiring, SetAddr, AddrStore, AddrWake, DeadlineStore,
     DeadlineWake, connVars, handleVars
<1>4. CASE Bind
  <2>1. /\ srv = "bind" /\ srv' = "set_addr"
        /\ UNCHANGED <<addr, latch>>
        /\ listener = "open" => listener' = "open"
        /\ listener' \in {"open", "failed"}
    BY <1>4 DEF Bind, handleVars
  <2>2. PlacePart'
    BY <1>1, <1>3, <2>1 DEF PlacePart, NobodyStranded, HeldInv, ListenerInv, PollInv,
       Binding, AcceptLoop, WaitEnd, Waiting, Ended
  <2>3. LatchPart'
    BY <1>1, <1>3, <2>1, LatchQuiet DEF PlacePart, ListenerInv, Untold
  <2> QED
    BY <2>2, <2>3 DEF LoopInv, PlacePart, LatchPart
<1>5. CASE Publishing \/ Expiring
  <2>1. listener' = listener
    BY <1>5 DEF Publishing, Expiring, SetAddr, AddrStore, AddrWake, DeadlineStore, DeadlineWake
  <2>2. \/ srv \in {"set_addr", "addr_store"} /\ srv' \in {"addr_store", "addr_wake"}
        \/ srv = "addr_wake" /\ srv' = IF listener = "open" THEN "start" ELSE "err"
        \/ srv \in WaitEnd /\ srv' \in {"deadline_wake", "ok_deadline"}
    BY <1>5 DEF Publishing, Expiring, SetAddr, AddrStore, AddrWake, DeadlineStore,
       DeadlineWake, WaitEnd, Waiting
  <2>3. PlacePart'
    <3> USE DEF Binding, AcceptLoop, WaitEnd, Waiting, Ended, PlacePart
    <3>1. NobodyStranded' /\ HeldInv'
      BY <1>1, <1>3, <2>1, <2>2 DEF NobodyStranded, HeldInv, ListenerInv
    <3>2. ListenerInv' /\ PollInv'
      BY <1>1, <1>3, <2>1, <2>2 DEF ListenerInv, PollInv
    <3> QED
      BY <3>1, <3>2
  <2> SUFFICES LatchPart'
    BY <2>3 DEF LoopInv, PlacePart, LatchPart
  <2> USE DEF LatchNames, LatchPart, Store, Wake, StoreFlag, WakeAll, IsNotified, IsWoken
  <2>4. CASE SetAddr
    BY <1>1, <1>3, <2>1, <2>4
    DEF SetAddr, WakeOwed, StoredInv, ToldInv, Untold, Options, PlacePart, ListenerInv
  <2>5. CASE AddrStore
    BY <1>1, <1>2, <1>3, <2>1, <2>5 DEF AddrStore, WakeOwed, StoredInv, ToldInv, Untold
  <2>6. CASE AddrWake
    BY <1>1, <1>2, <1>3, <2>1, <2>6 DEF AddrWake, WakeOwed, StoredInv, ToldInv, Untold
  <2>7. CASE DeadlineStore
    BY <1>1, <1>2, <1>3, <2>1, <2>7 DEF DeadlineStore, WakeOwed, StoredInv, ToldInv, Untold
  <2>8. CASE DeadlineWake
    BY <1>1, <1>2, <1>3, <2>1, <2>8 DEF DeadlineWake, WakeOwed, StoredInv, ToldInv, Untold
  <2> QED
    BY <1>5, <2>4, <2>5, <2>6, <2>7, <2>8 DEF Publishing, Expiring
<1> QED
  BY <1>4, <1>5
-----------------------------------------------------------------------------
(* A server that has not been polled yet satisfies LoopInv.                *)
LEMMA InitLoop == Init => LoopInv
<1> SUFFICES ASSUME Init PROVE LoopInv
  OBVIOUS
<1>1. /\ \A c \in Conns : task[c] = "outside"
      /\ \A u \in Users : call[u] = "idle"
      /\ \A l \in LatchNames : latch[l] = "unset"
      /\ srv = "bind" /\ polling = FALSE /\ listener \in {"unbound", "open"} /\ addr = "None"
  BY DEF Init, HandleInit, ConnInit
<1>2. NobodyStranded /\ HeldInv
  BY <1>1 DEF NobodyStranded, HeldInv
<1>3. ListenerInv /\ PollInv
  BY <1>1 DEF ListenerInv, PollInv, AcceptLoop, WaitEnd, Waiting, Ended
<1>4. WakeOwed /\ StoredInv /\ ToldInv
  BY <1>1 DEF WakeOwed, StoredInv, ToldInv, Untold, LatchNames
<1> QED
  BY <1>2, <1>3, <1>4 DEF LoopInv

(* No step of the application, a task or serve() breaks LoopInv.           *)
LEMMA NextLoop == Inv /\ [Next]_vars => LoopInv'
<1> SUFFICES ASSUME CoreInv, LoopInv, [Next]_vars PROVE LoopInv'
  BY DEF Inv
<1>1. ASSUME NEW u \in Users, User(u), UNCHANGED <<connVars, srvVars>> PROVE LoopInv'
  BY <1>1, UserLoop
<1>2. ASSUME NEW c \in Conns, Task(c), UNCHANGED srvVars PROVE LoopInv'
  BY <1>2, TaskLoop
<1>3. ASSUME NEW c \in Conns, Connect(c) \/ AcceptStream(c) \/ MakeOk(c) \/ MakeErr(c)
      PROVE  LoopInv'
  BY <1>3, AdmissionLoop
<1>4. CASE ServeStep
  BY <1>4, ServeLoop, NotifyLoop DEF ServeStep, Publishing, Expiring
<1>5. CASE \/ AcceptStreamErr \/ BackoffDone \/ ReadyOk \/ ReadyErr \/ MakePark
           \/ DeadlineElapse \/ ServeDropped
  BY <1>5, ServeLoop
<1>6. CASE UNCHANGED vars
  BY <1>6 DEF vars, handleVars, connVars, srvVars, LoopInv, NobodyStranded, HeldInv,
     ListenerInv, PollInv, WakeOwed, StoredInv, ToldInv
<1> QED
  BY <1>1, <1>2, <1>3, <1>4, <1>5, <1>6 DEF Next

(* Inv holds in every state of a server, whatever its users, its clients   *)
(* and the runtime do and however their steps interleave.                  *)
THEOREM InvAlways == Safety => []Inv
<1>1. Init => Inv
  BY InitCore, InitLoop DEF Inv
<1>2. Inv /\ [Next]_vars => Inv'
  BY NextCore, NextLoop DEF Inv
<1> QED
  BY <1>1, <1>2, PTL DEF Safety

(* No client is left in the backlog, or in the hands of serve(), when the  *)
(* accept loop is over.                                                    *)
THEOREM BacklogAnswered == Safety => []NobodyStranded
<1>1. Inv => NobodyStranded
  BY DEF Inv, LoopInv
<1> QED
  BY <1>1, InvAlways, PTL

(* No latch is left notified with its waiters asleep.                      *)
THEOREM WakesComplete == Safety => []WakeOwed
<1>1. Inv => WakeOwed
  BY DEF Inv, LoopInv
<1> QED
  BY <1>1, InvAlways, PTL

(* listening() is told, and told the address that was bound.               *)
THEOREM ListeningCorrect == Safety => []ListeningTold
<1>1. Inv => ListeningTold
  <2> SUFFICES ASSUME Inv, NEW u \in Users
               PROVE  /\ call[u] = "listening" /\ srv \notin Untold
                             => IsWoken(latch["addr_notify"])
                      /\ heard[u] \in {"pending", addr}
                      /\ heard[u] = "Some" => listener \in {"open", "dropped"}
    BY DEF ListeningTold
  <2>1. heard[u] \in {"pending", addr}
    BY DEF Inv, CoreInv, ListeningAgrees
  <2>2. ToldInv
    BY DEF Inv, LoopInv
  <2> QED
    BY <2>1, <2>2 DEF ToldInv
<1> QED
  BY <1>1, InvAlways, PTL
-----------------------------------------------------------------------------
(* Only the connection's own task has anything to do with its bytes.       *)
LEMMA BytesStay ==
  ASSUME CoreInv, [Next]_vars, NEW d \in Conns
  PROVE  \/ http'[d] = http[d] /\ rx'[d] = rx[d]
         \/ task[d] = "exit"
         \/ Working(d)
<1>1. TypeOK /\ ConnTypeOK
  BY DEF CoreInv, TypeOK
<1>2. ASSUME NEW u \in Users, User(u), UNCHANGED <<connVars, srvVars>>
      PROVE  http' = http /\ rx' = rx
  BY <1>2 DEF connVars
<1>3. ASSUME NEW c \in Conns, Task(c), c # d
      PROVE  http'[d] = http[d] /\ rx'[d] = rx[d]
  <2> USE <1>1 DEF ConnTypeOK
  <2>1. CASE FirstServe(c) \/ Serve(c) \/ Drain(c)
    BY <1>3, <2>1 DEF FirstServe, Serve, Drain, PollServe
  <2>2. CASE ServeGraceful(c)
    BY <1>3, <2>2 DEF ServeGraceful
  <2>3. CASE DropSub(c) \/ DropCheck(c) \/ DropWake(c)
    BY <1>3, <2>3 DEF DropSub, EndTask, DropCheck, DropWake
  <2>4. CASE \/ Pass(c) \/ Elapse(c) \/ AcceptCancelled(c) \/ AcceptOk(c) \/ AcceptErr(c)
             \/ AcceptPending(c) \/ AcceptTimedOut(c) \/ FirstShutdown(c)
             \/ FirstGraceful(c) \/ FirstTimedOut(c) \/ FirstDispatched(c)
             \/ ServeShutdown(c) \/ DrainShutdown(c)
    BY <2>4 DEF Pass, Elapse, AcceptCancelled, AcceptOk, AcceptErr, AcceptPending, AcceptTimedOut,
       FirstShutdown, FirstGraceful, FirstTimedOut, FirstDispatched, ServeShutdown,
       DrainShutdown
  <2> QED
    BY <1>3, <2>1, <2>2, <2>3, <2>4 DEF Task, Notified, Client
<1>4. ASSUME Task(d)
      PROVE  (http' = http /\ rx' = rx) \/ task[d] = "exit" \/ Working(d)
  BY <1>4 DEF Task, Notified, Client, Working, DropSub, EndTask, DropCheck, DropWake
<1>5. ASSUME NEW c \in Conns, Connect(c) \/ AcceptStream(c) \/ MakeOk(c) \/ MakeErr(c)
      PROVE  http' = http /\ rx' = rx
  BY <1>5 DEF Connect, AcceptStream, MakeOk, MakeErr
<1>6. CASE ServeStep
  BY <1>6 DEF ServeStep, Bind, SetAddr, AddrStore, AddrWake, Start, Shutdown,
     AcceptStreamPending, Graceful, AcceptPark, LoadCount, ReadDuration, DeadlineStore,
     DeadlineWake, ConnectionsEnded, EndPark, Leave, DropListener, connVars
<1>7. CASE \/ AcceptStreamErr \/ BackoffDone \/ ReadyOk \/ ReadyErr \/ MakePark
           \/ DeadlineElapse \/ ServeDropped
  BY <1>7 DEF AcceptStreamErr, BackoffDone, ReadyOk, ReadyErr, MakePark, DeadlineElapse,
     ServeDropped, Leave, DropListener, connVars
<1>8. CASE UNCHANGED vars
  BY <1>8 DEF vars, connVars
<1> QED
  BY <1>2, <1>3, <1>4, <1>5, <1>6, <1>7, <1>8 DEF Next

(* A poll that is past all arms on a latch is past the one on shutdown.    *)
LEMMA PastAll ==
  ASSUME ConnTypeOK, NEW c \in Conns, Past(c), task[c] \in Accepting \cup Open
  PROVE  /\ arm[c] \in {1, 2}
         /\ task[c] \in First \cup Serving => arm[c] = 2
         /\ PastShutdown(c)
<1>1. arm[c] \in 0..2 /\ arm[c] # 0
  BY PastPolled DEF ConnTypeOK
<1>2. ~Looks(c, "shutdown") /\ ~Looks(c, "graceful")
  BY DEF Past, LatchNames
<1>3. task[c] \in First \cup Serving => arm[c] # 1
  BY <1>2 DEF Looks
<1>4. arm[c] \in {1, 2}
  BY <1>1
<1> QED
  BY <1>3, <1>4 DEF PastShutdown, Open

(* After shutdown() has woken those who wait, a poll goes on from an arm   *)
(* only if its look at shutdown is behind it, or before it.                *)
LEMMA WokenPass ==
  ASSUME ConnTypeOK, NEW c \in Conns, Pass(c), IsWoken(latch["shutdown"])
  PROVE  \/ task[c] \in First /\ arm[c] = 1
         \/ task[c] \in Serving /\ arm[c] = 0
<1>1. SeesIn(c, "shutdown")
  BY DEF SeesIn, Sees, IsNotified, IsWoken
<1>2. PICK l \in LatchNames : Looks(c, l)
  BY DEF Pass
<1>3. ~Looks(c, "shutdown")
  BY <1>1 DEF Pass, Told, LatchNames
<1> QED
  BY <1>2, <1>3 DEF Looks

(* A task that is polled after shutdown() has woken those who wait closes  *)
(* its connection, or goes on to an arm or a drain in which it will.       *)
LEMMA WokenTask ==
  ASSUME ConnTypeOK, NEW c \in Conns, Working(c), IsWoken(latch["shutdown"]), ~PastShutdown(c)
  PROVE  /\ ~PastShutdown(c)'
         /\ task'[c] \in Open => task[c] \in Open
         /\ rx'[c] = rx[c] /\ http'[c] \in {http[c], "closed"}
<1> USE DEF Open, First, Serving, Draining, Accepting, Move, ConnTypeOK
<1>1. CASE Pass(c)
  <2>1. task[c] \in Serving /\ arm[c] = 0
    BY <1>1, WokenPass DEF PastShutdown
  <2>2. task' = task /\ http' = http /\ rx' = rx /\ arm'[c] = 1
    BY <1>1, <2>1 DEF Pass
  <2> QED
    BY <2>1, <2>2 DEF PastShutdown
<1>2. CASE ServeGraceful(c)
  <2>1. PICK h \in HyperGraceful(http[c]) : http' = [http EXCEPT ![c] = h]
    BY <1>2 DEF ServeGraceful
  <2>2. h \in {http[c], "closed"}
    BY DEF HyperGraceful, HttpStates
  <2> QED
    BY <1>2, <2>1, <2>2 DEF ServeGraceful, PastShutdown
<1>3. CASE FirstShutdown(c) \/ ServeShutdown(c) \/ DrainShutdown(c) \/ AcceptCancelled(c)
  BY <1>3 DEF FirstShutdown, ServeShutdown, DrainShutdown, AcceptCancelled, PastShutdown
<1>4. CASE Elapse(c)
  BY <1>4 DEF Elapse, PastShutdown
<1>5. CASE FirstGraceful(c)
  BY <1>5 DEF FirstGraceful, Told, Looks, PastShutdown
<1>6. CASE \/ AcceptOk(c) \/ AcceptErr(c) \/ AcceptPending(c) \/ AcceptTimedOut(c)
           \/ FirstTimedOut(c) \/ FirstDispatched(c) \/ FirstServe(c)
           \/ Serve(c) \/ Drain(c)
  <2>1. Past(c) /\ task[c] \in Accepting \cup Open
    BY <1>6 DEF AcceptOk, AcceptErr, AcceptPending, AcceptTimedOut, PollAcceptor,
       FirstTimedOut, FirstDispatched, FirstServe, FirstUnnotified, Serve, Drain
  <2> QED
    BY <2>1, PastAll
<1> QED
  BY <1>1, <1>2, <1>3, <1>4, <1>5, <1>6 DEF Working

(* A serve() that is polled after shutdown() has woken it returns.         *)
LEMMA WokenServe ==
  ASSUME Inv, [Next]_vars, IsWoken(latch["shutdown"]), srv \in AcceptLoop, ~polling
  PROVE  srv' \in {srv, "ok_shutdown", "dropped"}
<1>1. PollInv
  BY DEF Inv, LoopInv
<1>2. ~Resume /\ srv \in {"listen", "ready", "make"}
  BY <1>1 DEF Resume, Sees, PollInv, AcceptLoop
<1>3. CASE ServeStep
  BY <1>2, <1>3 DEF ServeStep, Bind, SetAddr, AddrStore, AddrWake, Start, Shutdown, Leave,
     AcceptStreamPending, Listening, Graceful, AcceptPark, LoadCount, ReadDuration,
     DeadlineStore, DeadlineWake, ConnectionsEnded, EndPark, Waiting
<1>4. CASE \/ AcceptStreamErr \/ BackoffDone \/ ReadyOk \/ ReadyErr \/ MakePark
           \/ DeadlineElapse \/ ServeDropped
  BY <1>2, <1>4 DEF AcceptStreamErr, BackoffDone, Listening, ReadyOk, ReadyErr, MakePark,
     DeadlineElapse, ServeDropped, Leave
<1>5. ASSUME NEW c \in Conns, Connect(c) \/ AcceptStream(c) \/ MakeOk(c) \/ MakeErr(c)
      PROVE  srv' = srv
  BY <1>2, <1>5 DEF Connect, AcceptStream, Listening, MakeOk, MakeErr, srvVars
<1> QED
  BY <1>3, <1>4, <1>5 DEF Next, vars, srvVars

(* After shutdown() no poll is begun that serves a request, for any number *)
(* of connections and wherever their tasks are.                            *)
THEOREM ShutdownStops == Safety => ShutdownIsFinal
<1> DEFINE Final ==
      IsWoken(latch["shutdown"]) =>
        /\ \A c \in Conns : ~PastShutdown(c) =>
              /\ ~PastShutdown(c)'
              /\ task'[c] \in Open => task[c] \in Open
              /\ task[c] \in Open => rx'[c] = rx[c] /\ http'[c] \in {http[c], "closed"}
        /\ srv \in AcceptLoop /\ ~polling => srv' \in {srv, "ok_shutdown", "dropped"}
<1>1. Inv /\ [Next]_vars => [Final]_vars
  <2> SUFFICES ASSUME Inv, [Next]_vars, IsWoken(latch["shutdown"])
               PROVE  \A c \in Conns : ~PastShutdown(c) =>
                        /\ ~PastShutdown(c)'
                        /\ task'[c] \in Open => task[c] \in Open
                        /\ task[c] \in Open => rx'[c] = rx[c] /\ http'[c] \in {http[c], "closed"}
    BY WokenServe
  <2> TAKE c \in Conns
  <2> HAVE ~PastShutdown(c)
  <2>1. CoreInv /\ ConnTypeOK
    BY DEF Inv, CoreInv, TypeOK
  <2>2. CASE Working(c)
    BY <2>1, <2>2, WokenTask
  <2>3. CASE ~Working(c)
    <3>1. (http'[c] = http[c] /\ rx'[c] = rx[c]) \/ task[c] = "exit"
      BY <2>1, <2>3, BytesStay
    <3>2. \/ Stays(c) \/ Spawning(c)
          \/ task[c] \in {"exit"} \cup Dropping /\ task'[c] \in Dropping \cup {"gone"}
      BY <2>1, <2>3, OthersStay
    <3>3. ~PastShutdown(c)' /\ (task'[c] \in Open => task[c] \in Open)
      BY <3>2 DEF Stays, Spawning, PastShutdown, Unspawned, Dropping, Accepting, Open, First,
         Serving, Draining
    <3> QED
      BY <3>1, <3>3 DEF Open, First, Serving, Draining
  <2> QED
    BY <2>2, <2>3
<1> QED
  BY <1>1, InvAlways, PTL DEF Safety, ShutdownIsFinal
-----------------------------------------------------------------------------
(* A step brings a connection nearer to its end and none back, or brings   *)
(* serve() nearer to its return.                                           *)
Down == /\ \A c \in Conns : Rank(c)' <= Rank(c)
        /\ (\E c \in Conns : Rank(c)' < Rank(c)) \/ ServeRank' < ServeRank

LEMMA TaskRankType == \A pc \in TaskStates : TaskRank(pc) \in 1..11
  BY DEF TaskStates, TaskRank, Unspawned, Watching, Accepting, Open, First, Serving,
     Draining, Dropping

LEMMA StageRank ==
  /\ TaskRank("outside") = 11 /\ TaskRank("queued") = 10 /\ TaskRank("held") = 9
  /\ \A pc \in Accepting : TaskRank(pc) = 8
  /\ \A pc \in First : TaskRank(pc) = 7
  /\ \A pc \in Serving : TaskRank(pc) = 6
  /\ \A pc \in Draining : TaskRank(pc) = 5
  /\ TaskRank("exit") = 4 /\ TaskRank("drop_check") = 3 /\ TaskRank("drop_wake") = 2
  /\ TaskRank("gone") = 1 /\ TaskRank("refused") = 1
  BY DEF TaskRank, Accepting, First, Serving, Draining

LEMMA PollRankType == \A pc : \A n \in 0..2 : PollRank(pc, n) \in 0..2
<1> SUFFICES ASSUME NEW pc, NEW n \in 0..2 PROVE PollRank(pc, n) \in 0..2
  OBVIOUS
<1>1. n = 0 \/ n = 1 \/ n = 2
  OBVIOUS
<1> QED
  BY <1>1 DEF PollRank, First, Serving

LEMMA ArmRank ==
  /\ \A pc \in First : PollRank(pc, 0) = 0 /\ PollRank(pc, 1) = 2 /\ PollRank(pc, 2) = 1
  /\ \A pc \in Serving : PollRank(pc, 0) = 1 /\ PollRank(pc, 1) = 0 /\ PollRank(pc, 2) = 2
  /\ \A pc \in Accepting \cup Draining :
        PollRank(pc, 0) = 0 /\ PollRank(pc, 1) = 1 /\ PollRank(pc, 2) = 1
  BY DEF PollRank, Accepting, First, Serving, Draining

LEMMA RankType ==
  ConnTypeOK => \A c \in Conns : /\ Rank(c) \in Nat
                                 /\ TaskRank(task[c]) \in 1..11
                                 /\ PollRank(task[c], arm[c]) \in 0..2
<1> SUFFICES ASSUME ConnTypeOK, NEW c \in Conns
             PROVE  /\ Rank(c) \in Nat
                    /\ TaskRank(task[c]) \in 1..11
                    /\ PollRank(task[c], arm[c]) \in 0..2
  OBVIOUS
<1>1. TaskRank(task[c]) \in 1..11
  BY TaskRankType DEF ConnTypeOK, TaskStates
<1>2. PollRank(task[c], arm[c]) \in 0..2
  BY PollRankType DEF ConnTypeOK
<1> QED
  BY <1>1, <1>2 DEF Rank

(* One connection's rank falls, the others stay as they are.               *)
LEMMA RankFalls ==
  ASSUME ConnTypeOK, NEW c \in Conns, Rank(c)' \in Int, Rank(c)' < Rank(c),
         \A d \in Conns \ {c} :
            task'[d] = task[d] /\ arm'[d] = arm[d] /\ elapsed'[d] = elapsed[d]
  PROVE  Down
<1>1. \A d \in Conns : Rank(d) \in Nat
  BY RankType
<1>2. \A d \in Conns \ {c} : Rank(d)' = Rank(d)
  BY DEF Rank
<1>3. Rank(c)' <= Rank(c)
  BY <1>1
<1> QED
  BY <1>1, <1>2, <1>3 DEF Down

(* One connection goes on to a later stage, the others stay.               *)
LEMMA OneDown ==
  ASSUME ConnTypeOK, NEW c \in Conns, NEW x \in TaskStates,
         task' = [task EXCEPT ![c] = x], arm' = [arm EXCEPT ![c] = 0],
         TaskRank(x) < TaskRank(task[c]),
         \A d \in Conns \ {c} : elapsed'[d] = elapsed[d]
  PROVE  Down
<1>1. task'[c] = x /\ arm'[c] = 0
  BY DEF ConnTypeOK
<1>2. TaskRank(x) \in 1..11 /\ PollRank(x, 0) \in 0..2
  BY TaskRankType, PollRankType
<1>3. TaskRank(task[c]) \in 1..11 /\ PollRank(task[c], arm[c]) \in 0..2
  BY RankType
<1>4. Rank(c)' \in Int /\ Rank(c)' < Rank(c)
  BY <1>1, <1>2, <1>3 DEF Rank
<1>5. \A d \in Conns \ {c} :
         task'[d] = task[d] /\ arm'[d] = arm[d] /\ elapsed'[d] = elapsed[d]
  BY DEF ConnTypeOK
<1> QED
  BY <1>4, <1>5, RankFalls

(* One connection's poll ends, or goes on to an arm nearer to its end or   *)
(* to a look at shutdown.                                                  *)
LEMMA PollDown ==
  ASSUME ConnTypeOK, NEW c \in Conns, NEW x, NEW n \in 0..2,
         task' = [task EXCEPT ![c] = x], arm' = [arm EXCEPT ![c] = n], elapsed' = elapsed,
         TaskRank(x) = TaskRank(task[c]), PollRank(x, n) < PollRank(task[c], arm[c])
  PROVE  Down
<1>1. task'[c] = x /\ arm'[c] = n
  BY DEF ConnTypeOK
<1>2. PollRank(x, n) \in 0..2
  BY PollRankType
<1>3. TaskRank(task[c]) \in 1..11 /\ PollRank(task[c], arm[c]) \in 0..2
  BY RankType
<1>4. Rank(c)' \in Int /\ Rank(c)' < Rank(c)
  BY <1>1, <1>2, <1>3 DEF Rank
<1>5. \A d \in Conns \ {c} :
         task'[d] = task[d] /\ arm'[d] = arm[d] /\ elapsed'[d] = elapsed[d]
  BY DEF ConnTypeOK
<1> QED
  BY <1>4, <1>5, RankFalls

(* A poll of hyper that had looked at shutdown before.                     *)
LEMMA HyperDown ==
  ASSUME ConnTypeOK, NEW c \in Conns, NEW k \in BOOLEAN, NEW next \in Open,
         PollServe(c, k, next), Past(c),
         \/ task[c] \in First /\ next \in First
         \/ task[c] \in Serving /\ next \in Serving
         \/ task[c] \in Draining /\ next \in Draining
  PROVE  Down
<1>1. /\ task' = [task EXCEPT ![c] = next] \/ task' = [task EXCEPT ![c] = "exit"]
      /\ arm' = [arm EXCEPT ![c] = 0]
      /\ elapsed' = elapsed
  BY PollServeEffect
<1>2. task[c] \in Open
  BY DEF Open
<1>3. /\ arm[c] \in {1, 2}
      /\ task[c] \in First \cup Serving => arm[c] = 2
  BY <1>2, PastAll
<1>4. CASE task' = [task EXCEPT ![c] = next]
  <2>1. TaskRank(next) = TaskRank(task[c])
    BY StageRank
  <2>2. PollRank(next, 0) < PollRank(task[c], arm[c])
    BY <1>3, ArmRank
  <2>3. 0 \in 0..2
    OBVIOUS
  <2> QED
    BY <1>1, <1>4, <2>1, <2>2, <2>3, PollDown
<1>5. CASE task' = [task EXCEPT ![c] = "exit"]
  <2>1. "exit" \in TaskStates
    BY DEF TaskStates, Watching
  <2>2. TaskRank("exit") < TaskRank(task[c])
    BY <1>2, StageRank DEF Open
  <2> QED
    BY <1>1, <1>5, <2>1, <2>2, OneDown
<1> QED
  BY <1>1, <1>4, <1>5

(* A task that is polled, or whose timer runs out, after shutdown().       *)
LEMMA TaskDown ==
  ASSUME ConnTypeOK, NEW c \in Conns, Task(c), IsWoken(latch["shutdown"])
  PROVE  Down
<1>1. {"exit", "first0", "serve0", "drain0", "drop_check", "drop_wake", "gone"}
        \subseteq TaskStates
  BY DEF TaskStates, Watching, Open, First, Serving, Draining, Dropping
<1>2. CASE Elapse(c)
  <2>1. /\ task' = task /\ arm' = arm
        /\ elapsed' = [elapsed EXCEPT ![c] = TRUE]
        /\ ~elapsed[c]
    BY <1>2 DEF Elapse
  <2>2. TaskRank(task[c]) \in 1..11 /\ PollRank(task[c], arm[c]) \in 0..2
    BY RankType
  <2>3. Rank(c)' \in Int /\ Rank(c)' < Rank(c)
    BY <2>1, <2>2 DEF Rank, ConnTypeOK
  <2>4. \A d \in Conns \ {c} :
           task'[d] = task[d] /\ arm'[d] = arm[d] /\ elapsed'[d] = elapsed[d]
    BY <2>1 DEF ConnTypeOK
  <2> QED
    BY <2>3, <2>4, RankFalls
<1>3. CASE Pass(c)
  <2>1. \/ task[c] \in First /\ arm[c] = 1
        \/ task[c] \in Serving /\ arm[c] = 0
    BY <1>3, WokenPass
  <2>2. /\ task' = [task EXCEPT ![c] = task[c]]
        /\ arm' = [arm EXCEPT ![c] = arm[c] + 1]
        /\ elapsed' = elapsed
    BY <1>3 DEF Pass, ConnTypeOK
  <2>3. arm[c] + 1 \in 0..2
    BY <2>1
  <2>4. PollRank(task[c], arm[c] + 1) < PollRank(task[c], arm[c])
    <3>1. CASE task[c] \in First /\ arm[c] = 1
      <4>1. arm[c] + 1 = 2
        BY <3>1
      <4> QED
        BY <3>1, <4>1, ArmRank
    <3>2. CASE task[c] \in Serving /\ arm[c] = 0
      <4>1. arm[c] + 1 = 1
        BY <3>2
      <4> QED
        BY <3>2, <4>1, ArmRank
    <3> QED
      BY <2>1, <3>1, <3>2
  <2> QED
    BY <2>2, <2>3, <2>4, PollDown
<1>4. CASE \/ AcceptCancelled(c) \/ AcceptErr(c) \/ AcceptTimedOut(c)
           \/ FirstShutdown(c) \/ FirstTimedOut(c)
           \/ ServeShutdown(c) \/ DrainShutdown(c)
  <2>1. /\ task' = [task EXCEPT ![c] = "exit"] /\ arm' = [arm EXCEPT ![c] = 0]
        /\ task[c] \in Accepting \cup Open
        /\ elapsed' = elapsed
    BY <1>4 DEF AcceptCancelled, AcceptErr, AcceptTimedOut, PollAcceptor, FirstShutdown,
       FirstTimedOut, FirstUnnotified, ServeShutdown, DrainShutdown, Move, Open
  <2>2. TaskRank("exit") < TaskRank(task[c])
    BY <2>1, StageRank DEF Open
  <2> QED
    BY <1>1, <2>1, <2>2, OneDown
<1>5. CASE AcceptOk(c)
  <2>1. PICK x \in {"first0", "serve0"} :
           task' = [task EXCEPT ![c] = x] /\ arm' = [arm EXCEPT ![c] = 0]
    BY <1>5 DEF AcceptOk, Move
  <2>2. task[c] \in Accepting /\ \A d \in Conns \ {c} : elapsed'[d] = elapsed[d]
    BY <1>5 DEF AcceptOk, PollAcceptor, ConnTypeOK
  <2>3. x \in TaskStates /\ TaskRank(x) < TaskRank(task[c])
    BY <1>1, <2>1, <2>2, StageRank DEF First, Serving
  <2> QED
    BY <2>1, <2>2, <2>3, OneDown
<1>6. CASE AcceptPending(c)
  <2>1. /\ task' = [task EXCEPT ![c] = "accept"] /\ arm' = [arm EXCEPT ![c] = 0]
        /\ task[c] \in Accepting /\ Past(c)
        /\ elapsed' = elapsed
    BY <1>6 DEF AcceptPending, PollAcceptor, Move
  <2>2. arm[c] \in {1, 2}
    BY <2>1, PastAll
  <2>3. TaskRank("accept") = TaskRank(task[c])
    BY <2>1, StageRank DEF Accepting
  <2>4. PollRank("accept", 0) < PollRank(task[c], arm[c])
    BY <2>1, <2>2, ArmRank DEF Accepting
  <2>5. 0 \in 0..2
    OBVIOUS
  <2> QED
    BY <2>1, <2>3, <2>4, <2>5, PollDown
<1>7. CASE FirstGraceful(c) \/ FirstDispatched(c)
  <2>1. /\ task' = [task EXCEPT ![c] = "serve0"] /\ arm' = [arm EXCEPT ![c] = 0]
        /\ task[c] \in First
        /\ elapsed' = elapsed
    BY <1>7 DEF FirstGraceful, FirstDispatched, FirstUnnotified, Move
  <2>2. TaskRank("serve0") < TaskRank(task[c])
    BY <2>1, StageRank DEF Serving
  <2> QED
    BY <1>1, <2>1, <2>2, OneDown
<1>8. CASE ServeGraceful(c)
  <2>1. /\ task' = [task EXCEPT ![c] = "drain0"] /\ arm' = [arm EXCEPT ![c] = 0]
        /\ task[c] \in Serving
        /\ elapsed' = elapsed
    BY <1>8 DEF ServeGraceful, Move
  <2>2. TaskRank("drain0") < TaskRank(task[c])
    BY <2>1, StageRank DEF Draining
  <2> QED
    BY <1>1, <2>1, <2>2, OneDown
<1>9. CASE FirstServe(c)
  <2>1. PollServe(c, TRUE, "first") /\ Past(c) /\ task[c] \in First
    BY <1>9 DEF FirstServe, FirstUnnotified
  <2> QED
    BY <2>1, HyperDown DEF Open, First
<1>10. CASE Serve(c)
  <2>1. PollServe(c, TRUE, "serve") /\ Past(c) /\ task[c] \in Serving
    BY <1>10 DEF Serve
  <2> QED
    BY <2>1, HyperDown DEF Open, Serving
<1>11. CASE Drain(c)
  <2>1. PollServe(c, FALSE, "drain") /\ Past(c) /\ task[c] \in Draining
    BY <1>11 DEF Drain
  <2> QED
    BY <2>1, HyperDown DEF Open, Draining
<1>12. CASE DropSub(c)
  <2>1. PICK x \in {"drop_check", "gone"} :
           task' = [task EXCEPT ![c] = x] /\ arm' = [arm EXCEPT ![c] = 0]
    BY <1>12 DEF DropSub, EndTask, Move
  <2>2. task[c] = "exit" /\ \A d \in Conns \ {c} : elapsed'[d] = elapsed[d]
    BY <1>12 DEF DropSub, EndTask, ConnTypeOK
  <2>3. x \in TaskStates /\ TaskRank(x) < TaskRank(task[c])
    BY <1>1, <2>1, <2>2, StageRank
  <2> QED
    BY <2>1, <2>2, <2>3, OneDown
<1>13. CASE DropCheck(c)
  <2>1. PICK x \in {"drop_wake", "gone"} :
           task' = [task EXCEPT ![c] = x] /\ arm' = [arm EXCEPT ![c] = 0]
    BY <1>13 DEF DropCheck, Move
  <2>2. task[c] = "drop_check" /\ elapsed' = elapsed
    BY <1>13 DEF DropCheck
  <2>3. x \in TaskStates /\ TaskRank(x) < TaskRank(task[c])
    BY <1>1, <2>1, <2>2, StageRank
  <2> QED
    BY <2>1, <2>2, <2>3, OneDown
<1>14. CASE DropWake(c)
  <2>1. /\ task' = [task EXCEPT ![c] = "gone"] /\ arm' = [arm EXCEPT ![c] = 0]
        /\ task[c] = "drop_wake"
        /\ elapsed' = elapsed
    BY <1>14 DEF DropWake, Move
  <2>2. TaskRank("gone") < TaskRank(task[c])
    BY <2>1, StageRank
  <2> QED
    BY <1>1, <2>1, <2>2, OneDown
<1> QED
  BY <1>2, <1>3, <1>4, <1>5, <1>6, <1>7, <1>8, <1>9, <1>10, <1>11, <1>12, <1>13, <1>14
  DEF Task, Notified, Client

(* serve() leaves the connections as they are, or refuses some.            *)
LEMMA ServeDown ==
  ASSUME ConnTypeOK, elapsed' = elapsed, arm' = arm,
         \A c \in Conns : \/ task'[c] = task[c]
                          \/ task[c] \in Backlog /\ task'[c] = "refused"
  PROVE  \A c \in Conns : Rank(c)' <= Rank(c)
<1> SUFFICES ASSUME NEW c \in Conns PROVE Rank(c)' <= Rank(c)
  OBVIOUS
<1>1. Rank(c) \in Nat /\ PollRank(task[c], arm[c]) \in 0..2
  BY RankType
<1>2. CASE task'[c] = task[c]
  <2>1. Rank(c)' = Rank(c)
    BY <1>2 DEF Rank
  <2> QED
    BY <1>1, <2>1
<1>3. CASE task[c] \in Backlog /\ task'[c] = "refused"
  <2>1. TaskRank(task[c]) \in {9, 10} /\ TaskRank(task'[c]) = 1
    BY <1>3, StageRank DEF Backlog
  <2>2. PollRank(task'[c], arm'[c]) \in 0..2
    BY PollRankType DEF ConnTypeOK
  <2> QED
    BY <1>1, <2>1, <2>2 DEF Rank
<1> QED
  BY <1>2, <1>3

LEMMA StageOfServe ==
  /\ ServeStage("bind") = 18 /\ ServeStage("set_addr") = 17 /\ ServeStage("addr_store") = 16
  /\ ServeStage("addr_wake") = 15 /\ ServeStage("start") = 14 /\ ServeStage("listen0") = 13
  /\ ServeStage("graceful0") = 11 /\ ServeStage("listen") = 10 /\ ServeStage("graceful") = 8
  /\ ServeStage("ready") = 7 /\ ServeStage("make") = 6 /\ ServeStage("count") = 5
  /\ ServeStage("duration") = 4
  /\ ServeStage("timed_end0") = 3 /\ ServeStage("end0") = 3
  /\ ServeStage("timed_end") = 2 /\ ServeStage("end") = 2 /\ ServeStage("deadline_wake") = 1
  /\ ServeStage("ok_shutdown") = 0 /\ ServeStage("ok_drained") = 0
  /\ ServeStage("ok_deadline") = 0 /\ ServeStage("err") = 0 /\ ServeStage("dropped") = 0
  BY DEF ServeStage, Ended

(* A step of serve() after shutdown() has woken it.                        *)
LEMMA LoopDown ==
  ASSUME Inv, IsWoken(latch["shutdown"]),
         \/ ServeStep \/ AcceptStreamErr \/ BackoffDone \/ ReadyOk \/ ReadyErr \/ MakePark
         \/ DeadlineElapse \/ ServeDropped
  PROVE  Down
<1>1. /\ ConnTypeOK
      /\ polling \in BOOLEAN /\ backoff \in BOOLEAN /\ deadline \in BOOLEAN
      /\ PollInv
  BY DEF Inv, CoreInv, TypeOK, LoopInv
<1>2. Resume <=> polling
  BY DEF Resume, Sees
<1>3. ASSUME UNCHANGED connVars, ServeRank' < ServeRank PROVE Down
  <2>1. elapsed' = elapsed /\ arm' = arm /\ task' = task
    BY <1>3 DEF connVars
  <2>2. \A c \in Conns : Rank(c)' <= Rank(c)
    BY <1>1, <2>1, ServeDown
  <2> QED
    BY <1>3, <2>2 DEF Down
<1>4. ASSUME NEW next, Leave(next), ServeRank' < ServeRank PROVE Down
  <2>1. /\ elapsed' = elapsed /\ arm' = arm
        /\ task' = [c \in Conns |-> IF task[c] \in Backlog THEN "refused" ELSE task[c]]
    BY <1>4 DEF Leave, DropListener, Backlog
  <2>2. \A c \in Conns : \/ task'[c] = task[c]
                         \/ task[c] \in Backlog /\ task'[c] = "refused"
    BY <2>1
  <2>3. \A c \in Conns : Rank(c)' <= Rank(c)
    BY <1>1, <2>1, <2>2, ServeDown
  <2> QED
    BY <1>4, <2>3 DEF Down
<1>5. ASSUME polling' = polling, backoff' = backoff, deadline' = deadline,
             ServeStage(srv) \in Nat, ServeStage(srv') \in Nat,
             ServeStage(srv') < ServeStage(srv)
      PROVE  ServeRank' < ServeRank
  BY <1>1, <1>5 DEF ServeRank
<1>6. ASSUME NEW next, Leave(next), ServeStage(srv) \in Nat, ServeStage(next) \in Nat,
             ServeStage(next) < ServeStage(srv)
      PROVE  Down
  <2>1. srv' = next /\ polling' = FALSE /\ backoff' = FALSE /\ deadline' = deadline
    BY <1>6 DEF Leave
  <2>2. ServeRank' < ServeRank
    BY <1>1, <1>6, <2>1 DEF ServeRank
  <2> QED
    BY <1>4, <1>6, <2>2
<1>7. CASE Shutdown
  <2>1. Leave("ok_shutdown") /\ srv \in {"start"} \cup AcceptLoop
    BY <1>7 DEF Shutdown
  <2> QED
    BY <1>6, <2>1, StageOfServe DEF AcceptLoop
<1>8. CASE Graceful
  <2>1. Leave("count") /\ srv \in {"graceful0", "graceful"}
    BY <1>8 DEF Graceful
  <2> QED
    BY <1>6, <2>1, StageOfServe
<1>9. CASE ReadyErr
  <2>1. Leave("err") /\ srv = "ready"
    BY <1>9 DEF ReadyErr
  <2> QED
    BY <1>6, <2>1, StageOfServe
<1>10. CASE ServeDropped
  <2>1. Leave("dropped") /\ srv \in {"bind", "timed_end", "end"} \cup AcceptLoop
    BY <1>10 DEF ServeDropped
  <2> QED
    BY <1>6, <2>1, StageOfServe DEF AcceptLoop
<1>11. CASE Bind
  <2>1. /\ UNCHANGED <<connVars, polling, backoff, deadline>>
        /\ srv = "bind" /\ srv' = "set_addr"
    BY <1>11 DEF Bind
  <2>2. ServeRank' < ServeRank
    BY <1>5, <2>1, StageOfServe
  <2> QED
    BY <1>3, <2>1, <2>2
<1>12. CASE SetAddr
  <2>1. /\ UNCHANGED <<connVars, polling, backoff, deadline>>
        /\ srv = "set_addr" /\ srv' = "addr_store"
    BY <1>12 DEF SetAddr
  <2>2. ServeRank' < ServeRank
    BY <1>5, <2>1, StageOfServe
  <2> QED
    BY <1>3, <2>1, <2>2
<1>13. CASE AddrStore
  <2>1. /\ UNCHANGED <<connVars, polling, backoff, deadline>>
        /\ srv = "addr_store" /\ srv' = "addr_wake"
    BY <1>13 DEF AddrStore
  <2>2. ServeRank' < ServeRank
    BY <1>5, <2>1, StageOfServe
  <2> QED
    BY <1>3, <2>1, <2>2
<1>14. CASE AddrWake
  <2>1. /\ UNCHANGED <<connVars, polling, backoff, deadline>>
        /\ srv = "addr_wake" /\ srv' \in {"start", "err"}
    BY <1>14 DEF AddrWake
  <2>2. ServeRank' < ServeRank
    BY <1>5, <2>1, StageOfServe
  <2> QED
    BY <1>3, <2>1, <2>2
<1>15. CASE AcceptStreamPending
  <2>1. /\ UNCHANGED <<connVars, polling, backoff, deadline>>
        /\ \/ srv = "listen0" /\ srv' = "graceful0"
           \/ srv = "listen" /\ srv' = "graceful"
    BY <1>15, <1>2, <1>1 DEF AcceptStreamPending, Listening, NextArm
  <2>2. ServeRank' < ServeRank
    BY <1>5, <2>1, StageOfServe
  <2> QED
    BY <1>3, <2>1, <2>2
<1>16. CASE ReadyOk
  <2>1. /\ UNCHANGED <<connVars, polling, backoff, deadline>>
        /\ srv = "ready" /\ srv' = "make"
    BY <1>16, <1>2, <1>1 DEF ReadyOk
  <2>2. ServeRank' < ServeRank
    BY <1>5, <2>1, StageOfServe
  <2> QED
    BY <1>3, <2>1, <2>2
<1>17. CASE LoadCount
  <2>1. /\ UNCHANGED <<connVars, polling, backoff, deadline>>
        /\ srv = "count" /\ srv' \in {"ok_drained", "duration"}
    BY <1>17 DEF LoadCount
  <2>2. ServeRank' < ServeRank
    BY <1>5, <2>1, StageOfServe
  <2> QED
    BY <1>3, <2>1, <2>2
<1>18. CASE ReadDuration
  <2>1. /\ UNCHANGED <<connVars, polling, backoff, deadline>>
        /\ srv = "duration" /\ srv' \in {"timed_end0", "end0"}
    BY <1>18 DEF ReadDuration
  <2>2. ServeRank' < ServeRank
    BY <1>5, <2>1, StageOfServe
  <2> QED
    BY <1>3, <2>1, <2>2
<1>19. CASE DeadlineStore
  <2>1. /\ UNCHANGED <<connVars, polling, backoff, deadline>>
        /\ srv \in {"timed_end0", "timed_end"} /\ srv' = "deadline_wake"
    BY <1>19 DEF DeadlineStore
  <2>2. ServeRank' < ServeRank
    BY <1>5, <2>1, StageOfServe
  <2> QED
    BY <1>3, <2>1, <2>2
<1>20. CASE DeadlineWake
  <2>1. /\ UNCHANGED <<connVars, polling, backoff, deadline>>
        /\ srv = "deadline_wake" /\ srv' = "ok_deadline"
    BY <1>20 DEF DeadlineWake
  <2>2. ServeRank' < ServeRank
    BY <1>5, <2>1, StageOfServe
  <2> QED
    BY <1>3, <2>1, <2>2
<1>21. CASE ConnectionsEnded
  <2>1. /\ UNCHANGED <<connVars, polling, backoff, deadline>>
        /\ srv \in Waiting /\ srv' = "ok_drained"
    BY <1>21 DEF ConnectionsEnded
  <2>2. ServeRank' < ServeRank
    BY <1>5, <2>1, StageOfServe DEF Waiting
  <2> QED
    BY <1>3, <2>1, <2>2
<1>22. CASE EndPark
  <2>1. /\ UNCHANGED <<connVars, polling, backoff, deadline>>
        /\ srv \in {"timed_end0", "end0"} /\ srv' \in {"timed_end", "end"}
    BY <1>22 DEF EndPark
  <2>2. ServeRank' < ServeRank
    BY <1>5, <2>1, StageOfServe
  <2> QED
    BY <1>3, <2>1, <2>2
<1>23. CASE Start
  BY <1>23 DEF Start, Sees, IsNotified, IsWoken
<1>24. CASE AcceptStreamErr
  <2>1. /\ UNCHANGED connVars
        /\ polling /\ polling' = TRUE /\ ~backoff /\ backoff' = TRUE
        /\ deadline' = deadline
        /\ \/ srv = "listen0" /\ srv' = "graceful0"
           \/ srv = "listen" /\ srv' = "graceful"
    BY <1>1, <1>2, <1>24 DEF AcceptStreamErr, Listening, NextArm
  <2>2. ServeRank' < ServeRank
    BY <1>1, <2>1, StageOfServe DEF ServeRank
  <2> QED
    BY <1>3, <2>1, <2>2
<1>25. CASE BackoffDone
  <2>1. /\ UNCHANGED connVars
        /\ polling /\ polling' = TRUE /\ backoff /\ backoff' = FALSE
        /\ deadline' = deadline
        /\ srv' = srv /\ srv \in {"listen0", "listen"}
    BY <1>1, <1>2, <1>25 DEF BackoffDone, Listening
  <2>2. ServeRank' < ServeRank
    BY <1>1, <2>1, StageOfServe DEF ServeRank
  <2> QED
    BY <1>3, <2>1, <2>2
<1>26. CASE AcceptPark
  <2>1. /\ UNCHANGED connVars
        /\ polling /\ polling' = FALSE /\ backoff' = backoff /\ deadline' = deadline
        /\ srv \in {"graceful0", "graceful"} /\ srv' = "listen"
    BY <1>1, <1>2, <1>26 DEF AcceptPark, PollInv
  <2>2. ServeRank' < ServeRank
    BY <1>1, <2>1, StageOfServe DEF ServeRank
  <2> QED
    BY <1>3, <2>1, <2>2
<1>27. CASE MakePark
  <2>1. /\ UNCHANGED connVars
        /\ polling /\ polling' = FALSE /\ backoff' = backoff /\ deadline' = deadline
        /\ srv' = srv /\ srv \in {"ready", "make"}
    BY <1>1, <1>2, <1>27 DEF MakePark
  <2>2. ServeRank' < ServeRank
    BY <1>1, <2>1, StageOfServe DEF ServeRank
  <2> QED
    BY <1>3, <2>1, <2>2
<1>28. CASE DeadlineElapse
  <2>1. /\ UNCHANGED connVars
        /\ polling' = polling /\ backoff' = backoff /\ ~deadline /\ deadline' = TRUE
        /\ srv' = srv /\ srv \in {"timed_end0", "timed_end"}
    BY <1>1, <1>2, <1>28 DEF DeadlineElapse
  <2>2. ServeRank' < ServeRank
    BY <1>1, <2>1, StageOfServe DEF ServeRank
  <2> QED
    BY <1>3, <2>1, <2>2
<1> QED
  BY <1>7, <1>8, <1>9, <1>10, <1>11, <1>12, <1>13, <1>14, <1>15, <1>16, <1>17, <1>18,
     <1>19, <1>20, <1>21, <1>22, <1>23, <1>24, <1>25, <1>26, <1>27, <1>28 DEF ServeStep

(* A connection on its way to its task, or turned away.                    *)
LEMMA AdmissionDown ==
  ASSUME ConnTypeOK, NEW c \in Conns,
         Connect(c) \/ AcceptStream(c) \/ MakeOk(c) \/ MakeErr(c)
  PROVE  Down
<1>1. {"queued", "held", "accept0", "refused"} \subseteq TaskStates
  BY DEF TaskStates, Unspawned, Watching, Accepting
<1>2. PICK x \in {"queued", "held", "accept0", "refused"} :
          /\ task' = [task EXCEPT ![c] = x] /\ arm' = [arm EXCEPT ![c] = 0]
          /\ \/ task[c] = "outside" /\ x = "queued"
             \/ task[c] = "queued" /\ x = "held"
             \/ task[c] = "held" /\ x \in {"accept0", "refused"}
  BY DEF Connect, AcceptStream, MakeOk, MakeErr, Move
<1>3. elapsed' = elapsed
  BY DEF Connect, AcceptStream, MakeOk, MakeErr
<1>4. TaskRank(x) < TaskRank(task[c])
  BY <1>2, StageRank DEF Accepting
<1> QED
  BY <1>1, <1>2, <1>3, <1>4, OneDown

(* After shutdown() a server has only finitely many steps left, whatever   *)
(* its clients do: the connections are finitely many, and no step but a    *)
(* call of the application leaves the ranks as they are.                   *)
THEOREM ShutdownEnds == Safety => ShutdownRunsDown
<1> DEFINE Step == IsWoken(latch["shutdown"]) =>
        \/ UNCHANGED <<connVars, srvVars>>
        \/ /\ \A c \in Conns : Rank(c)' <= Rank(c)
           /\ \/ \E c \in Conns : Rank(c)' < Rank(c)
              \/ ServeRank' < ServeRank
<1>1. Inv /\ [Next]_vars => [Step]_vars
  <2> SUFFICES ASSUME Inv, Next, IsWoken(latch["shutdown"])
               PROVE  UNCHANGED <<connVars, srvVars>> \/ Down
    BY DEF Down
  <2>1. ConnTypeOK
    BY DEF Inv, CoreInv, TypeOK
  <2> QED
    BY <2>1, TaskDown, AdmissionDown, LoopDown DEF Next
<1> QED
  BY <1>1, InvAlways, PTL DEF Safety, ShutdownRunsDown
-----------------------------------------------------------------------------
(* A latch only goes forward, and is woken only after its flag is stored.  *)
Forward(l) ==
    \/ latch'[l] = latch[l]
    \/ latch'[l] = StoreFlag(latch[l])
    \/ IsNotified(latch[l]) /\ latch'[l] = WakeAll(latch[l])

LEMMA LatchForward ==
  ASSUME Inv, [Next]_vars, NEW l \in LatchNames
  PROVE  Forward(l)
<1>1. latch \in [LatchNames -> LatchStates] /\ StoredInv /\ EndStored
  BY DEF Inv, CoreInv, TypeOK, HandleTypeOK, LoopInv
<1> USE <1>1 DEF Forward, Store, Wake, LatchNames, StoredInv, EndStored
<1>2. ASSUME NEW u \in Users, User(u) PROVE Forward(l)
  BY <1>2 DEF User, Continue, ShutdownStore, ShutdownWake, GracefulDur, GracefulStore,
     GracefulWake, ListeningPoll, ListeningWoken, ReadAddr
<1>3. ASSUME NEW c \in Conns, Task(c) PROVE Forward(l)
  <2>1. CASE Working(c)
    BY <2>1, WorkingEffect DEF Inv, CoreInv, handleVars
  <2>2. CASE DropSub(c) \/ DropCheck(c) \/ DropWake(c)
    BY <2>2 DEF DropSub, EndTask, DropCheck, DropWake
  <2> QED
    BY <1>3, <2>1, <2>2 DEF Task, Notified, Client, Working
<1>4. CASE Publishing \/ Expiring
  BY <1>4 DEF Publishing, Expiring, SetAddr, AddrStore, AddrWake, DeadlineStore, DeadlineWake
<1>5. CASE Moving
  BY <1>5, MovingEffect DEF Inv, CoreInv, handleVars
<1>6. CASE Graceful \/ LoadCount \/ ConnectionsEnded \/ \E c \in Conns : MakeOk(c)
  BY <1>6 DEF Graceful, Leave, LoadCount, ConnectionsEnded, MakeOk, handleVars
<1>7. CASE UNCHANGED vars
  BY <1>7 DEF vars, handleVars
<1> QED
  BY <1>2, <1>3, <1>4, <1>5, <1>6, <1>7 DEF Next, ServeStep, Moving, Publishing, Expiring

(* A task that waits on a latch: its select! has been polled before, or    *)
(* the poll it is in has the look at the latch behind it.                  *)
OnShutdown(c) == task[c] \in {"accept", "first", "serve", "drain"} \/ PastShutdown(c)
OnGraceful(c) == task[c] \in {"accept", "first", "serve"} \/ PastGraceful(c)

LEMMA WaitsOfTasks ==
  /\ TaskShutdownWaits = [c \in Conns |-> Waits(OnShutdown(c), FALSE)]
  /\ TaskGracefulWaits = [c \in Conns |-> Waits(OnGraceful(c), task[c] \in Draining)]
  BY DEF TaskShutdownWaits, TaskGracefulWaits, OnShutdown, OnGraceful

(* What a poll of a task makes of its waits: it registers only on a latch  *)
(* it has found unset, and drains only when it has seen the graceful one.  *)
Registers(c) ==
    /\ OnShutdown(c)' => OnShutdown(c) \/ ~IsNotified(latch["shutdown"])
    /\ OnGraceful(c)' => \/ OnGraceful(c)
                         \/ task[c] \notin Draining /\ ~IsNotified(latch["graceful"])
    /\ task'[c] \in Draining
          => \/ task[c] \in Draining
             \/ OnGraceful(c) /\ IsWoken(latch["graceful"])
             \/ ~OnGraceful(c) /\ IsNotified(latch["graceful"])

LEMMA TaskWaits ==
  ASSUME ConnTypeOK, NEW c \in Conns, Working(c)
  PROVE  Registers(c)
<1> USE DEF Registers, OnShutdown, OnGraceful, PastShutdown, PastGraceful, Admitting, Open, First,
            Serving, Draining, Accepting, Fresh, Move, ConnTypeOK
<1>1. CASE AcceptCancelled(c) \/ AcceptErr(c) \/ AcceptTimedOut(c)
  BY <1>1 DEF AcceptCancelled, AcceptErr, AcceptTimedOut
<1>2. CASE Pass(c)
  <2>1. PICK l \in LatchNames : Looks(c, l)
    BY <1>2 DEF Pass
  <2>2. ~Told(c, "shutdown") /\ ~Told(c, "graceful")
    BY <1>2 DEF Pass, LatchNames
  <2>3. /\ Looks(c, "shutdown") /\ task[c] \in Fresh => ~IsNotified(latch["shutdown"])
        /\ Looks(c, "graceful") /\ task[c] \in Fresh => ~IsNotified(latch["graceful"])
    BY <2>2 DEF Told, SeesIn, Sees
  <2>4. task' = task /\ arm' = [arm EXCEPT ![c] = arm[c] + 1]
    BY <1>2 DEF Pass
  <2>5. CASE task[c] \in Accepting
    BY <2>1, <2>3, <2>4, <2>5 DEF Looks
  <2>6. CASE task[c] \in First
    BY <2>1, <2>3, <2>4, <2>6 DEF Looks
  <2>7. CASE task[c] \in Serving
    BY <2>1, <2>3, <2>4, <2>7 DEF Looks
  <2>8. CASE task[c] \in Draining
    BY <2>1, <2>3, <2>4, <2>8 DEF Looks
  <2> QED
    BY <2>1, <2>5, <2>6, <2>7, <2>8 DEF Looks
<1>3. CASE Elapse(c)
  BY <1>3 DEF Elapse
<1>4. CASE FirstShutdown(c) \/ FirstGraceful(c) \/ FirstTimedOut(c) \/ FirstDispatched(c)
  BY <1>4 DEF FirstShutdown, FirstGraceful, FirstTimedOut, FirstDispatched, FirstUnnotified
<1>5. CASE AcceptOk(c)
  BY <1>5 DEF AcceptOk, PollAcceptor
<1>6. CASE ServeGraceful(c)
  <2>1. /\ task[c] \in Serving /\ arm[c] = 0
        /\ Sees("graceful", task[c] \in Fresh)
    BY <1>6 DEF ServeGraceful, Told, Looks, SeesIn
  <2>2. OnGraceful(c) <=> task[c] = "serve"
    BY <2>1
  <2>3. task' = [task EXCEPT ![c] = "drain0"] /\ arm'[c] = 0
    BY <1>6 DEF ServeGraceful
  <2> QED
    BY <2>1, <2>2, <2>3 DEF Sees
<1>7. CASE ServeShutdown(c) \/ DrainShutdown(c)
  BY <1>7 DEF ServeShutdown, DrainShutdown
<1>8. CASE AcceptPending(c)
  <2>1. PastShutdown(c) /\ task[c] \in Accepting
    BY <1>8, PastAll DEF AcceptPending, PollAcceptor
  <2> QED
    BY <1>8, <2>1 DEF AcceptPending
<1>9. CASE FirstServe(c)
  <2>1. PollServe(c, TRUE, "first") /\ Past(c) /\ task[c] \in First
    BY <1>9 DEF FirstServe, FirstUnnotified
  <2>2. task' = [task EXCEPT ![c] = "first"] \/ task' = [task EXCEPT ![c] = "exit"]
    BY <2>1, PollServeEffect
  <2>3. arm' = [arm EXCEPT ![c] = 0]
    BY <2>1, PollServeEffect
  <2>4. PastShutdown(c) /\ arm[c] = 2
    BY <2>1, PastAll
  <2> QED
    BY <2>1, <2>2, <2>3, <2>4
<1>10. CASE Serve(c)
  <2>1. PollServe(c, TRUE, "serve") /\ Past(c) /\ task[c] \in Serving
    BY <1>10 DEF Serve
  <2>2. task' = [task EXCEPT ![c] = "serve"] \/ task' = [task EXCEPT ![c] = "exit"]
    BY <2>1, PollServeEffect
  <2>3. arm' = [arm EXCEPT ![c] = 0]
    BY <2>1, PollServeEffect
  <2>4. PastShutdown(c) /\ arm[c] = 2
    BY <2>1, PastAll
  <2> QED
    BY <2>1, <2>2, <2>3, <2>4
<1>11. CASE Drain(c)
  <2>1. PollServe(c, FALSE, "drain") /\ Past(c) /\ task[c] \in Draining
    BY <1>11 DEF Drain
  <2>2. task' = [task EXCEPT ![c] = "drain"] \/ task' = [task EXCEPT ![c] = "exit"]
    BY <2>1, PollServeEffect
  <2>3. arm' = [arm EXCEPT ![c] = 0]
    BY <2>1, PollServeEffect
  <2>4. PastShutdown(c)
    BY <2>1, PastAll
  <2> QED
    BY <2>1, <2>2, <2>3, <2>4
<1> QED
  BY <1>1, <1>2, <1>3, <1>4, <1>5, <1>6, <1>7, <1>8, <1>9, <1>10, <1>11 DEF Working

(* A step of one task leaves the waits of the others as they are.          *)
LEMMA OtherWaits ==
  ASSUME TypeOK, NEW c \in Conns, Working(c)
  PROVE  /\ latch' = latch
         /\ TaskShutdownWaits' = [TaskShutdownWaits EXCEPT ![c] = Waits(OnShutdown(c)', FALSE)]
         /\ TaskGracefulWaits' =
               [TaskGracefulWaits EXCEPT ![c] = Waits(OnGraceful(c)', task'[c] \in Draining)]
<1>1. PICK x \in Watching : task' = [task EXCEPT ![c] = x]
  BY WorkingEffect
<1>2. latch' = latch /\ \A d \in Conns \ {c} : arm'[d] = arm[d]
  BY WorkingEffect DEF handleVars
<1>3. \A d \in Conns \ {c} : task'[d] = task[d]
  BY <1>1 DEF TypeOK, ConnTypeOK
<1>4. \A d \in Conns \ {c} : /\ OnShutdown(d)' <=> OnShutdown(d)
                             /\ OnGraceful(d)' <=> OnGraceful(d)
  BY <1>2, <1>3 DEF OnShutdown, OnGraceful, PastShutdown, PastGraceful, Admitting
<1>5. /\ TaskShutdownWaits' = [d \in Conns |-> Waits(OnShutdown(d)', FALSE)]
      /\ TaskGracefulWaits' = [d \in Conns |-> Waits(OnGraceful(d)', task'[d] \in Draining)]
  BY DEF TaskShutdownWaits, TaskGracefulWaits, OnShutdown, OnGraceful
<1> QED
  BY <1>2, <1>3, <1>4, <1>5, WaitsOfTasks DEF Waits

(* When no task is polled, none begins or ends a wait.                     *)
LEMMA NoTaskWaits ==
  ASSUME CoreInv, [Next]_vars, \A c \in Conns : ~Working(c)
  PROVE  TaskShutdownWaits' = TaskShutdownWaits /\ TaskGracefulWaits' = TaskGracefulWaits
<1>1. ASSUME NEW c \in Conns
      PROVE  /\ OnShutdown(c)' <=> OnShutdown(c)
             /\ OnGraceful(c)' <=> OnGraceful(c)
             /\ task'[c] \in Draining <=> task[c] \in Draining
  <2>1. \/ Stays(c) \/ Spawning(c)
        \/ task[c] \in {"exit"} \cup Dropping /\ task'[c] \in Dropping \cup {"gone"}
    BY OthersStay
  <2> USE DEF OnShutdown, OnGraceful, PastShutdown, PastGraceful, Admitting, Unspawned, Dropping,
              Accepting, First, Serving, Draining
  <2>2. CASE Stays(c)
    BY <2>2 DEF Stays
  <2>3. CASE Spawning(c)
    BY <2>3 DEF Spawning
  <2> QED
    BY <2>1, <2>2, <2>3
<1>2. /\ TaskShutdownWaits' = [d \in Conns |-> Waits(OnShutdown(d)', FALSE)]
      /\ TaskGracefulWaits' = [d \in Conns |-> Waits(OnGraceful(d)', task'[d] \in Draining)]
  BY DEF TaskShutdownWaits, TaskGracefulWaits, OnShutdown, OnGraceful
<1> QED
  BY <1>1, <1>2, WaitsOfTasks DEF Waits

(* The tasks use the shutdown latch as Latch allows ...                    *)
LEMMA TaskShutdownStep == Inv /\ [Next]_vars => [TS!Next]_(TS!vars)
<1> SUFFICES ASSUME Inv, [Next]_vars PROVE [TS!Next]_(TS!vars)
  OBVIOUS
<1>1. CoreInv /\ TypeOK /\ ConnTypeOK
  BY DEF Inv, CoreInv, TypeOK
<1>2. ASSUME NEW c \in Conns, Working(c) PROVE [TS!Next]_(TS!vars)
  <2>1. latch' = latch /\ TaskShutdownWaits' = [TaskShutdownWaits EXCEPT ![c] = Waits(OnShutdown(c)', FALSE)]
    BY <1>1, <1>2, OtherWaits
  <2>2. OnShutdown(c)' => OnShutdown(c) \/ ~IsNotified(latch["shutdown"])
    BY <1>1, <1>2, TaskWaits DEF Registers
  <2>3. TaskShutdownWaits[c] = Waits(OnShutdown(c), FALSE)
    BY WaitsOfTasks
  <2>4. CASE ~OnShutdown(c) /\ OnShutdown(c)'
    <3>1. TS!FirstPoll(c)
      BY <2>1, <2>2, <2>3, <2>4 DEF TS!FirstPoll, TS!IsNotified, IsNotified, Waits
    <3> QED
      BY <3>1 DEF TS!Next
  <2>5. CASE OnShutdown(c) /\ ~OnShutdown(c)'
    <3>1. TS!Rewind(c)
      BY <2>1, <2>3, <2>5 DEF TS!Rewind, Waits
    <3> QED
      BY <3>1 DEF TS!Next
  <2>6. CASE OnShutdown(c)' <=> OnShutdown(c)
    <3>1. Waits(OnShutdown(c)', FALSE) = TaskShutdownWaits[c]
      BY <2>3, <2>6 DEF Waits
    <3>2. TaskShutdownWaits' = TaskShutdownWaits
      BY <2>1, <3>1, WaitsOfTasks
    <3> QED
      BY <2>1, <3>2 DEF TS!vars
  <2> QED
    BY <2>4, <2>5, <2>6
<1>3. ASSUME \A c \in Conns : ~Working(c) PROVE [TS!Next]_(TS!vars)
  <2>1. TaskShutdownWaits' = TaskShutdownWaits
    BY <1>1, <1>3, NoTaskWaits
  <2>2. Forward("shutdown")
    BY LatchForward DEF LatchNames
  <2> QED
    BY <2>1, <2>2 DEF Forward, TS!Next, TS!vars, TS!Store, TS!Wake, TS!StoreFlag, TS!WakeAll,
       TS!IsNotified, StoreFlag, WakeAll, IsNotified
<1> QED
  BY <1>2, <1>3

(* ... and the graceful latch.                                             *)
LEMMA TaskGracefulStep == Inv /\ [Next]_vars => [TG!Next]_(TG!vars)
<1> SUFFICES ASSUME Inv, [Next]_vars PROVE [TG!Next]_(TG!vars)
  OBVIOUS
<1>1. CoreInv /\ TypeOK /\ ConnTypeOK
  BY DEF Inv, CoreInv, TypeOK
<1>2. ASSUME NEW c \in Conns, Working(c) PROVE [TG!Next]_(TG!vars)
  <2> DEFINE New == Waits(OnGraceful(c)', task'[c] \in Draining)
  <2>1. latch' = latch /\ TaskGracefulWaits' = [TaskGracefulWaits EXCEPT ![c] = New]
    BY <1>1, <1>2, OtherWaits
  <2>2. Registers(c)
    BY <1>1, <1>2, TaskWaits
  <2>3. TaskGracefulWaits[c] = Waits(OnGraceful(c), task[c] \in Draining)
    BY WaitsOfTasks
  <2>4. (OnGraceful(c) => task[c] \notin Draining) /\ (OnGraceful(c)' => task'[c] \notin Draining)
    BY DEF OnGraceful, PastGraceful, Admitting, Accepting, First, Serving, Draining
  <2> USE DEF Waits
  <2>5. CASE TaskGracefulWaits[c] = "idle" /\ New # "idle"
    <3>1. TG!FirstPoll(c)
      BY <2>1, <2>2, <2>3, <2>5 DEF Registers, TG!FirstPoll, TG!IsNotified, IsNotified, IsWoken
    <3> QED
      BY <3>1 DEF TG!Next
  <2>6. CASE TaskGracefulWaits[c] = "registered" /\ New = "returned"
    <3>1. TG!Repoll(c)
      BY <2>1, <2>2, <2>3, <2>4, <2>6 DEF Registers, TG!Repoll, TG!IsWoken, IsWoken
    <3> QED
      BY <3>1 DEF TG!Next
  <2>7. CASE TaskGracefulWaits[c] # "idle" /\ New = "idle"
    <3>1. TG!Rewind(c)
      BY <2>1, <2>3, <2>7 DEF TG!Rewind
    <3> QED
      BY <3>1 DEF TG!Next
  <2>8. CASE TaskGracefulWaits[c] = New
    <3>1. TaskGracefulWaits' = TaskGracefulWaits
      BY <2>1, <2>8, WaitsOfTasks
    <3> QED
      BY <2>1, <3>1 DEF TG!vars
  <2>9. ~(TaskGracefulWaits[c] = "returned" /\ New = "registered")
    BY <2>2, <2>3, <2>4 DEF Registers
  <2>10. /\ TaskGracefulWaits[c] \in {"idle", "registered", "returned"}
         /\ New \in {"idle", "registered", "returned"}
    BY <2>3
  <2> QED
    BY <2>5, <2>6, <2>7, <2>8, <2>9, <2>10
<1>3. ASSUME \A c \in Conns : ~Working(c) PROVE [TG!Next]_(TG!vars)
  <2>1. TaskGracefulWaits' = TaskGracefulWaits
    BY <1>1, <1>3, NoTaskWaits
  <2>2. Forward("graceful")
    BY LatchForward DEF LatchNames
  <2> QED
    BY <2>1, <2>2 DEF Forward, TG!Next, TG!vars, TG!Store, TG!Wake, TG!StoreFlag, TG!WakeAll,
       TG!IsNotified, StoreFlag, WakeAll, IsNotified
<1> QED
  BY <1>2, <1>3

(* The callers of listening() use addr_notify as Latch allows.             *)
LEMMA ListeningStep == Inv /\ [Next]_vars => [UL!Next]_(UL!vars)
<1> SUFFICES ASSUME Inv, [Next]_vars PROVE [UL!Next]_(UL!vars)
  OBVIOUS
<1>1. /\ call \in [Users -> CallPCs]
      /\ latch \in [LatchNames -> LatchStates]
  BY DEF Inv, CoreInv, TypeOK, HandleTypeOK
<1>2. ASSUME call' = call PROVE [UL!Next]_(UL!vars)
  <2>1. ListeningWaits' = ListeningWaits
    BY <1>2 DEF ListeningWaits
  <2>2. Forward("addr_notify")
    BY LatchForward DEF LatchNames
  <2> QED
    BY <2>1, <2>2 DEF Forward, UL!Next, UL!vars, UL!Store, UL!Wake, UL!StoreFlag, UL!WakeAll,
       UL!IsNotified, StoreFlag, WakeAll, IsNotified
<1>3. ASSUME NEW u \in Users, User(u) PROVE [UL!Next]_(UL!vars)
  <2> USE DEF ListeningWaits, Waits, Goto, LatchNames
  <2>1. latch'["addr_notify"] = latch["addr_notify"]
    BY <1>1, <1>3 DEF User, Continue, ShutdownStore, ShutdownWake, GracefulDur, GracefulStore,
       GracefulWake, ListeningPoll, ListeningWoken, ReadAddr, Store, Wake
  <2>2. CASE ListeningPoll(u)
    <3>1. UL!FirstPoll(u)
      BY <1>1, <2>1, <2>2 DEF ListeningPoll, Sees, UL!FirstPoll, UL!IsNotified, IsNotified
    <3> QED
      BY <3>1 DEF UL!Next
  <2>3. CASE ListeningWoken(u)
    <3>1. UL!Repoll(u)
      BY <1>1, <2>1, <2>3 DEF ListeningWoken, Sees, UL!Repoll, UL!IsWoken, IsWoken
    <3> QED
      BY <3>1 DEF UL!Next
  <2>4. CASE ReadAddr(u)
    <3>1. UL!Rewind(u)
      BY <1>1, <2>1, <2>4 DEF ReadAddr, UL!Rewind
    <3> QED
      BY <3>1 DEF UL!Next
  <2>5. CASE \/ ShutdownStore(u) \/ ShutdownWake(u) \/ GracefulStore(u) \/ GracefulWake(u)
             \/ \E d \in Options : GracefulDur(u, d)
    <3>1. ListeningWaits' = ListeningWaits
      BY <1>1, <2>5 DEF ShutdownStore, ShutdownWake, GracefulStore, GracefulWake, GracefulDur
    <3> QED
      BY <2>1, <3>1 DEF UL!vars
  <2> QED
    BY <1>3, <2>2, <2>3, <2>4, <2>5 DEF User, Continue
<1>4. call' = call \/ \E u \in Users : User(u)
  <2>1. ASSUME NEW c \in Conns, Task(c) PROVE call' = call
    <3>1. CASE Working(c)
      BY <3>1, WorkingEffect DEF Inv, CoreInv, handleVars
    <3>2. CASE DropSub(c) \/ DropCheck(c) \/ DropWake(c)
      BY <3>2 DEF DropSub, EndTask, DropCheck, DropWake
    <3> QED
      BY <2>1, <3>1, <3>2 DEF Task, Notified, Client, Working
  <2>2. ASSUME Moving PROVE call' = call
    BY <2>2, MovingEffect DEF Inv, CoreInv, handleVars
  <2>3. ASSUME Publishing \/ Expiring \/ Graceful \/ LoadCount \/ ConnectionsEnded
                 \/ \E c \in Conns : MakeOk(c)
        PROVE  call' = call
    BY <2>3 DEF Publishing, Expiring, SetAddr, AddrStore, AddrWake, DeadlineStore,
       DeadlineWake, Graceful, Leave, LoadCount, ConnectionsEnded, MakeOk, handleVars
  <2> QED
    BY <2>1, <2>2, <2>3 DEF Next, ServeStep, Moving, Publishing, Expiring, vars, handleVars
<1> QED
  BY <1>2, <1>3, <1>4

(* Where serve() goes, and what it has seen of the latches when it begins  *)
(* or ends a wait on them.                                                 *)
LEMMA LoopMoves ==
  ASSUME Inv, [Next]_vars, srv' # srv
  PROVE  /\ UNCHANGED <<latch["graceful"], latch["conn_end"]>>
         /\ \/ latch'["shutdown"] = latch["shutdown"]
            \/ srv \notin AcceptLoop \cup {"ok_shutdown"} /\ srv' \in {"deadline_wake", "ok_deadline"}
         /\ srv' \in AcceptLoop
               => srv \in AcceptLoop \/ (srv = "start" /\ ~IsNotified(latch["shutdown"]))
         /\ srv' = "ok_shutdown"
               => \/ srv \in AcceptLoop /\ IsWoken(latch["shutdown"])
                  \/ srv = "start" /\ IsNotified(latch["shutdown"])
         /\ srv' \in {"listen", "graceful"}
               => \/ srv \in {"listen", "graceful"}
                  \/ srv = "graceful0" /\ ~IsNotified(latch["graceful"])
         /\ srv' = "count"
               => \/ srv = "graceful" /\ IsWoken(latch["graceful"])
                  \/ srv = "graceful0" /\ IsNotified(latch["graceful"])
         /\ srv' \in {"timed_end", "end"}
               => srv \in {"timed_end0", "end0"} /\ ~IsNotified(latch["conn_end"])
         /\ srv \in Waiting /\ srv' = "ok_drained" => IsNotified(latch["conn_end"])
         /\ srv \notin Ended
<1>1. latch \in [LatchNames -> LatchStates]
  BY DEF Inv, CoreInv, TypeOK, HandleTypeOK
<1> USE DEF AcceptLoop, Ended, Waiting, Sees
<1>2. CASE Publishing \/ Expiring
  BY <1>1, <1>2 DEF Publishing, Expiring, SetAddr, AddrStore, AddrWake, DeadlineStore,
     DeadlineWake, Store, Wake, LatchNames
<1>3. CASE Bind \/ Start
  BY <1>3 DEF Bind, Start, handleVars
<1>4. CASE Shutdown \/ ReadyErr \/ ServeDropped \/ Graceful
  BY <1>4 DEF Shutdown, ReadyErr, ServeDropped, Graceful, Leave, handleVars
<1>5. CASE AcceptStreamErr \/ BackoffDone \/ AcceptStreamPending
  BY <1>5 DEF AcceptStreamErr, BackoffDone, AcceptStreamPending, Listening, NextArm, handleVars
<1>6. CASE AcceptPark
  BY <1>6 DEF AcceptPark, handleVars
<1>7. CASE ReadyOk \/ MakePark
  BY <1>7 DEF ReadyOk, MakePark, handleVars
<1>8. CASE LoadCount \/ ReadDuration \/ DeadlineElapse \/ ConnectionsEnded
  BY <1>8 DEF LoadCount, ReadDuration, DeadlineElapse, ConnectionsEnded, handleVars,
     IsNotified, IsWoken
<1>9. CASE EndPark
  BY <1>9 DEF EndPark, handleVars
<1>10. CASE \E c \in Conns : Connect(c) \/ AcceptStream(c) \/ MakeOk(c) \/ MakeErr(c)
  BY <1>10 DEF Connect, AcceptStream, MakeOk, MakeErr, Listening, handleVars, srvVars
<1> QED
  BY <1>2, <1>3, <1>4, <1>5, <1>6, <1>7, <1>8, <1>9, <1>10
  DEF Next, ServeStep, Publishing, Expiring, vars, srvVars

(* serve() uses the shutdown latch as Latch allows ...                     *)
LEMMA LoopShutdownStep == Inv /\ [Next]_vars => [LS!Next]_(LS!vars)
<1> SUFFICES ASSUME Inv, [Next]_vars PROVE [LS!Next]_(LS!vars)
  OBVIOUS
<1>1. ASSUME LoopShutdownWait' = LoopShutdownWait PROVE [LS!Next]_(LS!vars)
  <2>1. Forward("shutdown")
    BY LatchForward DEF LatchNames
  <2> QED
    BY <1>1, <2>1 DEF Forward, LS!Next, LS!vars, LS!Store, LS!Wake, LS!StoreFlag, LS!WakeAll,
       LS!IsNotified, StoreFlag, WakeAll, IsNotified
<1> USE DEF LoopShutdownWait, Waits, AcceptLoop, Ended
<1>2. CASE srv' = srv
  BY <1>1, <1>2
<1>3. CASE srv' # srv /\ srv' \in AcceptLoop
  <2>1. CASE srv \in AcceptLoop
    BY <1>1, <1>3, <2>1
  <2>2. CASE srv = "start"
    <3>1. LS!FirstPoll("serve")
      BY <1>3, <2>2, LoopMoves DEF LS!FirstPoll, LS!IsNotified, IsNotified
    <3> QED
      BY <3>1 DEF LS!Next
  <2> QED
    BY <1>3, <2>1, <2>2, LoopMoves
<1>4. CASE srv' # srv /\ srv' = "ok_shutdown"
  <2>1. CASE srv \in AcceptLoop
    <3>1. LS!Repoll("serve")
      BY <1>4, <2>1, LoopMoves DEF LS!Repoll, LS!IsWoken, IsWoken
    <3> QED
      BY <3>1 DEF LS!Next
  <2>2. CASE srv = "start"
    <3>1. LS!FirstPoll("serve")
      BY <1>4, <2>2, LoopMoves DEF LS!FirstPoll, LS!IsNotified, IsNotified
    <3> QED
      BY <3>1 DEF LS!Next
  <2> QED
    BY <1>4, <2>1, <2>2, LoopMoves
<1>5. CASE srv' # srv /\ srv' \notin AcceptLoop \cup {"ok_shutdown"}
  <2>1. CASE srv \in AcceptLoop
    <3>1. LS!Rewind("serve")
      BY <1>5, <2>1, LoopMoves DEF LS!Rewind
    <3> QED
      BY <3>1 DEF LS!Next
  <2>2. CASE srv \notin AcceptLoop
    BY <1>1, <1>5, <2>2, LoopMoves
  <2> QED
    BY <2>1, <2>2
<1> QED
  BY <1>2, <1>3, <1>4, <1>5

(* ... the graceful latch ...                                              *)
LEMMA LoopGracefulStep == Inv /\ [Next]_vars => [LG!Next]_(LG!vars)
<1> SUFFICES ASSUME Inv, [Next]_vars PROVE [LG!Next]_(LG!vars)
  OBVIOUS
<1>1. ASSUME LoopGracefulWait' = LoopGracefulWait PROVE [LG!Next]_(LG!vars)
  <2>1. Forward("graceful")
    BY LatchForward DEF LatchNames
  <2> QED
    BY <1>1, <2>1 DEF Forward, LG!Next, LG!vars, LG!Store, LG!Wake, LG!StoreFlag, LG!WakeAll,
       LG!IsNotified, StoreFlag, WakeAll, IsNotified
<1> USE DEF LoopGracefulWait, Waits
<1>2. CASE srv' = srv
  BY <1>1, <1>2
<1>3. CASE srv' # srv /\ srv' \in {"listen", "graceful"}
  <2>1. CASE srv \in {"listen", "graceful"}
    BY <1>1, <1>3, <2>1
  <2>2. CASE srv = "graceful0"
    <3>1. LG!FirstPoll("serve")
      BY <1>3, <2>2, LoopMoves DEF LG!FirstPoll, LG!IsNotified, IsNotified
    <3> QED
      BY <3>1 DEF LG!Next
  <2> QED
    BY <1>3, <2>1, <2>2, LoopMoves
<1>4. CASE srv' # srv /\ srv' = "count"
  <2>1. CASE srv = "graceful"
    <3>1. LG!Repoll("serve")
      BY <1>4, <2>1, LoopMoves DEF LG!Repoll, LG!IsWoken, IsWoken
    <3> QED
      BY <3>1 DEF LG!Next
  <2>2. CASE srv = "graceful0"
    <3>1. LG!FirstPoll("serve")
      BY <1>4, <2>2, LoopMoves DEF LG!FirstPoll, LG!IsNotified, IsNotified
    <3> QED
      BY <3>1 DEF LG!Next
  <2> QED
    BY <1>4, <2>1, <2>2, LoopMoves
<1>5. CASE srv' # srv /\ srv' \notin {"listen", "graceful", "count"}
  <2>1. CASE srv \in {"listen", "graceful", "count"}
    <3>1. LG!Rewind("serve")
      BY <1>5, <2>1, LoopMoves DEF LG!Rewind
    <3> QED
      BY <3>1 DEF LG!Next
  <2>2. CASE srv \notin {"listen", "graceful", "count"}
    BY <1>1, <1>5, <2>2
  <2> QED
    BY <2>1, <2>2
<1> QED
  BY <1>2, <1>3, <1>4, <1>5

(* ... and conn_end.                                                       *)
LEMMA LoopConnEndStep == Inv /\ [Next]_vars => [LE!Next]_(LE!vars)
<1> SUFFICES ASSUME Inv, [Next]_vars PROVE [LE!Next]_(LE!vars)
  OBVIOUS
<1>1. ASSUME LoopConnEndWait' = LoopConnEndWait PROVE [LE!Next]_(LE!vars)
  <2>1. Forward("conn_end")
    BY LatchForward DEF LatchNames
  <2> QED
    BY <1>1, <2>1 DEF Forward, LE!Next, LE!vars, LE!Store, LE!Wake, LE!StoreFlag, LE!WakeAll,
       LE!IsNotified, StoreFlag, WakeAll, IsNotified
<1> USE DEF LoopConnEndWait, Waits
<1>2. CASE srv' = srv
  BY <1>1, <1>2
<1>3. CASE srv' # srv /\ srv' \in {"timed_end", "end"}
  <2>1. LE!FirstPoll("serve")
    BY <1>3, LoopMoves DEF LE!FirstPoll, LE!IsNotified, IsNotified
  <2> QED
    BY <2>1 DEF LE!Next
<1>4. CASE srv' # srv /\ srv' \notin {"timed_end", "end"}
  <2>1. CASE srv \in {"timed_end", "end"}
    <3>1. LE!Rewind("serve")
      BY <1>4, <2>1, LoopMoves DEF LE!Rewind
    <3> QED
      BY <3>1 DEF LE!Next
  <2>2. CASE srv \notin {"timed_end", "end"}
    BY <1>1, <1>4, <2>2
  <2> QED
    BY <2>1, <2>2
<1> QED
  BY <1>2, <1>3, <1>4

(* At first every latch is unset and nobody waits.                         *)
LEMMA InitLatches ==
  Init => TS!Init /\ TG!Init /\ LS!Init /\ LG!Init /\ LE!Init /\ UL!Init
<1> SUFFICES ASSUME Init
             PROVE  TS!Init /\ TG!Init /\ LS!Init /\ LG!Init /\ LE!Init /\ UL!Init
  OBVIOUS
<1>1. /\ \A c \in Conns : task[c] = "outside"
      /\ \A u \in Users : call[u] = "idle"
      /\ \A l \in LatchNames : latch[l] = "unset"
      /\ srv = "bind"
  BY DEF Init, HandleInit, ConnInit
<1> USE DEF LatchNames, Waits, AcceptLoop, Draining
<1>2. TS!Init /\ TG!Init
  <2>1. \A c \in Conns : ~OnShutdown(c) /\ ~OnGraceful(c) /\ task[c] \notin Draining
    BY <1>1 DEF OnShutdown, OnGraceful, PastShutdown, PastGraceful, Admitting, Accepting, First,
       Serving
  <2> QED
    BY <1>1, <2>1, WaitsOfTasks DEF TS!Init, TG!Init
<1>3. LS!Init /\ LG!Init /\ LE!Init
  BY <1>1 DEF LS!Init, LG!Init, LE!Init, LoopShutdownWait, LoopGracefulWait, LoopConnEndWait
<1>4. UL!Init
  BY <1>1 DEF UL!Init, ListeningWaits
<1> QED
  BY <1>2, <1>3, <1>4

(* What has ended a select! of a task.                                     *)
LEMMA TaskReturns ==
  ASSUME Inv, [Next]_vars, NEW c \in Conns
  PROVE  /\ task[c] \in Accepting /\ task'[c] = "exit" =>
                \/ Admitting(c)
                \/ IsNotified(latch["shutdown"])
                \/ IsNotified(latch["graceful"])
         /\ task[c] \in Open /\ task'[c] = "exit" =>
                \/ http'[c] = "closed"
                \/ task[c] \in First /\ elapsed[c]
                \/ IsNotified(latch["shutdown"])
         /\ task[c] \in First /\ task'[c] \in Serving =>
                rx[c] \/ IsNotified(latch["graceful"])
<1>1. CoreInv /\ ConnTypeOK
  BY DEF Inv, CoreInv, TypeOK
<1> USE DEF Open, First, Serving, Draining, Accepting, Move
<1>2. CASE ~Working(c)
  BY <1>1, <1>2, OthersStay DEF Stays, Spawning, Unspawned, Dropping
<1>3. CASE Pass(c) \/ Elapse(c)
  BY <1>3 DEF Pass, Elapse
<1>4. CASE AcceptCancelled(c)
  BY <1>1, <1>4 DEF AcceptCancelled, Told, SeesIn, Sees, IsNotified, IsWoken
<1>5. CASE AcceptOk(c) \/ AcceptErr(c) \/ AcceptPending(c) \/ AcceptTimedOut(c)
  <2>1. task[c] \in Accepting /\ Past(c)
    BY <1>5 DEF AcceptOk, AcceptErr, AcceptPending, AcceptTimedOut, PollAcceptor
  <2>2. arm[c] \in {1, 2}
    BY <1>1, <2>1, PastAll
  <2> QED
    BY <2>1, <2>2 DEF Admitting
<1>6. CASE FirstShutdown(c) \/ ServeShutdown(c) \/ DrainShutdown(c)
  BY <1>1, <1>6 DEF FirstShutdown, ServeShutdown, DrainShutdown, Told, SeesIn, Sees, IsNotified,
     IsWoken, ConnTypeOK
<1>7. CASE FirstGraceful(c)
  BY <1>1, <1>7 DEF FirstGraceful, Told, SeesIn, Sees, IsNotified, IsWoken, ConnTypeOK
<1>8. CASE FirstTimedOut(c) \/ FirstDispatched(c)
  BY <1>1, <1>8 DEF FirstTimedOut, FirstDispatched, FirstUnnotified, ConnTypeOK
<1>9. CASE FirstServe(c) \/ Serve(c) \/ Drain(c)
  <2>1. task[c] \in Open
    BY <1>9 DEF FirstServe, FirstUnnotified, Serve, Drain
  <2>2. task'[c] = "exit" => http'[c] = "closed"
    BY <1>1, <1>9, PollServeExit DEF FirstServe, Serve, Drain
  <2>3. task[c] \in First => task'[c] \notin Serving
    <3>1. CASE FirstServe(c)
      <4>1. PollServe(c, TRUE, "first")
        BY <3>1 DEF FirstServe
      <4>2. task' = [task EXCEPT ![c] = "first"] \/ task' = [task EXCEPT ![c] = "exit"]
        BY <1>1, <4>1, PollServeEffect
      <4> QED
        BY <1>1, <4>2 DEF ConnTypeOK
    <3> QED
      BY <1>9, <3>1 DEF Serve, Drain
  <2> QED
    BY <2>1, <2>2, <2>3
<1>10. CASE ServeGraceful(c)
  BY <1>1, <1>10 DEF ServeGraceful, ConnTypeOK
<1> QED
  BY <1>2, <1>3, <1>4, <1>5, <1>6, <1>7, <1>8, <1>9, <1>10 DEF Working

(* The waits whose return the instances of Latch do not see end only when  *)
(* the latch is notified, or another arm has ended the select!.            *)
LEMMA ReturnsStep == Safety => ReturnsTold
<1> DEFINE Step ==
      /\ srv \in Waiting /\ srv' = "ok_drained" => IsNotified(latch["conn_end"])
      /\ \A c \in Conns :
             /\ task[c] \in Accepting /\ task'[c] = "exit" =>
                    \/ Admitting(c)
                    \/ IsNotified(latch["shutdown"])
                    \/ IsNotified(latch["graceful"])
             /\ task[c] \in Open /\ task'[c] = "exit" =>
                    \/ http'[c] = "closed"
                    \/ task[c] \in First /\ elapsed[c]
                    \/ IsNotified(latch["shutdown"])
             /\ task[c] \in First /\ task'[c] \in Serving =>
                    rx[c] \/ IsNotified(latch["graceful"])
<1>1. Inv /\ [Next]_vars => [Step]_vars
  <2> SUFFICES ASSUME Inv, [Next]_vars PROVE Step
    OBVIOUS
  <2>1. srv \in Waiting /\ srv' = "ok_drained" => IsNotified(latch["conn_end"])
    <3>1. srv \in Waiting /\ srv' = "ok_drained" => srv' # srv
      BY DEF Waiting
    <3> QED
      BY <3>1, LoopMoves
  <2> QED
    BY <2>1, TaskReturns
<1> QED
  BY <1>1, InvAlways, PTL DEF Safety, ReturnsTold

(* The server meets the four latches as module Latch describes them, for   *)
(* any users and connections: what is proved of NotifyOnce carries over to *)
(* every wait of the server.                                               *)
THEOREM RefinesLatches == Safety => UsesLatches
  BY InitLatches, TaskShutdownStep, TaskGracefulStep, LoopShutdownStep, LoopGracefulStep,
     LoopConnEndStep, ListeningStep, ReturnsStep, InvAlways, PTL
  DEF Safety, UsesLatches, TS!Safety, TG!Safety, LS!Safety, LG!Safety, LE!Safety, UL!Safety
=============================================================================
