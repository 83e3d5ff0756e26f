---------------------------- MODULE ServerProofs ----------------------------
(***************************************************************************)
(* Server for every number of users and connections.                       *)
(***************************************************************************)
EXTENDS Server, FiniteSetTheorems, TLAPS

TaskStates == Unspawned \cup Watching \cup Dropping \cup {"gone"}

(* What a latch becomes is again a state of a latch.                       *)
LEMMA LatchType ==
  ASSUME NEW l \in LatchNames, latch \in [LatchNames -> LatchStates],
         Store(l) \/ Wake(l)
  PROVE  latch' \in [LatchNames -> LatchStates]
  BY DEF Store, Wake, StoreFlag, WakeAll, LatchStates

(* A Handle call preserves the types.                                      *)
LEMMA UserType ==
  ASSUME TypeOK, NEW u \in Users, User(u), UNCHANGED <<connVars, srvVars>>
  PROVE  TypeOK'
<1> USE DEF HandleTypeOK, CallPCs, Options, Goto
<1>0. ConnTypeOK' /\ srv' = srv /\ polling' = polling /\ listener' = listener
        /\ backoff' = backoff /\ deadline' = deadline
  BY DEF TypeOK, ConnTypeOK, connVars, srvVars
<1> SUFFICES HandleTypeOK'
  BY <1>0 DEF TypeOK
<1> HandleTypeOK
  BY DEF TypeOK
<1>1. CASE ShutdownStore(u)
  BY <1>1, LatchType DEF ShutdownStore, LatchNames
<1>2. CASE ShutdownWake(u)
  BY <1>2, LatchType DEF ShutdownWake, LatchNames
<1>3. ASSUME NEW d \in Options, GracefulDur(u, d) PROVE HandleTypeOK'
  BY <1>3 DEF GracefulDur
<1>4. CASE GracefulStore(u)
  BY <1>4, LatchType DEF GracefulStore, LatchNames
<1>5. CASE GracefulWake(u)
  BY <1>5, LatchType DEF GracefulWake, LatchNames
<1>6. CASE ListeningPoll(u)
  BY <1>6 DEF ListeningPoll
<1>7. CASE ListeningWoken(u)
  BY <1>7 DEF ListeningWoken
<1>8. CASE ReadAddr(u)
  BY <1>8 DEF ReadAddr
<1> QED
  BY <1>1, <1>2, <1>3, <1>4, <1>5, <1>6, <1>7, <1>8 DEF User, Continue
-----------------------------------------------------------------------------
(* A step of a task other than those of Watcher::drop.                     *)
Working(c) ==
    \/ Pass(c) \/ Elapse(c) \/ AcceptCancelled(c) \/ AcceptOk(c) \/ AcceptErr(c)
    \/ AcceptPending(c) \/ AcceptTimedOut(c)
    \/ FirstShutdown(c) \/ FirstGraceful(c) \/ FirstTimedOut(c)
    \/ FirstDispatched(c) \/ FirstServe(c)
    \/ ServeGraceful(c) \/ ServeShutdown(c) \/ Serve(c)
    \/ DrainShutdown(c) \/ Drain(c)

(* The task is past its first look at the graceful latch.                  *)
Beyond(c) == task[c] \in Open \cup {"accept"} \/ Admitting(c)

(* A poll that is past all arms of its select! is past the first.          *)
LEMMA PastPolled ==
  ASSUME NEW c \in Conns, Past(c), task[c] \in Accepting \cup Open
  PROVE  arm[c] # 0
<1>1. ~Looks(c, "shutdown") /\ ~Looks(c, "graceful")
  BY DEF Past, LatchNames
<1> QED
  BY <1>1 DEF Looks, Open

(* One poll of hyper: the connection stays where it is or the task ends.   *)
LEMMA PollServeEffect ==
  ASSUME ConnTypeOK, NEW c \in Conns, NEW k \in BOOLEAN, NEW next \in Open,
         PollServe(c, k, next)
  PROVE  /\ task' = [task EXCEPT ![c] = next] \/ task' = [task EXCEPT ![c] = "exit"]
         /\ http' \in [Conns -> HttpStates]
         /\ rx' \in [Conns -> BOOLEAN]
         /\ arm' = [arm EXCEPT ![c] = 0]
         /\ UNCHANGED <<elapsed, stale>>
<1>1. PICK s \in HyperSteps(http[c], k) :
        /\ http' = [http EXCEPT ![c] = s[1]]
        /\ rx' = [rx EXCEPT ![c] = @ \/ (FirstRequestTimeout /\ s[2] = "called")]
        /\ Move(c, IF s[1] = "closed" THEN "exit" ELSE next)
        /\ UNCHANGED <<elapsed, stale>>
  BY DEF PollServe
<1>2. s[1] \in HttpStates
  BY DEF HyperSteps, HttpStates, ConnTypeOK
<1>3. http' \in [Conns -> HttpStates]
  BY <1>1, <1>2 DEF ConnTypeOK
<1>4. rx' \in [Conns -> BOOLEAN]
  BY <1>1 DEF ConnTypeOK
<1> QED
  BY <1>1, <1>3, <1>4 DEF Move

(* A working task keeps its Watcher, touches nothing of the Handle, and    *)
(* gets past its first look only while the graceful latch is not set.      *)
LEMMA WorkingEffect ==
  ASSUME TypeOK, NEW c \in Conns, Working(c)
  PROVE  /\ ConnTypeOK'
         /\ UNCHANGED <<handleVars, stale>>
         /\ task[c] \in Accepting \cup Open
         /\ \E x \in Watching : task' = [task EXCEPT ![c] = x]
         /\ \A d \in Conns \ {c} : arm'[d] = arm[d]
         /\ Beyond(c)' => Beyond(c) \/ ~IsNotified(latch["graceful"])
<1> USE DEF Watching, Accepting, Open, First, Serving, Draining, Beyond, Admitting, Move
<1> DEFINE P == /\ ConnTypeOK'
                /\ UNCHANGED <<handleVars, stale>>
                /\ task[c] \in Accepting \cup Open
                /\ \E x \in Watching : task' = [task EXCEPT ![c] = x]
                /\ \A d \in Conns \ {c} : arm'[d] = arm[d]
                /\ Beyond(c)' => Beyond(c) \/ ~IsNotified(latch["graceful"])
<1> ConnTypeOK
  BY DEF TypeOK
<1>0. CASE Pass(c)
  <2>1. /\ task' = [task EXCEPT ![c] = task[c]] /\ task' = task
        /\ arm' = [arm EXCEPT ![c] = arm[c] + 1]
        /\ UNCHANGED <<handleVars, http, elapsed, rx, stale>>
    BY <1>0 DEF Pass, ConnTypeOK
  <2>2. task[c] \in Accepting \cup Open /\ arm[c] \in {0, 1}
    BY <1>0 DEF Pass, Looks
  <2>3. ConnTypeOK'
    BY <2>1, <2>2 DEF ConnTypeOK
  <2>4. ~Told(c, "graceful")
    BY <1>0 DEF Pass, LatchNames
  <2>5. task[c] = "accept0" /\ arm[c] = 0 => ~IsNotified(latch["graceful"])
    BY <2>4 DEF Told, Looks, SeesIn, Sees, Fresh
  <2>6. \E x \in Watching : task' = [task EXCEPT ![c] = x]
    BY <2>1, <2>2
  <2>7. \A d \in Conns \ {c} : arm'[d] = arm[d]
    BY <2>1 DEF ConnTypeOK
  <2>8. Beyond(c)' => Beyond(c) \/ ~IsNotified(latch["graceful"])
    BY <2>1, <2>2, <2>5
  <2> QED
    BY <2>1, <2>2, <2>3, <2>6, <2>7, <2>8
<1>1. CASE Elapse(c)
  <2>1. task' = [task EXCEPT ![c] = task[c]]
    BY <1>1 DEF Elapse, ConnTypeOK
  <2> QED
    BY <1>1, <2>1 DEF Elapse, ConnTypeOK, handleVars
<1>2. CASE AcceptCancelled(c)
  BY <1>2 DEF AcceptCancelled, ConnTypeOK
<1>3. CASE AcceptOk(c)
  <2>1. Beyond(c)
    BY <1>3, PastPolled DEF AcceptOk, PollAcceptor, ConnTypeOK
  <2>2. PICK x \in {"first0", "serve0"} : task' = [task EXCEPT ![c] = x]
    BY <1>3 DEF AcceptOk
  <2>3. arm' = [arm EXCEPT ![c] = 0] /\ elapsed' = [elapsed EXCEPT ![c] = FALSE]
    BY <1>3 DEF AcceptOk
  <2>4. task[c] \in Accepting /\ UNCHANGED <<handleVars, http, rx, stale>>
    BY <1>3 DEF AcceptOk, PollAcceptor
  <2>5. ConnTypeOK'
    BY <2>2, <2>3, <2>4 DEF ConnTypeOK
  <2> QED
    BY <2>1, <2>2, <2>3, <2>4, <2>5 DEF ConnTypeOK
<1>4. CASE AcceptErr(c) \/ AcceptTimedOut(c)
  BY <1>4 DEF AcceptErr, AcceptTimedOut, PollAcceptor, ConnTypeOK
<1>5. CASE AcceptPending(c)
  BY <1>5, PastPolled DEF AcceptPending, PollAcceptor, ConnTypeOK
<1>6. CASE FirstShutdown(c)
  BY <1>6 DEF FirstShutdown, ConnTypeOK
<1>7. CASE FirstGraceful(c)
  BY <1>7 DEF FirstGraceful, ConnTypeOK
<1>8. CASE FirstTimedOut(c)
  BY <1>8 DEF FirstTimedOut, FirstUnnotified, ConnTypeOK
<1>9. CASE FirstDispatched(c)
  BY <1>9 DEF FirstDispatched, FirstUnnotified, ConnTypeOK
<1>10. ASSUME NEW k \in BOOLEAN, NEW next \in Open, PollServe(c, k, next),
              task[c] \in Open, UNCHANGED handleVars
       PROVE  P
  <2>1. /\ task' = [task EXCEPT ![c] = next] \/ task' = [task EXCEPT ![c] = "exit"]
        /\ http' \in [Conns -> HttpStates]
        /\ rx' \in [Conns -> BOOLEAN]
        /\ arm' = [arm EXCEPT ![c] = 0]
        /\ UNCHANGED <<elapsed, stale>>
    BY <1>10, PollServeEffect
  <2>2. ConnTypeOK'
    BY <2>1 DEF ConnTypeOK
  <2> QED
    BY <1>10, <2>1, <2>2 DEF ConnTypeOK
<1>11. CASE ServeGraceful(c)
  BY <1>11 DEF ServeGraceful, HyperGraceful, HttpStates, ConnTypeOK
<1>12. CASE ServeShutdown(c)
  BY <1>12 DEF ServeShutdown, ConnTypeOK
<1>13. CASE DrainShutdown(c)
  BY <1>13 DEF DrainShutdown, ConnTypeOK
<1>14. CASE FirstServe(c)
  BY <1>10, <1>14 DEF FirstServe, FirstUnnotified
<1>15. CASE Serve(c)
  BY <1>10, <1>15 DEF Serve
<1>16. CASE Drain(c)
  BY <1>10, <1>16 DEF Drain
<1> QED
  BY <1>0, <1>1, <1>2, <1>3, <1>4, <1>5, <1>6, <1>7, <1>8, <1>9, <1>11, <1>12,
     <1>13, <1>14, <1>15, <1>16 DEF Working
-----------------------------------------------------------------------------
(* The part of CoreInv about draining, which most steps leave alone.       *)
DrainPart ==
    CountInv /\ GracefulFirst /\ NoLostConnEnd /\ FreshDropInv /\ DrainInv /\ EndStored

(* serve() is past its accept loop; serve() waits for conn_end.            *)
After == WaitEnd \cup {"ok_drained", "ok_deadline"}
Awaiting == {"duration"} \cup Waiting

(* What a step must leave alone for DrainPart to survive it: the count,    *)
(* conn_end, who holds or drops a Watcher, and where serve() waits; and no *)
(* task may get past its first look once the graceful latch is set.        *)
LEMMA QuietStep ==
  ASSUME DrainPart,
         conn_count' = conn_count,
         stale' = stale,
         latch'["conn_end"] = latch["conn_end"],
         IsNotified(latch["graceful"]) => IsNotified(latch'["graceful"]),
         \A c \in Conns : task'[c] \in Watching <=> task[c] \in Watching,
         \A c \in Conns : task'[c] \in Dropping \/ task[c] \in Dropping
                             => task'[c] = task[c],
         \A c \in Conns : IsNotified(latch["graceful"]) /\ Beyond(c)' => Beyond(c),
         srv' \in After => srv \in After,
         srv' \in Awaiting => srv \in Awaiting,
         srv' = "ok_drained" => srv = "ok_drained"
  PROVE  DrainPart'
<1> USE DEF DrainPart
<1>1. CountInv'
  <2>1. Watched' = Watched
    BY DEF Watched
  <2> QED
    BY <2>1 DEF CountInv
<1>2. GracefulFirst'
  BY DEF GracefulFirst, After
<1>3. NoLostConnEnd'
  BY DEF NoLostConnEnd, Awaiting
<1>4. IsNotified(latch["graceful"]) /\ NoneOpen => NoneOpen'
  BY DEF NoneOpen, Beyond
<1>5. FreshDropInv'
  BY <1>4 DEF FreshDropInv, Dropping
<1>6. DrainInv'
  BY <1>4 DEF DrainInv, GracefulFirst
<1>7. EndStored'
  BY DEF EndStored, Dropping
<1> QED
  BY <1>1, <1>2, <1>3, <1>5, <1>6, <1>7

(* The part of CoreInv about the address.                                  *)
AddrPart == AddrInv /\ ListeningAgrees

LEMMA AddrQuiet ==
  ASSUME AddrPart,
         UNCHANGED <<addr, call, heard>>,
         latch'["addr_notify"] = latch["addr_notify"],
         srv' \in {"bind", "set_addr", "addr_store"}
             => srv \in {"bind", "set_addr", "addr_store"}
  PROVE  AddrPart'
  BY DEF AddrPart, AddrInv, ListeningAgrees

LEMMA InvParts == CoreInv => TypeOK /\ DrainPart /\ AddrPart
  BY DEF CoreInv, DrainPart, AddrPart
-----------------------------------------------------------------------------
(* A call on the Handle preserves CoreInv.                                 *)
LEMMA UserInv ==
  ASSUME CoreInv, NEW u \in Users, User(u), UNCHANGED <<connVars, srvVars>>
  PROVE  CoreInv'
<1>1. TypeOK /\ DrainPart /\ AddrPart
  BY InvParts
<1>2. TypeOK'
  BY <1>1, UserType
<1>3. UNCHANGED <<task, arm, stale, srv>>
  BY DEF connVars, srvVars
<1> USE DEF LatchNames, HandleTypeOK, TypeOK
<1>4. /\ UNCHANGED <<addr, conn_count>>
      /\ latch'["conn_end"] = latch["conn_end"]
      /\ latch'["addr_notify"] = latch["addr_notify"]
      /\ IsNotified(latch["graceful"]) => IsNotified(latch'["graceful"])
  BY <1>1 DEF User, Continue, ShutdownStore, ShutdownWake, GracefulDur, GracefulStore,
     GracefulWake, ListeningPoll, ListeningWoken, ReadAddr, Store, Wake, StoreFlag,
     WakeAll, IsNotified
<1>5. DrainPart'
  BY <1>1, <1>3, <1>4, QuietStep DEF Beyond, Admitting
<1>6. AddrPart'
  BY <1>1, <1>3, <1>4 DEF User, Continue, ShutdownStore, ShutdownWake, GracefulDur,
     GracefulStore, GracefulWake, ListeningPoll, ListeningWoken, ReadAddr, Goto, Sees,
     IsNotified, IsWoken, AddrPart, AddrInv, ListeningAgrees
<1> QED
  BY <1>2, <1>5, <1>6 DEF CoreInv, DrainPart, AddrPart

(* A working task preserves CoreInv.                                       *)
LEMMA WorkingInv ==
  ASSUME CoreInv, NEW c \in Conns, Working(c), UNCHANGED srvVars
  PROVE  CoreInv'
<1>1. TypeOK /\ DrainPart /\ AddrPart
  BY InvParts
<1>2. PICK x \in Watching : task' = [task EXCEPT ![c] = x]
  BY <1>1, WorkingEffect
<1>3. /\ ConnTypeOK' /\ UNCHANGED <<handleVars, stale>> /\ task[c] \in Accepting \cup Open
      /\ \A d \in Conns \ {c} : arm'[d] = arm[d]
      /\ Beyond(c)' => Beyond(c) \/ ~IsNotified(latch["graceful"])
  BY <1>1, WorkingEffect
<1>4. TypeOK'
  BY <1>1, <1>3 DEF TypeOK, HandleTypeOK, handleVars, srvVars
<1>5. DrainPart'
  <2>1. \A d \in Conns : task'[d] = IF d = c THEN x ELSE task[d]
    BY <1>1, <1>2 DEF TypeOK, ConnTypeOK
  <2>2. task[c] \in Watching /\ task[c] \notin Dropping /\ x \notin Dropping
    BY <1>3 DEF Watching, Dropping, Accepting, Open, First, Serving, Draining
  <2>3. /\ conn_count' = conn_count /\ stale' = stale /\ latch' = latch /\ srv' = srv
    BY <1>3 DEF handleVars, srvVars
  <2>4. \A d \in Conns : IsNotified(latch["graceful"]) /\ Beyond(d)' => Beyond(d)
    BY <1>3, <2>1 DEF Beyond, Admitting
  <2> QED
    BY <1>1, <1>2, <2>1, <2>2, <2>3, <2>4, QuietStep
<1>6. AddrPart'
  BY <1>1, <1>3, AddrQuiet DEF handleVars, srvVars
<1> QED
  BY <1>4, <1>5, <1>6 DEF CoreInv, DrainPart, AddrPart
-----------------------------------------------------------------------------
(* The Watchers are finitely many, and one more or one less is counted.    *)
LEMMA WatchedFinite == IsFiniteSet(Watched)
  BY FS_Subset, ConnAssumption DEF Watched

(* conn_count.fetch_sub(1): the count of the rest, and when it is zero     *)
(* nobody else holds a Watcher.                                            *)
LEMMA DropCount ==
  ASSUME TypeOK, CountInv, NEW c \in Conns, task[c] \in Watching
  PROVE  /\ conn_count - 1 \in Nat
         /\ conn_count - 1 = Cardinality(Watched \ {c})
         /\ conn_count - 1 = 0 <=> \A d \in Conns \ {c} : task[d] \notin Watching
<1>1. c \in Watched /\ IsFiniteSet(Watched)
  BY WatchedFinite DEF Watched
<1>2. Cardinality(Watched \ {c}) = conn_count - 1 /\ IsFiniteSet(Watched \ {c})
  BY <1>1, FS_RemoveElement DEF CountInv
<1>3. conn_count - 1 \in Nat
  BY <1>2, FS_CardinalityType
<1>4. Cardinality(Watched \ {c}) = 0 <=> Watched \ {c} = {}
  BY <1>2, FS_EmptySet
<1> QED
  BY <1>2, <1>3, <1>4 DEF Watched

(* Watcher::drop, the subtraction.                                         *)
LEMMA DropSubInv ==
  ASSUME CoreInv, NEW c \in Conns, DropSub(c), UNCHANGED srvVars
  PROVE  CoreInv'
<1>1. TypeOK /\ DrainPart /\ AddrPart
  BY InvParts
<1> DEFINE last == conn_count - 1 = 0
<1>2. /\ task[c] = "exit"
      /\ conn_count' = conn_count - 1
      /\ task' = [task EXCEPT ![c] = IF last THEN "drop_check" ELSE "gone"]
      /\ arm' = [arm EXCEPT ![c] = 0]
      /\ stale' = IF last /\ ~IsNotified(latch["graceful"]) THEN stale \cup {c} ELSE stale
      /\ http' = [http EXCEPT ![c] = "closed"]
      /\ elapsed' = [elapsed EXCEPT ![c] = FALSE]
      /\ rx' = [rx EXCEPT ![c] = FALSE]
      /\ UNCHANGED <<addr, graceful_dur, latch, call, heard>>
      /\ UNCHANGED <<srv, polling, listener, backoff, deadline>>
  BY DEF DropSub, EndTask, Move, srvVars
<1>3. /\ conn_count - 1 \in Nat
      /\ conn_count - 1 = Cardinality(Watched \ {c})
      /\ last <=> \A d \in Conns \ {c} : task[d] \notin Watching
  BY <1>1, <1>2, DropCount DEF DrainPart, Watching
<1>4. TypeOK'
  BY <1>1, <1>2, <1>3 DEF TypeOK, HandleTypeOK, ConnTypeOK, Dropping, HttpStates
<1>5. \A d \in Conns : task'[d] = IF d = c THEN (IF last THEN "drop_check" ELSE "gone")
                                             ELSE task[d]
  BY <1>1, <1>2 DEF TypeOK, ConnTypeOK
<1> USE DEF Watching, Dropping, Accepting, Open, First, Serving, Draining
<1>6. CountInv'
  <2>1. Watched' = Watched \ {c}
    BY <1>5 DEF Watched
  <2> QED
    BY <1>2, <1>3, <2>1 DEF CountInv
<1>7. GracefulFirst'
  BY <1>1, <1>2 DEF DrainPart, GracefulFirst
<1>8. NoLostConnEnd'
  BY <1>1, <1>2, <1>3, <1>5 DEF DrainPart, NoLostConnEnd
<1>9. NoneOpen => NoneOpen'
  BY <1>1, <1>2, <1>5 DEF NoneOpen, Admitting, TypeOK, ConnTypeOK
<1>10. FreshDropInv'
  <2>1. last => NoneOpen'
    BY <1>3, <1>5 DEF NoneOpen, Admitting
  <2> QED
    BY <1>1, <1>2, <1>5, <1>9, <2>1 DEF DrainPart, FreshDropInv
<1>11. DrainInv'
  BY <1>1, <1>2, <1>9 DEF DrainPart, DrainInv
<1>12. EndStored'
  BY <1>1, <1>2, <1>5 DEF DrainPart, EndStored
<1>13. AddrPart'
  BY <1>1, <1>2, AddrQuiet
<1> QED
  BY <1>4, <1>6, <1>7, <1>8, <1>10, <1>11, <1>12, <1>13 DEF CoreInv, AddrPart

(* Watcher::drop, the look at the graceful latch.                          *)
LEMMA DropCheckInv ==
  ASSUME CoreInv, NEW c \in Conns, DropCheck(c), UNCHANGED srvVars
  PROVE  CoreInv'
<1>1. TypeOK /\ DrainPart /\ AddrPart
  BY InvParts
<1>2. PICK x \in {"drop_wake", "gone"} :
      /\ task' = [task EXCEPT ![c] = x]
      /\ arm' = [arm EXCEPT ![c] = 0]
      /\ x = "drop_wake" => /\ IsNotified(latch["graceful"])
                            /\ Store("conn_end")
                            /\ stale' = stale
      /\ x = "gone" => /\ ~IsNotified(latch["graceful"])
                       /\ latch' = latch
                       /\ stale' = stale \ {c}
  BY DEF DropCheck, Move
<1>3. /\ task[c] = "drop_check"
      /\ UNCHANGED <<addr, conn_count, graceful_dur, call, heard, http, elapsed, rx>>
      /\ UNCHANGED <<srv, polling, listener, backoff, deadline>>
  BY DEF DropCheck, srvVars
<1>4. latch' \in [LatchNames -> LatchStates]
  BY <1>1, <1>2, LatchType DEF TypeOK, HandleTypeOK, LatchNames
<1>5. TypeOK'
  BY <1>1, <1>2, <1>3, <1>4 DEF TypeOK, HandleTypeOK, ConnTypeOK, Dropping
<1>6. \A d \in Conns : task'[d] = IF d = c THEN x ELSE task[d]
  BY <1>1, <1>2 DEF TypeOK, ConnTypeOK
<1>7. /\ latch'["graceful"] = latch["graceful"]
      /\ latch'["addr_notify"] = latch["addr_notify"]
      /\ IsNotified(latch["conn_end"]) => IsNotified(latch'["conn_end"])
      /\ x = "drop_wake" => IsNotified(latch'["conn_end"])
  BY <1>1, <1>2 DEF Store, StoreFlag, IsNotified, TypeOK, HandleTypeOK, LatchNames
<1> USE DEF Watching, Dropping, Accepting, Open, First, Serving, Draining
<1>8. CountInv'
  <2>1. Watched' = Watched
    BY <1>3, <1>6 DEF Watched
  <2> QED
    BY <1>1, <1>3, <2>1 DEF DrainPart, CountInv
<1>9. GracefulFirst'
  BY <1>1, <1>2, <1>3, <1>7 DEF DrainPart, GracefulFirst
<1>10. NoLostConnEnd'
  <2>1. CASE x = "drop_wake"
    BY <1>6, <2>1 DEF NoLostConnEnd
  <2>2. CASE x = "gone"
    BY <1>1, <1>2, <1>3, <2>2 DEF DrainPart, GracefulFirst, NoLostConnEnd, WaitEnd
  <2> QED
    BY <2>1, <2>2
<1>11. NoneOpen => NoneOpen'
  BY <1>1, <1>2, <1>6 DEF NoneOpen, Admitting, TypeOK, ConnTypeOK
<1>12. FreshDropInv'
  BY <1>1, <1>2, <1>6, <1>7, <1>11 DEF DrainPart, FreshDropInv
<1>13. DrainInv'
  <2>1. CASE x = "drop_wake"
    BY <1>1, <1>2, <1>3, <1>11, <2>1 DEF DrainPart, DrainInv, FreshDropInv
  <2>2. CASE x = "gone"
    BY <1>1, <1>2, <1>3, <2>2 DEF DrainPart, DrainInv, GracefulFirst
  <2> QED
    BY <2>1, <2>2
<1>14. EndStored'
  BY <1>1, <1>6, <1>7 DEF DrainPart, EndStored
<1>15. AddrPart'
  BY <1>1, <1>3, <1>7, AddrQuiet
<1> QED
  BY <1>5, <1>8, <1>9, <1>10, <1>12, <1>13, <1>14, <1>15 DEF CoreInv, AddrPart

(* Watcher::drop, the wake of conn_end.                                    *)
LEMMA DropWakeInv ==
  ASSUME CoreInv, NEW c \in Conns, DropWake(c), UNCHANGED srvVars
  PROVE  CoreInv'
<1>1. TypeOK /\ DrainPart /\ AddrPart
  BY InvParts
<1>2. /\ task[c] = "drop_wake"
      /\ task' = [task EXCEPT ![c] = "gone"]
      /\ arm' = [arm EXCEPT ![c] = 0]
      /\ UNCHANGED <<addr, conn_count, graceful_dur, call, heard, http, elapsed, rx, stale>>
      /\ UNCHANGED <<srv, polling, listener, backoff, deadline>>
  BY DEF DropWake, Move, srvVars
<1>3. latch' \in [LatchNames -> LatchStates]
  BY <1>1, LatchType DEF DropWake, TypeOK, HandleTypeOK, LatchNames
<1>4. TypeOK'
  BY <1>1, <1>2, <1>3 DEF TypeOK, HandleTypeOK, ConnTypeOK
<1>5. \A d \in Conns : task'[d] = IF d = c THEN "gone" ELSE task[d]
  BY <1>1, <1>2 DEF TypeOK, ConnTypeOK
<1>6. /\ latch'["graceful"] = latch["graceful"]
      /\ latch'["addr_notify"] = latch["addr_notify"]
      /\ IsWoken(latch'["conn_end"])
  BY <1>1 DEF DropWake, Wake, WakeAll, IsWoken, TypeOK, HandleTypeOK, LatchNames
<1>7. IsNotified(latch["conn_end"]) /\ IsNotified(latch'["conn_end"])
  BY <1>1, <1>2, <1>6 DEF DrainPart, EndStored, IsNotified, IsWoken
<1> USE DEF Watching, Dropping, Accepting, Open, First, Serving, Draining
<1>8. CountInv'
  <2>1. Watched' = Watched
    BY <1>2, <1>5 DEF Watched
  <2> QED
    BY <1>1, <1>2, <2>1 DEF DrainPart, CountInv
<1>9. GracefulFirst'
  BY <1>1, <1>6, <1>7 DEF DrainPart, GracefulFirst
<1>10. NoLostConnEnd'
  BY <1>6 DEF NoLostConnEnd
<1>11. NoneOpen => NoneOpen'
  BY <1>1, <1>2, <1>5 DEF NoneOpen, Admitting, TypeOK, ConnTypeOK
<1>12. FreshDropInv'
  BY <1>1, <1>2, <1>5, <1>6, <1>11 DEF DrainPart, FreshDropInv
<1>13. DrainInv'
  BY <1>1, <1>2, <1>7, <1>11 DEF DrainPart, DrainInv
<1>14. EndStored'
  BY <1>7 DEF EndStored
<1>15. AddrPart'
  BY <1>1, <1>2, <1>6, AddrQuiet
<1> QED
  BY <1>4, <1>8, <1>9, <1>10, <1>12, <1>13, <1>14, <1>15 DEF CoreInv, AddrPart
-----------------------------------------------------------------------------
(* The steps of serve() that publish the address, those that only move     *)
(* serve() or a connection that has no task yet, and the deadline's.       *)
Publishing == SetAddr \/ AddrStore \/ AddrWake

Moving ==
    \/ Bind \/ Start \/ Shutdown \/ AcceptStreamErr \/ BackoffDone
    \/ AcceptStreamPending \/ AcceptPark \/ ReadyOk \/ ReadyErr \/ MakePark
    \/ ReadDuration \/ DeadlineElapse \/ EndPark \/ ServeDropped
    \/ \E c \in Conns : Connect(c) \/ AcceptStream(c) \/ MakeErr(c)

Expiring == DeadlineStore \/ DeadlineWake

NoTaskMoves ==
    \A c \in Conns : \/ task'[c] = task[c] /\ arm'[c] = arm[c]
                     \/ task[c] \in Unspawned /\ task'[c] \in Unspawned

(* serve() drops its listener: only connections without a task notice.     *)
LEMMA LeaveEffect ==
  ASSUME TypeOK, NEW next, Leave(next)
  PROVE  /\ srv' = next
         /\ UNCHANGED <<handleVars, arm, http, elapsed, rx, stale, deadline>>
         /\ polling' \in BOOLEAN /\ backoff' \in BOOLEAN /\ listener' = "dropped"
         /\ task' \in [Conns -> TaskStates]
         /\ NoTaskMoves
<1>1. polling' \in BOOLEAN /\ backoff' \in BOOLEAN /\ listener' = "dropped" /\ srv' = next
  BY DEF Leave, DropListener
<1>2. UNCHANGED <<handleVars, arm, http, elapsed, rx, stale, deadline>>
  BY DEF Leave, DropListener
<1>3. task' = [c \in Conns |-> IF task[c] \in {"queued", "held"} THEN "refused" ELSE task[c]]
  BY DEF Leave, DropListener
<1>4. task \in [Conns -> TaskStates]
  BY DEF TypeOK, ConnTypeOK, TaskStates
<1>5. task' \in [Conns -> TaskStates]
  BY <1>3, <1>4 DEF TaskStates, Unspawned
<1>6. NoTaskMoves
  BY <1>2, <1>3 DEF NoTaskMoves, Unspawned
<1> QED
  BY <1>1, <1>2, <1>5, <1>6

LEMMA MovingEffect ==
  ASSUME TypeOK, Moving
  PROVE  /\ TypeOK'
         /\ UNCHANGED <<handleVars, stale>>
         /\ NoTaskMoves
         /\ srv' \in After => srv \in After
         /\ srv' \in Awaiting => srv \in Awaiting
         /\ srv' = "ok_drained" => srv = "ok_drained"
         /\ srv' \in {"bind", "set_addr", "addr_store"}
                => srv \in {"bind", "set_addr", "addr_store"}
<1> DEFINE Calm == /\ TypeOK'
                   /\ UNCHANGED <<handleVars, stale>>
                   /\ NoTaskMoves
<1> DEFINE SrvCalm == /\ srv' \in After => srv \in After
                      /\ srv' \in Awaiting => srv \in Awaiting
                      /\ srv' = "ok_drained" => srv = "ok_drained"
                      /\ srv' \in {"bind", "set_addr", "addr_store"}
                             => srv \in {"bind", "set_addr", "addr_store"}
<1>1. ASSUME UNCHANGED <<handleVars, connVars>>,
             srv' \in Binding \cup AcceptLoop \cup WaitEnd \cup Ended,
             polling' \in BOOLEAN, backoff' \in BOOLEAN, deadline' \in BOOLEAN,
             listener' \in {"unbound", "open", "failed", "dropped"}
      PROVE  Calm
  <2>1. HandleTypeOK'
    BY <1>1 DEF TypeOK, HandleTypeOK, handleVars
  <2>2. ConnTypeOK'
    BY <1>1 DEF TypeOK, ConnTypeOK, connVars
  <2> QED
    BY <1>1, <2>1, <2>2 DEF TypeOK, connVars, NoTaskMoves
<1>2. ASSUME NEW next \in {"ok_shutdown", "err", "dropped"}, Leave(next)
      PROVE  Calm /\ SrvCalm
  <2>1. /\ srv' = next
        /\ UNCHANGED <<handleVars, arm, http, elapsed, rx, stale, deadline>>
        /\ polling' \in BOOLEAN /\ backoff' \in BOOLEAN /\ listener' = "dropped"
        /\ task' \in [Conns -> TaskStates]
        /\ NoTaskMoves
    BY <1>2, LeaveEffect
  <2>2. HandleTypeOK'
    BY <2>1 DEF TypeOK, HandleTypeOK, handleVars
  <2>3. ConnTypeOK'
    BY <2>1 DEF TypeOK, ConnTypeOK, TaskStates
  <2>4. Calm
    BY <2>1, <2>2, <2>3 DEF TypeOK, Ended
  <2> QED
    BY <2>1, <2>4 DEF After, Awaiting, WaitEnd, Waiting
<1>3. ASSUME NEW c \in Conns, NEW x \in Unspawned, Move(c, x), task[c] \in Unspawned,
             UNCHANGED <<handleVars, http, elapsed, rx, stale, listener, backoff, deadline>>,
             srv' \in Binding \cup AcceptLoop \cup WaitEnd \cup Ended, polling' \in BOOLEAN
      PROVE  Calm
  <2>1. HandleTypeOK'
    BY <1>3 DEF TypeOK, HandleTypeOK, handleVars
  <2>2. /\ task' = [task EXCEPT ![c] = x] /\ task \in [Conns -> TaskStates]
        /\ arm' = [arm EXCEPT ![c] = 0] /\ arm \in [Conns -> 0..2]
    BY <1>3 DEF Move, TypeOK, ConnTypeOK, TaskStates
  <2>3. task' \in [Conns -> TaskStates]
    BY <2>2 DEF TaskStates
  <2>4. ConnTypeOK'
    BY <1>3, <2>2, <2>3 DEF TypeOK, ConnTypeOK, TaskStates
  <2>5. NoTaskMoves
    BY <1>3, <2>2 DEF NoTaskMoves
  <2> QED
    BY <1>3, <2>1, <2>4, <2>5 DEF TypeOK
<1> USE DEF TypeOK, Binding, AcceptLoop, Waiting, WaitEnd, Ended, After, Awaiting
<1>4. CASE Bind
  <2>1. Calm
    BY <1>1, <1>4 DEF Bind
  <2> QED
    BY <1>4, <2>1 DEF Bind
<1>5. CASE Start
  <2>1. Calm
    BY <1>1, <1>5 DEF Start
  <2> QED
    BY <1>5, <2>1 DEF Start
<1>6. CASE Shutdown \/ ReadyErr \/ ServeDropped
  BY <1>2, <1>6 DEF Shutdown, ReadyErr, ServeDropped
<1>7. CASE AcceptStreamErr
  <2>1. Calm
    BY <1>1, <1>7 DEF AcceptStreamErr, NextArm
  <2> QED
    BY <1>7, <2>1 DEF AcceptStreamErr, NextArm
<1>8. CASE BackoffDone
  <2>1. Calm
    BY <1>1, <1>8 DEF BackoffDone
  <2> QED
    BY <1>8, <2>1 DEF BackoffDone
<1>9. CASE AcceptStreamPending
  <2>1. Calm
    BY <1>1, <1>9 DEF AcceptStreamPending, NextArm
  <2> QED
    BY <1>9, <2>1 DEF AcceptStreamPending, NextArm
<1>10. CASE AcceptPark
  <2>1. Calm
    BY <1>1, <1>10 DEF AcceptPark
  <2> QED
    BY <1>10, <2>1 DEF AcceptPark
<1>11. CASE ReadyOk
  <2>1. Calm
    BY <1>1, <1>11 DEF ReadyOk
  <2> QED
    BY <1>11, <2>1 DEF ReadyOk
<1>12. CASE MakePark
  <2>1. Calm
    BY <1>1, <1>12 DEF MakePark
  <2> QED
    BY <1>12, <2>1 DEF MakePark
<1>13. CASE ReadDuration
  <2>1. Calm
    BY <1>1, <1>13 DEF ReadDuration
  <2> QED
    BY <1>13, <2>1 DEF ReadDuration
<1>14. CASE DeadlineElapse
  <2>1. Calm
    BY <1>1, <1>14 DEF DeadlineElapse
  <2> QED
    BY <1>14, <2>1 DEF DeadlineElapse
<1>15. CASE EndPark
  <2>1. Calm
    BY <1>1, <1>15 DEF EndPark
  <2> QED
    BY <1>15, <2>1 DEF EndPark
<1>16. ASSUME NEW c \in Conns, Connect(c) PROVE Calm /\ SrvCalm
  <2>1. Calm
    BY <1>3, <1>16 DEF Connect, srvVars, Unspawned
  <2> QED
    BY <1>16, <2>1 DEF Connect, srvVars
<1>17. ASSUME NEW c \in Conns, AcceptStream(c) PROVE Calm /\ SrvCalm
  <2>1. Calm
    BY <1>3, <1>17 DEF AcceptStream, Unspawned
  <2> QED
    BY <1>17, <2>1 DEF AcceptStream
<1>18. ASSUME NEW c \in Conns, MakeErr(c) PROVE Calm /\ SrvCalm
  <2>1. Calm
    BY <1>3, <1>18 DEF MakeErr, Unspawned
  <2> QED
    BY <1>18, <2>1 DEF MakeErr
<1> QED
  BY <1>4, <1>5, <1>6, <1>7, <1>8, <1>9, <1>10, <1>11, <1>12, <1>13, <1>14, <1>15,
     <1>16, <1>17, <1>18 DEF Moving

(* A moving serve() preserves CoreInv.                                     *)
LEMMA MovingInv ==
  ASSUME CoreInv, Moving
  PROVE  CoreInv'
<1>1. TypeOK /\ DrainPart /\ AddrPart
  BY InvParts
<1>2. /\ TypeOK'
      /\ UNCHANGED <<handleVars, stale>>
      /\ NoTaskMoves
      /\ srv' \in After => srv \in After
      /\ srv' \in Awaiting => srv \in Awaiting
      /\ srv' = "ok_drained" => srv = "ok_drained"
      /\ srv' \in {"bind", "set_addr", "addr_store"}
             => srv \in {"bind", "set_addr", "addr_store"}
  BY <1>1, MovingEffect
<1>3. \A c \in Conns : \/ task'[c] = task[c] /\ arm'[c] = arm[c]
                       \/ /\ task[c] \notin Watching \cup Dropping
                          /\ task'[c] \notin Watching \cup Dropping
  BY <1>2 DEF NoTaskMoves, Unspawned, Watching, Dropping, Accepting, Open, First,
     Serving, Draining
<1>4. DrainPart'
  <2>1. \A c \in Conns : Beyond(c)' => Beyond(c)
    BY <1>3 DEF Beyond, Admitting, Watching, Accepting
  <2> QED
    BY <1>1, <1>2, <1>3, <2>1, QuietStep DEF handleVars
<1>5. AddrPart'
  BY <1>1, <1>2, AddrQuiet DEF handleVars
<1> QED
  BY <1>2, <1>4, <1>5 DEF CoreInv, DrainPart, AddrPart

(* notify_listening() and the deadline's shutdown() preserve CoreInv.      *)
LEMMA NotifyingInv ==
  ASSUME CoreInv, Publishing \/ Expiring
  PROVE  CoreInv'
<1>1. TypeOK /\ DrainPart /\ AddrPart
  BY InvParts
<1>2. /\ UNCHANGED <<conn_count, graceful_dur, call, heard, connVars>>
      /\ UNCHANGED <<polling, listener, backoff, deadline>>
      /\ addr' = addr \/ SetAddr
  BY DEF Publishing, Expiring, SetAddr, AddrStore, AddrWake, DeadlineStore, DeadlineWake
<1>3. latch' = latch \/ \E l \in {"addr_notify", "shutdown"} : Store(l) \/ Wake(l)
  BY DEF Publishing, Expiring, SetAddr, AddrStore, AddrWake, DeadlineStore, DeadlineWake
<1>4. latch' \in [LatchNames -> LatchStates]
  BY <1>1, <1>3, LatchType DEF TypeOK, HandleTypeOK, LatchNames
<1>5. /\ latch'["conn_end"] = latch["conn_end"]
      /\ latch'["graceful"] = latch["graceful"]
  BY <1>1, <1>3 DEF Store, Wake, TypeOK, HandleTypeOK, LatchNames
<1>6. addr' \in Options
  BY <1>1, <1>2, LocalAddrsAssumption DEF SetAddr, TypeOK, HandleTypeOK, Options
<1>7. /\ srv' \in Binding \cup AcceptLoop \cup WaitEnd \cup Ended
      /\ srv' \in After => srv \in After
      /\ srv' \in Awaiting => srv \in Awaiting
      /\ srv' = "ok_drained" => srv = "ok_drained"
  BY DEF Publishing, Expiring, SetAddr, AddrStore, AddrWake, DeadlineStore, DeadlineWake,
     Binding, AcceptLoop, Waiting, WaitEnd, Ended, After, Awaiting
<1>8. TypeOK'
  <2>1. HandleTypeOK'
    BY <1>1, <1>2, <1>4, <1>6 DEF TypeOK, HandleTypeOK
  <2>2. ConnTypeOK'
    BY <1>1, <1>2 DEF TypeOK, ConnTypeOK, connVars
  <2> QED
    BY <1>1, <1>2, <1>7, <2>1, <2>2 DEF TypeOK
<1>9. DrainPart'
  BY <1>1, <1>2, <1>5, <1>7, QuietStep DEF connVars, Beyond, Admitting
<1>10. AddrPart'
  <2> USE DEF AddrPart, AddrInv, ListeningAgrees
  <2>1. CASE SetAddr
    BY <1>1, <1>2, <2>1 DEF SetAddr
  <2>2. CASE AddrStore \/ AddrWake
    <3>1. IsNotified(latch'["addr_notify"])
      BY <1>1, <2>2 DEF AddrStore, AddrWake, Store, Wake, StoreFlag, WakeAll, IsNotified,
         TypeOK, HandleTypeOK, LatchNames
    <3>2. addr' = addr /\ srv' \notin {"bind", "set_addr", "addr_store"}
      BY <2>2 DEF AddrStore, AddrWake
    <3> QED
      BY <1>1, <1>2, <3>1, <3>2
  <2>3. CASE Expiring
    <3>1. /\ latch'["addr_notify"] = latch["addr_notify"]
          /\ addr' = addr
          /\ srv' \notin {"bind", "set_addr", "addr_store"}
      BY <1>1, <2>3 DEF Expiring, DeadlineStore, DeadlineWake, Store, Wake, TypeOK,
         HandleTypeOK, LatchNames
    <3> QED
      BY <1>1, <1>2, <3>1, AddrQuiet
  <2> QED
    BY <2>1, <2>2, <2>3 DEF Publishing
<1> QED
  BY <1>8, <1>9, <1>10 DEF CoreInv, DrainPart, AddrPart

(* Spawning a task for a connection preserves CoreInv: it is one more, and *)
(* it is not past its first poll.                                          *)
LEMMA MakeOkInv ==
  ASSUME CoreInv, NEW c \in Conns, MakeOk(c)
  PROVE  CoreInv'
<1>1. TypeOK /\ DrainPart /\ AddrPart
  BY InvParts
<1>2. /\ srv = "make" /\ srv' = "listen0"
      /\ task[c] = "held"
      /\ task' = [task EXCEPT ![c] = "accept0"]
      /\ arm' = [arm EXCEPT ![c] = 0]
      /\ conn_count' = conn_count + 1
      /\ polling' \in BOOLEAN
      /\ UNCHANGED <<addr, graceful_dur, latch, call, heard>>
      /\ UNCHANGED <<http, elapsed, rx, stale, listener, backoff, deadline>>
  BY DEF MakeOk, Move
<1>3. TypeOK'
  <2>1. HandleTypeOK'
    BY <1>1, <1>2 DEF TypeOK, HandleTypeOK
  <2>2. ConnTypeOK'
    BY <1>1, <1>2 DEF TypeOK, ConnTypeOK, Watching, Accepting
  <2> QED
    BY <1>1, <1>2, <2>1, <2>2 DEF TypeOK, AcceptLoop
<1>4. \A d \in Conns : task'[d] = IF d = c THEN "accept0" ELSE task[d]
  BY <1>1, <1>2 DEF TypeOK, ConnTypeOK
<1> USE DEF Watching, Dropping, Accepting, Open, First, Serving, Draining
<1>5. CountInv'
  <2>1. Watched' = Watched \cup {c} /\ c \notin Watched
    BY <1>2, <1>4 DEF Watched
  <2>2. Cardinality(Watched \cup {c}) = Cardinality(Watched) + 1
    BY <2>1, WatchedFinite, FS_AddElement
  <2> QED
    BY <1>1, <1>2, <2>1, <2>2 DEF DrainPart, CountInv
<1>6. GracefulFirst'
  BY <1>1, <1>2 DEF DrainPart, GracefulFirst, WaitEnd, Waiting
<1>7. NoLostConnEnd'
  BY <1>2 DEF NoLostConnEnd, Waiting
<1>8. NoneOpen => NoneOpen'
  BY <1>1, <1>2, <1>4 DEF NoneOpen, Admitting, TypeOK, ConnTypeOK
<1>9. FreshDropInv' /\ DrainInv' /\ EndStored'
  BY <1>1, <1>2, <1>4, <1>8 DEF DrainPart, FreshDropInv, DrainInv, EndStored
<1>10. AddrPart'
  BY <1>1, <1>2, AddrQuiet
<1> QED
  BY <1>3, <1>5, <1>6, <1>7, <1>9, <1>10 DEF CoreInv, AddrPart

(* The graceful arm of the accept loop preserves CoreInv.                  *)
LEMMA GracefulInv ==
  ASSUME CoreInv, Graceful
  PROVE  CoreInv'
<1>1. TypeOK /\ DrainPart /\ AddrPart
  BY InvParts
<1>2. /\ srv' = "count"
      /\ UNCHANGED <<handleVars, arm, http, elapsed, rx, stale, deadline>>
      /\ polling' \in BOOLEAN /\ backoff' \in BOOLEAN /\ listener' = "dropped"
      /\ task' \in [Conns -> TaskStates]
      /\ NoTaskMoves
  BY <1>1, LeaveEffect DEF Graceful
<1>3. IsNotified(latch["graceful"])
  BY DEF Graceful, Sees, IsNotified, IsWoken
<1>4. TypeOK'
  <2>1. HandleTypeOK'
    BY <1>1, <1>2 DEF TypeOK, HandleTypeOK, handleVars
  <2>2. ConnTypeOK'
    BY <1>1, <1>2 DEF TypeOK, ConnTypeOK, TaskStates
  <2> QED
    BY <1>1, <1>2, <2>1, <2>2 DEF TypeOK, WaitEnd
<1>5. \A c \in Conns : \/ task'[c] = task[c] /\ arm'[c] = arm[c]
                       \/ /\ task[c] \notin Watching \cup Dropping
                          /\ task'[c] \notin Watching \cup Dropping
  BY <1>2 DEF NoTaskMoves, Unspawned, Watching, Dropping, Accepting, Open, First,
     Serving, Draining
<1>6. CountInv'
  <2>1. Watched' = Watched
    BY <1>5 DEF Watched
  <2> QED
    BY <1>1, <1>2, <2>1 DEF DrainPart, CountInv, handleVars
<1>7. GracefulFirst' /\ NoLostConnEnd'
  BY <1>2, <1>3 DEF GracefulFirst, NoLostConnEnd, Waiting, handleVars
<1>8. NoneOpen => NoneOpen'
  BY <1>5 DEF NoneOpen, Admitting, Watching, Accepting
<1>9. FreshDropInv' /\ DrainInv' /\ EndStored'
  BY <1>1, <1>2, <1>5, <1>8
  DEF DrainPart, FreshDropInv, DrainInv, EndStored, handleVars, Dropping
<1>10. AddrPart'
  BY <1>1, <1>2, AddrQuiet DEF handleVars
<1> QED
  BY <1>4, <1>6, <1>7, <1>9, <1>10 DEF CoreInv, AddrPart

(* The load of the count in wait_connections_end preserves CoreInv.        *)
LEMMA LoadCountInv ==
  ASSUME CoreInv, LoadCount
  PROVE  CoreInv'
<1>1. TypeOK /\ DrainPart /\ AddrPart
  BY InvParts
<1>2. /\ srv = "count" /\ srv' = IF conn_count = 0 THEN "ok_drained" ELSE "duration"
      /\ UNCHANGED <<addr, conn_count, graceful_dur, latch, call, heard>>
      /\ UNCHANGED <<task, arm, http, elapsed, rx, stale, polling, listener, backoff, deadline>>
  BY DEF LoadCount, handleVars, connVars
<1>3. TypeOK'
  <2>1. HandleTypeOK' /\ ConnTypeOK'
    BY <1>1, <1>2 DEF TypeOK, HandleTypeOK, ConnTypeOK
  <2> QED
    BY <1>1, <1>2, <2>1 DEF TypeOK, WaitEnd, Ended
<1>4. conn_count = 0 <=> \A c \in Conns : task[c] \notin Watching
  <2>1. Cardinality(Watched) = 0 <=> Watched = {}
    BY WatchedFinite, FS_EmptySet
  <2> QED
    BY <1>1, <2>1 DEF DrainPart, CountInv, Watched
<1>5. CountInv' /\ GracefulFirst' /\ FreshDropInv' /\ EndStored'
  BY <1>1, <1>2
  DEF DrainPart, CountInv, Watched, GracefulFirst, FreshDropInv, NoneOpen, Admitting,
      EndStored, WaitEnd
<1>6. NoLostConnEnd'
  BY <1>2, <1>4 DEF NoLostConnEnd, Waiting
<1>7. DrainInv'
  BY <1>1, <1>2, <1>4 DEF DrainPart, DrainInv, NoneOpen, Admitting, Watching, Accepting
<1>8. AddrPart'
  BY <1>1, <1>2, AddrQuiet
<1> QED
  BY <1>3, <1>5, <1>6, <1>7, <1>8 DEF CoreInv, AddrPart

(* The return from wait_connections_end on conn_end preserves CoreInv.     *)
LEMMA ConnectionsEndedInv ==
  ASSUME CoreInv, ConnectionsEnded
  PROVE  CoreInv'
<1>1. TypeOK /\ DrainPart /\ AddrPart
  BY InvParts
<1>2. /\ srv' = "ok_drained"
      /\ IsNotified(latch["conn_end"])
      /\ UNCHANGED <<addr, conn_count, graceful_dur, latch, call, heard>>
      /\ UNCHANGED <<task, arm, http, elapsed, rx, stale, polling, listener, backoff, deadline>>
  BY DEF ConnectionsEnded, handleVars, connVars, Sees, IsNotified, IsWoken
<1>3. TypeOK'
  <2>1. HandleTypeOK' /\ ConnTypeOK'
    BY <1>1, <1>2 DEF TypeOK, HandleTypeOK, ConnTypeOK
  <2> QED
    BY <1>1, <1>2, <2>1 DEF TypeOK, Ended
<1>4. CountInv' /\ GracefulFirst' /\ FreshDropInv' /\ EndStored' /\ DrainInv'
  BY <1>1, <1>2
  DEF DrainPart, CountInv, Watched, GracefulFirst, FreshDropInv, NoneOpen, Admitting,
      EndStored, DrainInv
<1>5. NoLostConnEnd'
  BY <1>2 DEF NoLostConnEnd, Waiting
<1>6. AddrPart'
  BY <1>1, <1>2, AddrQuiet
<1> QED
  BY <1>3, <1>4, <1>5, <1>6 DEF CoreInv, AddrPart
-----------------------------------------------------------------------------
(* A server that has not been polled yet satisfies CoreInv.                *)
LEMMA InitCore == Init => CoreInv
<1> SUFFICES ASSUME Init PROVE CoreInv
  OBVIOUS
<1> USE DEF Init, HandleInit, ConnInit
<1>1. HandleTypeOK
  BY DEF HandleTypeOK, Options, LatchStates, CallPCs
<1>2. ConnTypeOK
  BY DEF ConnTypeOK, Unspawned, HttpStates
<1>3. TypeOK
  BY <1>1, <1>2 DEF TypeOK, Binding
<1>4. \A c \in Conns : task[c] = "outside"
  OBVIOUS
<1>5. CountInv
  <2>1. Watched = {}
    BY <1>4 DEF Watched, Watching, Accepting, Open, First, Serving, Draining
  <2> QED
    BY <2>1, FS_EmptySet DEF CountInv
<1>6. /\ ~IsNotified(latch["conn_end"])
      /\ ~IsNotified(latch["addr_notify"])
  BY DEF IsNotified, LatchNames
<1>7. GracefulFirst /\ NoLostConnEnd /\ FreshDropInv /\ DrainInv /\ EndStored
  BY <1>4, <1>6 DEF GracefulFirst, NoLostConnEnd, FreshDropInv, DrainInv, EndStored,
     WaitEnd, Waiting
<1>8. AddrInv /\ ListeningAgrees
  BY <1>6 DEF AddrInv, ListeningAgrees
<1> QED
  BY <1>3, <1>5, <1>7, <1>8 DEF CoreInv

(* No step of the application, a task or serve() breaks CoreInv.           *)
LEMMA NextCore == CoreInv /\ [Next]_vars => CoreInv'
<1> SUFFICES ASSUME CoreInv, [Next]_vars PROVE CoreInv'
  OBVIOUS
<1>1. ASSUME NEW u \in Users, User(u), UNCHANGED <<connVars, srvVars>> PROVE CoreInv'
  BY <1>1, UserInv
<1>2. ASSUME NEW c \in Conns, Task(c), UNCHANGED srvVars PROVE CoreInv'
  <2>1. Working(c) \/ DropSub(c) \/ DropCheck(c) \/ DropWake(c)
    BY <1>2 DEF Task, Notified, Client, Working
  <2> QED
    BY <1>2, <2>1, WorkingInv, DropSubInv, DropCheckInv, DropWakeInv
<1>3. ASSUME NEW c \in Conns, Connect(c) \/ AcceptStream(c) \/ MakeOk(c) \/ MakeErr(c)
      PROVE  CoreInv'
  BY <1>3, MovingInv, MakeOkInv DEF Moving
<1>4. CASE ServeStep
  BY <1>4, MovingInv, NotifyingInv, GracefulInv, LoadCountInv, ConnectionsEndedInv
  DEF ServeStep, Moving, Publishing, Expiring
<1>5. CASE \/ AcceptStreamErr \/ BackoffDone \/ ReadyOk \/ ReadyErr \/ MakePark
           \/ DeadlineElapse \/ ServeDropped
  BY <1>5, MovingInv DEF Moving
<1>6. CASE UNCHANGED vars
  BY <1>6 DEF vars, handleVars, connVars, srvVars, CoreInv, TypeOK, HandleTypeOK, ConnTypeOK,
     CountInv, Watched, GracefulFirst, NoLostConnEnd, FreshDropInv, DrainInv, NoneOpen,
     Admitting, EndStored, AddrInv, ListeningAgrees
<1> QED
  BY <1>1, <1>2, <1>3, <1>4, <1>5, <1>6 DEF Next

(* CoreInv holds in every state of a server, whatever its users, clients   *)
(* and the runtime do and however their steps interleave.                  *)
THEOREM CoreAlways == Safety => []CoreInv
  BY InitCore, NextCore, PTL DEF Safety

(* Every variable keeps its type; conn_count, an AtomicUsize, never goes   *)
(* below zero.                                                             *)
THEOREM TypeCorrect == Safety => []TypeOK
<1>1. CoreInv => TypeOK
  BY DEF CoreInv
<1> QED
  BY <1>1, CoreAlways, PTL

(* connection_count() is the number of tasks that hold a Watcher.          *)
THEOREM CountCorrect == Safety => []CountInv
<1>1. CoreInv => CountInv
  BY DEF CoreInv
<1> QED
  BY <1>1, CoreAlways, PTL

(* serve() never waits for an end of connections that has gone by.         *)
THEOREM ConnEndNotLost == Safety => []NoLostConnEnd
<1>1. CoreInv => NoLostConnEnd
  BY DEF CoreInv
<1> QED
  BY <1>1, CoreAlways, PTL

(* Without a stale drop, serve() returns "drained" only when hyper has no  *)
(* connection left.                                                        *)
THEOREM DrainCorrect == Safety => []DrainedUnlessStale
<1>1. CoreInv => DrainedUnlessStale
  BY DEF CoreInv, DrainInv, NoneOpen, DrainedUnlessStale
<1> QED
  BY <1>1, CoreAlways, PTL
=============================================================================
