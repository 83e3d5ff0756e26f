--------------------------- MODULE AcceptorProofs ---------------------------
(***************************************************************************)
(* The acceptor stack, for every stack and configuration and on every      *)
(* platform.                                                               *)
(***************************************************************************)
EXTENDS Acceptor, TLAPS

LEMMA InitInv == Init => Inv
<1> SUFFICES ASSUME Init PROVE Inv
  OBVIOUS
<1>1. elapsed \in BOOLEAN
  BY DEF Init
<1>2. TypeOK
  BY <1>1 DEF Init, TypeOK, PCs
<1>3. inner # "tcp_config" => ~config.nodelay /\ ~config.keepalive
  BY DEF Init
<1>4. pc = "inner"
  BY DEF Init
<1>5. StackInv
  BY <1>3, <1>4 DEF StackInv, Accepted
<1> QED
  BY <1>2, <1>5 DEF Inv

(* No call of an acceptor and no poll of a TLS future breaks Inv.          *)
LEMMA NextInv == Inv /\ [Next]_vars => Inv'
<1> SUFFICES ASSUME Inv, [Next]_vars PROVE Inv'
  OBVIOUS
<1> USE DEF Inv, TypeOK, StackInv, OptionsSet, Accepted, Asked, Goto, stack, PCs
<1>1. CASE AcceptDefault
  BY <1>1 DEF AcceptDefault
<1>2. CASE AcceptNoDelay
  BY <1>2 DEF AcceptNoDelay, Options
<1>3. CASE AcceptLocalAddr
  BY <1>3 DEF AcceptLocalAddr
<1>4. CASE TcpNodelay
  BY <1>4 DEF TcpNodelay, Options
<1>5. CASE TcpKeepalive
  BY <1>5 DEF TcpKeepalive, Options
<1>6. CASE InnerReady
  BY <1>6 DEF InnerReady
<1>7. CASE Elapse
  BY <1>7 DEF Elapse
<1>8. CASE HandshakeOk
  BY <1>8 DEF HandshakeOk
<1>9. CASE HandshakeErr \/ HandshakeTimedOut
  BY <1>9 DEF HandshakeErr, HandshakeTimedOut
<1>10. CASE UNCHANGED vars
  BY <1>10 DEF vars
<1> QED
  BY <1>1, <1>2, <1>3, <1>4, <1>5, <1>6, <1>7, <1>8, <1>9, <1>10 DEF Next

(* No byte flows on a socket before all the options that were asked for    *)
(* are set on it, and one whose options could not all be set is given up.  *)
THEOREM OptionsFirst == Spec => []OptionsBeforeBytes
<1>1. Inv => OptionsBeforeBytes
  BY DEF Inv, StackInv, OptionsBeforeBytes, Accepted
<1> QED
  BY <1>1, InitInv, NextInv, PTL DEF Spec
=============================================================================
