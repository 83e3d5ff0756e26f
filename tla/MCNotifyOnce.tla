---------------------------- MODULE MCNotifyOnce ----------------------------
(***************************************************************************)
(* NotifyOnce on a small instance, with the bugs its code could have as    *)
(* mutants of single steps.                                                *)
(***************************************************************************)
EXTENDS NotifyOnce
=============================================================================
