----------------------------- MODULE MCDerpConn -----------------------------
(***************************************************************************)
(* Instances of DerpConn for TLC.                                          *)
(***************************************************************************)
EXTENDS DerpConn, TLC

CONSTANTS t1, t2, t3

MCTwoThreads == {t1, t2}
MCThreads == {t1, t2, t3}
=============================================================================
