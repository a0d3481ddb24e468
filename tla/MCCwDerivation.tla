--------------------------- MODULE MCCwDerivation ---------------------------
(* Instantiates CwDerivation for TLC with the code's default initial CWs   *)
(* (15 for BE and BK, 7 for VI, 3 for VO), the smallest valid base 1, the *)
(* 0 the command line also accepts, and stages 0, 1 and the default 6:     *)
(* every CWmax fits in 16 bits.                                            *)
EXTENDS CwDerivation

MCWidth == 16
MCBases == {0, 1, 3, 7, 15}
MCStages == {0, 1, 6}
=============================================================================
