--------------------------- MODULE MCAnalyticSum ---------------------------
(* Model of AnalyticSum for TLC: input values of both signs, so that sums  *)
(* overflow in either direction and can return into range, and products   *)
(* change sign.                                                            *)
EXTENDS AnalyticSum

MCVals == {-2, 1, 2}
=============================================================================
