--------------------------- MODULE MCAnalyticAvg ---------------------------
(* Model of AnalyticAvg for TLC: values of both signs, so that sums        *)
(* overflow upwards and downwards and the recovery meets negative sums.    *)
EXTENDS AnalyticAvg

MCVals == {-2, -1, 2}
=============================================================================
