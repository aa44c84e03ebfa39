---------------------------- MODULE MCNtileWidth ----------------------------
(***************************************************************************)
(* ntile with a bte tile argument (Width = 8) on one partition of 256 and *)
(* of 300 rows, and tile counts that divide them: the sizes at which      *)
(* buckets = ncnt / val no longer fits the TPE it is stored in.  The      *)
(* boundary column is absent, so that the input set stays one column per  *)
(* size and tile count instead of every boundary column of that size.    *)
(***************************************************************************)
EXTENDS AnalyticNtile

WideCnts == {256, 300}

WideInputs ==
    {[cnt |-> n, p |-> [r \in Rows(n) |-> FALSE], hasP |-> FALSE, val |-> v] :
        n \in WideCnts, v \in TileVals}

=============================================================================
