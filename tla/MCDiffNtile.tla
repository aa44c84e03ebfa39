----------------------------- MODULE MCDiffNtile -----------------------------
(***************************************************************************)
(* The two analytic calls of a window query composed: GDKanalyticaldiff    *)
(* run once per column of the PARTITION BY list, each call taking the      *)
(* previous result as its carry, and GDKanalyticalntile then run with the  *)
(* final result as its boundary column p.  The ntile call sees exactly     *)
(* the columns the diff calls produce: FirstMarked = TRUE, so no           *)
(* assumption about row 0 is made on the ntile side.                       *)
(***************************************************************************)
EXTENDS AnalyticCommon, Sequences

CONSTANTS
    Vals,      \* non-nil values of the key columns
    Calls,     \* columns of the PARTITION BY list
    None,      \* no carry on the first diff call; no ntile call yet
    TileVals,  \* tile counts of the ntile call
    Width      \* bits of the ntile call's TPE

VARIABLES
    cnt, done, carry,             \* AnalyticDiff
    in, pc, np, pnp, out, hasNils \* AnalyticNtile

dvars == <<cnt, done, carry>>
nvars == <<in, pc, np, pnp, out, hasNils>>
vars  == <<dvars, nvars>>

D == INSTANCE AnalyticDiff
N == INSTANCE AnalyticNtile

Init ==
    /\ D!Init
    /\ in = None /\ pc = "start" /\ np = 0 /\ pnp = 0
    /\ out = <<>> /\ hasNils = FALSE

(* The key list is exhausted: ntile is called on the diff result, with a  *)
(* tile count, and with p passed or (no PARTITION BY) left NULL.           *)
CallNtile ==
    /\ in = None
    /\ D!Finished
    /\ \E hasP \in BOOLEAN, v \in TileVals \cup {Nil} :
          in' = [cnt |-> cnt, p |-> carry, hasP |-> hasP, val |-> v]
    /\ pc' = "start" /\ np' = 0 /\ pnp' = 0 /\ hasNils' = FALSE
    /\ out' = [r \in Rows(cnt) |-> Unwritten]

(* A diff call of the key list, before ntile is called.                  *)
DiffCall == in = None /\ D!Diff /\ UNCHANGED nvars

(* A step of the ntile call, the key columns and their result left alone. *)
NtileStep(A) == in # None /\ A /\ UNCHANGED dvars

Next ==
    \/ DiffCall \/ CallNtile
    \/ NtileStep(N!NilTile) \/ NtileStep(N!WholeColumn) \/ NtileStep(N!StartWalk)
    \/ NtileStep(N!SkipRow) \/ NtileStep(N!PartitionEnd)
    \/ NtileStep(N!LastPartition) \/ NtileStep(N!Terminated)

Spec == Init /\ [][Next]_vars

-----------------------------------------------------------------------------
TypeOK ==
    /\ D!TypeOK
    /\ in # None => N!TypeOK

(* The boundary column the diff calls leave marks exactly the rows where   *)
(* some key column changes, and never row 0: prev moving only on a change  *)
(* and the carry folded into each call.                                    *)
DiffMarksGroupStarts == D!DiffMarksGroupStarts

(* On that column, ntile numbers every partition from tile 1 without      *)
(* skipping a tile: the reset of i and j per NTILE_CALC, and the boundary  *)
(* walk closing a partition at each marked row.                            *)
NtileRestartsPerPartition == N!NtileRestartsPerPartition

(* ...and gives each row the tile spec 4.3 fixes where it fixes one: its  *)
(* ordinal when there are at least as many tiles as rows, m/N rows per    *)
(* tile in row order when N divides m (NTILE_CALC's exact branch).        *)
NtileExactTiles == N!NtileExactTiles

=============================================================================
