---------------------------- MODULE AnalyticNtile ----------------------------
(***************************************************************************)
(* GDKanalyticalntile (src/gdk/gdk_analytic.c): the tile number of every  *)
(* row, computed partition by partition while walking the boundary column.*)
(*                                                                         *)
(* The walk over the boundary column (for(; np<end; np++) if ( *np) ...)    *)
(* is the control of the model: one step per row np, a boundary row runs   *)
(* NTILE_CALC over the rows [pnp, np) of the partition it closes, and the  *)
(* final step runs it over [pnp, cnt).  NTILE_CALC itself is the operator  *)
(* NtileCalc, its loop over the partition's rows kept as the counters i   *)
(* and j before each row, NtileState, in closed form: TLC's stack does not *)
(* hold a recursion over the 256 rows a bte counter needs to wrap.         *)
(*                                                                         *)
(* i, j and buckets are declared TPE, the type of the tile argument and of *)
(* the result (bte, sht, int, lng, hge): buckets = ncnt / val, i++ and j++ *)
(* are converted to Width bits, two's complement, as the build does.       *)
(***************************************************************************)
EXTENDS AnalyticCommon

CONSTANTS
    TileVals,  \* tile counts (the ntile argument) the model enumerates
    Width      \* bits of TPE

ASSUME Width \in Nat \ {0} /\ TileVals \subseteq Int \ {0}

(* An integer converted to TPE.                                           *)
ToTpe(n) == ((n + 2^(Width - 1)) % 2^Width) - 2^(Width - 1)
TpeRange == -(2^(Width - 1)) .. 2^(Width - 1) - 1

VARIABLES
    in,       \* the call's arguments: [cnt, p, hasP, val]
    pc,       \* "start", "walk" (the boundary loop) or "done"
    np,       \* the boundary loop's row
    pnp,      \* first row of the partition being walked
    out,      \* the output BAT r
    hasNils   \* has_nils

vars == <<in, pc, np, pnp, out, hasNils>>

Inputs ==
    UNION {[cnt: {n}, p: BoundaryColumns(n), hasP: BOOLEAN,
            val: TileVals \cup {Nil}] : n \in 0 .. MaxCnt}

(* The counters <<i, j>> before the k-th row of NTILE_CALC's loop, from   *)
(* <<0, 1>>: a row where i reaches buckets moves to the next bucket j + 1 *)
(* and sets i = 0, which the loop's i++ makes 1; both loops that count    *)
(* rows advance them alike.  In closed form: i, counted mod 2^Width, meets *)
(* buckets first at row t0 = buckets mod 2^Width and then every d rows (d *)
(* = t0, or 2^Width when t0 = 0): j is one more than the advances before  *)
(* row k, and i the rows since the last of them.                          *)
NtileState(buckets, k) ==
    LET W  == 2^Width
        t0 == buckets % W
        d  == IF t0 = 0 THEN W ELSE t0
        T  == IF k <= t0 THEN 0 ELSE (k - t0 + d - 1) \div d
    IN  IF T = 0 THEN <<ToTpe(k), 1>>
        ELSE <<ToTpe(k - t0 - (T - 1) * d), ToTpe(1 + T)>>

(* (BUN)val >= ncnt: a negative TPE converted to BUN is at least 2^63.    *)
OnePerTile(val, ncnt) == val < 0 \/ val >= ncnt

(* Variant: the ordinal branch numbering rows from 0, not 1.              *)
NtileCalcFromZero(lo, hi, val) ==
    LET ncnt    == hi - lo
        buckets == ToTpe(ncnt \div val)
        Tile(k) ==
            LET s == NtileState(buckets, k)
            IN  IF ncnt % val = 0 /\ s[1] = buckets THEN ToTpe(s[2] + 1) ELSE s[2]
    IN  [r \in lo .. hi - 1 |->
            IF OnePerTile(val, ncnt) THEN ToTpe(r - lo) ELSE Tile(r - lo)]

(* Variant: the exact-division branch writing j before moving to the    *)
(* next bucket, as the remainder branch does.                            *)
NtileCalcExactLate(lo, hi, val) ==
    LET ncnt    == hi - lo
        buckets == ToTpe(ncnt \div val)
        Tile(k) == NtileState(buckets, k)[2]
    IN  [r \in lo .. hi - 1 |->
            IF OnePerTile(val, ncnt) THEN ToTpe(r - lo + 1) ELSE Tile(r - lo)]

(* NTILE_CALC over the rows lo .. hi-1 for tile count val: one row per    *)
(* tile when val >= ncnt; otherwise buckets = ncnt / val and the branch   *)
(* for an exact division writes j after moving to the next bucket, the    *)
(* other branch before.                                                   *)
NtileCalc(lo, hi, val) ==
    LET ncnt    == hi - lo
        buckets == ToTpe(ncnt \div val)
        Tile(k) ==
            LET s == NtileState(buckets, k)
            IN  IF ncnt % val = 0 /\ s[1] = buckets THEN ToTpe(s[2] + 1) ELSE s[2]
    IN  [r \in lo .. hi - 1 |->
            IF OnePerTile(val, ncnt) THEN ToTpe(r - lo + 1) ELSE Tile(r - lo)]

(* Variant: the write loop running one row past the partition.           *)
WritePartitionPastEnd(lo, hi) == out' = NtileCalc(lo, hi + 1, in.val) @@ out

(* Writing the partition lo .. hi-1 into the output.                      *)
WritePartition(lo, hi) == out' = NtileCalc(lo, hi, in.val) @@ out

Init ==
    /\ in \in Inputs
    /\ pc = "start"
    /\ np = 0
    /\ pnp = 0
    /\ out = [r \in Rows(in.cnt) |-> Unwritten]
    /\ hasNils = FALSE

(* A nil tile count fills the whole output with nil.                      *)
NilTile ==
    /\ pc = "start"
    /\ in.val = Nil
    /\ out' = [r \in Rows(in.cnt) |-> Nil]
    /\ hasNils' = TRUE
    /\ pc' = "done"
    /\ UNCHANGED <<in, np, pnp>>

(* No boundary column: the whole column is one partition.                 *)
WholeColumn ==
    /\ pc = "start"
    /\ in.val # Nil
    /\ ~in.hasP
    /\ WritePartition(0, in.cnt)
    /\ pc' = "done"
    /\ UNCHANGED <<in, np, pnp, hasNils>>

StartWalk ==
    /\ pc = "start"
    /\ in.val # Nil
    /\ in.hasP
    /\ pc' = "walk"
    /\ UNCHANGED <<in, np, pnp, out, hasNils>>

(* A row the boundary column does not mark.                               *)
SkipRow ==
    /\ pc = "walk"
    /\ np < in.cnt
    /\ ~in.p[np]
    /\ np' = np + 1
    /\ UNCHANGED <<in, pc, pnp, out, hasNils>>

(* A marked row closes the partition [pnp, np) (empty when row 0 is       *)
(* marked) and starts the next one.                                       *)
PartitionEnd ==
    /\ pc = "walk"
    /\ np < in.cnt
    /\ in.p[np]
    /\ WritePartition(pnp, np)
    /\ pnp' = np
    /\ np' = np + 1
    /\ UNCHANGED <<in, pc, hasNils>>

(* After the loop: the last partition [pnp, cnt), then finish.            *)
LastPartition ==
    /\ pc = "walk"
    /\ np = in.cnt
    /\ WritePartition(pnp, in.cnt)
    /\ pc' = "done"
    /\ UNCHANGED <<in, np, pnp, hasNils>>

(* The call has returned.                                                 *)
Terminated == pc = "done" /\ UNCHANGED vars

Next ==
    \/ NilTile \/ WholeColumn \/ StartWalk
    \/ SkipRow \/ PartitionEnd \/ LastPartition
    \/ Terminated

Spec == Init /\ [][Next]_vars

-----------------------------------------------------------------------------
TypeOK ==
    /\ in \in Inputs
    /\ pc \in {"start", "walk", "done"}
    /\ np \in 0 .. in.cnt
    /\ pnp \in 0 .. np
    /\ out \in [Rows(in.cnt) -> TpeRange \cup {Nil, Unwritten}]
    /\ hasNils \in BOOLEAN

(* Size of the partition of row r and the tile count.                     *)
PartSize(r) == Cardinality(PartRows(in.p, in.hasP, in.cnt, r))

(* NTILE_CALC restarts at tile 1 on every partition and never skips a     *)
(* tile: the first row of each partition gets 1, and every other row the  *)
(* tile of the row before it or the next one.  This is about the reset of *)
(* i and j before each NTILE_CALC and the rb/rp pointers carried across   *)
(* partitions by the boundary loop.                                       *)
NtileRestartsPerPartition ==
    (pc = "done" /\ in.val # Nil) =>
        \A r \in Rows(in.cnt) :
            IF IsStart(in.p, in.hasP, r) THEN out[r] = 1
            ELSE out[r] - out[r - 1] \in {0, 1}

(* The tiles spec 4.3 fixes exactly: with N >= m rows each row's tile is  *)
(* its 1-based ordinal in the partition; with m mod N = 0 the partition  *)
(* is cut, in row order, into N buckets of m/N rows.  This is about       *)
(* NTILE_CALC's first two branches, the order of the j++ and the write in *)
(* the exact one, and the TPE width of the counters i, j and buckets.     *)
NtileExactTiles ==
    (pc = "done" /\ in.val # Nil) =>
        \A r \in Rows(in.cnt) :
            LET m == PartSize(r)
                N == in.val
                k == r - PartLo(in.p, in.hasP, r)
            IN  /\ N >= m => out[r] = k + 1
                /\ (N < m /\ m % N = 0) => out[r] = k \div (m \div N) + 1

(* The contract of ntile(N) (spec 4.3 and 8): a partition of m rows is    *)
(* split into min(N, m) buckets, each of floor(m/N) or floor(m/N)+1 rows. *)
(* This is about NTILE_CALC's branch for a division with a remainder.     *)
NtileBalanced ==
    (pc = "done" /\ in.val # Nil) =>
        \A r \in Rows(in.cnt) :
            LET m     == PartSize(r)
                N     == in.val
                tiles == 1 .. Min({N, m})
                Bucket(t) == {q \in PartRows(in.p, in.hasP, in.cnt, r) : out[q] = t}
            IN  /\ out[r] \in tiles
                /\ N < m => \A t \in tiles :
                                Cardinality(Bucket(t)) \in {m \div N, m \div N + 1}

=============================================================================
