---------------------------- MODULE AnalyticCount ----------------------------
(***************************************************************************)
(* GDKanalyticalcount (src/gdk/gdk_analytic.c): the number of rows, or of  *)
(* non-nil rows, in each row's frame.                                      *)
(*                                                                         *)
(* With !*ignore_nils or b->T.nonil the call takes                         *)
(* ANALYTICAL_COUNT_IGNORE_NILS_CALC, which counts rows by pointer         *)
(* difference; otherwise ANALYTICAL_COUNT_BRANCHES, whose kernels test     *)
(* every slot against nil.  Both walk the boundary column as the other     *)
(* analytic functions do, and split on frame (0, 0) (_NO_OVERLAP) versus   *)
(* any other frame (_ROWS).  The per-type kernels (fixed size, strings,    *)
(* other fixed and var-sized types) differ only in how a slot is compared  *)
(* with nil, so one model serves them all.  The counter curval of the      *)
(* nil-testing kernels is carried across partitions and reset after each.  *)
(***************************************************************************)
EXTENDS AnalyticCommon

CONSTANTS
    Starts,   \* frame starts enumerated
    Ends      \* frame ends enumerated

VARIABLES
    in,       \* arguments: [cnt, b, p, hasP, ignoreNils, nonil, start, end]
    pc,       \* "start", "walk" or "done"
    np,       \* the boundary loop's row
    pnp,      \* first row of the partition being walked
    curval,   \* the nil-testing kernels' running count
    out,      \* the output BAT r
    hasNils   \* the result's tnil, which the call sets FALSE

vars == <<in, pc, np, pnp, curval, out, hasNils>>

(* Only nil-ness of a value matters: a column holds 1 or nil.  A BAT whose *)
(* tnonil property is set holds no nil.                                    *)
InputsOf(n) ==
    {x \in [cnt: {n}, b: [Rows(n) -> {1, Nil}], p: BoundaryColumns(n),
            hasP: BOOLEAN, ignoreNils: BOOLEAN, nonil: BOOLEAN,
            start: Starts, end: Ends] :
        x.nonil => ~HasNil(x.b)}
Inputs == UNION {InputsOf(n) : n \in 0 .. MaxCnt}

(* The branch: count every row (IGNORE_NILS_CALC) or only non-nil ones.    *)
CountAll == ~in.ignoreNils \/ in.nonil

(* The frame of row r in the partition lo .. hi-1, as both kernels clip    *)
(* it: fs = (rb > rs+start) ? rb - start : rs,                             *)
(* fe = (rb+end < rp) ? rb + end + 1 : rp.                                 *)
FrameLo(lo, r) == IF r > lo + in.start THEN r - in.start ELSE lo
FrameHi(hi, r) == IF r + in.end < hi THEN r + in.end + 1 ELSE hi

(* The slots lo .. hi-1 the kernel counts: all of them, or the non-nil.    *)
Counted(lo, hi) ==
    IF CountAll THEN hi - lo ELSE Cardinality(LiveRows(in.b, lo .. hi - 1))

(* Variant: the write loop one row past the partition.                    *)
WritePartitionPastEnd(lo, hi) ==
    /\ out' = [r \in lo .. hi |-> curval + Counted(lo, hi)] @@ out
    /\ curval' = 0

(* The kernel on the partition lo .. hi-1.  _NO_OVERLAP: curval plus the   *)
(* partition's count on every row, then curval = 0.  _ROWS: the count of   *)
(* the row's clipped frame, curval reset after each row.                   *)
WritePartition(lo, hi) ==
    /\ out' = IF in.start = 0 /\ in.end = 0
              THEN [r \in lo .. hi - 1 |-> curval + Counted(lo, hi)] @@ out
              ELSE [r \in lo .. hi - 1 |->
                      curval + Counted(FrameLo(lo, r), FrameHi(hi, r))] @@ out
    /\ curval' = 0

Init ==
    /\ in \in Inputs
    /\ pc = "start"
    /\ np = 0
    /\ pnp = 0
    /\ curval = 0
    /\ out = [r \in Rows(in.cnt) |-> Unwritten]
    /\ hasNils = FALSE

(* No boundary column: one partition of cnt rows.                          *)
WholeColumn ==
    /\ pc = "start"
    /\ ~in.hasP
    /\ WritePartition(0, in.cnt)
    /\ pc' = "done"
    /\ UNCHANGED <<in, np, pnp, hasNils>>

StartWalk ==
    /\ pc = "start"
    /\ in.hasP
    /\ pc' = "walk"
    /\ UNCHANGED <<in, np, pnp, curval, out, hasNils>>

SkipRow ==
    /\ pc = "walk"
    /\ np < in.cnt
    /\ ~in.p[np]
    /\ np' = np + 1
    /\ UNCHANGED <<in, pc, pnp, curval, out, hasNils>>

PartitionEnd ==
    /\ pc = "walk"
    /\ np < in.cnt
    /\ in.p[np]
    /\ WritePartition(pnp, np)
    /\ pnp' = np
    /\ np' = np + 1
    /\ UNCHANGED <<in, pc, hasNils>>

LastPartition ==
    /\ pc = "walk"
    /\ np = in.cnt
    /\ WritePartition(pnp, in.cnt)
    /\ pc' = "done"
    /\ UNCHANGED <<in, np, pnp, hasNils>>

Terminated == pc = "done" /\ UNCHANGED vars

Next ==
    \/ WholeColumn \/ StartWalk
    \/ SkipRow \/ PartitionEnd \/ LastPartition
    \/ Terminated

(* A call runs to completion on the calling thread: weak fairness.         *)
Spec == Init /\ [][Next]_vars /\ WF_vars(Next)

-----------------------------------------------------------------------------
TypeOK ==
    /\ in.cnt \in 0 .. MaxCnt /\ in \in InputsOf(in.cnt)
    /\ pc \in {"start", "walk", "done"}
    /\ np \in 0 .. in.cnt
    /\ pnp \in 0 .. np
    /\ curval \in Nat
    /\ out \in [Rows(in.cnt) -> Nat \cup {Unwritten}]
    /\ hasNils = FALSE

(* The result the contract defines (spec 4.7): the number of rows of the   *)
(* row's partition (frame (0, 0)) or clipped frame, counting only non-nil  *)
(* rows when nils are ignored; never nil.                                  *)
ExpectedOf(x) ==
    [r \in Rows(x.cnt) |->
        LET F == IF x.start = 0 /\ x.end = 0 THEN PartRows(x.p, x.hasP, x.cnt, r)
                 ELSE FrameRows(x.p, x.hasP, x.cnt, r, x.start, x.end)
        IN  IF x.ignoreNils THEN Cardinality(LiveRows(x.b, F)) ELSE Cardinality(F)]

NeverFails(x) == FALSE

Contract == INSTANCE AnalyticContract
    WITH input <- in,
         result <- IF pc = "done" THEN [col |-> out, nils |-> hasNils]
                   ELSE Pending,
         Expected <- ExpectedOf, MayFail <- NeverFails

(* Every call returns the count of its frame for every row: the refinement *)
(* of the contract by the boundary walk, the choice between counting rows  *)
(* and testing values (which trusts b->T.nonil), both frame clippings and  *)
(* the running count carried across partitions.                            *)
ContractSpec == Contract!Spec

=============================================================================
