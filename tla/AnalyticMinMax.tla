---------------------------- MODULE AnalyticMinMax ----------------------------
(***************************************************************************)
(* GDKanalyticalmin and GDKanalyticalmax (ANALYTICAL_MIN_MAX in            *)
(* src/gdk/gdk_analytic.c): the nil-skipping extremum of each row's frame. *)
(*                                                                         *)
(* ANALYTICAL_MIN_MAX_CALC walks the boundary column as the other analytic *)
(* functions do, with pbp and bp reset to the partition's rows at every    *)
(* boundary, and runs one of two kernels on each partition:                *)
(*   frame (0, 0): _IMP_NO_OVERLAP, one scan from pbp[0], broadcast;      *)
(*   otherwise:    _IMP_ROWS, a scan of the clipped frame [bs, be) of     *)
(*                 every row.                                              *)
(* With no boundary column and neither o nor force_order the call copies   *)
(* its input.  The type-specialised kernels (path "fixed") and the        *)
(* generic ones ANALYTICAL_MIN_MAX_OTHERS_* (path "generic") read the same *)
(* slots and compute the same rows; only the generic ones append through   *)
(* BUNappend, which may fail and end the call with GDK_FAIL.               *)
(***************************************************************************)
EXTENDS AnalyticCommon

CONSTANTS
    Vals,     \* non-nil values of the column, integers
    MinMaxOps,      \* subset of {"min", "max"}
    MinMaxStarts,   \* frame starts enumerated
    MinMaxEnds,     \* frame ends enumerated
    Paths,          \* subset of {"fixed", "generic"}
    AppendFails     \* BUNappend of the generic macros may return GDK_FAIL

VARIABLES
    in,       \* arguments: [op, cnt, b, p, hasP, ordered, start, end]
    pc,       \* "start", "walk" or "done"
    np,       \* the boundary loop's row
    pnp,      \* first row of the partition being walked
    out,      \* the output BAT r
    hasNils,  \* has_nils
    status    \* gdk_res: "ok" (GDK_SUCCEED) or Failed

vars == <<in, pc, np, pnp, out, hasNils, status>>

(* ordered is o != NULL || force_order, which the code tests only when    *)
(* there is no boundary column: the model fixes it to FALSE otherwise.     *)
InputsOf(n) ==
    {x \in [op: MinMaxOps, path: Paths, cnt: {n}, b: [Rows(n) -> Vals \cup {Nil}],
            p: BoundaryColumns(n), hasP: BOOLEAN, ordered: BOOLEAN,
            start: MinMaxStarts, end: MinMaxEnds] :
        x.hasP => ~x.ordered}
Inputs == UNION {InputsOf(n) : n \in 0 .. MaxCnt}

(* What *pbp reads at slot k: the row, or for a slot past the column any   *)
(* value the memory there holds.                                           *)
SlotValues(k) == IF k \in Rows(in.cnt) THEN {in.b[k]} ELSE Vals \cup {Nil}

(* IMP(v, curval): MIN or MAX.                                             *)
Imp(v, c) ==
    IF in.op = "min" THEN (IF v < c THEN v ELSE c) ELSE (IF v > c THEN v ELSE c)

(* One step of the scan: a nil v is skipped, a nil curval is replaced.     *)
ScanStep(c, v) ==
    IF v = Nil THEN c ELSE IF c = Nil THEN v ELSE Imp(v, c)

(* The kernels' inner loop over the slots j .. hi-1 from curval c.         *)
RECURSIVE Scan(_, _, _)
Scan(c, j, hi) == IF j >= hi THEN c ELSE Scan(ScanStep(c, in.b[j]), j + 1, hi)

(* _IMP_ROWS's frame of row r in the partition lo .. hi-1:                 *)
(* bs = (pbp > bl+start) ? pbp - start : bl,                               *)
(* be = (pbp+end < bp) ? pbp + end + 1 : bp.                               *)
FrameLo(lo, r) == IF r > lo + in.start THEN r - in.start ELSE lo
FrameHi(hi, r) == IF r + in.end < hi THEN r + in.end + 1 ELSE hi

(* Variant: has_nils set when the scan skips a nil, not when the result   *)
(* is nil.                                                                 *)
WritePartitionNilSeen(lo, hi) ==
    IF in.start = 0 /\ in.end = 0
    THEN \E c \in SlotValues(lo) :
         LET v == Scan(c, lo + 1, hi)
         IN  /\ out' = [r \in lo .. hi - 1 |-> v] @@ out
             /\ hasNils' = (hasNils \/ v = Nil \/ \E j \in lo .. hi - 1 : in.b[j] = Nil)
    ELSE LET V == [r \in lo .. hi - 1 |->
                     Scan(in.b[FrameLo(lo, r)], FrameLo(lo, r) + 1, FrameHi(hi, r))]
         IN  /\ out' = V @@ out
             /\ hasNils' = (hasNils \/ \E j \in lo .. hi - 1 : in.b[j] = Nil)

(* The kernel on the partition lo .. hi-1.  _IMP_NO_OVERLAP reads          *)
(* curval = *pbp before its loop, also when the partition is empty, and    *)
(* sets has_nils when curval ends nil.                                     *)
WritePartition(lo, hi) ==
    IF in.start = 0 /\ in.end = 0
    THEN \E c \in SlotValues(lo) :
         LET v == Scan(c, lo + 1, hi)
         IN  /\ out' = [r \in lo .. hi - 1 |-> v] @@ out
             /\ hasNils' = (hasNils \/ v = Nil)
    ELSE LET V == [r \in lo .. hi - 1 |->
                     Scan(in.b[FrameLo(lo, r)], FrameLo(lo, r) + 1, FrameHi(hi, r))]
         IN  /\ out' = V @@ out
             /\ hasNils' = (hasNils \/ \E r \in lo .. hi - 1 : V[r] = Nil)

Init ==
    /\ in \in Inputs
    /\ pc = "start"
    /\ np = 0
    /\ pnp = 0
    /\ out = [r \in Rows(in.cnt) |-> Unwritten]
    /\ hasNils = FALSE
    /\ status = "ok"

(* No p, no o, no force_order: the copy loop of ANALYTICAL_MIN_MAX_CALC.   *)
CopyInput ==
    /\ pc = "start"
    /\ ~in.hasP /\ ~in.ordered
    /\ out' = in.b
    /\ hasNils' = HasNil(in.b)
    /\ pc' = "done"
    /\ UNCHANGED <<in, np, pnp, status>>

(* No p but o or force_order: one partition of cnt rows.                   *)
WholeColumn ==
    /\ pc = "start"
    /\ ~in.hasP /\ in.ordered
    /\ WritePartition(0, in.cnt)
    /\ pc' = "done"
    /\ UNCHANGED <<in, np, pnp, status>>

StartWalk ==
    /\ pc = "start"
    /\ in.hasP
    /\ pc' = "walk"
    /\ UNCHANGED <<in, np, pnp, out, hasNils, status>>

SkipRow ==
    /\ pc = "walk"
    /\ np < in.cnt
    /\ ~in.p[np]
    /\ np' = np + 1
    /\ UNCHANGED <<in, pc, pnp, out, hasNils, status>>

PartitionEnd ==
    /\ pc = "walk"
    /\ np < in.cnt
    /\ in.p[np]
    /\ WritePartition(pnp, np)
    /\ pnp' = np
    /\ np' = np + 1
    /\ UNCHANGED <<in, pc, status>>

LastPartition ==
    /\ pc = "walk"
    /\ np = in.cnt
    /\ WritePartition(pnp, in.cnt)
    /\ pc' = "done"
    /\ UNCHANGED <<in, np, pnp, status>>

(* A BUNappend of a generic macro returns GDK_FAIL while the macro        *)
(* writes the rows lo .. hi-1 (the copy loop, _NO_OVERLAP's broadcast,    *)
(* _ROWS's row loop): goto finish, and the call returns gdk_res.  The     *)
(* rows and has_nils set before it are not read by a caller that sees     *)
(* GDK_FAIL.  An empty partition appends nothing.                         *)
AppendFault(lo, hi) ==
    /\ AppendFails /\ in.path = "generic" /\ lo < hi
    /\ status' = Failed
    /\ pc' = "done"
    /\ UNCHANGED <<in, np, pnp, out, hasNils>>

(* The appends at each place the generic code makes them: the copy loop,  *)
(* the macro on the whole column, on a partition a marked row closes, and *)
(* on the last partition.                                                 *)
AppendFailure ==
    \/ pc = "start" /\ ~in.hasP /\ ~in.ordered /\ AppendFault(0, in.cnt)
    \/ pc = "start" /\ ~in.hasP /\ in.ordered /\ AppendFault(0, in.cnt)
    \/ pc = "walk" /\ np < in.cnt /\ in.p[np] /\ AppendFault(pnp, np)
    \/ pc = "walk" /\ np = in.cnt /\ AppendFault(pnp, in.cnt)

Terminated == pc = "done" /\ UNCHANGED vars

Next ==
    \/ CopyInput \/ WholeColumn \/ StartWalk
    \/ SkipRow \/ PartitionEnd \/ LastPartition
    \/ AppendFailure
    \/ Terminated

(* A call runs to completion on the calling thread: weak fairness.         *)
Spec == Init /\ [][Next]_vars /\ WF_vars(Next)

-----------------------------------------------------------------------------
TypeOK ==
    /\ in.cnt \in 0 .. MaxCnt /\ in \in InputsOf(in.cnt)
    /\ pc \in {"start", "walk", "done"}
    /\ np \in 0 .. in.cnt
    /\ pnp \in 0 .. np
    /\ out \in [Rows(in.cnt) -> Vals \cup {Nil, Unwritten}]
    /\ hasNils \in BOOLEAN
    /\ status \in {"ok", Failed}

(* The result the contract defines (spec 4.6): the nil-skipping extremum   *)
(* of the row's partition for frame (0, 0), of its clipped frame           *)
(* otherwise, nil when that holds no value; the input itself for the       *)
(* documented shortcut without partitions or ordering.                     *)
ExpectedOf(x) ==
    [r \in Rows(x.cnt) |->
        LET F == IF x.start = 0 /\ x.end = 0 THEN PartRows(x.p, x.hasP, x.cnt, r)
                 ELSE FrameRows(x.p, x.hasP, x.cnt, r, x.start, x.end)
            L == {x.b[j] : j \in LiveRows(x.b, F)}
        IN  CASE ~x.hasP /\ ~x.ordered -> x.b[r]
              [] L = {}                -> Nil
              [] x.op = "min"          -> Min(L)
              [] OTHER                 -> Max(L)]

(* A call may fail exactly when a generic macro appends a row.            *)
AppendsRows(x) == AppendFails /\ x.path = "generic" /\ x.cnt > 0

Contract == INSTANCE AnalyticContract
    WITH input <- in,
         result <- IF pc # "done" THEN Pending
                   ELSE IF status = Failed THEN Failed
                   ELSE [col |-> out, nils |-> hasNils],
         Expected <- ExpectedOf, MayFail <- AppendsRows

(* Every call returns, failing only where a generic BUNappend may fail,   *)
(* and otherwise with each row holding the extremum of its frame         *)
(* clipped to its partition and a sound has-nils flag: the refinement of   *)
(* the contract by the boundary walk, the two kernels, their frame         *)
(* clipping and their nil-skipping scan.                                   *)
ContractSpec == Contract!Spec

(* has_nils claims a nil the result does not hold only when a kernel ran  *)
(* on an empty partition, a column of no rows or a boundary column that   *)
(* marks row 0: _IMP_NO_OVERLAP's curval = *pbp then reads a slot outside *)
(* the partition.  Every non-empty partition's flag follows its result.   *)
SpuriousNilsOnlyFromEmptyPartition ==
    (pc = "done" /\ hasNils /\ ~HasNil(out)) =>
        (in.cnt = 0 \/ (in.hasP /\ in.p[0]))

=============================================================================
