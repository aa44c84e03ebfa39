----------------------------- MODULE AnalyticSum -----------------------------
(***************************************************************************)
(* GDKanalyticalsum and GDKanalyticalprod (src/gdk/gdk_analytic.c) on      *)
(* integer types: the nil-skipping sum or product of each row's frame,     *)
(* accumulated in the result type TPE2 with checked arithmetic.            *)
(*                                                                         *)
(* ANALYTICAL_SUM_CALC and ANALYTICAL_PROD_CALC walk the boundary column   *)
(* as min/max does, and run _IMP_NO_OVERLAP (frame (0, 0)) or _IMP_ROWS on *)
(* each partition; with no boundary column and neither o nor force_order   *)
(* they cast the input into the result.  The accumulator curval starts    *)
(* nil, takes the first non-nil value and then folds the others in with   *)
(* ADD_WITH_CHECK resp. MUL4_WITH_CHECK, which jump to calc_overflow (the  *)
(* call returns GDK_FAIL) when the result leaves [-max, max].  TPE2's max  *)
(* is the constant AccMax; its nil lies outside that range.  The          *)
(* floating-point product (ANALYTICAL_PROD_CALC_FP) runs the same kernels  *)
(* with its own overflow test; the floating-point sum (dofsum) is not      *)
(* modelled.                                                               *)
(***************************************************************************)
EXTENDS AnalyticCommon

CONSTANTS
    Vals,     \* non-nil input values, integers within [-AccMax, AccMax]
    Ops,      \* subset of {"sum", "prod", "fprod"}
    Starts,   \* frame starts enumerated
    Ends,     \* frame ends enumerated
    AccMax    \* GDK_TPE2_max of the result type

ASSUME \A v \in Vals : -AccMax <= v /\ v <= AccMax

VARIABLES
    in,       \* arguments: [op, cnt, b, p, hasP, ordered, start, end]
    pc,       \* "start", "walk", "done" or "failed"
    np,       \* the boundary loop's row
    pnp,      \* first row of the partition being walked
    curval,   \* the accumulator, carried from one kernel run to the next
    out,      \* the output BAT r
    hasNils   \* has_nils

vars == <<in, pc, np, pnp, curval, out, hasNils>>

(* ordered is o != NULL || force_order, tested only without a boundary    *)
(* column: the model fixes it to FALSE otherwise.                          *)
Inputs ==
    {x \in UNION {[op: Ops, cnt: {n}, b: [Rows(n) -> Vals \cup {Nil}],
                   p: BoundaryColumns(n), hasP: BOOLEAN, ordered: BOOLEAN,
                   start: Starts, end: Ends] : n \in 0 .. MaxCnt} :
        x.hasP => ~x.ordered}

(* The exact result of v combined into curval c.                           *)
Combine(op, v, c) == IF op = "sum" THEN v + c ELSE v * c

(* Variant: the unchecked operation.                                      *)
OverflowsNever(v, c) == FALSE

(* ANALYTICAL_PROD_IMP_FP_REAL with abort_on_error = 1, the check of the   *)
(* flt/dbl product: overflow when ABSOLUTE(curval) > 1 and                 *)
(* GDK_TPE2_max / ABSOLUTE(v) < ABSOLUTE(curval); the division by a zero v *)
(* gives infinity, which never is below.                                   *)
FPProdOverflows(v, c) ==
    LET a == IF c < 0 THEN -c ELSE c
        w == IF v < 0 THEN -v ELSE v
    IN  a > 1 /\ w > 0 /\ AccMax < a * w

(* ADD_WITH_CHECK / MUL4_WITH_CHECK: overflow when the result is outside   *)
(* [-max, max]; "fprod" is the floating-point product.                     *)
Overflows(v, c) ==
    IF in.op = "fprod" THEN FPProdOverflows(v, c)
    ELSE LET s == Combine(in.op, v, c) IN s < -AccMax \/ s > AccMax

(* The kernels' inner loop over the slots j .. hi-1 from accumulator c:    *)
(* nil values are skipped, a nil accumulator takes the value, an overflow  *)
(* ends the scan with Failed.                                              *)
RECURSIVE Accumulate(_, _, _)
Accumulate(c, j, hi) ==
    CASE j >= hi            -> c
      [] in.b[j] = Nil      -> Accumulate(c, j + 1, hi)
      [] c = Nil            -> Accumulate(in.b[j], j + 1, hi)
      [] Overflows(in.b[j], c) -> Failed
      [] OTHER              -> Accumulate(Combine(in.op, in.b[j], c), j + 1, hi)

(* _IMP_ROWS's frame, clipped as in min/max.                               *)
FrameLo(lo, r) == IF r > lo + in.start THEN r - in.start ELSE lo
FrameHi(hi, r) == IF r + in.end < hi THEN r + in.end + 1 ELSE hi

(* The values the kernel computes for the rows lo .. hi-1.  _NO_OVERLAP   *)
(* scans the partition once from curval; _IMP_ROWS scans each row's frame,*)
(* the first from curval and every later one from the nil the previous    *)
(* row left behind.                                                        *)
KernelValues(lo, hi) ==
    IF in.start = 0 /\ in.end = 0
    THEN [r \in lo .. hi - 1 |-> Accumulate(curval, lo, hi)]
    ELSE [r \in lo .. hi - 1 |->
            Accumulate(IF r = lo THEN curval ELSE Nil, FrameLo(lo, r), FrameHi(hi, r))]

(* Variant: curval = TPE2_nil missing after the writes.                   *)
RunKernelNoReset(lo, hi, pcAfter) ==
    LET V == KernelValues(lo, hi)
        c == IF lo < hi THEN V[hi - 1] ELSE curval
    IN  IF \E r \in lo .. hi - 1 : V[r] = Failed
        THEN /\ pc' = "failed"
             /\ UNCHANGED <<curval, out, hasNils>>
        ELSE /\ out' = V @@ out
             /\ hasNils' = \/ hasNils
                           \/ \E r \in lo .. hi - 1 : V[r] = Nil
                           \/ in.start = 0 /\ in.end = 0 /\ c = Nil
             /\ curval' = c
             /\ pc' = pcAfter

(* The kernel on the partition lo .. hi-1: goto calc_overflow when a scan  *)
(* overflows; otherwise the writes, has_nils for a nil result (for         *)
(* _NO_OVERLAP also of an empty partition) and curval reset to nil.        *)
RunKernel(lo, hi, pcAfter) ==
    LET V == KernelValues(lo, hi)
        c == IF lo < hi THEN V[hi - 1] ELSE curval
    IN  IF \E r \in lo .. hi - 1 : V[r] = Failed
        THEN /\ pc' = "failed"
             /\ UNCHANGED <<curval, out, hasNils>>
        ELSE /\ out' = V @@ out
             /\ hasNils' = \/ hasNils
                           \/ \E r \in lo .. hi - 1 : V[r] = Nil
                           \/ in.start = 0 /\ in.end = 0 /\ c = Nil
             /\ curval' = Nil
             /\ pc' = pcAfter

Init ==
    /\ in \in Inputs
    /\ pc = "start"
    /\ np = 0
    /\ pnp = 0
    /\ curval = Nil
    /\ out = [r \in Rows(in.cnt) |-> Unwritten]
    /\ hasNils = FALSE

(* No p, no o, no force_order: *rb = (TPE2) v, nil for nil.                *)
CopyInput ==
    /\ pc = "start"
    /\ ~in.hasP /\ ~in.ordered
    /\ out' = in.b
    /\ hasNils' = HasNil(in.b)
    /\ pc' = "done"
    /\ UNCHANGED <<in, np, pnp, curval>>

WholeColumn ==
    /\ pc = "start"
    /\ ~in.hasP /\ in.ordered
    /\ RunKernel(0, in.cnt, "done")
    /\ UNCHANGED <<in, np, pnp>>

StartWalk ==
    /\ pc = "start"
    /\ in.hasP
    /\ pc' = "walk"
    /\ UNCHANGED <<in, np, pnp, curval, out, hasNils>>

SkipRow ==
    /\ pc = "walk"
    /\ np < in.cnt
    /\ ~in.p[np]
    /\ np' = np + 1
    /\ UNCHANGED <<in, pc, pnp, curval, out, hasNils>>

PartitionEnd ==
    /\ pc = "walk"
    /\ np < in.cnt
    /\ in.p[np]
    /\ RunKernel(pnp, np, "walk")
    /\ pnp' = np
    /\ np' = np + 1
    /\ UNCHANGED in

LastPartition ==
    /\ pc = "walk"
    /\ np = in.cnt
    /\ RunKernel(pnp, in.cnt, "done")
    /\ UNCHANGED <<in, np, pnp>>

(* The call has returned, with GDK_SUCCEED or GDK_FAIL.                    *)
Terminated == pc \in {"done", "failed"} /\ UNCHANGED vars

Next ==
    \/ CopyInput \/ WholeColumn \/ StartWalk
    \/ SkipRow \/ PartitionEnd \/ LastPartition
    \/ Terminated

(* A call runs to completion on the calling thread: weak fairness.         *)
Spec == Init /\ [][Next]_vars /\ WF_vars(Next)

-----------------------------------------------------------------------------
TypeOK ==
    /\ in \in Inputs
    /\ pc \in {"start", "walk", "done", "failed"}
    /\ np \in 0 .. in.cnt
    /\ pnp \in 0 .. np
    /\ curval \in (-AccMax .. AccMax) \cup {Nil}
    /\ out \in [Rows(in.cnt) -> (-AccMax .. AccMax) \cup {Nil, Unwritten}]
    /\ hasNils \in BOOLEAN

(* The frame the contract gives row r (spec 4.8): its partition for frame  *)
(* (0, 0), its clipped frame otherwise.                                    *)
FrameOf(x, r) ==
    IF x.start = 0 /\ x.end = 0 THEN PartRows(x.p, x.hasP, x.cnt, r)
    ELSE FrameRows(x.p, x.hasP, x.cnt, r, x.start, x.end)

(* The exact sum or product of the non-nil values of the rows S.           *)
Aggregate(x, S) ==
    LET L == LiveRows(x.b, S)
    IN  IF L = {} THEN Nil
        ELSE IF x.op = "sum" THEN FoldFunctionOnSet(+, 0, x.b, L)
        ELSE FoldFunctionOnSet(LAMBDA a, c : a * c, 1, x.b, L)

ExpectedOf(x) ==
    [r \in Rows(x.cnt) |->
        IF ~x.hasP /\ ~x.ordered THEN x.b[r] ELSE Aggregate(x, FrameOf(x, r))]

(* The call may fail when some frame's running result, over a prefix of   *)
(* the frame in row order, leaves the accumulator's range.                 *)
OverflowsSomewhere(x) ==
    /\ x.hasP \/ x.ordered
    /\ \E r \in Rows(x.cnt) : \E m \in FrameOf(x, r) :
          LET a == Aggregate(x, {j \in FrameOf(x, r) : j <= m})
          IN  a # Nil /\ (a < -AccMax \/ a > AccMax)

Contract == INSTANCE AnalyticContract
    WITH input <- in,
         result <- CASE pc = "done"   -> [col |-> out, nils |-> hasNils]
                     [] pc = "failed" -> Failed
                     [] OTHER         -> Pending,
         Expected <- ExpectedOf, MayFail <- OverflowsSomewhere

(* Every call returns, with GDK_FAIL only when an exact running sum or     *)
(* product leaves TPE2's range, and otherwise with each row holding the    *)
(* exact sum or product of its frame and a sound has-nils flag: about the  *)
(* accumulator curval carried across partitions, its reset after every     *)
(* write, the overflow checks and the frame clipping.                      *)
ContractSpec == Contract!Spec

=============================================================================
