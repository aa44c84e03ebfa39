----------------------------- MODULE AnalyticAvg -----------------------------
(***************************************************************************)
(* GDKanalyticalavg on integer types (ANALYTICAL_AVERAGE_LNG_HGE with      *)
(* ANALYTICAL_AVERAGE_IMP_NO_OVERLAP / _IMP_ROWS, src/gdk/gdk_analytic.c): *)
(* the mean of the non-nil values of each row's frame, as a dbl.           *)
(*                                                                         *)
(* The kernels add values into sum (type lng_hge, range [-AccMax, AccMax]) *)
(* with ADD_WITH_CHECK and count them in n.  When an addition would        *)
(* overflow they jump to avg_overflow..., turn sum and n into a mean a and *)
(* remainder rr, and fold the rest of the frame in with AVERAGE_ITER,      *)
(* starting with the value that overflowed (pbp, resp. bs, still points at *)
(* it).  A result is a rational <<num, den>> in lowest terms: the dbl      *)
(* rounding of sum / n and a + rr / n is not modelled.                     *)
(* ADD_WITH_CHECK and AVERAGE_ITER are defined in gdk_calc_private.h,      *)
(* which is not part of this repository: they are modelled from spec 4.8   *)
(* and 4.9.                                                                *)
(***************************************************************************)
EXTENDS AnalyticCommon

CONSTANTS
    Vals,     \* non-nil input values, integers within [-AccMax, AccMax]
    Starts,   \* frame starts enumerated
    Ends,     \* frame ends enumerated
    AccMax    \* GDK_lng_hge_max, the range of sum

ASSUME \A v \in Vals : -AccMax <= v /\ v <= AccMax

VARIABLES
    in,       \* arguments: [cnt, b, p, hasP, ordered, start, end]
    pc,       \* "start", "walk" or "done"
    np,       \* the boundary loop's row
    pnp,      \* first row of the partition being walked
    acc,      \* [sum, n] of the call, carried from one kernel run to the next
    out,      \* the output BAT r
    hasNils   \* has_nils

vars == <<in, pc, np, pnp, acc, out, hasNils>>

Inputs ==
    {x \in UNION {[cnt: {n}, b: [Rows(n) -> Vals \cup {Nil}],
                   p: BoundaryColumns(n), hasP: BOOLEAN, ordered: BOOLEAN,
                   start: Starts, end: Ends] : n \in 0 .. MaxCnt} :
        x.hasP => ~x.ordered}

(* The rational num / den, den > 0, in lowest terms.                       *)
Ratio(num, den) ==
    LET g == Max({d \in 1 .. den : num % d = 0 /\ den % d = 0})
    IN  <<num \div g, den \div g>>

(* ADD_WITH_CHECK(TPE, v, lng_hge, sum, ...): the jump when v + sum leaves *)
(* [-max, max].                                                            *)
AddOverflows(v, s) == v + s < -AccMax \/ v + s > AccMax

(* The step into avg_overflow...: a and rr from sum and n,                 *)
(*   sum >= 0: a = sum / n, rr = sum % n;                                  *)
(*   sum < 0:  a = -(-sum / n), rr = -sum % n, then if (r) { a--;          *)
(*             rr = n - rr; } where r, the result BAT, is never NULL.      *)
RecoveryStart(s, n) ==
    IF s >= 0 THEN [a |-> s \div n, rr |-> s % n]
    ELSE [a |-> -((-s) \div n) - 1, rr |-> n - ((-s) % n)]

(* AVERAGE_ITER(TPE, v, a, rr, n): n grows by one and (a, rr) become the   *)
(* floor mean and remainder of a * n + rr + v over the new n.              *)
AverageIter(st, v) ==
    LET n2  == st.n + 1
        tot == st.a * st.n + st.rr + v
    IN  [st EXCEPT !.n = n2, !.a = tot \div n2, !.rr = tot % n2]

(* Variant: the recovery loop starting after the value that overflowed.  *)
RECURSIVE AvgLoopSkipOverflowed(_, _, _)
AvgLoopSkipOverflowed(st, j, hi) ==
    IF j >= hi THEN st
    ELSE LET v == in.b[j]
         IN  CASE v = Nil -> AvgLoopSkipOverflowed(st, j + 1, hi)
               [] st.mode = "recover" ->
                     AvgLoopSkipOverflowed(AverageIter(st, v), j + 1, hi)
               [] AddOverflows(v, st.sum) ->
                     LET p0 == RecoveryStart(st.sum, st.n)
                     IN  AvgLoopSkipOverflowed(
                             [mode |-> "recover", sum |-> st.sum, n |-> st.n,
                              a |-> p0.a, rr |-> p0.rr,
                              start |-> [a |-> p0.a, rr |-> p0.rr, n |-> st.n]],
                             j + 1, hi)
               [] OTHER -> AvgLoopSkipOverflowed(
                               [st EXCEPT !.sum = st.sum + v, !.n = st.n + 1],
                               j + 1, hi)

(* The kernels' loop over the slots j .. hi-1.  st.mode is "sum" before an *)
(* overflow and "recover" after; st.start keeps the (a, rr) pair the jump  *)
(* formed.                                                                 *)
RECURSIVE AvgLoop(_, _, _)
AvgLoop(st, j, hi) ==
    IF j >= hi THEN st
    ELSE LET v == in.b[j]
         IN  CASE v = Nil -> AvgLoop(st, j + 1, hi)
               [] st.mode = "recover" -> AvgLoop(AverageIter(st, v), j + 1, hi)
               [] AddOverflows(v, st.sum) ->
                     LET p0 == RecoveryStart(st.sum, st.n)
                         st1 == [mode |-> "recover", sum |-> st.sum, n |-> st.n,
                                 a |-> p0.a, rr |-> p0.rr,
                                 start |-> [a |-> p0.a, rr |-> p0.rr, n |-> st.n]]
                     IN  AvgLoop(AverageIter(st1, v), j + 1, hi)
               [] OTHER -> AvgLoop([st EXCEPT !.sum = st.sum + v, !.n = st.n + 1],
                                   j + 1, hi)

(* The loop's start state from the call's sum and n.                       *)
LoopStart(c) == [mode |-> "sum", sum |-> c.sum, n |-> c.n, a |-> 0, rr |-> 0,
                 start |-> [a |-> 0, rr |-> 0, n |-> 0]]

(* curval after the loop: a + (dbl) rr / n after a recovery, else          *)
(* (dbl) sum / n, nil when n == 0.                                         *)
Mean(st) ==
    CASE st.mode = "recover" -> Ratio(st.a * st.n + st.rr, st.n)
      [] st.n > 0 -> Ratio(st.sum, st.n)
      [] OTHER -> Nil

FrameLo(lo, r) == IF r > lo + in.start THEN r - in.start ELSE lo
FrameHi(hi, r) == IF r + in.end < hi THEN r + in.end + 1 ELSE hi

(* The loop state of row r of the partition lo .. hi-1: one scan of the   *)
(* partition from the call's sum and n (_NO_OVERLAP), or a scan of the     *)
(* row's frame, from the call's sum and n for the first row and from the   *)
(* zeros the previous row reset them to for the others (_IMP_ROWS).        *)
LoopState(lo, hi, r) ==
    IF in.start = 0 /\ in.end = 0
    THEN AvgLoop(LoopStart(acc), lo, hi)
    ELSE AvgLoop(LoopStart(IF r = lo THEN acc ELSE [sum |-> 0, n |-> 0]),
                 FrameLo(lo, r), FrameHi(hi, r))

(* Variant: n = 0 and sum = 0 missing after the writes.                   *)
WritePartitionNoReset(lo, hi) ==
    LET V    == [r \in lo .. hi - 1 |-> Mean(LoopState(lo, hi, r))]
        last == LoopState(lo, hi, hi - 1)
    IN  /\ out' = V @@ out
        /\ hasNils' = \/ hasNils
                      \/ \E r \in lo .. hi - 1 : V[r] = Nil
                      \/ in.start = 0 /\ in.end = 0 /\ acc.n = 0 /\ lo = hi
        /\ acc' = IF lo < hi THEN [sum |-> last.sum, n |-> last.n] ELSE acc

(* The kernel on the partition lo .. hi-1: the writes, has_nils for a      *)
(* frame with n == 0, whose curval is nil (for _NO_OVERLAP also of an      *)
(* empty partition), then n = 0 and sum = 0.                               *)
WritePartition(lo, hi) ==
    LET V == [r \in lo .. hi - 1 |-> Mean(LoopState(lo, hi, r))]
    IN  /\ out' = V @@ out
        /\ hasNils' = \/ hasNils
                      \/ \E r \in lo .. hi - 1 : V[r] = Nil
                      \/ in.start = 0 /\ in.end = 0 /\ acc.n = 0 /\ lo = hi
        /\ acc' = [sum |-> 0, n |-> 0]

Init ==
    /\ in \in Inputs
    /\ pc = "start"
    /\ np = 0
    /\ pnp = 0
    /\ acc = [sum |-> 0, n |-> 0]
    /\ out = [r \in Rows(in.cnt) |-> Unwritten]
    /\ hasNils = FALSE

(* No p, no o, no force_order: *rp = (dbl) v, nil for nil.                 *)
CopyInput ==
    /\ pc = "start"
    /\ ~in.hasP /\ ~in.ordered
    /\ out' = [r \in Rows(in.cnt) |->
                 IF in.b[r] = Nil THEN Nil ELSE Ratio(in.b[r], 1)]
    /\ hasNils' = HasNil(in.b)
    /\ pc' = "done"
    /\ UNCHANGED <<in, np, pnp, acc>>

WholeColumn ==
    /\ pc = "start"
    /\ ~in.hasP /\ in.ordered
    /\ WritePartition(0, in.cnt)
    /\ pc' = "done"
    /\ UNCHANGED <<in, np, pnp>>

StartWalk ==
    /\ pc = "start"
    /\ in.hasP
    /\ pc' = "walk"
    /\ UNCHANGED <<in, np, pnp, acc, out, hasNils>>

SkipRow ==
    /\ pc = "walk"
    /\ np < in.cnt
    /\ ~in.p[np]
    /\ np' = np + 1
    /\ UNCHANGED <<in, pc, pnp, acc, out, hasNils>>

PartitionEnd ==
    /\ pc = "walk"
    /\ np < in.cnt
    /\ in.p[np]
    /\ WritePartition(pnp, np)
    /\ pnp' = np
    /\ np' = np + 1
    /\ UNCHANGED <<in, pc>>

LastPartition ==
    /\ pc = "walk"
    /\ np = in.cnt
    /\ WritePartition(pnp, in.cnt)
    /\ pc' = "done"
    /\ UNCHANGED <<in, np, pnp>>

Terminated == pc = "done" /\ UNCHANGED vars

Next ==
    \/ CopyInput \/ WholeColumn \/ StartWalk
    \/ SkipRow \/ PartitionEnd \/ LastPartition
    \/ Terminated

(* A call runs to completion on the calling thread: weak fairness.         *)
Spec == Init /\ [][Next]_vars /\ WF_vars(Next)

-----------------------------------------------------------------------------
(* Means of at most MaxCnt values within [-AccMax, AccMax].               *)
Means == {m \in (-AccMax * MaxCnt .. AccMax * MaxCnt) \X (1 .. MaxCnt) :
             -AccMax * m[2] <= m[1] /\ m[1] <= AccMax * m[2]}

TypeOK ==
    /\ in \in Inputs
    /\ pc \in {"start", "walk", "done"}
    /\ np \in 0 .. in.cnt
    /\ pnp \in 0 .. np
    /\ acc = [sum |-> 0, n |-> 0]
    /\ out \in [Rows(in.cnt) -> Means \cup {Nil, Unwritten}]
    /\ hasNils \in BOOLEAN

FrameOf(x, r) ==
    IF x.start = 0 /\ x.end = 0 THEN PartRows(x.p, x.hasP, x.cnt, r)
    ELSE FrameRows(x.p, x.hasP, x.cnt, r, x.start, x.end)

(* The result the contract defines (spec 4.9): the exact mean of the       *)
(* non-nil values of the row's frame, nil for none; the input itself for   *)
(* the shortcut without partitions or ordering.                            *)
ExpectedOf(x) ==
    [r \in Rows(x.cnt) |->
        LET L == LiveRows(x.b, FrameOf(x, r))
        IN  CASE ~x.hasP /\ ~x.ordered -> (IF x.b[r] = Nil THEN Nil
                                           ELSE Ratio(x.b[r], 1))
              [] L = {} -> Nil
              [] OTHER  -> Ratio(FoldFunctionOnSet(+, 0, x.b, L), Cardinality(L))]

NeverFails(x) == FALSE

Contract == INSTANCE AnalyticContract
    WITH input <- in,
         result <- IF pc = "done" THEN [col |-> out, nils |-> hasNils]
                   ELSE Pending,
         Expected <- ExpectedOf, MayFail <- NeverFails

(* A call never fails on overflow and returns each row holding the exact   *)
(* mean of its frame, with a sound has-nils flag (the safety part of the   *)
(* contract; the walk's termination is checked for the other operations,  *)
(* whose walk is the same): about the jump                                 *)
(* into the recovery with the value that overflowed still to be counted,   *)
(* the mean and remainder formed there, and the sum and n reset after      *)
(* every write.                                                            *)
ContractSafety == Contract!SafetySpec

=============================================================================
