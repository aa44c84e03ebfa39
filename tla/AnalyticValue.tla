---------------------------- MODULE AnalyticValue ----------------------------
(***************************************************************************)
(* GDKanalyticalfirst, GDKanalyticallast and GDKanalyticalnthvalue         *)
(* (src/gdk/gdk_analytic.c): one value per partition, selected from the   *)
(* partition's rows and broadcast to all of them.                          *)
(*                                                                         *)
(* The three share the boundary walk of the other analytic functions (see  *)
(* AnalyticNtile): a marked row np closes the partition [pnp, np), the     *)
(* step after the loop closes [pnp, cnt).  The per-partition macros are    *)
(* Selected below.  Slots are read by pointer (bp[-1], pbp[nth],    *)
(* BUNtail(bpi, nth)); a slot outside the column reads the run's junk.     *)
(*                                                                         *)
(* path distinguishes the type-specialised macros (ANALYTICAL_*_IMP, for   *)
(* the fixed-width numeric types) from the generic ones ( *_OTHERS, for    *)
(* every other type).  For first and last the two select the same slot;   *)
(* for nth_value they do not.                                              *)
(***************************************************************************)
EXTENDS AnalyticCommon

CONSTANTS
    Vals,     \* non-nil values of the column
    ValueOps,      \* subset of {"first", "last", "nth"}
    Paths,    \* subset of {"fixed", "generic"}
    NthVals,  \* nth offsets enumerated
    None,     \* BUN_NONE, the "no offset" nth
    AppendFails \* BUNappend of the generic macros may return GDK_FAIL

VARIABLES
    in,       \* arguments: [op, path, cnt, b, p, hasP, nth, junk]
    pc,       \* "start", "walk" or "done"
    np,       \* the boundary loop's row
    pnp,      \* first row of the partition being walked
    curval,   \* first_value's curval, carried from one partition to the next
    out,      \* the output BAT r
    hasNils,  \* has_nils
    status    \* gdk_res: "ok" (GDK_SUCCEED) or Failed

vars == <<in, pc, np, pnp, curval, out, hasNils, status>>

InputsOf(n) ==
    [op: ValueOps, path: Paths, cnt: {n}, b: [Rows(n) -> Vals \cup {Nil}],
     p: BoundaryColumns(n), hasP: BOOLEAN, nth: NthVals \cup {None},
     junk: Vals \cup {Nil}]
Inputs == UNION {InputsOf(n) : n \in 0 .. MaxCnt}

Selected(lo, hi) ==
    CASE in.op = "first" -> curval
      [] in.op = "last"  -> Slot(in.b, hi - 1, in.junk)
      [] in.op = "nth" /\ in.nth > hi - lo -> Nil
      [] in.op = "nth" /\ in.path = "fixed" -> Slot(in.b, lo + in.nth, in.junk)
      [] in.op = "nth" /\ in.path = "generic" -> Slot(in.b, in.nth, in.junk)

(* The macro's writes: the selected value on every row of the partition,  *)
(* has_nils when it is nil.                                               *)
WritePartition(lo, hi) ==
    LET v == Selected(lo, hi)
    IN  /\ out' = [r \in lo .. hi - 1 |-> v] @@ out
        /\ hasNils' = (hasNils \/ v = Nil)

Init ==
    /\ in \in Inputs
    /\ pc = "start"
    /\ np = 0
    /\ pnp = 0
    /\ curval = Slot(in.b, 0, in.junk)
    /\ out = [r \in Rows(in.cnt) |-> Unwritten]
    /\ hasNils = FALSE
    /\ status = "ok"

(* nth == BUN_NONE fills the whole output with nil.                       *)
NthNone ==
    /\ pc = "start"
    /\ in.op = "nth" /\ in.nth = None
    /\ out' = [r \in Rows(in.cnt) |-> Nil]
    /\ hasNils' = TRUE
    /\ pc' = "done"
    /\ UNCHANGED <<in, np, pnp, curval, status>>

(* No boundary column: the whole column is one partition.                 *)
WholeColumn ==
    /\ pc = "start"
    /\ ~(in.op = "nth" /\ in.nth = None)
    /\ ~in.hasP
    /\ WritePartition(0, in.cnt)
    /\ pc' = "done"
    /\ UNCHANGED <<in, np, pnp, curval, status>>

StartWalk ==
    /\ pc = "start"
    /\ ~(in.op = "nth" /\ in.nth = None)
    /\ in.hasP
    /\ pc' = "walk"
    /\ UNCHANGED <<in, np, pnp, curval, out, hasNils, status>>

SkipRow ==
    /\ pc = "walk"
    /\ np < in.cnt
    /\ ~in.p[np]
    /\ np' = np + 1
    /\ UNCHANGED <<in, pc, pnp, curval, out, hasNils, status>>

(* A marked row closes [pnp, np); first_value then reads curval = bp[0],   *)
(* the first slot of the next partition.                                  *)
PartitionEnd ==
    /\ pc = "walk"
    /\ np < in.cnt
    /\ in.p[np]
    /\ WritePartition(pnp, np)
    /\ curval' = IF in.op = "first" THEN Slot(in.b, np, in.junk) ELSE curval
    /\ pnp' = np
    /\ np' = np + 1
    /\ UNCHANGED <<in, pc, status>>

LastPartition ==
    /\ pc = "walk"
    /\ np = in.cnt
    /\ WritePartition(pnp, in.cnt)
    /\ pc' = "done"
    /\ UNCHANGED <<in, np, pnp, curval, status>>

(* One BUNappend of the generic branch returns GDK_FAIL while it appends *)
(* the rows lo .. hi-1 (the nils for nth == BUN_NONE, the value the      *)
(* *_OTHERS macro selected): goto finish, and the call returns gdk_res.   *)
(* The rows appended before it and the flags finish sets are not read by  *)
(* a caller that sees GDK_FAIL.  Variant: the failed status not kept.     *)
AppendFaultLost(lo, hi) ==
    /\ AppendFails /\ in.path = "generic" /\ lo < hi
    /\ pc' = "done"
    /\ UNCHANGED <<in, np, pnp, curval, out, hasNils, status>>
AppendFault(lo, hi) ==
    /\ AppendFails /\ in.path = "generic" /\ lo < hi
    /\ status' = Failed
    /\ pc' = "done"
    /\ UNCHANGED <<in, np, pnp, curval, out, hasNils>>

(* The generic branch's appends at each place the code makes them: the   *)
(* BUN_NONE loop, the macro on the whole column, on a partition a marked *)
(* row closes, and on the last partition.                                 *)
AppendFailure ==
    \/ pc = "start" /\ in.op = "nth" /\ in.nth = None /\ AppendFault(0, in.cnt)
    \/ /\ pc = "start" /\ ~(in.op = "nth" /\ in.nth = None) /\ ~in.hasP
       /\ AppendFault(0, in.cnt)
    \/ pc = "walk" /\ np < in.cnt /\ in.p[np] /\ AppendFault(pnp, np)
    \/ pc = "walk" /\ np = in.cnt /\ AppendFault(pnp, in.cnt)

Terminated == pc = "done" /\ UNCHANGED vars

Next ==
    \/ NthNone \/ WholeColumn \/ StartWalk
    \/ SkipRow \/ PartitionEnd \/ LastPartition
    \/ AppendFailure
    \/ Terminated

(* A call runs to completion on the calling thread: weak fairness.        *)
Spec == Init /\ [][Next]_vars /\ WF_vars(Next)

-----------------------------------------------------------------------------
TypeOK ==
    /\ in.cnt \in 0 .. MaxCnt /\ in \in InputsOf(in.cnt)
    /\ pc \in {"start", "walk", "done"}
    /\ np \in 0 .. in.cnt
    /\ pnp \in 0 .. np
    /\ curval \in Vals \cup {Nil}
    /\ out \in [Rows(in.cnt) -> Vals \cup {Nil, Unwritten}]
    /\ hasNils \in BOOLEAN
    /\ status \in {"ok", Failed}

(* The result the contract defines (spec 4.4): the partition's first row, *)
(* its last row, or its row at offset nth (nil when the partition has no  *)
(* such row, or nth is BUN_NONE).                                         *)
ExpectedOf(x) ==
    [r \in Rows(x.cnt) |->
        LET lo == PartLo(x.p, x.hasP, r)
            hi == PartHi(x.p, x.hasP, x.cnt, r)
        IN  CASE x.op = "first" -> x.b[lo]
              [] x.op = "last"  -> x.b[hi - 1]
              [] x.nth = None   -> Nil
              [] OTHER -> IF x.nth < hi - lo THEN x.b[lo + x.nth] ELSE Nil]

(* A call may fail exactly when the generic branch appends a row.        *)
AppendsRows(x) == AppendFails /\ x.path = "generic" /\ x.cnt > 0

Contract == INSTANCE AnalyticContract
    WITH input <- in,
         result <- IF pc # "done" THEN Pending
                   ELSE IF status = Failed THEN Failed
                   ELSE [col |-> out, nils |-> hasNils],
         Expected <- ExpectedOf, MayFail <- AppendsRows

(* Every call returns, failing only where a BUNappend may fail, and on    *)
(* success with each row holding its partition's first, last or nth value *)
(* and a sound has-nils flag: the refinement of the contract by the       *)
(* boundary walk, the per-partition macros and first_value's curval       *)
(* carried across partitions.                                             *)
ContractSpec == Contract!Spec

(* nth_value as spec 4.4 defines it: each row gets the nth row of its    *)
(* partition, and nil when the partition has no more than nth rows; on    *)
(* both paths.  About NTHVALUE_CALC's range test nth > bp - pbp and the    *)
(* index the generic ANALYTICAL_NTHVALUE_OTHERS reads.                    *)
NthValueAsSpecified ==
    (pc = "done" /\ status = "ok" /\ in.op = "nth" /\ in.nth # None) =>
        \A r \in Rows(in.cnt) :
            LET lo == PartLo(in.p, in.hasP, r)
                hi == PartHi(in.p, in.hasP, in.cnt, r)
            IN  out[r] = IF in.nth < hi - lo THEN in.b[lo + in.nth] ELSE Nil

=============================================================================
