--------------------------- MODULE AnalyticLagLead ---------------------------
(***************************************************************************)
(* GDKanalyticallag and GDKanalyticallead (src/gdk/gdk_analytic.c): every  *)
(* row gets the value k rows before it (lag) or after it (lead) in its     *)
(* partition, or the default when there is no such row.                    *)
(*                                                                         *)
(* Boundary walk as in AnalyticNtile.  The type-specialised macros         *)
(* (ANALYTICAL_LAG_CALC, LEAD_CALC) read the input through one pointer bp  *)
(* that is carried from partition to partition: it is the variable bp.    *)
(* The generic macros (ANALYTICAL_LAG_OTHERS, ANALYTICAL_LEAD_OTHERS) read *)
(* by index from the output position k, which is the partition's first    *)
(* row at the start of each macro.                                         *)
(***************************************************************************)
EXTENDS AnalyticCommon

CONSTANTS
    Vals,     \* non-nil values of the column
    Ops,      \* subset of {"lag", "lead"}
    Paths,    \* subset of {"fixed", "generic"}
    FixedOps, \* the operations enumerated on the "fixed" path
    KVals,    \* offsets enumerated
    None,     \* BUN_NONE, the "no offset" k
    AppendFails \* BUNappend of the generic macros may return GDK_FAIL

VARIABLES
    in,       \* arguments: [op, path, cnt, b, p, hasP, k, def]
    pc,       \* "start", "walk" or "done"
    np,       \* the boundary loop's row
    pnp,      \* first row of the partition being walked
    bp,       \* the input pointer of the type-specialised macros
    out,      \* the output BAT r
    hasNils,  \* has_nils
    status    \* gdk_res: "ok" (GDK_SUCCEED) or Failed

vars == <<in, pc, np, pnp, bp, out, hasNils, status>>

InputsOf(n) ==
    {x \in [op: Ops, path: Paths, cnt: {n}, b: [Rows(n) -> Vals \cup {Nil}],
            p: BoundaryColumns(n), hasP: BOOLEAN, k: KVals \cup {None},
            def: Vals \cup {Nil}] :
        x.path = "fixed" => x.op \in FixedOps}
Inputs == UNION {InputsOf(n) : n \in 0 .. MaxCnt}

(* Rows of the partition lo .. hi-1 that copy an input value: for lag the *)
(* rows after the first min(k, ncnt), which get the default; for lead the *)
(* first ncnt - k rows when k < ncnt, the rest getting the default.       *)
Copies(lo, hi) ==
    LET ncnt == hi - lo
    IN  IF in.op = "lag" THEN lo + Min({in.k, ncnt}) .. hi - 1
        ELSE IF in.k < ncnt THEN lo .. hi - in.k - 1 ELSE {}

(* Variant: LEAD_CALC not moving bp ahead by k before copying.           *)
SourceNoSkip(lo, hi, r) ==
    LET first == Min(Copies(lo, hi))
    IN  CASE in.path = "generic" /\ in.op = "lag"  -> r - in.k
          [] in.path = "generic" /\ in.op = "lead" -> r + in.k
          [] in.op = "lag"  -> bp + (r - first)
          [] in.op = "lead" -> bp + (r - lo)

(* The slot a copying row r reads.  ANALYTICAL_LAG_CALC copies *bp++ from *)
(* the first copying row on; LEAD_CALC first moves bp ahead by k;         *)
(* the generic macros read BUNtail(bpi, l) with l = k - lag, resp.        *)
(* n = k + lead.                                                          *)
Source(lo, hi, r) ==
    LET first == Min(Copies(lo, hi))
    IN  CASE in.path = "generic" /\ in.op = "lag"  -> r - in.k
          [] in.path = "generic" /\ in.op = "lead" -> r + in.k
          [] in.op = "lag"  -> bp + (r - first)
          [] in.op = "lead" -> bp + in.k + (r - lo)

(* Variant: no has_nils test on the copied values.                        *)
WritePartitionNoNilTest(lo, hi) ==
    LET C == Copies(lo, hi)
        V == [r \in lo .. hi - 1 |->
                IF r \in C THEN in.b[Source(lo, hi, r)] ELSE in.def]
    IN  /\ out' = V @@ out
        /\ hasNils' = (hasNils \/ (in.k > 0 /\ in.def = Nil))

(* The per-partition macro over lo .. hi-1: copies, then the default on   *)
(* the other rows; has_nils for a nil copy, and for a nil default as soon *)
(* as k > 0 (lag > 0 && is_nil(def), lead > 0 && is_nil(def)).            *)
WritePartition(lo, hi) ==
    LET C == Copies(lo, hi)
        V == [r \in lo .. hi - 1 |->
                IF r \in C THEN in.b[Source(lo, hi, r)] ELSE in.def]
    IN  /\ out' = V @@ out
        /\ hasNils' = \/ hasNils
                      \/ \E r \in C : V[r] = Nil
                      \/ in.k > 0 /\ in.def = Nil

(* Variant: LEAD_CALC advancing bp one slot too far.                      *)
BpAfterPastEnd(lo, hi) ==
    IF in.op = "lag" THEN bp + Cardinality(Copies(lo, hi)) ELSE bp + (hi - lo) + 1

(* Where the macro leaves bp: ANALYTICAL_LAG_CALC advances it once per    *)
(* copied row, LEAD_CALC by the partition's size.                         *)
BpAfter(lo, hi) ==
    IF in.op = "lag" THEN bp + Cardinality(Copies(lo, hi)) ELSE bp + (hi - lo)

(* After ANALYTICAL_LAG_CALC of a partition the walk adds                 *)
(* bp += (lag < ncnt) ? lag : 0.                                          *)
BpNextPartition(lo, hi) ==
    IF in.op = "lag" /\ in.k < hi - lo THEN BpAfter(lo, hi) + in.k
    ELSE BpAfter(lo, hi)

Init ==
    /\ in \in Inputs
    /\ pc = "start"
    /\ np = 0
    /\ pnp = 0
    /\ bp = 0
    /\ out = [r \in Rows(in.cnt) |-> Unwritten]
    /\ hasNils = FALSE
    /\ status = "ok"

(* k == BUN_NONE fills the whole output with nil.                         *)
NoOffset ==
    /\ pc = "start"
    /\ in.k = None
    /\ out' = [r \in Rows(in.cnt) |-> Nil]
    /\ hasNils' = TRUE
    /\ pc' = "done"
    /\ UNCHANGED <<in, np, pnp, bp, status>>

WholeColumn ==
    /\ pc = "start"
    /\ in.k # None
    /\ ~in.hasP
    /\ WritePartition(0, in.cnt)
    /\ bp' = BpAfter(0, in.cnt)
    /\ pc' = "done"
    /\ UNCHANGED <<in, np, pnp, status>>

StartWalk ==
    /\ pc = "start"
    /\ in.k # None
    /\ in.hasP
    /\ pc' = "walk"
    /\ UNCHANGED <<in, np, pnp, bp, out, hasNils, status>>

SkipRow ==
    /\ pc = "walk"
    /\ np < in.cnt
    /\ ~in.p[np]
    /\ np' = np + 1
    /\ UNCHANGED <<in, pc, pnp, bp, out, hasNils, status>>

PartitionEnd ==
    /\ pc = "walk"
    /\ np < in.cnt
    /\ in.p[np]
    /\ WritePartition(pnp, np)
    /\ bp' = BpNextPartition(pnp, np)
    /\ pnp' = np
    /\ np' = np + 1
    /\ UNCHANGED <<in, pc, status>>

LastPartition ==
    /\ pc = "walk"
    /\ np = in.cnt
    /\ WritePartition(pnp, in.cnt)
    /\ bp' = BpAfter(pnp, in.cnt)
    /\ pc' = "done"
    /\ UNCHANGED <<in, np, pnp, status>>

(* One BUNappend of a generic macro returns GDK_FAIL while the macro      *)
(* appends the rows lo .. hi-1 (the nils for k == BUN_NONE, the defaults, *)
(* the copies): goto finish, and the call returns gdk_res.  The rows      *)
(* appended before it and the flags set at finish are not read by a      *)
(* caller that sees GDK_FAIL.  Variant: the failed status not kept.      *)
AppendFaultLost(lo, hi) ==
    /\ AppendFails /\ in.path = "generic" /\ lo < hi
    /\ pc' = "done"
    /\ UNCHANGED <<in, np, pnp, bp, out, hasNils, status>>
AppendFault(lo, hi) ==
    /\ AppendFails /\ in.path = "generic" /\ lo < hi
    /\ status' = Failed
    /\ pc' = "done"
    /\ UNCHANGED <<in, np, pnp, bp, out, hasNils>>

(* The generic branch's appends at each place the code makes them: the   *)
(* BUN_NONE loop, the macro on the whole column, on a partition a marked *)
(* row closes, and on the last partition.                                 *)
AppendFailure ==
    \/ pc = "start" /\ in.k = None /\ AppendFault(0, in.cnt)
    \/ pc = "start" /\ in.k # None /\ ~in.hasP /\ AppendFault(0, in.cnt)
    \/ pc = "walk" /\ np < in.cnt /\ in.p[np] /\ AppendFault(pnp, np)
    \/ pc = "walk" /\ np = in.cnt /\ AppendFault(pnp, in.cnt)

Terminated == pc = "done" /\ UNCHANGED vars

Next ==
    \/ NoOffset \/ WholeColumn \/ StartWalk
    \/ SkipRow \/ PartitionEnd \/ LastPartition
    \/ AppendFailure
    \/ Terminated

(* A call runs to completion on the calling thread: weak fairness.        *)
Spec == Init /\ [][Next]_vars /\ WF_vars(Next)

-----------------------------------------------------------------------------
TypeOK ==
    /\ in.cnt \in 0 .. MaxCnt /\ in \in InputsOf(in.cnt)
    /\ pc \in {"start", "walk", "done"}
    /\ np \in 0 .. in.cnt
    /\ pnp \in 0 .. np
    /\ bp \in 0 .. in.cnt
    /\ out \in [Rows(in.cnt) -> Vals \cup {Nil, Unwritten}]
    /\ hasNils \in BOOLEAN
    /\ status \in {"ok", Failed}

(* The result the contract defines (spec 4.5): the row k before (lag) or  *)
(* after (lead) in the same partition, else the default; all nil for     *)
(* k = BUN_NONE.                                                          *)
ExpectedOf(x) ==
    [r \in Rows(x.cnt) |->
        LET q == IF x.op = "lag" THEN r - x.k ELSE r + x.k
        IN  IF x.k = None THEN Nil
            ELSE IF q \in PartRows(x.p, x.hasP, x.cnt, r) THEN x.b[q]
            ELSE x.def]

(* A call may fail exactly when the generic branch appends a row.        *)
AppendsRows(x) == AppendFails /\ x.path = "generic" /\ x.cnt > 0

Contract == INSTANCE AnalyticContract
    WITH input <- in,
         result <- IF pc # "done" THEN Pending
                   ELSE IF status = Failed THEN Failed
                   ELSE [col |-> out, nils |-> hasNils],
         Expected <- ExpectedOf, MayFail <- AppendsRows

(* Every call returns, failing only where a BUNappend may fail, and on     *)
(* success with each row holding the value k rows away in its            *)
(* partition or the default, and a sound has-nils flag: the refinement of *)
(* the contract by the boundary walk, the per-partition macros and the    *)
(* input pointer bp they carry from one partition to the next.            *)
ContractSpec == Contract!Spec

=============================================================================
