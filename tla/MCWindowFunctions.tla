-------------------------- MODULE MCWindowFunctions --------------------------
(***************************************************************************)
(* One call of a window function that SQL's window operator dispatches to  *)
(* a GDKanalytical* kernel: GDKanalyticalcount, GDKanalyticalmin/max,      *)
(* GDKanalyticalfirst/last/nthvalue or GDKanalyticallag/lead.  The four    *)
(* calls walk the column in the same state (the input, the boundary loop's *)
(* row np and partition start pnp, the output, has_nils and gdk_res), so   *)
(* one state space holds all four: fn, fixed by the caller, says which     *)
(* call runs.  first_value's curval and lag/lead's input pointer bp are    *)
(* kept by their own calls and stay 0 in the others.  The generic         *)
(* branches of min/max, first/last/nth and lag/lead append through         *)
(* BUNappend, and their gdk_res (status) can become GDK_FAIL; count writes *)
(* its fixed-width output in place and always succeeds.                    *)
(*                                                                         *)
(* All four promise the same thing, AnalyticContract, with the expected    *)
(* column of the function called: one instance of the contract, whose      *)
(* input names the function, is refined by every call.                     *)
(***************************************************************************)
EXTENDS AnalyticCommon

CONSTANTS
    Vals,          \* non-nil values of the column
    None,          \* nth, k == BUN_NONE (first/last/nth value, lag/lead)
    Starts, Ends,               \* frames of count
    MinMaxOps, MinMaxStarts, MinMaxEnds, \* ops and frames of min/max
    ValueOps, NthVals,          \* ops and nth of first/last/nth
    LagLeadOps, FixedOps, KVals, \* ops, fixed-path ops and k of lag/lead
    Paths,                      \* paths of min/max, first/last/nth, lag/lead
    AppendFails                 \* their generic BUNappend may fail

VARIABLES fn, in, pc, np, pnp, curval, bp, out, hasNils, status

vars == <<fn, in, pc, np, pnp, curval, bp, out, hasNils, status>>

C == INSTANCE AnalyticCount
M == INSTANCE AnalyticMinMax
V == INSTANCE AnalyticValue
L == INSTANCE AnalyticLagLead WITH Ops <- LagLeadOps

Fns == {"count", "minmax", "value", "laglead"}

Init ==
    \/ fn = "count" /\ C!Init /\ bp = 0 /\ status = "ok"
    \/ fn = "minmax" /\ M!Init /\ curval = 0 /\ bp = 0
    \/ fn = "value" /\ V!Init /\ bp = 0
    \/ fn = "laglead" /\ L!Init /\ curval = 0

(* A step of the call fn names.                                            *)
CountStep(A) == fn = "count" /\ A /\ UNCHANGED <<fn, bp, status>>
MinMaxStep(A) == fn = "minmax" /\ A /\ UNCHANGED <<fn, curval, bp>>
ValueStep(A) == fn = "value" /\ A /\ UNCHANGED <<fn, bp>>
LagLeadStep(A) == fn = "laglead" /\ A /\ UNCHANGED <<fn, curval>>

Next ==
    \/ CountStep(C!WholeColumn) \/ CountStep(C!StartWalk)
    \/ CountStep(C!SkipRow) \/ CountStep(C!PartitionEnd)
    \/ CountStep(C!LastPartition) \/ CountStep(C!Terminated)
    \/ MinMaxStep(M!CopyInput) \/ MinMaxStep(M!WholeColumn)
    \/ MinMaxStep(M!StartWalk) \/ MinMaxStep(M!SkipRow)
    \/ MinMaxStep(M!PartitionEnd) \/ MinMaxStep(M!LastPartition)
    \/ MinMaxStep(M!AppendFailure) \/ MinMaxStep(M!Terminated)
    \/ ValueStep(V!NthNone) \/ ValueStep(V!WholeColumn)
    \/ ValueStep(V!StartWalk) \/ ValueStep(V!SkipRow)
    \/ ValueStep(V!PartitionEnd) \/ ValueStep(V!LastPartition)
    \/ ValueStep(V!AppendFailure) \/ ValueStep(V!Terminated)
    \/ LagLeadStep(L!NoOffset) \/ LagLeadStep(L!WholeColumn)
    \/ LagLeadStep(L!StartWalk) \/ LagLeadStep(L!SkipRow)
    \/ LagLeadStep(L!PartitionEnd) \/ LagLeadStep(L!LastPartition)
    \/ LagLeadStep(L!AppendFailure) \/ LagLeadStep(L!Terminated)

(* A call runs to completion on the calling thread: weak fairness.         *)
Spec == Init /\ [][Next]_vars /\ WF_vars(Next)

-----------------------------------------------------------------------------
TypeOK ==
    /\ fn \in Fns
    /\ fn = "count" =>  C!TypeOK /\ bp = 0 /\ status = "ok"
    /\ fn = "minmax" =>  M!TypeOK /\ curval = 0 /\ bp = 0
    /\ fn = "value" =>  V!TypeOK /\ bp = 0
    /\ fn = "laglead" => L!TypeOK /\ curval = 0

(* The column the called function defines for its input.                  *)
ExpectedOf(y) ==
    CASE y.fn = "count"  -> C!ExpectedOf(y.x)
      [] y.fn = "minmax" -> M!ExpectedOf(y.x)
      [] y.fn = "value"  -> V!ExpectedOf(y.x)
      [] y.fn = "laglead" -> L!ExpectedOf(y.x)

(* min/max, first/last/nth value and lag/lead may fail where their       *)
(* generic branches append; count never fails.                            *)
MayFailOf(y) ==
    \/ y.fn = "minmax" /\ M!AppendsRows(y.x)
    \/ y.fn = "value" /\ V!AppendsRows(y.x)
    \/ y.fn = "laglead" /\ L!AppendsRows(y.x)

Contract == INSTANCE AnalyticContract
    WITH input <- [fn |-> fn, x |-> in],
         result <- IF pc # "done" THEN Pending
                   ELSE IF status = Failed THEN Failed
                   ELSE [col |-> out, nils |-> hasNils],
         Expected <- ExpectedOf, MayFail <- MayFailOf

(* Every call of count, min/max, first/last/nth value and lag/lead returns *)
(* once, failing only where a generic BUNappend may fail, and otherwise    *)
(* with each row holding the value its function defines for the row's     *)
(* partition or clipped frame and a sound has-nils flag: the boundary      *)
(* walks, the frame clipping of count and min/max, the running counts,     *)
(* first_value's curval and lag/lead's input pointer bp carried across     *)
(* partitions.                                                             *)
ContractSpec == Contract!ReturningSpec

(* min/max: a has_nils claim for a result without a nil comes only from    *)
(* an empty partition's frame (the kernels set has_nils per nil written,   *)
(* and the copy shortcut passes the input's nils through).                 *)
SpuriousNilsOnlyFromEmptyPartition ==
    fn = "minmax" => M!SpuriousNilsOnlyFromEmptyPartition

=============================================================================
