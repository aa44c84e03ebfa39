--------------------------- MODULE AnalyticCommon ---------------------------
(***************************************************************************)
(* Definitions shared by the models of src/gdk/gdk_analytic.c.             *)
(*                                                                         *)
(* A BAT column of cnt rows is a function from 0..cnt-1 (the offsets the   *)
(* code reaches with Tloc(b, 0) + k) to values.  The nil sentinel of the   *)
(* column type is the model value Nil.  A partition-boundary column p is a *)
(* function from the same rows to BOOLEAN; "p is absent" (p == NULL) is    *)
(* the flag hasP = FALSE.                                                  *)
(*                                                                         *)
(* The operators on partitions and frames below are the reference reading  *)
(* of the contract (spec sections 3 and 4.1): they are written from what a *)
(* partition and a clipped frame are, not from the walking loop the code   *)
(* uses, so that the walking loop can be checked against them.             *)
(***************************************************************************)
EXTENDS Integers, FiniteSets, FiniteSetsExt, Functions, TLC

CONSTANTS
    Nil,        \* the nil sentinel of the column type
    Unwritten,  \* content of an output slot the call has not written yet
    MaxCnt,     \* largest column the model enumerates
    FirstMarked, \* may the boundary column mark row 0 (TRUE) or not (FALSE)
    Pending,    \* result of a call that has not returned
    Failed      \* result of a call that returned GDK_FAIL

ASSUME MaxCnt \in Nat /\ FirstMarked \in BOOLEAN

Rows(n) == 0 .. n - 1

(* Boundary columns of n rows the model enumerates.  A boundary column    *)
(* built by GDKanalyticaldiff never marks row 0 (AnalyticDiff checks it); *)
(* FirstMarked = TRUE admits the columns the contract also allows.        *)
BoundaryColumns(n) ==
    {c \in [Rows(n) -> BOOLEAN] : FirstMarked \/ n = 0 \/ ~c[0]}

(* Row i starts a partition: row 0 always does, and so does every row the *)
(* boundary column marks.                                                  *)
IsStart(p, hasP, i) == i = 0 \/ (hasP /\ p[i])

(* First row of the partition of row i, and one past its last row.        *)
PartLo(p, hasP, i) == Max({j \in 0 .. i : IsStart(p, hasP, j)})
PartHi(p, hasP, n, i) == Min({j \in i + 1 .. n - 1 : hasP /\ p[j]} \cup {n})

(* The rows of the partition of row i.                                    *)
PartRows(p, hasP, n, i) == PartLo(p, hasP, i) .. PartHi(p, hasP, n, i) - 1

(* The frame (start, end) of row i clipped to its partition: start rows   *)
(* back and end rows ahead (spec section 3, "Frame extent").              *)
FrameRows(p, hasP, n, i, start, end) ==
    {j \in PartRows(p, hasP, n, i) : i - start <= j /\ j <= i + end}

(* The rows of a set whose value is not nil.                              *)
LiveRows(col, S) == {j \in S : col[j] # Nil}

(* Read of slot k of a column the code addresses by pointer: a slot       *)
(* outside the column is memory the column does not own, whose content is *)
(* the nondeterministic junk value fixed for the run.                     *)
Slot(col, k, junk) == IF k \in DOMAIN col THEN col[k] ELSE junk

(* The column holds a nil.                                                *)
HasNil(col) == \E r \in DOMAIN col : col[r] = Nil

=============================================================================
