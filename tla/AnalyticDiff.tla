----------------------------- MODULE AnalyticDiff -----------------------------
(***************************************************************************)
(* GDKanalyticaldiff (src/gdk/gdk_analytic.c): the change-detection column *)
(* that marks, for the columns of a PARTITION BY or ORDER BY list, the     *)
(* rows where a new group starts.  The caller calls it once per column,    *)
(* passing the previous call's result as the carry c; the final result is  *)
(* the boundary column p the other analytic functions consume.             *)
(*                                                                         *)
(* One step of the model is one call: ANALYTICAL_DIFF_IMP for the fixed-   *)
(* width types or the default branch's loop for the others, which compare  *)
(* each value with prev, the last value that differed, and start from      *)
(* *rp when there is a carry and from FALSE when there is none.            *)
(***************************************************************************)
EXTENDS AnalyticCommon, Sequences

CONSTANTS
    Vals,     \* non-nil values of the columns
    Calls,    \* number of chained calls (columns of the key list)
    None      \* no carry: c == NULL

VARIABLES
    cnt,      \* BATcount of the columns
    done,     \* the columns diffed so far, in call order
    carry     \* the last call's result r, None before the first call

vars == <<cnt, done, carry>>

(* The loop for (; bp<end; bp++, rb++ [, rp++]) from row i with prev: the  *)
(* row starts from the carry's row, or FALSE, and is TRUE when its value   *)
(* differs from prev, which then moves to it.                              *)
RECURSIVE DiffLoop(_, _, _, _)
DiffLoop(b, c, i, prev) ==
    IF i >= cnt THEN <<>>
    ELSE LET changed == b[i] # prev
             rb      == IF c = None THEN FALSE ELSE c[i]
         IN  <<rb \/ changed>> \o
                DiffLoop(b, c, i + 1, IF changed THEN b[i] ELSE prev)

(* Variants: the loop for rp == NULL taken also with a carry; the loop    *)
(* running one row past the end.                                           *)
DiffImpNoCarry(b, c) ==
    LET s == DiffLoop(b, None, 0, IF cnt > 0 THEN b[0] ELSE Nil)
    IN  [i \in Rows(cnt) |-> s[i + 1]]
DiffImpPastEnd(b, c) ==
    LET s == DiffLoop(b, c, 0, IF cnt > 0 THEN b[0] ELSE Nil)
    IN  [i \in 0 .. cnt |-> IF i < cnt THEN s[i + 1] ELSE TRUE]

(* GDKanalyticaldiff(r, b, c, tpe): prev starts at b[0].                    *)
DiffImp(b, c) ==
    LET s == DiffLoop(b, c, 0, IF cnt > 0 THEN b[0] ELSE Nil)
    IN  [i \in Rows(cnt) |-> s[i + 1]]

Init ==
    /\ cnt \in 0 .. MaxCnt
    /\ done = <<>>
    /\ carry = None

(* One call on a column b of the key list, with the previous result as    *)
(* its carry.                                                              *)
Diff ==
    /\ Len(done) < Calls
    /\ \E b \in [Rows(cnt) -> Vals \cup {Nil}] :
          /\ carry' = DiffImp(b, carry)
          /\ done' = Append(done, b)
    /\ UNCHANGED cnt

(* The key list is exhausted: the caller uses the result.                  *)
Finished == Len(done) = Calls /\ UNCHANGED vars

Next == Diff \/ Finished

Spec == Init /\ [][Next]_vars

-----------------------------------------------------------------------------
TypeOK ==
    /\ cnt \in 0 .. MaxCnt
    /\ done \in Seq([Rows(cnt) -> Vals \cup {Nil}])
    /\ Len(done) <= Calls
    /\ carry \in [Rows(cnt) -> BOOLEAN] \cup {None}

(* After the calls for a key list, row i is marked exactly when some key   *)
(* column's value at i differs from its value at i - 1, and row 0 is never *)
(* marked (spec 4.2 and 8): the result delimits the groups of equal keys,  *)
(* so that a boundary column built this way never makes an empty first     *)
(* partition.  About prev, which moves only on a change, and the carry     *)
(* each call folds in.                                                     *)
DiffMarksGroupStarts ==
    carry # None =>
        \A i \in Rows(cnt) :
            carry[i] = (i > 0 /\ \E k \in 1 .. Len(done) : done[k][i] # done[k][i - 1])

=============================================================================
