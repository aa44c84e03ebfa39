------------------------------ MODULE PfAlgebra ------------------------------
(***************************************************************************)
(* The logical algebra the Pathfinder builtins build their plans from: the *)
(* operator constructors (project, eqjoin, cross, disjunion, difference,   *)
(* intersect, distinct, rownum, count, cast, lit_tbl and the item-level    *)
(* operators PFla_add, PFla_gt, PFla_not, ...) are defined in algebra.c,   *)
(* which is not in this repository.  They are modelled from what a         *)
(* relational operator of that name computes, the way builtins.c's         *)
(* comments use them.                                                      *)
(*                                                                         *)
(* A relation is a bag of tuples: a function from tuples to their number   *)
(* of copies (the standard Bags module).  A tuple is a record whose fields *)
(* are the relation's attributes.  An item is a record [t, v]: its type    *)
(* (the algebra types aat_int, aat_dec, aat_dbl, aat_bln, aat_str,         *)
(* aat_node) and its value.  Numbers are integers; the double NaN is the   *)
(* model value NaN; a string is its rank in codepoint order; a node is its *)
(* rank in document order.                                                 *)
(***************************************************************************)
EXTENDS Integers, FiniteSets, Bags, FiniteSetsExt, TLC

CONSTANTS
    NaN,     \* the double value not-a-number
    NoPart   \* rownum without a partitioning attribute (NULL)

Item(t, v) == [t |-> t, v |-> v]
BlnItem(b) == Item("bln", b)
IntItem(n) == Item("int", n)

AbsVal(n) == IF n < 0 THEN -n ELSE n

(* Integer division and remainder as the back end's C arithmetic computes  *)
(* them: the quotient truncated toward zero, the remainder with the sign   *)
(* of the dividend.                                                        *)
Quot(a, b) == IF (a < 0) = (b < 0) THEN AbsVal(a) \div AbsVal(b)
              ELSE -(AbsVal(a) \div AbsVal(b))
Rem(a, b) == a - b * Quot(a, b)

(* The value order and equality of two items of one type: false < true    *)
(* for booleans; a comparison with NaN is false, as IEEE 754 compares.    *)
ValueGt(x, y) ==
    IF x.t = "bln" THEN x.v /\ ~y.v
    ELSE NaN \notin {x.v, y.v} /\ x.v > y.v
ValueEq(x, y) == NaN \notin {x.v, y.v} /\ x.v = y.v

(* The item-level operators PFla_add, PFla_subtract, PFla_multiply,        *)
(* PFla_divide (on integers), PFla_modulo, PFla_gt, PFla_eq, PFla_not,     *)
(* PFla_or and PFla_and.  NaN propagates through arithmetic.               *)
NanOr(x, y, n) == IF NaN \in {x.v, y.v} THEN Item(x.t, NaN) ELSE Item(x.t, n)
Add(x, y) == NanOr(x, y, x.v + y.v)
Subtract(x, y) == NanOr(x, y, x.v - y.v)
Multiply(x, y) == NanOr(x, y, x.v * y.v)
Divide(x, y) == NanOr(x, y, Quot(x.v, y.v))
Modulo(x, y) == NanOr(x, y, Rem(x.v, y.v))
Gt(x, y) == BlnItem(ValueGt(x, y))
Eq(x, y) == BlnItem(ValueEq(x, y))
Not(x) == BlnItem(~x.v)
Or(x, y) == BlnItem(x.v \/ y.v)
And(x, y) == BlnItem(x.v /\ y.v)

(* The constructor a builtin passes, by name, and the operator it builds.  *)
BinOp(op, x, y) ==
    CASE op = "add" -> Add(x, y)           [] op = "subtract" -> Subtract(x, y)
      [] op = "multiply" -> Multiply(x, y) [] op = "divide" -> Divide(x, y)
      [] op = "modulo" -> Modulo(x, y)     [] op = "gt" -> Gt(x, y)
      [] op = "eq" -> Eq(x, y)             [] op = "or" -> Or(x, y)
      [] op = "and" -> And(x, y)
UnOp(op, x) == CASE op = "not" -> Not(x)

(* cast: an item converted to type ty.  Numbers are integral in the model, *)
(* so a numeric promotion or truncation keeps the value and changes the    *)
(* type; an item already of type ty is left as it is.                      *)
CastItem(x, ty) == IF x.t = ty THEN x ELSE Item(ty, x.v)

Extend(t, a, v) == (a :> v) @@ t

(* lit_tbl with one tuple.                                                 *)
LitTbl(t) == SetToBag({t})

(* project: each tuple's attributes renamed by m (new name |-> old name),  *)
(* the others dropped; copies are kept.                                    *)
Project(q, m) == BagOfAll(LAMBDA t : [a \in DOMAIN m |-> t[m[a]]], q)

(* The tuples of two relations with disjoint schemas, paired: cross all   *)
(* pairs, eqjoin those equal on a1 and a2; copies multiply.               *)
Paired(q1, q2, pairs) ==
    BagOfAll(LAMBDA p : p[1] @@ p[2], [p \in pairs |-> q1[p[1]] * q2[p[2]]])
Cross(q1, q2) == Paired(q1, q2, (DOMAIN q1) \X (DOMAIN q2))
EqJoin(q1, q2, a1, a2) ==
    Paired(q1, q2, {p \in (DOMAIN q1) \X (DOMAIN q2) : p[1][a1] = p[2][a2]})

(* disjunion keeps every copy of both; difference keeps the tuples of q1   *)
(* that q2 does not hold; intersect the tuples both hold; distinct one     *)
(* copy of each tuple.                                                     *)
Disjunion(q1, q2) == q1 (+) q2
Difference(q1, q2) == [t \in DOMAIN q1 \ DOMAIN q2 |-> q1[t]]
Intersect(q1, q2) == [t \in DOMAIN q1 \cap DOMAIN q2 |-> Min({q1[t], q2[t]})]
Distinct(q) == SetToBag(DOMAIN q)

(* OP_res<a1, a2>: each tuple extended by attribute res, op of a1, a2.    *)
Apply2(q, op, res, a1, a2) ==
    BagOfAll(LAMBDA t : Extend(t, res, BinOp(op, t[a1], t[a2])), q)
Apply1(q, op, res, a) == BagOfAll(LAMBDA t : Extend(t, res, UnOp(op, t[a])), q)

Cast(q, a, ty) == BagOfAll(LAMBDA t : [t EXCEPT ![a] = CastItem(t[a], ty)], q)

(* rownum: attribute a numbers the tuples 1, 2, ... within each group of   *)
(* equal part (all tuples one group for NoPart), in the order of attribute *)
(* s.  Every rownum builtins.c builds numbers a distinct relation of iter  *)
(* and item; tuples with equal s (only in different iterations, for        *)
(* NoPart) are numbered in the order of iter, one order the operator may  *)
(* choose.                                                                 *)
RowNum(q, a, s, part) ==
    LET Group(t) == {u \in DOMAIN q : part = NoPart \/ u[part] = t[part]}
        Before(u, t) == u[s].v < t[s].v \/ (u[s] = t[s] /\ u.iter < t.iter)
    IN  BagOfAll(LAMBDA t :
                   Extend(t, a, 1 + Cardinality({u \in Group(t) : Before(u, t)})),
                 q)

(* count_res/part: one tuple per value of part, res its number of tuples, *)
(* an integer item.                                                        *)
Count(q, res, part) ==
    LET N(g) == MapThenSumSet(LAMBDA u : q[u], {u \in DOMAIN q : u[part] = g})
    IN  SetToBag({Extend(part :> g, res, IntItem(N(g))) : g \in {u[part] : u \in DOMAIN q}})

=============================================================================
