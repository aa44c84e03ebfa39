----------------------------- MODULE PfBuiltins -----------------------------
(***************************************************************************)
(* The algebra translations of XQuery built-in functions in Pathfinder's   *)
(* compiler/algebra/builtins.c.  The compiler translates a call of a       *)
(* builtin inside a for-loop by handing the builtin the loop relation (one *)
(* tuple per iteration, attribute iter) and, per argument, a pair of a     *)
(* relation of iter|pos|item (the argument's sequence in each iteration,   *)
(* its items ordered by pos) and the set of document fragments its nodes   *)
(* live in.  The builtin returns a pair of the same shape: the plan of its *)
(* result and the result's fragments.                                     *)
(*                                                                         *)
(* The module models each PFbui_* function as the plan it builds, with the *)
(* algebra operators of PfAlgebra, and one call as a step: a call is       *)
(* chosen, the plan is built and evaluated.  What the plan computes is     *)
(* then compared, iteration by iteration, with the XQuery function the     *)
(* builtin implements.                                                     *)
(***************************************************************************)
EXTENDS PfAlgebra, Sequences, SequencesExt

CONSTANTS
    Iters,   \* iteration numbers of the loop relation
    Nums,    \* integral values of the numeric arguments
    Nodes,   \* nodes, by rank in document order; node n lives in fragment n
    Fns      \* the builtins called: records [name, t], t the implementation type

VARIABLES call, pc, res

vars == <<call, pc, res>>

(* A builtin argument or result: the relation and its fragments.           *)
Pair(rel, frag) == [rel |-> rel, frag |-> frag]

IterPosItem == [iter |-> "iter", pos |-> "pos", item |-> "res"]
IterItem == [iter |-> "iter", item |-> "item"]
IterOnly == [iter |-> "iter"]

(* bin_arith: both arguments cast to t, joined on iter, OP applied to the  *)
(* two items of an iteration; an iteration where an argument is empty has  *)
(* no join partner and so yields the empty sequence.                      *)
BinArith(t, OP, args) ==
    Pair(Project(Apply2(EqJoin(Cast(args[1].rel, "item", t),
                               Project(Cast(args[2].rel, "item", t),
                                       [iter1 |-> "iter", item1 |-> "item"]),
                               "iter", "iter1"),
                        OP, "res", "item", "item1"),
                 IterPosItem),
         {})

(* un_func: the argument cast to t, OP applied to each item.               *)
UnFunc(t, OP, args) ==
    Pair(Project(Apply1(Cast(args[1].rel, "item", t), OP, "res", "item"),
                 IterPosItem),
         {})

Swap(args) == <<args[2], args[1]>>

(* op:numeric-add/subtract/multiply/mod on integer, decimal and double,     *)
(* op:numeric-integer-divide on integers.                                  *)
NumericAdd(t, args) == BinArith(t, "add", args)
NumericSubtract(t, args) == BinArith(t, "subtract", args)
NumericMultiply(t, args) == BinArith(t, "multiply", args)
NumericIdivide(args) ==
    Pair(Cast(BinArith("int", "divide", args).rel, "item", "int"), {})
NumericModulo(t, args) == BinArith(t, "modulo", args)

(* The value comparisons: ge is not(b > a), lt is b > a, le is not(a > b), *)
(* ne is not(a = b).                                                        *)
OpGt(t, args) == BinArith(t, "gt", args)
OpGe(t, args) == UnFunc("bln", "not", <<BinArith(t, "gt", Swap(args))>>)
OpLt(t, args) == BinArith(t, "gt", Swap(args))
OpLe(t, args) == UnFunc("bln", "not", <<BinArith(t, "gt", args)>>)
OpEq(t, args) == BinArith(t, "eq", args)
OpNe(t, args) == UnFunc("bln", "not", <<BinArith(t, "eq", args)>>)

FnNot(args) == UnFunc("bln", "not", args)
OpOr(args) == BinArith("bln", "or", args)
OpAnd(args) == BinArith("bln", "and", args)
FnBooleanBln(args) == args[1]

OpIsSameNode(args) == BinArith("node", "eq", args)
OpNodeBefore(args) == BinArith("node", "gt", Swap(args))
OpNodeAfter(args) == BinArith("node", "gt", args)

(* The node-set operations: the iter|item tuples combined, duplicates     *)
(* removed, numbered by document order over all iterations (no iter       *)
(* partition).                                                             *)
(* Variant: the union's fragments only those of its first argument.       *)
OpUnionFirstFrag(args) ==
    Pair(RowNum(Distinct(Disjunion(Project(args[1].rel, IterItem),
                                   Project(args[2].rel, IterItem))),
                "pos", "item", NoPart),
         args[1].frag)

OpUnion(args) ==
    Pair(RowNum(Distinct(Disjunion(Project(args[1].rel, IterItem),
                                   Project(args[2].rel, IterItem))),
                "pos", "item", NoPart),
         args[1].frag \cup args[2].frag)
OpIntersect(args) ==
    Pair(RowNum(Distinct(Intersect(Project(args[1].rel, IterItem),
                                   Project(args[2].rel, IterItem))),
                "pos", "item", NoPart),
         args[1].frag \cup args[2].frag)
OpExcept(args) ==
    Pair(RowNum(Distinct(Difference(Project(args[1].rel, IterItem),
                                    Project(args[2].rel, IterItem))),
                "pos", "item", NoPart),
         args[1].frag)

DistinctDocOrder(args) ==
    Pair(RowNum(Distinct(Project(args[1].rel, IterItem)), "pos", "item", "iter"),
         args[1].frag)

(* fn:boolean(boolean?): the argument, and false for every iteration of   *)
(* the loop that the argument leaves empty.                                *)
FnBooleanOptbln(loop, args) ==
    Pair(Disjunion(args[1].rel,
                   Cross(Difference(loop,
                                    Project(EqJoin(args[1].rel,
                                                   Project(loop, [iter1 |-> "iter"]),
                                                   "iter", "iter1"),
                                            IterOnly)),
                         LitTbl([pos |-> 1, item |-> BlnItem(FALSE)]))),
         {})

(* fn:boolean and fn:empty of item* : one boolean per iteration, by   *)
(* whether the argument holds a tuple of the iteration.                    *)
(* Variant: the result's position literal 0 where XQuery counts from 1.  *)
EmptinessTestPosZero(loop, args, nonEmpty, empty) ==
    Cross(Disjunion(Cross(Distinct(Project(args[1].rel, IterOnly)),
                          LitTbl([item |-> BlnItem(nonEmpty)])),
                    Cross(Difference(loop, Project(args[1].rel, IterOnly)),
                          LitTbl([item |-> BlnItem(empty)]))),
          LitTbl([pos |-> 0]))

EmptinessTest(loop, args, nonEmpty, empty) ==
    Cross(Disjunion(Cross(Distinct(Project(args[1].rel, IterOnly)),
                          LitTbl([item |-> BlnItem(nonEmpty)])),
                    Cross(Difference(loop, Project(args[1].rel, IterOnly)),
                          LitTbl([item |-> BlnItem(empty)]))),
          LitTbl([pos |-> 1]))
FnBooleanItem(loop, args) == Pair(EmptinessTest(loop, args, TRUE, FALSE), {})
FnEmpty(loop, args) == Pair(EmptinessTest(loop, args, FALSE, TRUE), {})

(* fn:count: count per iteration, and 0 for the iterations of the loop    *)
(* that the argument leaves empty.                                          *)
(* Variant: no count for the iterations the argument leaves empty.        *)
FnCountNoEmpty(loop, args) ==
    Pair(Cross(Count(Project(args[1].rel, IterOnly), "item", "iter"),
               LitTbl([pos |-> 1])),
         {})

FnCount(loop, args) ==
    Pair(Cross(Disjunion(Count(Project(args[1].rel, IterOnly), "item", "iter"),
                         Cross(Difference(loop, Project(args[1].rel, IterOnly)),
                               LitTbl([item |-> IntItem(0)]))),
               LitTbl([pos |-> 1])),
         {})

-----------------------------------------------------------------------------
(* The dispatch of a call to its PFbui_* function (the alg field of the    *)
(* builtin's PFfun_t entry in functions.c, not in this repository).        *)
ArithNames == {"add", "subtract", "multiply", "idivide", "modulo"}
CmpNames == {"gt", "ge", "lt", "le", "eq", "ne"}
NodeCmpNames == {"is_same_node", "node_before", "node_after"}
SetOpNames == {"union", "intersect", "except"}

Plan(f, loop, args) ==
    CASE f.name = "add"       -> NumericAdd(f.t, args)
      [] f.name = "subtract"  -> NumericSubtract(f.t, args)
      [] f.name = "multiply"  -> NumericMultiply(f.t, args)
      [] f.name = "idivide"   -> NumericIdivide(args)
      [] f.name = "modulo"    -> NumericModulo(f.t, args)
      [] f.name = "gt" -> OpGt(f.t, args)   [] f.name = "ge" -> OpGe(f.t, args)
      [] f.name = "lt" -> OpLt(f.t, args)   [] f.name = "le" -> OpLe(f.t, args)
      [] f.name = "eq" -> OpEq(f.t, args)   [] f.name = "ne" -> OpNe(f.t, args)
      [] f.name = "not"          -> FnNot(args)
      [] f.name = "or"           -> OpOr(args)
      [] f.name = "and"          -> OpAnd(args)
      [] f.name = "boolean_bln"  -> FnBooleanBln(args)
      [] f.name = "is_same_node" -> OpIsSameNode(args)
      [] f.name = "node_before"  -> OpNodeBefore(args)
      [] f.name = "node_after"   -> OpNodeAfter(args)
      [] f.name = "union"        -> OpUnion(args)
      [] f.name = "intersect"    -> OpIntersect(args)
      [] f.name = "except"       -> OpExcept(args)
      [] f.name = "distinct_doc_order" -> DistinctDocOrder(args)
      [] f.name = "boolean_optbln" -> FnBooleanOptbln(loop, args)
      [] f.name = "boolean_item"   -> FnBooleanItem(loop, args)
      [] f.name = "empty"          -> FnEmpty(loop, args)
      [] f.name = "count"          -> FnCount(loop, args)

(* The signature the type checker gives each builtin (functions.c): per    *)
(* argument the item type and the occurrence, one, ? (opt) or * (star);    *)
(* nz: the divisor of idiv and mod, which the model keeps non-zero.        *)
Kind(t, card, nz) == [t |-> t, card |-> card, nz |-> nz]
Sig(f) ==
    CASE f.name \in {"idivide", "modulo"} ->
             <<Kind(f.t, "opt", FALSE), Kind(f.t, "opt", TRUE)>>
      [] f.name \in ArithNames \cup CmpNames ->
             <<Kind(f.t, "opt", FALSE), Kind(f.t, "opt", FALSE)>>
      [] f.name \in NodeCmpNames ->
             <<Kind("node", "opt", FALSE), Kind("node", "opt", FALSE)>>
      [] f.name \in {"or", "and"} ->
             <<Kind("bln", "one", FALSE), Kind("bln", "one", FALSE)>>
      [] f.name \in {"not", "boolean_bln"} -> <<Kind("bln", "one", FALSE)>>
      [] f.name = "boolean_optbln" -> <<Kind("bln", "opt", FALSE)>>
      [] f.name \in SetOpNames ->
             <<Kind("node", "star", FALSE), Kind("node", "star", FALSE)>>
      [] f.name = "distinct_doc_order" -> <<Kind("node", "star", FALSE)>>
      [] f.name \in {"boolean_item", "empty", "count"} ->
             <<Kind(f.t, "star", FALSE)>>

(* The values of an argument of kind k; "item" mixes nodes and integers.  *)
Vals(k) ==
    LET nums == IF k.nz THEN Nums \ {0} ELSE Nums
    IN  CASE k.t \in {"int", "dec"} -> {Item(k.t, n) : n \in nums}
          [] k.t = "dbl"  -> {Item("dbl", n) : n \in nums \cup {NaN}}
          [] k.t = "bln"  -> {BlnItem(b) : b \in BOOLEAN}
          [] k.t = "str"  -> {Item("str", n) : n \in 1 .. 2}
          [] k.t = "node" -> {Item("node", n) : n \in Nodes}
          [] k.t = "item" -> {Item("node", n) : n \in Nodes} \cup {IntItem(0)}
(* The sequences an argument of kind k holds in one iteration.             *)
Seqs(k) ==
    LET one == {<<x>> : x \in Vals(k)}
    IN  CASE k.card = "one"  -> one
          [] k.card = "opt"  -> {<<>>} \cup one
          [] k.card = "star" -> {<<>>} \cup one \cup (Vals(k) \X Vals(k))

(* A call: the builtin, the iterations of its loop and, per argument, the  *)
(* sequence it holds in each iteration.                                    *)
ArgsOf(f, L) ==
    LET sig == Sig(f)
    IN  IF Len(sig) = 1 THEN {<<s>> : s \in [L -> Seqs(sig[1])]}
        ELSE {<<s1, s2>> : s1 \in [L -> Seqs(sig[1])], s2 \in [L -> Seqs(sig[2])]}
Calls ==
    UNION {{[fn |-> f, loop |-> L, args |-> a] : a \in ArgsOf(f, L)} :
             f \in Fns, L \in SUBSET Iters}

(* The loop relation and an argument in the iter|pos|item encoding, with  *)
(* the fragments of the argument's nodes.                                  *)
LoopRel(L) == SetToBag({[iter |-> i] : i \in L})
Rows(s) == UNION {{[iter |-> i, pos |-> p, item |-> s[i][p]] : p \in DOMAIN s[i]} :
                    i \in DOMAIN s}
Encode(s) ==
    Pair(SetToBag(Rows(s)), {r.item.v : r \in {r \in Rows(s) : r.item.t = "node"}})

-----------------------------------------------------------------------------
Init ==
    /\ call \in Calls
    /\ pc = "call"
    /\ res = Pair(EmptyBag, {})

(* The compiler calls the builtin's translation and evaluates the plan.    *)
Translate ==
    /\ pc = "call"
    /\ res' = Plan(call.fn, LoopRel(call.loop), [k \in DOMAIN call.args |-> Encode(call.args[k])])
    /\ pc' = "returned"
    /\ UNCHANGED call

Returned == pc = "returned" /\ UNCHANGED vars

Next == Translate \/ Returned

Spec == Init /\ [][Next]_vars

-----------------------------------------------------------------------------
(* The XQuery 1.0 functions and operators the builtins implement, on the   *)
(* sequences of one iteration.                                             *)

(* op:numeric-mod: the remainder r with the sign of the dividend and      *)
(* |r| < |b| such that b divides a - r; op:numeric-integer-divide: the    *)
(* exact quotient of a - r (both on a non-zero divisor).                   *)
XqMod(a, b) ==
    CHOOSE r \in -(AbsVal(b) - 1) .. (AbsVal(b) - 1) :
        /\ r * a >= 0
        /\ \E k \in -AbsVal(a) .. AbsVal(a) : a - r = k * b
XqIdiv(a, b) == CHOOSE k \in -AbsVal(a) .. AbsVal(a) : a - XqMod(a, b) = k * b

XqNumeric(name, x, y) ==
    LET t == x.t
    IN  IF NaN \in {x.v, y.v} THEN Item(t, NaN)
        ELSE CASE name = "add"      -> Item(t, x.v + y.v)
               [] name = "subtract" -> Item(t, x.v - y.v)
               [] name = "multiply" -> Item(t, x.v * y.v)
               [] name = "idivide"  -> IntItem(XqIdiv(x.v, y.v))
               [] name = "modulo"   -> Item(t, XqMod(x.v, y.v))

(* The value comparisons: every comparison with NaN is false but ne.       *)
XqCompare(name, x, y) ==
    CASE name = "gt" -> ValueGt(x, y)
      [] name = "ge" -> ValueGt(x, y) \/ ValueEq(x, y)
      [] name = "lt" -> ValueGt(y, x)
      [] name = "le" -> ValueGt(y, x) \/ ValueEq(x, y)
      [] name = "eq" -> ValueEq(x, y)
      [] name = "ne" -> ~ValueEq(x, y)

XqNodeCompare(name, x, y) ==
    CASE name = "is_same_node" -> x.v = y.v
      [] name = "node_before"  -> x.v < y.v
      [] name = "node_after"   -> x.v > y.v

(* A node set in document order.                                           *)
DocOrder(S) == SetToSortSeq(S, LAMBDA x, y : x.v < y.v)

(* The effective boolean value of a sequence of nodes or of one item.     *)
Ebv(s) ==
    CASE s = <<>> -> FALSE
      [] s[1].t = "node" -> TRUE
      [] s[1].t = "bln" -> s[1].v
      [] OTHER -> s[1].v \notin {0, NaN}

XQuery(f, xs) ==
    LET a == xs[1]
        b == IF Len(xs) = 2 THEN xs[2] ELSE <<>>
    IN  CASE f.name \in ArithNames \cup CmpNames \cup NodeCmpNames ->
                 IF a = <<>> \/ b = <<>> THEN <<>>
                 ELSE <<IF f.name \in ArithNames THEN XqNumeric(f.name, a[1], b[1])
                        ELSE IF f.name \in CmpNames THEN BlnItem(XqCompare(f.name, a[1], b[1]))
                        ELSE BlnItem(XqNodeCompare(f.name, a[1], b[1]))>>
          [] f.name = "not" -> <<BlnItem(~a[1].v)>>
          [] f.name = "or"  -> <<BlnItem(a[1].v \/ b[1].v)>>
          [] f.name = "and" -> <<BlnItem(a[1].v /\ b[1].v)>>
          [] f.name = "boolean_bln" -> a
          [] f.name = "boolean_optbln" -> <<BlnItem(Ebv(a))>>
          [] f.name = "union"     -> DocOrder(ToSet(a) \cup ToSet(b))
          [] f.name = "intersect" -> DocOrder(ToSet(a) \cap ToSet(b))
          [] f.name = "except"    -> DocOrder(ToSet(a) \ ToSet(b))
          [] f.name = "distinct_doc_order" -> DocOrder(ToSet(a))
          [] f.name = "boolean_item" -> <<BlnItem(Ebv(a))>>
          [] f.name = "empty" -> <<BlnItem(a = <<>>)>>
          [] f.name = "count" -> <<IntItem(Len(a))>>

(* The sequence a result relation holds for iteration i, its items in the *)
(* order of pos.                                                           *)
Decode(q, i) ==
    LET rows == SetToSortSeq({r \in DOMAIN q : r.iter = i}, LAMBDA r, u : r.pos < u.pos)
    IN  [k \in DOMAIN rows |-> rows[k].item]

-----------------------------------------------------------------------------
Types == {"int", "dec", "dbl", "bln", "str", "node"}

TypeOK ==
    /\ call \in Calls
    /\ pc \in {"call", "returned"}
    /\ res.frag \subseteq Nodes
    /\ \A r \in DOMAIN res.rel :
          /\ DOMAIN r = {"iter", "pos", "item"}
          /\ r.iter \in Iters /\ r.pos \in Nat \ {0}
          /\ r.item.t \in Types
    /\ \A r \in DOMAIN res.rel : res.rel[r] \in Nat \ {0}

(* A call's plan encodes, in every iteration of the loop, the sequence    *)
(* XQuery defines for the call's arguments: no iteration outside the loop *)
(* and no tuple twice, positions unique within an iteration, and the items *)
(* in the order of pos.  This is about the joins on iter, the loop         *)
(* differences that fill in empty iterations, and rownum numbering the set *)
(* operations' results across all iterations at once.                     *)
XQuerySemantics ==
    pc = "returned" =>
        /\ \A r \in DOMAIN res.rel : res.rel[r] = 1 /\ r.iter \in call.loop
        /\ \A r, u \in DOMAIN res.rel : r # u /\ r.iter = u.iter => r.pos # u.pos
        /\ \A i \in call.loop :
              Decode(res.rel, i) = XQuery(call.fn, [k \in DOMAIN call.args |-> call.args[k][i]])

(* Every node of a result lives in a fragment the result names: the set   *)
(* operations and distinct-doc-order pass on their arguments' fragments.  *)
NodesInFragments ==
    pc = "returned" =>
        \A r \in DOMAIN res.rel : r.item.t = "node" => r.item.v \in res.frag

=============================================================================
