---------------------------- MODULE MCPfBuiltins ----------------------------
(* The builtins checked, as records [name, t] (a .cfg cannot write them).  *)
EXTENDS PfBuiltins

(* A negative dividend, zero and a positive value; -3 by 2 and 2 by -3  *)
(* divide with a remainder.                                                *)
MCNums == {-3, 0, 2}

F(name, t) == [name |-> name, t |-> t]

(* Every builtin the module models on every implementation type the       *)
(* compiler dispatches it on, except ge and le on doubles (MCFnsNaN);      *)
(* fn:boolean of item* on node sequences, where it agrees with the effective *)
(* boolean value.                                                          *)
MCFns ==
    {F(n, t) : n \in {"add", "subtract", "multiply", "modulo"}, t \in {"int", "dec", "dbl"}}
    \cup {F("idivide", "int")}
    \cup {F(n, t) : n \in {"gt", "lt", "eq", "ne"}, t \in {"int", "dec", "dbl", "bln", "str"}}
    \cup {F(n, t) : n \in {"ge", "le"}, t \in {"int", "dec", "bln", "str"}}
    \cup {F(n, "bln") : n \in {"not", "or", "and", "boolean_bln", "boolean_optbln"}}
    \cup {F(n, "node") : n \in NodeCmpNames \cup SetOpNames \cup {"distinct_doc_order", "boolean_item"}}
    \cup {F(n, "item") : n \in {"empty", "count"}}

(* op:ge and op:le on doubles, whose arguments may be NaN.                 *)
MCFnsNaN == {F("ge", "dbl"), F("le", "dbl")}

=============================================================================
