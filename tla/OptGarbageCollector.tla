------------------------- MODULE OptGarbageCollector -------------------------
(***************************************************************************)
(* OPTgarbageCollectorImplementation                                       *)
(* (src/monetdb5/optimizer/opt_garbageCollector.c): the MAL optimizer pass *)
(* that copies a MAL block into a fresh instruction array, moves the       *)
(* querylog.define instruction to the front, marks for every BAT variable  *)
(* the instruction that ends its lifespan (eolife, GARBAGECONTROL), and    *)
(* inserts "k := nil" after every block exit that ends the lifespan of a  *)
(* BAT variable k defined in the block.                                    *)
(*                                                                         *)
(* The block is the array mb->stmt of ssize slots; slots 0 .. stop-1 hold  *)
(* the program, instruction 0 is the signature and instruction stop-1 is   *)
(* END.  An instruction is its slot index in the block as it was passed in *)
(* (its identity, what a pointer to it is); kind and args give its         *)
(* relevant content.  A slot past stop holds NULL or an instruction the    *)
(* block owns but no longer runs (freeInstruction is applied to those).    *)
(* The lifespans are computed by setLifespan, outside this repository:     *)
(* Spans gives every lifespan that function may produce.  The variable     *)
(* pushed by pushInt and the types set by setVarUDFtype / setVarFixed are  *)
(* data the properties do not tell apart, and depth is never read.         *)
(***************************************************************************)
EXTENDS Integers, Sequences, FiniteSetsExt

CONSTANTS
    NV,           \* number of variables: vtop, the variables are 1 .. NV
    Bats,         \* the variables of a BAT type (isaBatType)
    Keep,         \* the variables with the keep property
    MaxStop,      \* largest mb->stop enumerated
    Slack,        \* largest ssize - stop enumerated
    GarbageKinds, \* kinds of the owned instructions past stop
    StaleGc,      \* a GARBAGECONTROL bit may be left over from an earlier pass
    Null,         \* a NULL slot
    Unset         \* eolife not yet set

Vars == 1 .. NV
Kinds == {"plain", "define", "barrier", "exit", "return", "end"}

VARIABLES
    in,       \* the block passed in: [stop, ssize, kind, args, slot, inline]
    stmt,     \* the array old (the block's mb->stmt before newMalBlkStmt)
    pc,       \* "start", "prepare", "loop", or "done", "returned", "crashed"
    span,     \* the lifespans from setLifespan: [Vars -> [b, e]]
    i,        \* the main loop's index into old
    new,      \* the new mb->stmt: instructions and inserted nil assignments
    eolife,   \* mb->var[k]->eolife
    gc,       \* the GARBAGECONTROL bit of every instruction
    freed,    \* instructions freeInstruction was applied to
    actions   \* the count of nil assignments, returned plus 1

vars == <<in, stmt, pc, span, i, new, eolife, gc, freed, actions>>

(* Blocks: the signature first, END last, barrier and exit well nested    *)
(* (blockStart / blockExit) in between, and past stop z slots each NULL   *)
(* or an owned instruction.  inline is the varGetProp(..., inlineProp)     *)
(* test of the signature's result; an inlined block returns before any   *)
(* of its content is read, so it is enumerated with the shortest program.*)
Balanced(k) ==
    LET count(t, m) == Cardinality({j \in 1 .. m : k[j] = t})
    IN  /\ \A m \in 1 .. Len(k) : count("barrier", m) >= count("exit", m)
        /\ count("barrier", Len(k)) = count("exit", Len(k))

Block(n, z, mid, a, gk, own, inl) ==
    [stop   |-> n,
     ssize  |-> n + z,
     kind   |-> [s \in 0 .. n + z - 1 |->
                   IF s = 0 THEN "plain" ELSE IF s < n - 1 THEN mid[s]
                   ELSE IF s = n - 1 THEN "end" ELSE gk[s]],
     args   |-> [s \in 0 .. n + z - 1 |-> IF s < n - 1 THEN a[s] ELSE {}],
     slot   |-> [s \in 0 .. n + z - 1 |->
                   IF s < n \/ own[s] THEN s ELSE Null],
     inline |-> inl]

Inputs ==
    UNION {{Block(n, z, mid, a, gk, own, inl) :
              mid \in {k \in [1 .. n - 2 -> Kinds \ {"end"}] : Balanced(k)},
              a \in [0 .. n - 2 -> SUBSET Vars],
              gk \in [n .. n + z - 1 -> GarbageKinds],
              own \in [n .. n + z - 1 -> BOOLEAN],
              inl \in IF n = 2 THEN BOOLEAN ELSE {FALSE}} :
           n \in 2 .. MaxStop, z \in 1 .. Slack}

(* The instructions of the array st at the positions 0 .. stop-1 that     *)
(* mention variable k.                                                    *)
Mentions(st, k) == {s \in 0 .. in.stop - 1 : k \in in.args[st[s]]}

(* setLifespan(mb), which this repository does not contain: what it may   *)
(* return for k on the array st.  A variable never mentioned has the zero *)
(* span of its memset; otherwise the span begins at its first mention and *)
(* ends at its last, or at a later block exit (a variable used inside a   *)
(* block that its last mention does not close).                           *)
SpanChoices(st, k) ==
    LET M == Mentions(st, k)
    IN  IF M = {} THEN {[b |-> 0, e |-> 0]}
        ELSE {[b |-> Min(M), e |-> e] :
                e \in {Max(M)} \cup {s \in Max(M) + 1 .. in.stop - 1 :
                                       in.kind[st[s]] = "exit"}}
Spans(st) ==
    {f \in [Vars -> UNION {SpanChoices(st, k) : k \in Vars}] :
        \A k \in Vars : f[k] \in SpanChoices(st, k)}

Instr(x) == [op |-> "instr", x |-> x]
NilOf(k) == [op |-> "nil", x |-> k]

Init ==
    /\ in \in Inputs
    /\ stmt = in.slot
    /\ pc = "start"
    /\ span = Unset
    /\ i = 0
    /\ new = <<>>
    /\ eolife = [k \in Vars |-> Unset]
    /\ gc \in {[s \in 0 .. in.ssize - 1 |-> s \in S] :
                 S \in {{}} \cup (IF StaleGc THEN {{t} : t \in 0 .. in.ssize - 1} ELSE {})}
    /\ freed = {}
    /\ actions = 0

(* The signature's result has the inline property: return 0.              *)
Inline ==
    /\ pc = "start" /\ in.inline
    /\ pc' = "returned"
    /\ UNCHANGED <<in, stmt, span, i, new, eolife, gc, freed, actions>>

(* for (i = limit; i > 2; i--) reads mb->stmt[limit] first, the slot one  *)
(* past the program: getModuleId of a NULL slot dereferences NULL.        *)
NullRead ==
    /\ pc = "start" /\ ~in.inline
    /\ in.stop >= 3 /\ stmt[in.stop] = Null
    /\ pc' = "crashed"
    /\ UNCHANGED <<in, stmt, span, i, new, eolife, gc, freed, actions>>

(* The highest of the slots 3 .. limit holding querylog.define; the       *)
(* instructions from 1 up to it move up by one and it takes slot 1.       *)
MovedQuery(st) ==
    LET D == {s \in 3 .. in.stop : st[s] # Null /\ in.kind[st[s]] = "define"}
        f == Max(D)
    IN  IF D = {} THEN st
        ELSE [s \in DOMAIN st |-> IF s = 1 THEN st[f]
                                  ELSE IF s \in 2 .. f THEN st[s - 1] ELSE st[s]]

MoveQuery ==
    /\ pc = "start" /\ ~in.inline
    /\ in.stop >= 3 => stmt[in.stop] # Null
    /\ stmt' = MovedQuery(stmt)
    /\ pc' = "prepare"
    /\ UNCHANGED <<in, span, i, new, eolife, gc, freed, actions>>

(* setLifespan returns NULL, or newMalBlkStmt fails: return 0, with the   *)
(* query already moved.                                                   *)
SetupFails ==
    /\ pc = "prepare"
    /\ pc' = "returned"
    /\ UNCHANGED <<in, stmt, span, i, new, eolife, gc, freed, actions>>

(* Variant: the lifespans taken on the block before the query is moved.   *)
SetupBeforeMove ==
    /\ pc = "prepare"
    /\ span' \in Spans(in.slot)
    /\ pc' = "loop"
    /\ UNCHANGED <<in, stmt, i, new, eolife, gc, freed, actions>>

(* span = setLifespan(mb) on the block as moved; the new empty mb->stmt.  *)
Setup ==
    /\ pc = "prepare"
    /\ span' \in Spans(stmt)
    /\ pc' = "loop"
    /\ UNCHANGED <<in, stmt, i, new, eolife, gc, freed, actions>>

(* One pass of for (i = 0; i < limit; i++) over p = old[i], after         *)
(* p->gc &= ~GARBAGECONTROL and p->pc = i.  A RETURN barrier is pushed    *)
(* and skipped.                                                            *)
(* Variant: the RETURN barrier skipped without being pushed.              *)
ReturnStepNoPush ==
    /\ pc = "loop" /\ i < in.stop
    /\ in.kind[stmt[i]] = "return"
    /\ gc' = [gc EXCEPT ![stmt[i]] = FALSE]
    /\ i' = i + 1
    /\ UNCHANGED <<in, stmt, pc, span, new, eolife, freed, actions>>

ReturnStep ==
    /\ pc = "loop" /\ i < in.stop
    /\ in.kind[stmt[i]] = "return"
    /\ new' = Append(new, Instr(stmt[i]))
    /\ gc' = [gc EXCEPT ![stmt[i]] = FALSE]
    /\ i' = i + 1
    /\ UNCHANGED <<in, stmt, pc, span, eolife, freed, actions>>

(* The BAT arguments of p whose lifespan ends at i: eolife = n, the index *)
(* of p in the new block, and GARBAGECONTROL on p.  Variant: eolife one  *)
(* past p.                                                                 *)
EndingArgs(p) == {k \in in.args[p] \cap Bats : span[k].e = i}
EolifeOfNext(n) == n + 1
EolifeOf(n) == n

(* p->gc after the marking loop: cleared at the top of the pass, set when *)
(* some argument's lifespan ends at p.                                     *)
MarkCollect(p, E) == [gc EXCEPT ![p] = (E # {})]

(* At a block exit, the BAT variables begun after the signature, ending   *)
(* at i and not kept, in variable order (for k = 0 .. vlimit-1): each     *)
(* gets "k := nil" with GARBAGECONTROL and eolife at its index.            *)
Collected(p) ==
    IF in.kind[p] = "exit"
    THEN SelectSeq([m \in 1 .. NV |-> m],
                   LAMBDA k : k \in Bats \ Keep /\ span[k].b > 0 /\ span[k].e = i)
    ELSE <<>>

(* pushInstruction(mb, p) followed by the nil assignments C.  Variant:    *)
(* the assignments pushed before p.                                        *)
NilsOf(C) == [m \in 1 .. Len(C) |-> NilOf(C[m])]
PushedNilsFirst(p, C) == new \o NilsOf(C) \o <<Instr(p)>>
Pushed(p, C) == Append(new, Instr(p)) \o NilsOf(C)

(* pushInstruction(mb, p), the marking loop over p's arguments, and the   *)
(* nil assignments of a block exit.                                        *)
InstrStep ==
    /\ pc = "loop" /\ i < in.stop
    /\ in.kind[stmt[i]] \notin {"return", "end"}
    /\ LET p  == stmt[i]
           n  == Len(new)
           E  == EndingArgs(p)
           C  == Collected(p)
       IN  /\ new' = Pushed(p, C)
           /\ eolife' = [k \in Vars |->
                           IF \E m \in 1 .. Len(C) : C[m] = k
                           THEN n + CHOOSE m \in 1 .. Len(C) : C[m] = k
                           ELSE IF k \in E THEN EolifeOf(n) ELSE eolife[k]]
           /\ gc' = MarkCollect(p, E)
           /\ actions' = actions + Len(C)
    /\ i' = i + 1
    /\ UNCHANGED <<in, stmt, pc, span, freed>>

(* After the loop: the first slot freeInstruction is applied to, given    *)
(* the index e the loop stopped at (for (i++; i < limit; i++) ends at     *)
(* max(e + 1, limit)).  Variant: from e itself.                           *)
FreeFromLoopEnd(e) == e
FreeFrom(e) == Max({e + 1, in.stop})

(* Leaving the loop, by END's break or by i reaching limit (when END has  *)
(* been pushed out of 0 .. limit-1), runs the code after it on p, the     *)
(* last instruction the loop read: END's gc bit cleared, the pushes, the  *)
(* frees and GARBAGECONTROL on the new first instruction.                 *)
(* assert(p->token == ENDsymbol) is compiled out (NDEBUG).                 *)
LoopEnd ==
    /\ pc = "loop"
    /\ i = in.stop \/ in.kind[stmt[i]] = "end"
    /\ LET p == IF i < in.stop THEN stmt[i] ELSE stmt[i - 1]
       IN  /\ new' = Append(new, Instr(p)) \o
                       [m \in 1 .. in.stop - 1 - i |-> Instr(stmt[i + m])]
           /\ freed' = {stmt[s] : s \in {t \in FreeFrom(i) .. in.ssize - 1 :
                                          stmt[t] # Null}}
           /\ gc' = [[gc EXCEPT ![p] = IF i < in.stop THEN FALSE ELSE @]
                       EXCEPT ![new'[1].x] = TRUE]
    /\ pc' = "done"
    /\ UNCHANGED <<in, stmt, span, i, eolife, actions>>

Terminated ==
    /\ pc \in {"done", "returned", "crashed"}
    /\ UNCHANGED vars

Next ==
    \/ Inline \/ NullRead \/ MoveQuery \/ SetupFails \/ Setup
    \/ ReturnStep \/ InstrStep \/ LoopEnd
    \/ Terminated

(* The optimizer runs on the calling thread to completion: weak fairness. *)
Spec == Init /\ [][Next]_vars /\ WF_vars(Next)

-----------------------------------------------------------------------------
Entries == [op: {"instr"}, x: Nat] \cup [op: {"nil"}, x: Vars]

TypeOK ==
    /\ in \in Inputs
    /\ pc \in {"start", "prepare", "loop", "done", "returned", "crashed"}
    /\ stmt \in [0 .. in.ssize - 1 -> (0 .. in.ssize - 1) \cup {Null}]
    /\ span \in [Vars -> [b: 0 .. MaxStop, e: 0 .. MaxStop]] \cup {Unset}
    /\ i \in 0 .. in.stop
    /\ new \in Seq(Entries)
    /\ eolife \in [Vars -> (0 .. Len(new) - 1) \cup {Unset}]
    /\ gc \in [0 .. in.ssize - 1 -> BOOLEAN]
    /\ freed \subseteq 0 .. in.ssize - 1
    /\ actions \in 0 .. Len(new)

(* An entry of the new block refers to k: an instruction with k among its *)
(* arguments, or the assignment "k := nil".                                *)
Refers(en, k) == IF en.op = "instr" THEN k \in in.args[en.x] ELSE en.x = k

(* The instructions of a new block, in order, without the nil assignments.*)
InstrsOf(sq) ==
    LET I == SelectSeq(sq, LAMBDA en : en.op = "instr")
    IN  [m \in 1 .. Len(I) |-> I[m].x]

(* The block the pass should produce: the program's instructions, each    *)
(* once and in order, except that the last querylog.define past position  *)
(* 2 comes right after the signature ("move SQL query to front").          *)
QueryFirst(x) ==
    LET P == [m \in 1 .. x.stop |-> m - 1]
        D == {s \in 3 .. x.stop - 1 : x.kind[s] = "define"}
        f == Max(D)
    IN  IF D = {} THEN P
        ELSE <<0, f>> \o [m \in 1 .. f - 1 |-> m] \o [m \in 1 .. x.stop - 1 - f |-> f + m]

(* The rewritten block holds every instruction of the block passed in,    *)
(* once, in order, END last, with the query definition moved to the front:*)
(* about the search and shift for querylog.define, the RETURN branch that  *)
(* skips the marking, the break at END and the copying of what follows.   *)
PlanPreserved ==
    pc = "done" => InstrsOf(new) = QueryFirst(in)

(* No instruction after an inserted "k := nil" uses k: the BAT is never    *)
(* read after the pass has released it.  About the lifespans being taken  *)
(* on the block after the query was moved, and the nil assignments of a   *)
(* block exit placed after the exit.                                      *)
NilAfterLastUse ==
    pc = "done" =>
        \A q \in 1 .. Len(new) : new[q].op = "nil" =>
            \A r \in q + 1 .. Len(new) : ~Refers(new[r], new[q].x)

(* Every BAT variable the pass schedules for collection has its eolife at *)
(* the last entry of the new block that refers to it, and that entry       *)
(* carries GARBAGECONTROL, so the interpreter frees it there and not      *)
(* before: about n = mb->stop - 1 taken after the push, the eolife of a    *)
(* nil assignment, and the gc bits cleared and set per instruction.       *)
CollectedAtLastUse ==
    pc = "done" =>
        \A k \in Bats : eolife[k] # Unset =>
            LET q == eolife[k] + 1
            IN  /\ Refers(new[q], k)
                /\ \A r \in q + 1 .. Len(new) : ~Refers(new[r], k)
                /\ new[q].op = "nil" \/ gc[new[q].x]

(* freeInstruction is never applied to an instruction of the new block:   *)
(* about the slots the final loop frees, from where the copy loops ended  *)
(* to slimit.                                                              *)
NoFreedInPlan ==
    pc = "done" => \A m \in 1 .. Len(new) : new[m].op = "instr" => new[m].x \notin freed

(* The pass returns: 0 for a block it leaves alone, or the rewritten     *)
(* block, holding the program with the query moved first and END last    *)
(* (the comment "move SQL query to front" and assert(p->token ==         *)
(* ENDsymbol)).  About the search for querylog.define starting at         *)
(* mb->stmt[limit], the slot one past the program.                        *)
PassReturnsPlan ==
    <>(pc = "returned" \/ (pc = "done" /\ InstrsOf(new) = QueryFirst(in)))

=============================================================================
