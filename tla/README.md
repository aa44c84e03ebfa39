# TLA+ models of MonetDB's analytic (window) functions, MAL garbage collector and Pathfinder builtins

This directory holds TLC-checkable models of two parts of the repository:
- `src/gdk/gdk_analytic.c`, the GDK kernel behind SQL window functions,
  together with a refinement contract that states what each function
  promises (taken from `spec.md`) and the runs that check the kernels
  against it;
- `src/monetdb5/optimizer/opt_garbageCollector.c`, the MAL optimizer pass
  that schedules the release of BAT variables (module `OptGarbageCollector`,
  described in its own section below);
- `src/pathfinder/compiler/algebra/builtins.c`, the relational-algebra
  translations of XQuery built-in functions in the Pathfinder compiler
  (modules `PfAlgebra`, `PfBuiltins`, `MCPfBuiltins`, their own section
  below).

## The system and how its parts interact

Each window function is one C entry point. The entry point receives:
- an input column `b`;
- an optional boolean boundary column `p`, where TRUE marks the first row of
  a new partition;
- optionally an order column `o`;
- per-function arguments (frame `start`/`end`, offsets, tile counts);
- a result BAT `r`.

Each entry point switches on the value type and runs a type-specialised macro,
or for the other types a generic macro using `BUNtail`/`BUNappend`. The
macros share one control shape, the boundary walk:

```
if (p) { for (; np < end; np++) if (*np) { KERNEL(pnp .. np); pnp = np; }
         KERNEL(pnp .. end) }          /* last partition */
else     KERNEL(0 .. cnt)              /* one partition */
```

The kernel writes every row of one partition. Some state is carried from
one kernel run to the next: the running value `curval`, and for lag/lead
the input pointer `bp`. Many of the defects below live in that carried state.

`GDKanalyticaldiff` produces the boundary column. The SQL layer calls it once
per PARTITION BY / ORDER BY key column, passing the previous result as the
carry `c`. The final result is the `p` that every other function consumes.

| Part | Entry points | Module |
|---|---|---|
| change detection | `GDKanalyticaldiff` | `AnalyticDiff` |
| ntile | `GDKanalyticalntile` | `AnalyticNtile` |
| diff calls feeding ntile | the caller's sequence of calls | `MCDiffNtile` |
| first / last / nth value | `GDKanalyticalfirst`, `…last`, `…nthvalue` | `AnalyticValue` |
| lag / lead | `GDKanalyticallag`, `…lead` | `AnalyticLagLead` |
| min / max | `GDKanalyticalmin`, `…max` | `AnalyticMinMax` |
| count | `GDKanalyticalcount` | `AnalyticCount` |
| sum / prod | `GDKanalyticalsum`, `…prod` | `AnalyticSum` (+ `MCAnalyticSum`) |
| avg | `GDKanalyticalavg` | `AnalyticAvg` (+ `MCAnalyticAvg`) |
| what a function promises | spec.md §4, §6 | `AnalyticContract` |
| shared definitions | boundary columns, partitions, frames | `AnalyticCommon` |
| one window call of count, min/max, first/last/nth or lag/lead | the SQL window operator's call | `MCWindowFunctions` |
| ntile with a bte tile argument on a wide partition | `GDKanalyticalntile` | `MCNtileWidth` |
| MAL garbage-collector pass | `OPTgarbageCollectorImplementation` | `OptGarbageCollector` |
| Pathfinder builtins | `PFbui_*` | `PfBuiltins` over `PfAlgebra` (+ `MCPfBuiltins`) |

The remaining files under `src/` are not modelled:
- the pathfinder headers `core_mnemonic.h` and `ns.h` hold macros and
  declarations only;
- `embeddedExample.c` is a client example.

They are listed in `PROJECT.json` as `not_modelled`, with the reasons.

## How the modules correspond to the code

Every function module has the same skeleton:

- **The input `in`:** a record of the call's arguments. Init chooses it from
  `Inputs`, the set of all columns of up to `MaxCnt` rows with every boundary
  column, and it never changes. Every argument combination a caller can pass
  is a separate initial state. `Inputs` is the union of `InputsOf(n)` over
  the column sizes n, and TypeOK tests `in \in InputsOf(in.cnt)`: TLC does
  not keep the value of a constant definition of an instantiated module, and
  enumerating one size is much cheaper than the union in every state.
- **The walk variables:**
  - `pc` is "start", "walk" or "done" ("failed" for sum/prod);
  - `np` is the boundary loop's row;
  - `pnp` is the first row of the current partition;
  - `out` is the result BAT, with `Unwritten` for rows not yet written;
  - `hasNils` is `has_nils`, which becomes `tnil`;
  - the carried state is `curval`, `bp` or `acc`.
- **The actions:** one action per branch of the entry point's control flow.
  - `WholeColumn` is the `p == NULL` branch, where the whole column is one
    partition.
  - `StartWalk`, `SkipRow`, `PartitionEnd` and `LastPartition` are the
    boundary loop. `SkipRow` is the iteration of `for (; np < end; np++)`
    where `*np` is FALSE. `PartitionEnd` is the iteration where it is TRUE,
    which runs the kernel on `[pnp, np)` and sets `pnp = np`.
    `LastPartition` is the kernel call after the loop.
  - The shortcuts are actions of their own: `NilTile` for a nil tile count,
    `NthNone` for nth == BUN_NONE, `NoOffset` for a BUN_NONE lag/lead offset,
    and `CopyInput` for the copy shortcuts of min/max and sum.
  - `Terminated` is the returned call.
- **The kernel:** one macro is one operator, usually named `WritePartition`
  or `RunKernel`. Its loops are RECURSIVE operators (`Accumulate`, `AvgLoop`,
  `NtileState`, `DiffLoop`). The rows a kernel writes are merged into `out`
  with `@@`.
- **The value domain:**
  - For value-selecting functions, the values are a small set `Vals` plus
    `Nil`.
  - For count, only a value's nil-ness matters.
  - For sum, prod and avg, the values are small signed integers, and the
    result type's range is `[-AccMax, AccMax]`.
  - The per-type copies of a macro behave the same way in this domain, so
    one model covers them. The fixed-width and generic paths do differ, in
    nth value and lag/lead. There the path is an input field, and both paths
    are modelled.
- **Out-of-partition reads:** a read of a slot past the column is modelled by
  `Slot(col, k, junk)`. `junk` is an input field ranging over every value
  the memory could hold, so an out-of-range read is a nondeterministic
  choice, never a fixed value.

`AnalyticContract` is the abstract specification. It has a variable `input`
and a variable `result`, which is `Pending` until the call returns. It then
becomes `Failed`, which is allowed only where `MayFail(input)` holds, or a
record `[col, nils]` where:
- `col` is `Expected(input)`;
- `nils` is TRUE if `col` holds a nil. It may also be TRUE when `col` holds
  none, since spec §6 only requires the flag to be set when nils are present.

Each function module instantiates it with a refinement mapping:
`input <- in`, `result <- IF pc = "done" THEN [col |-> out, nils |-> hasNils] ELSE Pending`.
It then checks `Contract!Spec`, `Contract!ReturningSpec` or
`Contract!SafetySpec` as a temporal property. `ReturningSpec` is
`SafetySpec /\ <>(result # Pending)`, which is what `Spec`'s `WF(Return)`
says, since `Return` is enabled exactly while the call has not returned;
it spares TLC evaluating `ENABLED Return`, the expected column, in every
state. `ExpectedOf` is written from spec §4, not from the code. It uses
`AnalyticCommon`'s `PartRows` and `FrameRows`, which compute a row's
partition and clipped frame directly from `p`.

### Per-module notes

- **`AnalyticDiff`**
  - One action, `Diff`, is one call on a fresh key column `b`. It is bounded
    by `Calls`, and the previous result is the carry.
  - `DiffLoop` is `ANALYTICAL_DIFF_IMP` together with the generic `atomcmp`
    loop. `prev` starts at `b[0]` and moves only on a change, and a row
    starts from `*rp`, or FALSE when there is no carry.
- **`AnalyticNtile`**
  - `NtileCalc` is `NTILE_CALC` with its three branches: `val >= ncnt`,
    exact division, and remainder.
  - The counters `i` and `j` are carried across partitions, and the walk's
    `j = 1` reset happens after each partition.
  - `i`, `j` and `buckets` are declared `TPE`, the type of the tile
    argument. `ToTpe` converts to `Width` bits, two's complement:
    `buckets = ncnt / val`, `i++` and `j++` wrap as the build does. A
    negative tile count, converted to `BUN`, takes the one-row-per-tile
    branch (`OnePerTile`).
  - `NtileState` is the counters `i` and `j` of the two bucket loops
    before a row, in closed form: with `i` counted mod 2^Width, the bucket
    advances come at an arithmetic progression of rows. A recursion over
    the rows would exceed TLC's stack at the 256 rows a bte counter needs
    to wrap.
- **`AnalyticValue`**
  - `Selected` gives the slot `FIRST_CALC`, `LAST_CALC` or `NTHVALUE_CALC`
    copies into the partition, and `*_OTHERS` reads the slot the generic
    path uses.
  - `curval` is first_value's value read at `*bp` after a partition, and it
    is also what the next partition starts from.
  - `AppendFailure` is a `BUNappend` of the generic branch returning
    `GDK_FAIL`, at the same four places as lag/lead's: the BUN_NONE loop,
    the whole column, a partition a marked row closes, the last partition.
    `status` is `gdk_res`, and `AppendsRows` the contract's `MayFail`.
- **`AnalyticLagLead`**
  - `bp` is the type-specialised macros' input pointer, carried across
    partitions.
  - `Copies`, `Source` and `BpAfter` are the arithmetic of
    `ANALYTICAL_LAG_CALC` / `ANALYTICAL_LEAD_CALC`.
  - The generic macros compute the source row from the row index, so they
    carry nothing across partitions.
  - `AppendFailure` is a `BUNappend` of the generic branch returning
    `GDK_FAIL`: at the BUN_NONE loop, on the whole column, on a partition a
    marked row closes, or on the last partition. The macro jumps to
    `finish` and the call returns the failure (`status = Failed`). The
    contract's `MayFail` is `AppendsRows`: a generic call that appends at
    least one row. The constant `AppendFails` turns the fault on.
- **`AnalyticMinMax`**
  - `Scan` is the `_IMP_NO_OVERLAP` pass over a partition.
  - `FrameLo` and `FrameHi` are `_IMP_ROWS`'s clipping:
    `bs = pbp > bl+start ? pbp-start : bl` and `be = …`.
  - `CopyInput` is the `p == NULL && o == NULL && !force_order` shortcut.
  - `SlotValues(lo)` is `curval = *pbp` before the `_IMP_NO_OVERLAP` loop,
    which is read also for an empty partition, where the slot lies outside
    it.
  - `in.path` is `"fixed"` for the type-specialised kernels and
    `"generic"` for `ANALYTICAL_MIN_MAX_OTHERS_*` (the `default:` of the
    type switch). Both compute the same rows. Only the generic ones append
    through `BUNappend`: `AppendFailure` is a failing append in the copy
    loop, in the whole-column call, or in a partition's broadcast or row
    loop. It jumps to `finish` and the call returns `GDK_FAIL` (`status`).
- **`AnalyticCount`**
  - `CountAll` is the branch between `ANALYTICAL_COUNT_IGNORE_NILS_CALC`
    (a pointer difference) and the nil-testing kernels.
  - The running count `curval` is reset after each partition and frame row.
- **`AnalyticSum`**
  - `Accumulate` is the kernels' inner loop: it skips nils, a nil
    accumulator takes the value, and the others are folded in.
  - `Overflows` is `ADD_WITH_CHECK` / `MUL4_WITH_CHECK`. For "fprod" it is
    `ANALYTICAL_PROD_IMP_FP_REAL`'s test
    `ABSOLUTE(curval) > 1 && max / ABSOLUTE(v) < ABSOLUTE(curval)`.
  - An overflow is the `goto calc_overflow`, which leads to `pc = "failed"`.
  - The contract's `MayFail` is `OverflowsSomewhere`: some frame has a
    running prefix whose exact aggregate leaves the range.
- **`AnalyticAvg`**
  - `AvgLoop` is `ANALYTICAL_AVERAGE_LNG_HGE`. It first accumulates the
    checked `sum`. On the first overflow it jumps to the recovery, where
    `RecoveryStart` forms `a`/`rr` from the sum so far, including the
    `if (r)` sign adjustment. The loop then continues with `AverageIter`
    (`AVERAGE_ITER`) from the value that overflowed.
  - `Mean` turns either form into the exact rational mean `a + rr/n`, or the
    exact `sum/n`. That mean is the value the result holds up to the final
    rounding, which is not modelled.
- **`MCDiffNtile`** composes the two calls a window query with
  `PARTITION BY` makes. `DiffCall` is one `GDKanalyticaldiff` call per key
  column (`AnalyticDiff`'s `Diff`). `CallNtile` then passes the final result
  to `GDKanalyticalntile` as `p` (or passes no `p`), with a tile count.
  `NtileStep` runs `AnalyticNtile`'s actions on it. The cfg sets
  `FirstMarked = TRUE`, so the ntile side makes no assumption about row 0:
  it sees only the columns the diff calls produce.
- **`MCWindowFunctions`** is one call of the window operator to count,
  min/max, first/last/nth value or lag/lead. `fn`, chosen in Init, names the call, and
  every step is a step of that module's actions (`CountStep`, `MinMaxStep`,
  `ValueStep`, `LagLeadStep`). The four modules share the walk variables
  and `status`; `curval` (first_value) and `bp` (lag/lead) stay 0 in the
  calls that keep neither. One contract instance, with
  `input <- [fn |-> fn, x |-> in]`, the expected column of the function
  called and `MayFailOf` (a generic min/max, first/last/nth or lag/lead
  call that appends; count never fails), is refined by all four. The modules' constants are named apart
  (`MinMaxOps`, `ValueOps`, ...); lag/lead's `Ops` is `LagLeadOps`.
- **`MCNtileWidth`** gives `AnalyticNtile` the inputs at which a bte
  `buckets` wraps: one partition of 256 or 300 rows, tile counts 1 and 2,
  `Width = 8`. The cfg replaces `Inputs` by `WideInputs`.

## The MAL garbage-collector pass

`OPTgarbageCollectorImplementation` rewrites one MAL block `mb`, an array
`mb->stmt` of `ssize` slots. Slots `0 .. stop-1` are the program: the
signature first and `END` last. The pass runs sequentially, in the order
below:
1. It returns 0 when the signature's result is inlined.
2. It searches from `mb->stmt[limit]` down to slot 3 for `querylog.define`,
   and if it finds one, shifts slots `1 .. i-1` up and puts it in slot 1.
3. It computes the lifespans (`setLifespan`), allocates a fresh array
   (`newMalBlkStmt`), and returns 0 if either fails.
4. Its main loop pushes each instruction of the old array. For each BAT
   argument whose lifespan ends at `i`, it sets that variable's `eolife` to
   the instruction's new index and sets `GARBAGECONTROL` on the
   instruction. After a block exit it pushes `k := nil` for every
   non-kept BAT variable, begun after the signature, that ends there.
5. At `END` the loop breaks. `END` and the rest are pushed, the slots past
   the copied ones are freed, and the first instruction gets
   `GARBAGECONTROL`.

`OptGarbageCollector` models this as follows.
- **State.** `in` is the block passed in, chosen from `Inputs` (every
  block of up to `MaxStop` instructions, with barrier/exit well nested and
  `Slack` slots past `stop`, each NULL or an owned instruction). An
  instruction is its slot index in that block, which stands for a pointer
  to it. `stmt` is the array as the move leaves it. `span` is the
  lifespans. `i` is the main loop's index. `new` is the new `mb->stmt`,
  holding instruction entries and nil entries. `eolife`, `gc` and `freed`
  record what the pass marks and frees.
- **Actions.** There is one per step above:
  - `Inline` is step 1.
  - `NullRead` and `MoveQuery` are step 2. `NullRead` is the search reading
    a NULL `mb->stmt[limit]`.
  - `SetupFails` and `Setup` are step 3.
  - `ReturnStep` and `InstrStep` are one pass of the main loop, for a RETURN
    barrier and for any other instruction (step 4).
  - `LoopEnd` is step 5. It covers both ways the loop can end (the `END`
    break, or `i` reaching `limit`), with `assert` compiled out.
- **Lifespans.** `setLifespan` is not in this repository. `Spans` gives
  every result it may return. A variable never mentioned has the zero span.
  Otherwise the span begins at the first mention and ends at the last
  mention, or at a later block exit.
- **Left out.** The variable `pushInt` adds, the types set by
  `setVarUDFtype` / `setVarFixed`, the unused `depth` and the debug output
  are data no property reads.

## The Pathfinder builtins

The Pathfinder compiler translates XQuery into relational algebra. The
translation is loop-lifted. An expression inside a `for` loop is a relation
with attributes `iter|pos|item`, one tuple per item of the sequence in each
iteration, ordered by `pos`. The loop relation holds one `iter` per
iteration. A call of a built-in function is translated by its `PFbui_*`
function in `builtins.c`. The function gets the loop relation and one pair per
argument, `(rel, frag)`, where `frag` holds the document fragments the
argument's nodes live in. It returns the pair of the result.

- **`PfAlgebra`** models the algebra operators the builtins use. They are
  `project`, `eqjoin`, `cross`, `disjunion`, `difference`, `intersect`,
  `distinct`, `rownum`, `count`, `cast`, `lit_tbl`, and the item-level
  `PFla_add`, `PFla_gt`, `PFla_not`, and so on. A relation is a bag (standard
  `Bags`) of records. These operators live in `algebra.c`, which is not in
  this repository, so they are spec_modelled. The model gives each operator
  the meaning of its relational namesake:
  - difference and intersect act on tuples;
  - rownum numbers within a partition in the order of the sort attribute;
  - comparisons with NaN are false, as in IEEE 754;
  - integer division truncates, and the remainder takes the sign of the
    dividend, as in C.
- **`PfBuiltins`** models each `PFbui_*` function as the plan it builds, one
  operator per function, on the implementation type `t` it is dispatched on:
  - `BinArith` and `UnFunc` are `bin_arith` and `un_func`. The algebra
    constructor they get as a function pointer is passed by name (`"gt"`,
    `"add"`, ...), and `PfAlgebra`'s `BinOp` / `UnOp` give its operator;
  - `OpGe` is `not(b > a)`, as in the code;
  - `OpUnion` is rownum over distinct of disjunion.

  Its state is `call`, a chosen builtin with its loop and its arguments'
  sequences per iteration, together with `pc` and `res`. `Translate` builds
  the plan (`Plan`, the dispatch of `functions.c`) over the encoded arguments
  (`Encode`), evaluates it, and stores the resulting pair. `Returned` is the
  finished call. `Sig` gives each builtin's argument types and occurrences
  (one, `?` or `*`), and Init enumerates every call of those signatures.
- **The reference** (`XQuery`) is written from the XQuery 1.0 functions and
  operators, not from the code:
  - arithmetic and value comparisons give `()` on an empty argument;
  - every comparison with NaN is false except `ne`;
  - `mod` and `idiv` are defined by their equations;
  - the set operations give duplicate-free results in document order
    (`SetToSortSeq`);
  - `fn:boolean` gives the effective boolean value;
  - `fn:count` and `fn:empty` hold for empty iterations too.

  `Decode` reads one iteration's sequence back from a result relation,
  sorted by `pos`.

## Runs

Run a check with `tlc -workers 2 -config <cfg> <module>` in this directory.
"pass" runs finish with no error. "violation" runs find a counterexample,
which shows a disagreement between the code and spec.md (see Findings).

| Run | Module / cfg | Checks | Expect | What it shows |
|---|---|---|---|---|
| diff_ntile | MCDiffNtile / MCDiffNtile.cfg | TypeOK, DiffMarksGroupStarts, NtileRestartsPerPartition, NtileExactTiles | pass | two chained diff calls mark exactly the rows where a key changes, never row 0; ntile on that column starts every partition at tile 1 and rises by at most 1 per row, gives the ordinal (N >= m) or m/N rows per tile (N divides m) as spec 4.3 fixes |
| ntile_balanced | AnalyticNtile / AnalyticNtileBalanced.cfg | NtileBalanced | violation | with a remainder, the buckets are not the min(N,m) near-equal buckets of spec 4.3 |
| ntile_width | MCNtileWidth / AnalyticNtileWidth.cfg | NtileExactTiles | violation | with a bte tile argument, ntile(1) over 256 rows numbers every row 2: `buckets` wraps to 0 |
| window | MCWindowFunctions / MCWindowFunctions.cfg | TypeOK, SpuriousNilsOnlyFromEmptyPartition, ContractSpec | pass | count (both branches, both frame kinds), min / max (partition and bounded frames, the copy shortcut, both paths), first_value / last_value / nth_value with nth == BUN_NONE, and lag / lead (lead on both paths, lag on the generic one), refine the contract on every boundary column, also when a generic BUNappend fails; a min/max has_nils claim with no nil in the result comes only from an empty partition |
| nth_value | AnalyticValue / AnalyticValueNthSpec.cfg | NthValueAsSpecified | violation | nth_value is wrong at nth = partition size (fixed path), and after the first partition (generic path) |
| lag_fixed | AnalyticLagLead / AnalyticLagFixed.cfg | ContractSpec | violation | lag's fixed-width path copies values from the wrong rows after a short partition |
| sum | MCAnalyticSum / MCAnalyticSum.cfg | TypeOK, ContractSpec | pass | sum, prod and the floating-point prod return the exact aggregate, or fail only where a running aggregate overflows |
| avg | MCAnalyticAvg / MCAnalyticAvg.cfg | TypeOK, ContractSafety | pass | avg returns the exact mean of each frame, also after the overflow recovery |
| gc | OptGarbageCollector / OptGarbageCollector.cfg | TypeOK, PlanPreserved, NilAfterLastUse, CollectedAtLastUse, NoFreedInPlan | pass | the rewritten block is the program, each instruction once and in order with the query first; no instruction after `k := nil` uses `k`; each released BAT's `eolife` is its last use, which carries `GARBAGECONTROL`; no kept instruction is freed |
| gc_returns | OptGarbageCollector / OptGarbageCollectorReturns.cfg | PassReturnsPlan | violation | the pass must return 0 or the program with the query first; reading `mb->stmt[limit]` crashes on NULL, or moves a stale define in and loses END |
| builtins | MCPfBuiltins / PfBuiltins.cfg | TypeOK, XQuerySemantics, NodesInFragments | pass | every modelled builtin, on each implementation type it is dispatched on (but ge / le on doubles), gives in every iteration of the loop the sequence XQuery defines, with no tuple twice, no iteration outside the loop and unique positions; every result node lies in a fragment the result names |
| builtins_nan | MCPfBuiltins / PfBuiltinsNaN.cfg | XQuerySemantics | violation | op:ge and op:le on doubles, built as the negation of gt, are true for a NaN argument |

Some cfgs are not runs. They check one component at a time, at other bounds:
- `AnalyticDiff.cfg` and `AnalyticNtile.cfg` use 3 calls of 3 rows, and
  ntile on 5 rows; `diff_ntile` checks the same properties on the
  composition.
- `AnalyticCount.cfg`, `AnalyticMinMax.cfg`, `AnalyticValue.cfg` and
  `AnalyticLagLead.cfg` check the four modules that `window` composes, each
  on its own, with their full `Spec`.

Every property of a passing run has a mutant in `PROJECT.json`. A mutant is
a variant operator defined next to the one it replaces: a missing reset, a
loop one row too long, a dropped nil test, an unchecked add, the carry
ignored, a RETURN not pushed, nils pushed before their exit, lifespans
taken before the move, a free loop starting one slot early, a failed
status dropped, the exact-division tile written before the bucket switch. With the mutant in place, TLC finds the property violated.

### Bounds and why they are enough

- **Column size.** Columns have up to 4 rows: 5 for ntile_balanced, 3 for sum. With Init enumerating every boundary column, 4 rows already give
  partitions of size 0 to 4, empty first partitions (`FirstMarked`), and
  partitions shorter, equal to and longer than every offset, tile count and
  frame bound enumerated. The defects found need 1 to 3 rows, except ntile, which needs 5.
- **Integer width.** `diff_ntile` gives ntile's counters 4 bits: at 4 rows
  nothing wraps. `ntile_width` uses the real width of bte, 8 bits,
  and the smallest partition where `buckets` wraps, 256 rows (and 300); it
  enumerates no boundary columns, which at that size would be 2^256.
- **Offsets and frames.** Offsets (`KVals`, `NthVals`) and frame bounds
  (`Starts`, `Ends`) range from 0 to 2, plus 3 and 4 for nth. They cover the
  zero offset, the frame (0, 0) shortcut, clipping at both partition ends,
  and offsets at and beyond the partition size.
- **Values.** For sum and avg, `AccMax = 3` with values {-2, 1, 2} or
  {-2, -1, 2}. Overflow then happens in two steps, in both directions, and
  for sums whose prefix overflows while the total does not.
- **Composition.** `diff_ntile` has 2 key columns of up to 4 rows. Every
  boundary column of 4 rows with row 0 unmarked arises from two columns
  over {1, 2, nil}, and ntile gets 1 to 3 tiles or nil.
- **MAL blocks.** The gc run uses blocks of up to 5 instructions, 2 BAT
  variables (one with the keep property), and one slot past `stop`.
  - 5 is the smallest program in which a define sits at position 3 or
    higher and is moved, because slot `stop-1` is `END`. A moved define
    can be preceded by a barrier/exit pair, which it then jumps over, or by
    a RETURN. Arguments can end inside a block or at its exit.
  - Inlined blocks return before reading anything, so only the shortest
    one is enumerated.
  - A stale `GARBAGECONTROL` bit is allowed on one instruction.
  - The slot past `stop` holds NULL or a plain owned instruction, so the
    run's properties concern the blocks the pass handles.
  - `gc_returns` uses 3 instructions and also allows a define past `stop`.
- **Builtins.** The runs use:
  - a loop of up to 2 iterations, including the empty loop and loops where
    an argument is empty in one iteration only;
  - numbers {-3, 0, 2}, so that every sign combination, zero and a division
    with a remainder occur;
  - NaN for doubles;
  - two nodes in two fragments;
  - `*` arguments of up to 2 items, duplicates included.

  Divisors are non-zero (see Not modelled). With 2 iterations, the
  set operations' rownum over all iterations puts tuples of both iterations
  into one numbering.

### Fairness

A call runs to completion on the calling thread, with no waits and no other
actor. The only liveness claim is therefore that the call returns. That is
justified by weak fairness of `Next`, the default progress of a running
thread, and `Contract!Spec` checks it through its `WF(Return)`, or
`Contract!ReturningSpec` (the window run) through `<>(result # Pending)`.

The garbage-collector pass also runs to completion on the calling thread
under `WF_vars(Next)`. `PassReturnsPlan` is the liveness claim that it
returns. Only a crash (`pc = "crashed"`, a terminal state) can violate it.

A builtin's translation is one function call that builds a plan. `PfBuiltins`
checks only safety properties of the plan it returns, so it assumes no
fairness.

For avg the model checks `Contract!SafetySpec` only. The recursive kernel
makes liveness checking slow at the bounds the overflow cases need. The walk
that would have to terminate is the same one checked for the other
functions.

## Findings

The findings are detailed in `PROJECT.json`.

- **ntile** (gdk_analytic.c:121). In the remainder branch, a row is written
  before the bucket switch. The first bucket then gets `ncnt/val + 1` rows
  and the later buckets `ncnt/val`, so a tile `val + 1` can appear. For
  example, 5 rows and 3 tiles give 1,1,2,3,4.
- **nth_value, fixed path** (:453). The range test `nth > bp - pbp` is off by
  one. When nth equals the partition size, the code returns the first row of
  the next partition, or a slot past the column, instead of nil.
- **nth_value, generic path** (:503). The generic path reads
  `BUNtail(bpi, nth)`, an absolute row, instead of `j + nth`.
- **ntile, counter width** (:133). `i`, `j` and `buckets` are `TPE`. For a
  bte tile argument, `buckets = ncnt / val` is truncated to 8 bits: ntile(1)
  over 256 rows gets `buckets = 0`, advances on the first row, and numbers
  every row 2 where spec 4.3 gives 1. For sht the same happens at 65536
  rows per tile.
- **lag, fixed path** (:620). After a partition with at most `lag` rows,
  `bp` is not advanced. Every later partition then copies values from
  earlier rows.
- **garbage collector, NULL read** (opt_garbageCollector.c:54). The query
  search starts at `mb->stmt[limit]`, the slot after `END`. When that slot
  is NULL, `getModuleId` (`(P)->modname` in MAL, outside this repository)
  dereferences NULL. This happens for any block of 3 or more instructions
  with an empty next slot.
- **garbage collector, stale define** (:61). When that slot still holds an
  owned `querylog.define` (line 124 frees such slots, so they exist), it is
  moved into the program. `END` then falls outside `0 .. limit-1`, and the
  code after the loop pushes the last instruction a second time instead of
  `END`. TLC prints the NULL read first. This case was found with every
  slot past `stop` owned.
- **Pathfinder ge / le on doubles** (builtins.c:491, :645). `op:ge` is
  built as `not(b > a)` and `op:le` as `not(a > b)`. With a NaN argument
  both return true, where XQuery says false. For example, `le(NaN, NaN)`
  gives true. This assumes `PFla_gt` compares as IEEE 754 does (algebra.c
  is not in this repository).

Two more disagreements turned up during modelling. Neither changes a
result, so they are recorded as hazards rather than kept as runs:
- On an empty partition, first_value / last_value set `has_nils` from a
  value outside the partition. For min / max the same over-claim is pinned
  down by `SpuriousNilsOnlyFromEmptyPartition`, and `DiffMarksGroupStarts`
  shows the diff calls never make such a partition.
- The avg recovery for negative sums tests `if (r)` where `if (rr)` is
  meant. It forms the pair `(a, n)`, whose value `a + n/n` is still the
  right mean.

## Not modelled

- **Type dispatch.** The type switch and its `nosupport` exit are not
  modelled. Every arm runs the same macro on a different C type.
- **Floating-point sum and avg.** The floating-point sum calls `dofsum`,
  which is not part of this repository. The floating-point avg computes with
  dbl rounding, which the integer domain cannot represent.
- **Storage failures.** A `BUNappend` failure is modelled for the generic
  paths of min/max, lag/lead and first/last/nth (`AppendFailure`). Allocation
  failures are out of scope (spec 1).
- **ntile with a tile count of 0.** `ncnt % val` divides by zero for a
  non-empty partition; the behaviour is undefined, and whether a caller can
  pass 0 is decided outside this file. It is listed as a hazard.
- **Pointer overflow.** Overflow of `pbp + end` for huge frame bounds is not
  modelled, because pointers are row indices here.
- **Garbage collector.** `setLifespan` (not in this repository) is given
  by the set of spans it may return. `p->pc = i`, `pushInt`'s argument,
  the variable types and the debug printing are not modelled. A block with
  `stop == ssize`, where `mb->stmt[limit]` is past the allocation, is not
  enumerated.
- **Pathfinder builtins.** Several builtins are not modelled:
  - true division, and `idiv` on decimals and doubles, since the model's
    numbers are integers;
  - text-node construction (`item_seq_to_node_seq`,
    `merge_adjacent_text_nodes`);
  - `fn:doc` and `fn:string-value`, which need documents;
  - `fn:data`, since `typed_value` returns its argument.

  `fn:boolean(item*)` on atomic values is left out of the pass run. It is
  true for any non-empty sequence, which the code itself marks `@bug
  FIXME`. It is listed as a hazard. Division by zero is not enumerated,
  because what the back end does with it is not in this repository. The
  algebra operators and the dispatch table are modelled from what they
  compute.
- **Other files.** `core_mnemonic.h` and `ns.h` hold macros and
  declarations only. `embeddedExample.c` is client I/O.

`PROJECT.json` lists every hazard with its source line and the properties
that cover it.
