--------------------------- MODULE AnalyticContract ---------------------------
(***************************************************************************)
(* What one call of a GDKanalytical* function promises its caller (spec   *)
(* sections 4, 6 and 7), independent of how the call walks the column:   *)
(* the call returns once, and either fails (only where the operation may  *)
(* fail for that input) or succeeds with                                  *)
(*   - every row of the result holding the value the operation defines,   *)
(*   - a has-nils flag that is TRUE whenever the result holds a nil, so   *)
(*     that the result's "no nils" property (tnonil = !has_nils) is never *)
(*     claimed for a column with a nil.                                   *)
(* The detailed models map their state onto input and result and check   *)
(* this specification as a property.                                      *)
(***************************************************************************)
EXTENDS AnalyticCommon

CONSTANTS
    Expected(_),  \* the result column the operation defines for an input
    MayFail(_)    \* the input is one the operation may fail on

VARIABLES input, result

Outcomes(x) ==
    {[col |-> Expected(x), nils |-> f] :
        f \in IF HasNil(Expected(x)) THEN {TRUE} ELSE BOOLEAN}
    \cup (IF MayFail(x) THEN {Failed} ELSE {})

Init == result = Pending

Return ==
    /\ result = Pending
    /\ result' \in Outcomes(input)
    /\ UNCHANGED input

(* The promise without its liveness part: a call returns at most once,    *)
(* and what it returns is an outcome the input allows.                     *)
SafetySpec == Init /\ [][Return]_<<input, result>>

Spec == SafetySpec /\ WF_<<input, result>>(Return)

(* Outcomes(x) is never empty, so Return is enabled exactly while the call *)
(* has not returned, and its weak fairness says no more than that the call *)
(* returns: Spec is SafetySpec together with <>(result # Pending).  This    *)
(* form spares TLC evaluating ENABLED Return, the expected column, in      *)
(* every state.                                                            *)
ReturningSpec == SafetySpec /\ <>(result # Pending)

=============================================================================
