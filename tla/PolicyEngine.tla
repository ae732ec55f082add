---------------------------- MODULE PolicyEngine ----------------------------
(***************************************************************************)
(* evaluate_policy: the decision of a list of policies on an action and    *)
(* its context, and the decision it is meant to be.                        *)
(*                                                                         *)
(* A value keeps the type the operators look at and a position in the      *)
(* order of its type; numbers share one order.  Left out are arrays, which *)
(* compare element by element and cannot be ordered where two elements     *)
(* cannot, null, which compares like an object, reasons and the copies of  *)
(* operands in the evidence; a trace entry keeps its policy, version and   *)
(* verdict.                                                                *)
(***************************************************************************)
EXTENDS Naturals, Sequences, SequencesExt

CONSTANTS
    Actions,    \* names of actions
    Fields,     \* fields of a context
    None        \* absent: no row, no value, no citation

Types == {"bool", "int", "float", "string", "object"}
Value == [type: Types, n: Nat]
Operators == {"greater_than", "less_than", "equals", "not_equals"}
Decisions == {"ALLOW", "REQUIRE_APPROVAL", "DENY"}

Condition == [field: Fields, operator: Operators, value: Value]

\* The content of a policy; its id and version are in the row that holds it.
Definition ==
    [action: Actions, match: {"all", "any"}, conditions: Seq(Condition) \ {<< >>},
     decision: Decisions]

\* The numbers of a finite set in their order.
InOrder(I) ==
    CHOOSE o \in SetToSeqs(I) : \A j, k \in DOMAIN o : j < k => o[j] < o[k]

-----------------------------------------------------------------------------
(* Operators and conditions                                                *)

\* _values_have_compatible_types
Compatible(actual, expected) ==
    LET types == {actual.type, expected.type} IN
    IF "bool" \in types THEN types = {"bool"}
    ELSE types \subseteq {"int", "float"} \/ actual.type = expected.type

\* evaluate_operator: "match", "differ", or "invalid" for a TypeError, which
\* ordering two objects raises as well.
EvaluateOperator(operator, actual, expected) ==
    LET Verdict(holds) == IF holds THEN "match" ELSE "differ" IN
    IF ~Compatible(actual, expected) THEN "invalid"
    ELSE IF operator = "equals" THEN Verdict(actual.n = expected.n)
    ELSE IF operator = "not_equals" THEN Verdict(actual.n # expected.n)
    ELSE IF actual.type = "object" THEN "invalid"
    ELSE IF operator = "greater_than" THEN Verdict(actual.n > expected.n)
    ELSE Verdict(actual.n < expected.n)

Check(condition, context) ==
    IF context[condition.field] = None THEN "missing"
    ELSE EvaluateOperator(condition.operator, context[condition.field],
                          condition.value)

Checks(policy, context) ==
    [i \in DOMAIN policy.def.conditions |->
       Check(policy.def.conditions[i], context)]

\* policy.match over the results of the conditions
Matches(policy, context) ==
    LET matched == {i \in DOMAIN policy.def.conditions :
                      Check(policy.def.conditions[i], context) = "match"}
    IN IF policy.def.match = "all" THEN matched = DOMAIN policy.def.conditions
       ELSE matched # {}

-----------------------------------------------------------------------------
(* evaluate_policy                                                         *)

DECISION_PRIORITY == [ALLOW |-> 0, REQUIRE_APPROVAL |-> 1, DENY |-> 2]

Evaluation(decision, policy, version, trace) ==
    [code |-> "ok", decision |-> decision, policy |-> policy,
     version |-> version, trace |-> trace]

\* MissingPolicyContextError or InvalidPolicyContextError
Raised(code) ==
    [code |-> code, decision |-> None, policy |-> None, version |-> None,
     trace |-> << >>]

\* Mutant: a later policy of the same priority takes over.
PreferLast(winner, policy) ==
    IF DECISION_PRIORITY[policy.def.decision] >= DECISION_PRIORITY[winner.decision]
    THEN [decision |-> policy.def.decision, policy |-> policy.id,
          version |-> policy.version]
    ELSE winner

\* A matching policy wins if its decision has a higher priority.
Prefer(winner, policy) ==
    IF DECISION_PRIORITY[policy.def.decision] > DECISION_PRIORITY[winner.decision]
    THEN [decision |-> policy.def.decision, policy |-> policy.id,
          version |-> policy.version]
    ELSE winner

\* The loop over the applicable policies; one that does not match is skipped.
Winner(policies, context) ==
    LET Consider(winner, policy) ==
          IF Matches(policy, context) THEN Prefer(winner, policy) ELSE winner
    IN FoldLeft(Consider,
         [decision |-> "ALLOW", policy |-> None, version |-> None], policies)

\* The first condition without a value or with one of another type, 0 if there
\* is none, and the first policy with such a condition.
Problem(policy, context) ==
    SelectInSeq(Checks(policy, context), LAMBDA r : r \in {"missing", "invalid"})

FirstProblem(policies, context) ==
    SelectInSeq(policies, LAMBDA policy : Problem(policy, context) # 0)

\* A problem ends the loop, otherwise every policy enters the trace.
EvaluateApplicable(policies, context) ==
    LET first == FirstProblem(policies, context)
        winner == Winner(policies, context)
    IN IF first # 0
       THEN Raised(Checks(policies[first], context)[Problem(policies[first], context)])
       ELSE Evaluation(winner.decision, winner.policy, winner.version,
              [i \in DOMAIN policies |->
                 [id |-> policies[i].id, version |-> policies[i].version,
                  matched |-> Matches(policies[i], context)]])

EvaluatePolicy(action, context, policies) ==
    LET order == InOrder({k \in DOMAIN policies : policies[k].def.action = action})
        applicable == [k \in DOMAIN order |-> policies[order[k]]]
    IN IF applicable = << >> THEN Evaluation("DENY", None, None, << >>)
       ELSE EvaluateApplicable(applicable, context)

-----------------------------------------------------------------------------
(* The decision as it is documented: the strictest decision of the         *)
(* applicable policies whose conditions hold, ALLOW if there are policies  *)
(* and none of them objects, DENY if the action is not covered.            *)

Holds(condition, context) ==
    LET a == context[condition.field].n
        e == condition.value.n
    IN CASE condition.operator = "greater_than" -> a > e
         [] condition.operator = "less_than" -> a < e
         [] condition.operator = "equals" -> a = e
         [] condition.operator = "not_equals" -> a # e

Objects(def, context) ==
    LET holding == {i \in DOMAIN def.conditions : Holds(def.conditions[i], context)}
    IN /\ def.decision # "ALLOW"
       /\ holding # {}
       /\ def.match = "all" => holding = DOMAIN def.conditions

\* The decision on the applicable definitions defs.
Strictest(defs, context) ==
    LET objections == {d.decision : d \in {e \in defs : Objects(e, context)}}
    IN CASE defs = {} \/ "DENY" \in objections -> "DENY"
         [] "REQUIRE_APPROVAL" \in objections /\ "DENY" \notin objections ->
              "REQUIRE_APPROVAL"
         [] OTHER -> "ALLOW"

=============================================================================
