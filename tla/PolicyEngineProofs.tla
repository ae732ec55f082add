-------------------------- MODULE PolicyEngineProofs --------------------------
(***************************************************************************)
(* evaluate_policy decides as it is documented, for every list of          *)
(* policies, action and context.                                           *)
(***************************************************************************)
EXTENDS PolicyEngine, FiniteSetTheorems, FunctionTheorems, SequenceTheorems,
        WellFoundedInduction, TLAPS

-----------------------------------------------------------------------------
(* Least numbers and finite sets                                           *)

\* A nonempty set of naturals has a least element.
LEMMA MinIsLeast ==
    ASSUME NEW T \in SUBSET Nat, T # {}
    PROVE  Min(T) \in T /\ \A y \in T : Min(T) <= y
<1> DEFINE Less == {pair \in Nat \X Nat : pair[1] < pair[2]}
<1>1. IsWellFoundedOn(Less, Nat)
  BY NatLessThanWellFounded, Zenon DEF OpToRel
<1>2. PICK x \in T : \A y \in T : ~(<<y, x>> \in Less)
  <2> HIDE DEF Less
  <2>1. QED
    BY <1>1, WFMin
<1>3. ASSUME NEW y \in T PROVE x <= y
  <2>1. x \in Nat /\ y \in Nat
    OBVIOUS
  <2>2. y < x => <<y, x>> \in Less
    BY <2>1
  <2>3. QED
    BY <1>2, <2>1, <2>2
<1>4. QED
  BY <1>3 DEF Min

\* What the empty set has, and a set has when it has it without any one of its
\* elements, every finite set has.
LEMMA SmallerSets ==
    ASSUME NEW S, IsFiniteSet(S), NEW Good, {} \in Good,
           \A U \in SUBSET S :
             (U # {} /\ \A x \in U : U \ {x} \in Good) => U \in Good
    PROVE  S \in Good
<1> DEFINE Bad == {n \in Nat : \E U \in SUBSET S : Cardinality(U) = n /\ U \notin Good}
<1>1. SUFFICES ASSUME S \notin Good PROVE FALSE
  OBVIOUS
<1>2. Bad # {}
  BY <1>1, FS_CardinalityType
<1>3. Min(Bad) \in Bad /\ \A k \in Bad : Min(Bad) <= k
  <2> HIDE DEF Bad
  <2>1. Bad \in SUBSET Nat
    BY DEF Bad
  <2>2. QED
    BY <1>2, <2>1, MinIsLeast
<1>4. PICK U \in SUBSET S : Cardinality(U) = Min(Bad) /\ U \notin Good
  BY <1>3
<1>5. PICK x \in U : U \ {x} \notin Good
  BY <1>4
<1> DEFINE V == U \ {x}
<1>6. /\ Cardinality(V) = Cardinality(U) - 1
      /\ Cardinality(V) \in Nat /\ Cardinality(U) \in Nat
  BY <1>5, FS_Subset, FS_RemoveElement, FS_CardinalityType
<1>7. Cardinality(V) \in Bad
  BY <1>5, <1>6
<1> HIDE DEF V, Bad
<1>8. QED
  BY <1>3, <1>4, <1>6, <1>7

\* A nonempty finite set of naturals has a greatest element.
LEMMA MaxIsGreatest ==
    ASSUME NEW T \in SUBSET Nat, T # {}, IsFiniteSet(T)
    PROVE  Max(T) \in T /\ \A y \in T : y <= Max(T)
<1> DEFINE Good == {U \in SUBSET T : U = {} \/ \E m \in U : \A y \in U : y <= m}
<1>1. {} \in Good
  OBVIOUS
<1>2. ASSUME NEW U \in SUBSET T, NEW x \in U, U \ {x} \in Good
      PROVE  U \in Good
  <2>1. CASE U \ {x} = {}
    <3>1. \A y \in U : y <= x
      BY <2>1
    <3>2. QED
      BY <3>1
  <2>2. CASE \E m \in U \ {x} : \A y \in U \ {x} : y <= m
    <3>1. PICK m \in U \ {x} : \A y \in U \ {x} : y <= m
      BY <2>2
    <3>2. CASE x <= m
      <4>1. \A y \in U : y <= m
        BY <3>1, <3>2
      <4>2. QED
        BY <3>1, <4>1
    <3>3. CASE m <= x
      <4>1. \A y \in U : y <= x
        BY <3>1, <3>3
      <4>2. QED
        BY <4>1
    <3>4. QED
      BY <3>1, <3>2, <3>3
  <2>3. QED
    BY <1>2, <2>1, <2>2
<1>3. T \in Good
  <2> HIDE DEF Good
  <2>1. QED
    BY <1>1, <1>2, SmallerSets
<1>4. PICK m \in T : \A y \in T : y <= m
  BY <1>3
<1>5. QED
  BY <1>4 DEF Max

-----------------------------------------------------------------------------
(* ORDER BY                                                                *)

Increasing(o, n) == \A j, k \in 1..n : j < k => o[j] < o[k]

\* A finite set of numbers is listed in order, each of them once.
LEMMA InOrderLists ==
    ASSUME NEW I \in SUBSET Nat, IsFiniteSet(I)
    PROVE  LET o == InOrder(I)
               n == Cardinality(I)
           IN /\ n \in Nat /\ o \in [1..n -> I] /\ Increasing(o, n)
              /\ \A i \in I : \E k \in 1..n : o[k] = i
<1> DEFINE Listed(U) == \E o \in [1..Cardinality(U) -> U] : Increasing(o, Cardinality(U))
           Good == {U \in SUBSET I : IsFiniteSet(U) => Listed(U)}
<1>1. {} \in Good
  <2>1. Cardinality({}) = 0
    BY FS_EmptySet
  <2>2. [k \in 1..0 |-> 0] \in [1..0 -> {}] /\ Increasing([k \in 1..0 |-> 0], 0)
    BY DEF Increasing
  <2>3. QED
    BY <2>1, <2>2
<1>2. ASSUME NEW U \in SUBSET I, U # {}, U \ {Max(U)} \in Good
      PROVE  U \in Good
  <2> DEFINE m == Max(U)
             n == Cardinality(U)
             V == U \ {m}
  <2>1. IsFiniteSet(U)
    BY FS_Subset
  <2>2. U \in SUBSET Nat
    OBVIOUS
  <2>3. m \in U /\ \A y \in U : y <= m
    BY <1>2, <2>1, <2>2, MaxIsGreatest
  <2> HIDE DEF m
  <2>4. IsFiniteSet(V) /\ Cardinality(V) = n - 1 /\ n \in Nat /\ n - 1 \in Nat
    <3>1. IsFiniteSet(V) /\ Cardinality(V) = n - 1
      BY <2>1, <2>3, FS_RemoveElement
    <3>2. Cardinality(V) \in Nat /\ n \in Nat
      BY <2>1, <3>1, FS_CardinalityType
    <3>3. QED
      BY <3>1, <3>2
  <2>5. PICK o \in [1..(n - 1) -> V] : Increasing(o, n - 1)
    BY <1>2, <2>4 DEF m
  <2> DEFINE t == [k \in 1..n |-> IF k = n THEN m ELSE o[k]]
  <2> HIDE DEF n
  <2>6. /\ t \in [1..n -> U]
        /\ \A k \in 1..n : k # n => k \in 1..(n - 1) /\ t[k] = o[k] /\ o[k] \in V
        /\ n \in 1..n => t[n] = m
    BY <2>3, <2>4
  <2> HIDE DEF t
  <2>7. ASSUME NEW j \in 1..n, NEW k \in 1..n, j < k
        PROVE  t[j] < t[k]
    <3>1. j # n /\ j \in 1..(n - 1) /\ t[j] = o[j] /\ o[j] \in V
      BY <2>4, <2>6, <2>7
    <3>2. CASE k = n
      <4>1. t[k] = m /\ t[j] # m /\ t[j] \in U
        BY <2>6, <3>1, <3>2
      <4>2. t[j] <= m /\ t[j] \in Nat /\ m \in Nat
        BY <2>2, <2>3, <4>1
      <4>3. QED
        BY <4>1, <4>2
    <3>3. CASE k # n
      BY <2>5, <2>6, <2>7, <3>1, <3>3 DEF Increasing
    <3>4. QED
      BY <3>2, <3>3
  <2>8. QED
    BY <2>6, <2>7 DEF Increasing, n
<1>3. I \in Good
  <2>1. ASSUME NEW U \in SUBSET I, U # {}, \A x \in U : U \ {x} \in Good
        PROVE  U \in Good
    <3>1. CASE IsFiniteSet(U)
      <4>1. U \in SUBSET Nat
        OBVIOUS
      <4>2. Max(U) \in U
        BY <2>1, <3>1, <4>1, MaxIsGreatest
      <4>3. QED
        BY <1>2, <2>1, <4>2
    <3>2. CASE ~IsFiniteSet(U)
      BY <3>2
    <3>3. QED
      BY <3>1, <3>2
  <2> HIDE DEF Good
  <2>2. QED
    BY <1>1, <2>1, SmallerSets
<1> DEFINE o == InOrder(I)
           n == Cardinality(I)
<1>4. n \in Nat /\ IsFiniteSet(1..n) /\ Cardinality(1..n) = n
  BY FS_CardinalityType, FS_Interval
<1>5. PICK t \in [1..n -> I] : Increasing(t, n)
  BY <1>3
<1>6. \A j, k \in 1..n : j # k => t[j] # t[k]
  <2> HIDE DEF n
  <2>1. SUFFICES ASSUME NEW j \in 1..n, NEW k \in 1..n, j < k PROVE t[j] # t[k]
    BY <1>4
  <2>2. t[j] < t[k] /\ t[j] \in Nat /\ t[k] \in Nat
    BY <1>5, <2>1 DEF Increasing
  <2>3. QED
    BY <2>2
<1>7. /\ t \in SetToSeqs(I)
      /\ \A j, k \in DOMAIN t : j < k => t[j] < t[k]
  BY <1>5, <1>6 DEF SetToSeqs, Increasing
<1>8. o \in SetToSeqs(I) /\ \A j, k \in DOMAIN o : j < k => o[j] < o[k]
  BY <1>7 DEF InOrder
<1> HIDE DEF o
<1>9. o \in [1..n -> I] /\ Increasing(o, n) /\ \A j, k \in 1..n : j # k => o[j] # o[k]
  BY <1>8 DEF SetToSeqs, Increasing
<1>10. \A i \in I : \E k \in 1..n : o[k] = i
  <2>1. o \in Injection(1..n, I)
    BY <1>9 DEF Injection, IsInjective
  <2>2. o \in Surjection(1..n, I)
    BY <1>4, <2>1, FS_Injection
  <2>3. QED
    BY <2>2 DEF Surjection
<1>11. QED
  BY <1>4, <1>9, <1>10 DEF o

-----------------------------------------------------------------------------
(* Conditions                                                              *)

\* A context gives a value, or none, to every field.
Contexts == [Fields -> Value \cup {None}]

\* A policy as list_active returns it, and a list of them.
ListedPolicy(Ids) == [id : Ids, version : Nat, def : Definition]

\* A condition that can be evaluated matches exactly if it holds.
LEMMA CheckVerdict ==
    ASSUME NEW condition \in Condition, NEW context \in Contexts
    PROVE  /\ Check(condition, context) \in {"match", "differ", "missing", "invalid"}
           /\ Check(condition, context) \in {"match", "differ"} =>
                (Check(condition, context) = "match" <=> Holds(condition, context))
<1> DEFINE actual == context[condition.field]
           expected == condition.value
<1>1. /\ condition.operator \in Operators /\ condition.field \in Fields
      /\ expected \in Value
  BY DEF Condition
<1>2. CASE actual = None
  BY <1>2 DEF Check
<1>3. CASE actual # None
  <2>1. actual \in Value
    BY <1>1, <1>3 DEF Contexts
  <2>2. actual.n \in Nat /\ expected.n \in Nat
    BY <1>1, <2>1 DEF Value
  <2>3. Check(condition, context) = EvaluateOperator(condition.operator, actual, expected)
    BY <1>3 DEF Check
  <2>4. CASE condition.operator = "equals"
    BY <2>2, <2>3, <2>4 DEF EvaluateOperator, Holds
  <2>5. CASE condition.operator = "not_equals"
    BY <2>2, <2>3, <2>5 DEF EvaluateOperator, Holds
  <2>6. CASE condition.operator = "greater_than"
    BY <2>2, <2>3, <2>6 DEF EvaluateOperator, Holds
  <2>7. CASE condition.operator = "less_than"
    BY <2>2, <2>3, <2>7 DEF EvaluateOperator, Holds
  <2>8. QED
    BY <1>1, <2>4, <2>5, <2>6, <2>7 DEF Operators
<1>4. QED
  BY <1>2, <1>3

\* The place of the first problem of a policy, 0 if all its conditions can be
\* evaluated.
LEMMA ProblemFound ==
    ASSUME NEW policy, NEW context \in Contexts, policy.def \in Definition
    PROVE  LET results == Checks(policy, context)
               n == Problem(policy, context)
           IN /\ DOMAIN results = DOMAIN policy.def.conditions
              /\ n # 0 => n \in DOMAIN results /\ results[n] \in {"missing", "invalid"}
              /\ n = 0 => \A i \in DOMAIN results : results[i] \in {"match", "differ"}
<1> DEFINE results == Checks(policy, context)
           conditions == policy.def.conditions
           found == {i \in 1..Len(results) : results[i] \in {"missing", "invalid"}}
<1>1. conditions \in Seq(Condition)
  BY DEF Definition
<1>2. /\ results = [i \in 1..Len(conditions) |-> Check(conditions[i], context)]
      /\ DOMAIN conditions = 1..Len(conditions)
  BY <1>1 DEF Checks
<1>3. results \in Seq({"match", "differ", "missing", "invalid"})
  <2>1. \A i \in 1..Len(conditions) :
          Check(conditions[i], context) \in {"match", "differ", "missing", "invalid"}
    BY <1>1, CheckVerdict
  <2>2. Len(conditions) \in Nat
    BY <1>1
  <2> HIDE DEF conditions
  <2>3. QED
    BY <1>2, <2>1, <2>2
<1>4. DOMAIN results = DOMAIN conditions /\ Len(results) \in Nat
      /\ DOMAIN results = 1..Len(results)
  BY <1>2, <1>3
<1>5. Problem(policy, context) = IF found # {} THEN Min(found) ELSE 0
  BY DEF Problem, SelectInSeq
<1>6. found # {} => Min(found) \in found
  <2>1. found \in SUBSET Nat
    BY <1>4
  <2> HIDE DEF found
  <2>2. QED
    BY <2>1, MinIsLeast
<1> HIDE DEF results
<1>7. QED
  BY <1>3, <1>4, <1>5, <1>6 DEF results

\* Of the policies that can be evaluated, those that match and do not allow are
\* those that object.
LEMMA MatchingObjects ==
    ASSUME NEW policy, NEW context \in Contexts, policy.def \in Definition,
           Problem(policy, context) = 0
    PROVE  Objects(policy.def, context) <=>
             policy.def.decision # "ALLOW" /\ Matches(policy, context)
<1> DEFINE conditions == policy.def.conditions
           results == Checks(policy, context)
           matched == {i \in DOMAIN conditions : results[i] = "match"}
           holding == {i \in DOMAIN conditions : Holds(conditions[i], context)}
<1>1. conditions \in Seq(Condition) \ {<< >>} /\ policy.def.match \in {"all", "any"}
  BY DEF Definition
<1>2. DOMAIN conditions # {}
  <2>1. Len(conditions) \in Nat /\ Len(conditions) # 0
    BY <1>1, EmptySeq
  <2>2. 1 \in DOMAIN conditions
    BY <1>1, <2>1
  <2>3. QED
    BY <2>2
<1>3. ASSUME NEW i \in DOMAIN conditions
      PROVE  results[i] = "match" <=> Holds(conditions[i], context)
  <2>1. results[i] \in {"match", "differ"}
    BY ProblemFound
  <2>2. results[i] = Check(conditions[i], context) /\ conditions[i] \in Condition
    BY <1>1 DEF Checks
  <2>3. QED
    BY <2>1, <2>2, CheckVerdict
<1>4. matched = holding
  BY <1>3
<1>5. matched = {i \in DOMAIN conditions : Check(conditions[i], context) = "match"}
  BY DEF Checks
<1>6. /\ Objects(policy.def, context) <=>
           /\ policy.def.decision # "ALLOW" /\ holding # {}
           /\ policy.def.match = "all" => holding = DOMAIN conditions
      /\ Matches(policy, context) <=>
           IF policy.def.match = "all" THEN matched = DOMAIN conditions
           ELSE matched # {}
  BY <1>5 DEF Objects, Matches
<1> HIDE DEF matched, holding, conditions
<1>7. QED
  BY <1>1, <1>2, <1>4, <1>6

-----------------------------------------------------------------------------
(* The loop                                                                *)

NoWinner == [decision |-> "ALLOW", policy |-> None, version |-> None]

\* How a policy counts for the winner: by its priority if it matches.
Weight(policy, context) ==
    IF Matches(policy, context) THEN DECISION_PRIORITY[policy.def.decision] ELSE 0

Wins(policy) ==
    [decision |-> policy.def.decision, policy |-> policy.id,
     version |-> policy.version]

\* w is the result of the loop over the policies at the places s: the first one
\* of the greatest weight, if there is a positive one.
Settled(policies, context, s, w) ==
    LET weight(k) == Weight(policies[k], context) IN
    \/ w = NoWinner /\ \A j \in s : weight(j) = 0
    \/ \E k \in s : /\ weight(k) > 0 /\ w = Wins(policies[k])
                    /\ \A j \in s : /\ weight(j) <= weight(k)
                                    /\ j < k => weight(j) < weight(k)

LEMMA WeightType ==
    ASSUME NEW policy, NEW context, policy.def.decision \in Decisions
    PROVE  /\ Weight(policy, context) \in Nat
           /\ Weight(policy, context) > 0 =>
                /\ Matches(policy, context) /\ policy.def.decision # "ALLOW"
                /\ Weight(policy, context) = DECISION_PRIORITY[policy.def.decision]
           /\ (Matches(policy, context) /\ policy.def.decision # "ALLOW") =>
                Weight(policy, context) > 0
BY DEF Weight, Decisions, DECISION_PRIORITY

\* The loop has one result.
LEMMA SettledOnce ==
    ASSUME NEW policies, NEW context, NEW s \in SUBSET Nat, NEW w, NEW v,
           \A k \in s : policies[k].def.decision \in Decisions,
           Settled(policies, context, s, w), Settled(policies, context, s, v)
    PROVE  w = v
<1> DEFINE weight(k) == Weight(policies[k], context)
<1>1. \A k \in s : weight(k) \in Nat
  BY WeightType
<1> HIDE DEF weight
<1>2. \/ w = NoWinner /\ \A j \in s : weight(j) = 0
      \/ \E k \in s : /\ weight(k) > 0 /\ w = Wins(policies[k])
                      /\ \A j \in s : /\ weight(j) <= weight(k)
                                      /\ j < k => weight(j) < weight(k)
  BY DEF Settled, weight
<1>3. \/ v = NoWinner /\ \A j \in s : weight(j) = 0
      \/ \E k \in s : /\ weight(k) > 0 /\ v = Wins(policies[k])
                      /\ \A j \in s : /\ weight(j) <= weight(k)
                                      /\ j < k => weight(j) < weight(k)
  BY DEF Settled, weight
<1>4. ASSUME NEW k \in s, NEW l \in s,
             \A j \in s : weight(j) <= weight(k) /\ (j < k => weight(j) < weight(k)),
             \A j \in s : weight(j) <= weight(l) /\ (j < l => weight(j) < weight(l))
      PROVE  k = l
  <2>1. weight(k) \in Nat /\ weight(l) \in Nat /\ k \in Nat /\ l \in Nat
    BY <1>1
  <2>2. weight(k) <= weight(l) /\ weight(l) <= weight(k)
    BY <1>4
  <2>3. ~(k < l) /\ ~(l < k)
    BY <1>4, <2>1, <2>2
  <2>4. QED
    BY <2>1, <2>3
<1>5. QED
  BY <1>1, <1>2, <1>3, <1>4

\* One turn of the loop, at the last place of s.
LEMMA SettledNext ==
    ASSUME NEW policies, NEW context, NEW s \in SUBSET Nat, NEW m \in s, NEW w,
           \A k \in s : k <= m /\ policies[k].def.decision \in Decisions,
           Settled(policies, context, s \ {m}, w)
    PROVE  Settled(policies, context, s,
             IF Matches(policies[m], context) THEN Prefer(w, policies[m]) ELSE w)
<1> DEFINE weight(k) == Weight(policies[k], context)
           next == IF Matches(policies[m], context)
                   THEN Prefer(w, policies[m]) ELSE w
<1>1. \A k \in s : weight(k) \in Nat
  BY WeightType
<1>2. Matches(policies[m], context) =>
        weight(m) = DECISION_PRIORITY[policies[m].def.decision]
  BY DEF Weight
<1>3. ~Matches(policies[m], context) => weight(m) = 0
  BY DEF Weight
<1>4. CASE w = NoWinner /\ \A j \in s \ {m} : weight(j) = 0
  <2>1. DECISION_PRIORITY[w.decision] = 0
    BY <1>4 DEF NoWinner, DECISION_PRIORITY
  <2>2. next = IF weight(m) > 0 THEN Wins(policies[m]) ELSE w
    BY <1>1, <1>2, <1>3, <2>1 DEF Prefer, Wins
  <2> HIDE DEF weight, next
  <2>3. CASE weight(m) > 0
    <3>1. \A j \in s : weight(j) <= weight(m) /\ (j < m => weight(j) < weight(m))
      BY <1>1, <1>4, <2>3
    <3>2. QED
      BY <2>2, <2>3, <3>1 DEF Settled, weight, next
  <2>4. CASE ~(weight(m) > 0)
    <3>1. \A j \in s : weight(j) = 0
      BY <1>1, <1>4, <2>4
    <3>2. QED
      BY <1>4, <2>2, <2>4, <3>1 DEF Settled, weight, next
  <2>5. QED
    BY <2>3, <2>4
<1>5. CASE \E k \in s \ {m} :
             /\ weight(k) > 0 /\ w = Wins(policies[k])
             /\ \A j \in s \ {m} : /\ weight(j) <= weight(k)
                                   /\ j < k => weight(j) < weight(k)
  <2>1. PICK k \in s \ {m} :
             /\ weight(k) > 0 /\ w = Wins(policies[k])
             /\ \A j \in s \ {m} : /\ weight(j) <= weight(k)
                                   /\ j < k => weight(j) < weight(k)
    BY <1>5
  <2>2. DECISION_PRIORITY[w.decision] = weight(k)
    BY <2>1, WeightType DEF Wins
  <2>3. next = IF weight(m) > weight(k) THEN Wins(policies[m]) ELSE w
    BY <1>1, <1>2, <1>3, <2>1, <2>2 DEF Prefer, Wins
  <2> HIDE DEF weight, next
  <2>4. ~(m < k) /\ k \in Nat /\ m \in Nat
    OBVIOUS
  <2>5. CASE weight(m) > weight(k)
    <3>1. \A j \in s : weight(j) <= weight(m) /\ (j < m => weight(j) < weight(m))
      BY <1>1, <2>1, <2>5
    <3>2. weight(m) > 0
      BY <1>1, <2>1, <2>5
    <3>3. QED
      BY <2>3, <2>5, <3>1, <3>2 DEF Settled, weight, next
  <2>6. CASE ~(weight(m) > weight(k))
    <3>1. \A j \in s : weight(j) <= weight(k) /\ (j < k => weight(j) < weight(k))
      BY <1>1, <2>1, <2>4, <2>6
    <3>2. QED
      BY <2>1, <2>3, <2>6, <3>1 DEF Settled, weight, next
  <2>7. QED
    BY <2>5, <2>6
<1>6. QED
  BY <1>4, <1>5 DEF Settled

\* The loop over all policies ends with such a result: FoldLeft takes the places
\* of the list from the greatest down and applies the turns on the way back.
LEMMA WinnerSettled ==
    ASSUME NEW n \in Nat, NEW policies, DOMAIN policies = 1..n, NEW context,
           \A k \in 1..n : policies[k].def.decision \in Decisions
    PROVE  Settled(policies, context, 1..n, Winner(policies, context))
<1> DEFINE Turn(w, k) == IF Matches(policies[k], context)
                         THEN Prefer(w, policies[k]) ELSE w
           Result(s, w) == Settled(policies, context, s, w)
<1>1. IsFiniteSet(1..n) /\ (1..n) \in SUBSET Nat
  BY FS_Interval
<1>2. ASSUME NEW s \in SUBSET (1..n), s # {}
      PROVE  /\ Max(s) \in s
             /\ \A w : Result(s \ {Max(s)}, w) => Result(s, Turn(w, Max(s)))
  <2>1. Max(s) \in s /\ \A k \in s : k <= Max(s)
    BY <1>1, <1>2, FS_Subset, MaxIsGreatest
  <2>2. s \in SUBSET Nat /\ \A k \in s : policies[k].def.decision \in Decisions
    BY <1>1
  <2>3. QED
    BY <2>1, <2>2, SettledNext
<1>3. ASSUME NEW s \in SUBSET (1..n), NEW w, NEW v, Result(s, w), Result(s, v)
      PROVE  w = v
  <2>1. s \in SUBSET Nat /\ \A k \in s : policies[k].def.decision \in Decisions
    BY <1>1
  <2>2. QED
    BY <1>3, <2>1, SettledOnce
<1>4. Result({}, NoWinner)
  BY DEF Settled
<1> HIDE DEF Result, Turn
<1>5. ASSUME NEW s \in SUBSET (1..n) PROVE \E w : Result(s, w)
  <2> DEFINE Good == {U \in SUBSET (1..n) : \E w : Result(U, w)}
  <2>1. {} \in Good
    BY <1>4
  <2>2. ASSUME NEW U \in SUBSET s, U # {}, \A x \in U : U \ {x} \in Good
        PROVE  U \in Good
    <3>1. U \in SUBSET (1..n)
      OBVIOUS
    <3>2. U \ {Max(U)} \in Good
      BY <1>2, <2>2, <3>1
    <3>3. PICK w : Result(U \ {Max(U)}, w)
      BY <3>2
    <3>4. Result(U, Turn(w, Max(U)))
      BY <1>2, <2>2, <3>1, <3>3
    <3>5. QED
      BY <3>1, <3>4
  <2>3. IsFiniteSet(s)
    BY <1>1, FS_Subset
  <2> HIDE DEF Good
  <2>4. s \in Good
    BY <2>1, <2>2, <2>3, SmallerSets
  <2>5. QED
    BY <2>4 DEF Good
<1> DEFINE Body(g) == [s \in SUBSET (1..n) |->
                         IF s = {} THEN NoWinner ELSE Turn(g[s \ {Max(s)}], Max(s))]
           h == [s \in SUBSET (1..n) |-> CHOOSE w : Result(s, w)]
           iter == CHOOSE g : g = Body(g)
<1>6. \A s \in SUBSET (1..n) : Result(s, h[s])
  BY <1>5
<1>7. h = Body(h)
  <2>1. h[{}] = NoWinner
    BY <1>3, <1>4, <1>6
  <2>2. ASSUME NEW s \in SUBSET (1..n), s # {}
        PROVE  h[s] = Turn(h[s \ {Max(s)}], Max(s))
    <3> HIDE DEF h
    <3>1. Result(s \ {Max(s)}, h[s \ {Max(s)}])
      BY <1>6
    <3>2. Result(s, Turn(h[s \ {Max(s)}], Max(s)))
      BY <1>2, <2>2, <3>1
    <3>3. QED
      BY <1>3, <1>6, <3>2
  <2>3. h = [s \in SUBSET (1..n) |-> h[s]]
    OBVIOUS
  <2> HIDE DEF h
  <2>4. \A s \in SUBSET (1..n) :
          h[s] = IF s = {} THEN NoWinner ELSE Turn(h[s \ {Max(s)}], Max(s))
    BY <2>1, <2>2
  <2>5. QED
    BY <2>3, <2>4
<1>8. iter = Body(iter)
  <2> HIDE DEF h, Body
  <2>1. \E g : g = Body(g)
    BY <1>7
  <2>2. QED
    BY <2>1
<1>9. Winner(policies, context) = iter[1..n]
  BY DEF Winner, FoldLeft, MapThenFoldSet, Turn, NoWinner
<1> HIDE DEF iter, h
<1>10. /\ iter[{}] = NoWinner
       /\ \A s \in SUBSET (1..n) :
            s # {} => iter[s] = Turn(iter[s \ {Max(s)}], Max(s))
  <2>1. \A s \in SUBSET (1..n) :
          iter[s] = IF s = {} THEN NoWinner ELSE Turn(iter[s \ {Max(s)}], Max(s))
    <3>1. \A s \in SUBSET (1..n) : Body(iter)[s] =
            IF s = {} THEN NoWinner ELSE Turn(iter[s \ {Max(s)}], Max(s))
      OBVIOUS
    <3> HIDE DEF Body
    <3>2. QED
      BY <1>8, <3>1
  <2>2. QED
    BY <2>1
<1> DEFINE Good == {s \in SUBSET (1..n) : Result(s, iter[s])}
<1>11. {} \in Good
  BY <1>4, <1>10
<1>12. ASSUME NEW U \in SUBSET (1..n), U # {}, \A x \in U : U \ {x} \in Good
       PROVE  U \in Good
  <2>1. Max(U) \in U
    BY <1>2, <1>12
  <2>2. Result(U \ {Max(U)}, iter[U \ {Max(U)}])
    BY <1>12, <2>1
  <2>3. Result(U, Turn(iter[U \ {Max(U)}], Max(U)))
    BY <1>2, <1>12, <2>2
  <2>4. QED
    BY <1>10, <1>12, <2>3
<1>13. (1..n) \in Good
  <2> HIDE DEF Good
  <2>1. QED
    BY <1>1, <1>11, <1>12, SmallerSets
<1>14. QED
  BY <1>9, <1>13 DEF Result

-----------------------------------------------------------------------------
(* The decision                                                            *)

\* What an evaluation says about the policies it applied: all of them are in
\* its trace, the decision is their strictest, and it cites the first policy
\* that demands the decision.
ContentsOf(list) == {list[k].def : k \in DOMAIN list}

Demanding(list, context, decision) ==
    {k \in DOMAIN list : /\ Objects(list[k].def, context)
                         /\ list[k].def.decision = decision}

Cites(list, context, e) ==
    LET demands == Demanding(list, context, e.decision) IN
    IF demands = {} THEN e.policy = None /\ e.version = None
    ELSE /\ e.policy = list[Min(demands)].id
         /\ e.version = list[Min(demands)].version

Explains(list, context, e) ==
    /\ e.trace = [k \in DOMAIN list |->
         [id |-> list[k].id, version |-> list[k].version,
          matched |-> Matches(list[k], context)]]
    /\ e.decision = Strictest(ContentsOf(list), context)
    /\ Cites(list, context, e)

\* The result of the loop is the strictest decision, if every condition can be
\* evaluated.
LEMMA WinnerIsStrictest ==
    ASSUME NEW n \in Nat \ {0}, NEW Ids, NEW list \in [1..n -> ListedPolicy(Ids)],
           NEW context \in Contexts,
           \A k \in 1..n : Problem(list[k], context) = 0
    PROVE  LET w == Winner(list, context) IN
           w.decision = Strictest(ContentsOf(list), context) /\ Cites(list, context, w)
<1> DEFINE w == Winner(list, context)
           weight(k) == Weight(list[k], context)
           dec(k) == list[k].def.decision
           defs == ContentsOf(list)
           objections == {d.decision : d \in {e \in defs : Objects(e, context)}}
           demands == Demanding(list, context, w.decision)
<1>1. \A k \in 1..n : list[k].def \in Definition /\ dec(k) \in Decisions
  BY DEF ListedPolicy, Definition
<1>2. Settled(list, context, 1..n, w)
  BY <1>1, WinnerSettled
<1>3. \A k \in 1..n : Objects(list[k].def, context) <=> weight(k) > 0
  BY <1>1, MatchingObjects, WeightType
<1>4. \A k \in 1..n :
        /\ weight(k) \in Nat
        /\ weight(k) > 0 => weight(k) = DECISION_PRIORITY[dec(k)] /\ dec(k) # "ALLOW"
  BY <1>1, WeightType
<1>5. defs # {} /\ \A d : d \in objections <=>
                     \E k \in 1..n : weight(k) > 0 /\ dec(k) = d
  <2>1. 1 \in 1..n
    OBVIOUS
  <2>2. \A d : d \in objections <=>
          \E k \in 1..n : Objects(list[k].def, context) /\ dec(k) = d
    BY DEF ContentsOf
  <2>3. QED
    BY <1>3, <2>1, <2>2 DEF ContentsOf
<1>6. Strictest(defs, context) =
        IF "DENY" \in objections THEN "DENY"
        ELSE IF "REQUIRE_APPROVAL" \in objections THEN "REQUIRE_APPROVAL" ELSE "ALLOW"
  <2> HIDE DEF defs
  <2>1. QED
    BY <1>5 DEF Strictest
<1>7. \/ w = NoWinner /\ \A j \in 1..n : weight(j) = 0
      \/ \E k \in 1..n : /\ weight(k) > 0 /\ w = Wins(list[k])
                         /\ \A j \in 1..n : /\ weight(j) <= weight(k)
                                            /\ j < k => weight(j) < weight(k)
  BY <1>2 DEF Settled
<1>8. demands = {k \in 1..n : weight(k) > 0 /\ dec(k) = w.decision}
  BY <1>3 DEF Demanding
<1> SUFFICES /\ w.decision = Strictest(defs, context)
             /\ IF demands = {} THEN w.policy = None /\ w.version = None
                ELSE /\ w.policy = list[Min(demands)].id
                     /\ w.version = list[Min(demands)].version
  BY DEF Cites
<1> HIDE DEF w, weight, objections, defs, demands
<1>9. CASE w = NoWinner /\ \A j \in 1..n : weight(j) = 0
  <2>1. objections = {} /\ demands = {}
    BY <1>5, <1>8, <1>9
  <2>2. QED
    BY <1>6, <1>9, <2>1 DEF NoWinner
<1>10. ASSUME NEW k \in 1..n, weight(k) > 0, w = Wins(list[k]),
              \A j \in 1..n : /\ weight(j) <= weight(k)
                              /\ j < k => weight(j) < weight(k)
       PROVE  /\ w.decision = Strictest(defs, context)
              /\ k \in demands /\ Min(demands) = k
  <2>1. /\ w.decision = dec(k) /\ dec(k) \in objections /\ k \in demands
        /\ dec(k) \in {"DENY", "REQUIRE_APPROVAL"}
    BY <1>1, <1>4, <1>5, <1>8, <1>10 DEF Wins, Decisions
  <2>2. ASSUME "DENY" \in objections, dec(k) = "REQUIRE_APPROVAL"
        PROVE  FALSE
    <3>1. PICK j \in 1..n : weight(j) > 0 /\ dec(j) = "DENY"
      BY <1>5, <2>2
    <3>2. weight(j) = 2 /\ weight(k) = 1
      BY <1>4, <1>10, <2>2, <3>1 DEF DECISION_PRIORITY
    <3>3. QED
      BY <1>10, <3>2
  <2>3. w.decision = Strictest(defs, context)
    BY <1>6, <2>1, <2>2
  <2>4. demands \in SUBSET Nat
    BY <1>8
  <2>5. Min(demands) \in demands /\ Min(demands) <= k
    BY <2>1, <2>4, MinIsLeast
  <2>6. ASSUME NEW j \in demands PROVE ~(j < k)
    <3>1. weight(j) = weight(k) /\ j \in 1..n
      BY <1>4, <1>8, <1>10, <2>1
    <3>2. QED
      BY <1>4, <1>10, <3>1
  <2>7. QED
    BY <2>1, <2>3, <2>4, <2>5, <2>6
<1>11. QED
  BY <1>7, <1>9, <1>10 DEF Wins

\* e is an explained decision, or the error that a condition without a value, or
\* with a value of another type, raises.
Evaluated(list, context, e) ==
    \/ /\ \A i \in DOMAIN list : Problem(list[i], context) = 0
       /\ e.code = "ok" /\ Explains(list, context, e)
    \/ /\ \E i \in DOMAIN list : Problem(list[i], context) # 0
       /\ e.code \in {"missing", "invalid"} /\ e = Raised(e.code)

\* Evaluating the applicable policies.
LEMMA ApplicableExplained ==
    ASSUME NEW n \in Nat \ {0}, NEW Ids, NEW list \in [1..n -> ListedPolicy(Ids)],
           NEW context \in Contexts
    PROVE  Evaluated(list, context, EvaluateApplicable(list, context))
<1> DEFINE e == EvaluateApplicable(list, context)
           found == {k \in 1..n : Problem(list[k], context) # 0}
           first == FirstProblem(list, context)
           w == Winner(list, context)
<1>1. Len(list) = n /\ DOMAIN list = 1..n
  OBVIOUS
<1>2. first = IF found # {} THEN Min(found) ELSE 0
  BY <1>1 DEF FirstProblem, SelectInSeq
<1>3. CASE found = {}
  <2>1. first = 0 /\ \A k \in 1..n : Problem(list[k], context) = 0
    BY <1>2, <1>3
  <2>2. e = Evaluation(w.decision, w.policy, w.version,
              [i \in 1..n |->
                 [id |-> list[i].id, version |-> list[i].version,
                  matched |-> Matches(list[i], context)]])
    BY <1>1, <2>1 DEF EvaluateApplicable
  <2>3. /\ e.code = "ok" /\ e.decision = w.decision /\ e.policy = w.policy
        /\ e.version = w.version
        /\ e.trace = [i \in 1..n |->
                 [id |-> list[i].id, version |-> list[i].version,
                  matched |-> Matches(list[i], context)]]
    BY <2>2 DEF Evaluation
  <2> HIDE DEF e
  <2>4. w.decision = Strictest(ContentsOf(list), context) /\ Cites(list, context, w)
    BY <2>1, WinnerIsStrictest
  <2> HIDE DEF w
  <2>5. Cites(list, context, e)
    BY <2>3, <2>4 DEF Cites
  <2>6. Explains(list, context, e)
    BY <1>1, <2>3, <2>4, <2>5 DEF Explains
  <2>7. QED
    BY <1>1, <2>1, <2>3, <2>6 DEF e, Evaluated
<1>4. CASE found # {}
  <2>1. found \in SUBSET Nat
    OBVIOUS
  <2>2. first \in found
    BY <1>2, <1>4, <2>1, MinIsLeast
  <2>3. first # 0 /\ first \in 1..n /\ Problem(list[first], context) # 0
    BY <2>2
  <2>4. e = Raised(Checks(list[first], context)[Problem(list[first], context)])
    BY <2>3 DEF EvaluateApplicable
  <2>5. list[first].def \in Definition
    BY <2>3 DEF ListedPolicy
  <2>6. Checks(list[first], context)[Problem(list[first], context)]
          \in {"missing", "invalid"}
    BY <2>3, <2>5, ProblemFound
  <2>7. e.code \in {"missing", "invalid"} /\ e = Raised(e.code)
    BY <2>4, <2>6 DEF Raised
  <2>8. QED
    BY <1>1, <2>3, <2>7 DEF Evaluated
<1>5. QED
  BY <1>3, <1>4

\* list has the n policies for an action, in their order.
ListsApplicable(list, n, policies, action) ==
    LET applicable == {k \in DOMAIN policies : policies[k].def.action = action} IN
    \E order \in [1..n -> applicable] :
      /\ Increasing(order, n)
      /\ \A k \in applicable : \E i \in 1..n : order[i] = k
      /\ \A i \in 1..n : list[i] = policies[order[i]]

\* evaluate_policy decides as documented: for every list of policies, every
\* action and every context it raises exactly if a condition of an applicable
\* policy cannot be evaluated, and otherwise its decision is the strictest
\* demanded (DENY for an action without policies), cites the first policy that
\* demands it, and its trace names all applicable policies in their order.
THEOREM DecidesStrictest ==
    ASSUME NEW Ids, NEW policies \in Seq(ListedPolicy(Ids)), NEW action,
           NEW context \in Contexts
    PROVE  \E n \in Nat : \E list \in [1..n -> ListedPolicy(Ids)] :
             /\ ListsApplicable(list, n, policies, action)
             /\ Evaluated(list, context, EvaluatePolicy(action, context, policies))
<1> DEFINE applicable == {k \in DOMAIN policies : policies[k].def.action = action}
           order == InOrder(applicable)
           n == Cardinality(applicable)
           list == [i \in 1..n |-> policies[order[i]]]
           e == EvaluatePolicy(action, context, policies)
<1>1. applicable \in SUBSET Nat /\ IsFiniteSet(applicable)
  <2>1. IsFiniteSet(1..Len(policies)) /\ applicable \in SUBSET (1..Len(policies))
    BY FS_Interval
  <2>2. QED
    BY <2>1, FS_Subset
<1> HIDE DEF applicable
<1>2. /\ n \in Nat /\ order \in [1..n -> applicable] /\ Increasing(order, n)
      /\ \A i \in applicable : \E k \in 1..n : order[k] = i
  BY <1>1, InOrderLists
<1> HIDE DEF order, n
<1>3. \A i \in 1..n : policies[order[i]] \in ListedPolicy(Ids)
  BY <1>2 DEF applicable
<1>4. list \in [1..n -> ListedPolicy(Ids)] /\ \A i \in 1..n : list[i] = policies[order[i]]
  BY <1>3
<1>5. ListsApplicable(list, n, policies, action)
  <2> HIDE DEF list
  <2>1. QED
    BY <1>2, <1>4 DEF ListsApplicable, applicable
<1>6. e = IF list = << >> THEN Evaluation("DENY", None, None, << >>)
          ELSE EvaluateApplicable(list, context)
  BY <1>2 DEF EvaluatePolicy, applicable, order
<1> HIDE DEF list, e
<1> SUFFICES Evaluated(list, context, e)
  BY <1>2, <1>4, <1>5 DEF e
<1>7. CASE n = 0
  <2>1. list = << >> /\ DOMAIN list = {} /\ 1..n = {}
    BY <1>4, <1>7
  <2>2. /\ e.code = "ok" /\ e.decision = "DENY" /\ e.policy = None
        /\ e.version = None /\ e.trace = << >>
    BY <1>6, <2>1 DEF Evaluation
  <2>3. /\ Strictest(ContentsOf(list), context) = "DENY"
        /\ Cites(list, context, e)
    BY <2>1, <2>2 DEF Strictest, ContentsOf, Cites, Demanding
  <2>4. [k \in DOMAIN list |->
            [id |-> list[k].id, version |-> list[k].version,
             matched |-> Matches(list[k], context)]] = << >>
    BY <2>1
  <2>5. Explains(list, context, e)
    BY <2>1, <2>2, <2>3, <2>4 DEF Explains
  <2>6. QED
    BY <2>1, <2>2, <2>5 DEF Evaluated
<1>8. CASE n # 0
  <2>1. list # << >>
    <3>1. Len(list) = n /\ Len(<< >>) = 0
      BY <1>2, <1>4
    <3>2. QED
      BY <1>8, <3>1
  <2>2. e = EvaluateApplicable(list, context)
    BY <1>6, <2>1
  <2>3. n \in Nat \ {0} /\ list \in [1..n -> ListedPolicy(Ids)]
    BY <1>2, <1>4, <1>8
  <2>4. QED
    BY <2>2, <2>3, ApplicableExplained
<1>9. QED
  BY <1>7, <1>8

=============================================================================
