--------------------------- MODULE MCControlPlane ---------------------------
(* An instance of ControlPlane for TLC: an amount limit and a check that   *)
(* the account is verified, each as a policy of either strictness.         *)
EXTENDS ControlPlane, TLC

V(type, n) == [type |-> type, n |-> n]

Large == [field |-> "amount", operator |-> "greater_than", value |-> V("int", 1)]
Unverified == [field |-> "verified", operator |-> "equals", value |-> V("bool", 0)]

Limit == [action |-> "pay", match |-> "any", conditions |-> <<Large, Unverified>>,
          decision |-> "REQUIRE_APPROVAL"]
Ban == [action |-> "pay", match |-> "all", conditions |-> <<Unverified, Large>>,
        decision |-> "DENY"]

MCDefinitions == {Limit, Ban}
MCTemplates == [i \in {1} |-> Limit]
MCLegacy == {<<2, [version |-> 2, def |-> Ban, enabled |-> TRUE]>>}
MCCalls ==
    {<<"pay", [amount |-> V("float", 2), verified |-> V("bool", 0)]>>,
     <<"pay", [amount |-> V("int", 2), verified |-> V("bool", 1)]>>,
     <<"pay", [amount |-> V("string", 1), verified |-> None]>>,
     <<"view", [amount |-> None, verified |-> None]>>}

Symmetry == Permutations(Admins) \cup Permutations(Starters)
=============================================================================
