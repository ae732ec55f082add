------------------------- MODULE MCDecisionLedger -------------------------
(* Instances of DecisionLedger for TLC.                                    *)
EXTENDS DecisionLedger, TLC

IdSymmetry ==
    Permutations(Calls) \cup Permutations(Legacy) \cup Permutations(Bodies)
      \cup Permutations(Starters) \cup Permutations(Projects)
===========================================================================
