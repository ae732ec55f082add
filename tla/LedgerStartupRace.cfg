CONSTANTS
  Projects = {p1}
  Calls = {c1}
  Legacy = {l1}
  Keys = {}
  Bodies = {b1, b2}
  Outcomes = {"ALLOW", "REQUIRE_APPROVAL"}
  Verifiers = {}
  Starters = {s1, s2}
  None = None
  MaxWrites = 0
SPECIFICATION Spec
SYMMETRY IdSymmetry
INVARIANT RefusesOnlyPartialLedgers
CHECK_DEADLOCK FALSE
