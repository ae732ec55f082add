CONSTANTS
  Projects = {p1, p2}
  Calls = {c1, c2, c3}
  Legacy = {l1, l2}
  Keys = {k1}
  Bodies = {b1, b2}
  Outcomes = {"ALLOW", "REQUIRE_APPROVAL"}
  Verifiers = {}
  Starters = {s1}
  None = None
  MaxWrites = 0
SPECIFICATION Spec
SYMMETRY IdSymmetry
INVARIANTS TypeOK LedgerIsChain IdempotentAnswers OneTransaction RefusalsAreReal
CHECK_DEADLOCK FALSE
