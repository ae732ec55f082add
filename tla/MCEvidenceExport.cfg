CONSTANTS
  Projects = {p1}
  Calls = {c1}
  Legacy = {l1}
  Keys = {}
  Bodies = {b1, b2}
  Outcomes = {"ALLOW", "REQUIRE_APPROVAL"}
  Verifiers = {v1}
  Starters = {s1, s2}
  None = None
  MaxWrites = 2
  Separated = {"REQUIRE_APPROVAL"}
SPECIFICATION ExportSpec
SYMMETRY Symmetry
INVARIANTS ExportTypeOK LedgerIsChain NoFalseAlarm CheckpointHolds VerifiedWasIssued ExportIsComplete BundleIsGenuine OfflineVerifierIsSound
PROPERTIES LedgerIsAppendOnly
CHECK_DEADLOCK FALSE
