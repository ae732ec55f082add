CONSTANTS
  Actions = {"pay", "view"}
  Fields = {"amount", "verified"}
  None = None
  Projects = {dflt, p1}
  Default = dflt
  PolicyIds = {1, 2}
  Definitions <- MCDefinitions
  Templates <- MCTemplates
  Calls <- MCCalls
  Legacy <- MCLegacy
  Keys = {k0, k1}
  ConfiguredKey = k0
  Admins = {a1, a2}
  Starters = {s1}
  Requests = {r1}
  MaxVersion = 1
SPECIFICATION Spec
SYMMETRY Symmetry
INVARIANT EveryChangeAudited
CHECK_DEADLOCK FALSE
