SPECIFICATION Spec
CONSTANTS
  ObjectiveIds = {1}
  Policies <- MCPolicies
  GenKinds = {"queue"}
  FactSets <- MCFacts
  Types = {"RESERVE_CAPACITY"}
  CallerIds = {}
  Lifetimes = {}
  DecideLifetime = 1
  MaxEpoch = 2
  MaxGen = 0
  MaxNow = 2
  MaxIds = 2
PROPERTY ExpiryHonoured
