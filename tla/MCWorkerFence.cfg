SPECIFICATION FSpec
CONSTANTS
  ObjectiveIds = {1}
  Policies <- MCPolicies
  GenKinds = {"queue"}
  FactSets <- MCFacts
  Types = {"QUEUE_SHAPE"}
  CallerIds = {}
  Lifetimes = {}
  DecideLifetime = 1
  Workers = {1}
  Boots = {1, 2}
  Events <- MCEvents
  MaxEpoch = 1
  MaxGen = 0
  MaxNow = 0
  MaxIds = 1
PROPERTY DispatchKeepsIncarnation
