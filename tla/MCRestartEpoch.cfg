SPECIFICATION MCSpec
CONSTANTS
  ObjectiveIds = {1}
  Policies <- MCPolicies
  GenKinds = {"queue"}
  FactSets <- MCFacts
  Types = {"QUEUE_SHAPE"}
  CallerIds = {}
  Lifetimes = {}
  DecideLifetime = 1
  Workers = {1}
  Boots = {1}
  Events <- MCEvents
  MaxEpoch = 2
  MaxGen = 0
  MaxNow = 0
  MaxIds = 2
  MaxLoadObjectives = 1
  MaxLoadInterventions = 1
  MaxLoadMarks = 1
PROPERTY RestartAdvancesEpoch
