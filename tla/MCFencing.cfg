SPECIFICATION FSpec
CONSTANTS
  ObjectiveIds = {1, 2}
  Policies <- MCPolicies
  GenKinds = {"queue", "resource"}
  FactSets = {}
  Types = {"QUEUE_SHAPE"}
  CallerIds = {}
  Lifetimes = {}
  DecideLifetime = 0
  MaxEpoch = 2
  MaxGen = 1
  MaxNow = 0
  MaxIds = 1
INVARIANT ContextRemembers
PROPERTIES NoDispatchAcrossFences NoAuthorizationFromStaleEvaluation
