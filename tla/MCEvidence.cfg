SPECIFICATION Spec
CONSTANTS
  ObjectiveIds = {1}
  Policies <- MCPolicies
  Workers = {1}
  Boots = {1, 2}
  Events <- MCEvents
  MaxEpoch = 2
  MaxNow = 4
INVARIANTS TypeOK CurrentEvidenceOnly OneSamplePerRequest RevalidationMeansNoEvidence StreakMatchesState
PROPERTIES NoDirectRecovery VerdictFromFreshEvidence
