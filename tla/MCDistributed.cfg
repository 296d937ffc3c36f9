SPECIFICATION Spec
CONSTANTS
  ObjectiveIds = {1}
  Policies <- MCPolicies
  Policy <- MCPolicy
  Workers = {"A", "B"}
  Boots = {1, 2}
  Events = {}
  MaxEpoch = 2
  MaxNow = 0
  ReportSize = 2
  Pid = 4
INVARIANTS  RepliesMatch ReportsAreNew
PROPERTIES DriverFinishes NobodyLeftBehind
CHECK_DEADLOCK FALSE
