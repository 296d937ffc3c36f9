SPECIFICATION RSpec
CONSTANTS
  ObjectiveIds = {1}
  Policies <- MCPolicy
  Workers = {1}
  Boots = {1, 2}
  Events <- MCEvents
  MaxEpoch = 1
  MaxNow = 4
PROPERTY RecoveryIsSustained
