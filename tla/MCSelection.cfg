SPECIFICATION MCSpec
CONSTANTS
  Objectives <- MCObjectives
  Windows <- MCWindows
  FactSets <- MCFacts
  MaxSlowest = 2
  MaxCount = 3000
INVARIANTS BindingIsWorst TailExplainsVerdict SharesAddUp SelectionIsReasoned 
CHECK_DEADLOCK FALSE
