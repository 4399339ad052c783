CONSTANTS
  Child <- Branches
  MaxParallel = 2
  FailFast = TRUE
  Own <- Results
  Handled = {"a", "b", "c"}
  MayError = {"a"}
  Full = {"b"}
  Managers = {"b", "c"}
  MaxCycles = 2
  Setups <- ManagerSetups
SPECIFICATION ManagedSpec
CHECK_DEADLOCK FALSE
INVARIANTS WithinLimit ResultsExplained CancelStopsManagers
PROPERTIES BranchesEnd
