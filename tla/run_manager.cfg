CONSTANTS
  Run <- Runs
  Owner <- OneOwner
  Question = {"q1"}
  Client = {c1, c2}
  Nobody = Nobody
SPECIFICATION FairSpec
CHECK_DEADLOCK FALSE
INVARIANTS DoneIsFinal CanceledOnRequest NoOrphanQuestion FirstAnswerWins LaunchedRunsEnd
PROPERTY ShutdownEnds
