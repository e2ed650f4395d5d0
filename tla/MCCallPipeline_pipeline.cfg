SPECIFICATION FairPipelineSpec
CONSTANTS
  NoLog = NoLog
  Handler = {h1, h2}
  MaxSend = 1
  Faults <- ApiFaults
  Attempts = 3
  MaxFaults = 2
  Outcomes <- AnyOutcome
  JobFaults <- WorkerFaults
CHECK_DEADLOCK FALSE
PROPERTY RowOnlyGains
PROPERTY RowIsCompleted
INVARIANT RowMatchesBucket
