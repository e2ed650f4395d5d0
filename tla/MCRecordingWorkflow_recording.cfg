SPECIFICATION FairJobSpec
CONSTANTS
  NoLog = NoLog
  Attempts = 3
  MaxFaults = 4
  JobFaults <- AllFaults
  Outcomes <- AnyOutcome
CHECK_DEADLOCK FALSE
INVARIANT KeyMeansStored
INVARIANT KpiCountedOnce
INVARIANT FirstAttemptHears
PROPERTY PipelineFinishes
