SPECIFICATION FairSpec
CONSTANTS
  NoLog = NoLog
  Handler = {h1, h2, h3}
  MaxSend = 2
  Faults <- AllFaults
CHECK_DEADLOCK FALSE
INVARIANT TypeOK
INVARIANT ForwardedOnceAndLogged
INVARIANT CountedAtMostOnce
PROPERTY LogOnlyGains
PROPERTY EndIsRecorded
