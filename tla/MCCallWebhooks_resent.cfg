SPECIFICATION Spec
CONSTANTS
  NoLog = NoLog
  Handler = {h1}
  MaxSend = 2
  Faults <- OnlyResend
CHECK_DEADLOCK FALSE
INVARIANT RoutedIsForwarded
