SPECIFICATION FairBreakerSpec
CONSTANTS
  Callers = {r1, r2}
  ProbeCount = 1
  Timeout = 1
  ThresholdNum = 1
  ThresholdDen = 2
  MayPanic = FALSE
  MaxTotal = 11
  MaxFailures = 9
PROPERTIES Recloses
CHECK_DEADLOCK FALSE
