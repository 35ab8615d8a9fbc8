SPECIFICATION PartsSpec
CONSTANTS
  n1 = n1
  n2 = n2
  rule1 = rule1
  badRule = badRule
  spec1 = spec1
  badSpec = badSpec
  up1 = up1
  up2 = up2
  None = None
  Torn = Torn
  RouteIds = {rt1}
  UpstreamIds = {up1, up2}
  PolicyIds = {}
  Names = {n1, n2}
  Rules = {rule1, badRule}
  BadRules = {badRule}
  Specs = {spec1, badSpec}
  BadSpecs = {badSpec}
  RouteBodies <- MCRouteBodies
  UpstreamBodies <- MCUpstreamBodies
  PolicyBodies = {}
  Reloaders = {g1, g2}
  NoRoute = NoRoute
  Letters = {"/", "a", "b"}
  Configs <- MCConfigs
  Requests <- MCRequests
  Found <- MCFound
  Callers = {r1, r2, r3}
  ProbeCount = 2
  Timeout = 2
  ThresholdNum = 1
  ThresholdDen = 2
  MayPanic = TRUE
  MaxTotal = 12
  MaxFailures = 11
INVARIANTS Converged RightRoute PathIntact TripHasEvidence OpenPeriod
PROPERTIES EventuallyCurrent OpenIsRetried
CHECK_DEADLOCK FALSE
