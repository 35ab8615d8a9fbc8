CONSTANTS
  None = None
  q1 = q1
  q2 = q2
  q3 = q3
  k1 = k1
  k2 = k2
  k3 = k3
  s1 = s1
  Requests <- MCRequests
  KeyOps <- MCKeyOps
  Readers = {s1}
  Undrained = {q3}
  MaxReloads = 1
  Mixes <- MCWatching
  MaxSize = 2
  Burst = 1
  Rate = 1
  SweepAge = 1
  MaxTime = 3
  MaxVersion = 2
  Broken = {}

SPECIFICATION Spec

PROPERTIES
  HotReloads

CHECK_DEADLOCK FALSE
