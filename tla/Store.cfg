SPECIFICATION HalvesSpec
CONSTANTS
  n1 = n1
  n2 = n2
  rule1 = rule1
  spec1 = spec1
  None = None
  Torn = Torn
  RouteIds = {rt1, rt2}
  UpstreamIds = {up1, up2}
  PolicyIds = {pol1}
  Names <- MCNames
  Rules = {rule1}
  Specs = {spec1}
  RouteBodies <- MCRouteBodies
  UpstreamBodies <- MCUpstreamBodies
  PolicyBodies <- MCPolicyBodies
  Blank = Blank
  Nil = Nil
  Ids = {k1, k2, k3}
  KeyNames = {kn1, kn2}
  Togglers = {t1, t2}
  Validators = {v1}
SYMMETRY Symmetry
INVARIANTS AlwaysConsistent FileLoadable CleanIsDurable IndexSound KnownKeysDecided
PROPERTIES ImplementsDurableConfig ValidationAtomic
