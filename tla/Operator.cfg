SPECIFICATION FairSpec
CONSTANTS
  u1 = u1
  r1 = r1
  p1 = p1
  Upstreams = {u1}
  Routes = {r1}
  Policies = {p1}
  RefOf <- MCRefOf
  s1 = s1
  s2 = s2
  SpecsOf <- MCSpecsOf
  Ids = {i1, i2, i3, i4}
  Populations <- MCPopulations
  None = None
INVARIANTS LinkKept
PROPERTIES CleanRemoval Converges
