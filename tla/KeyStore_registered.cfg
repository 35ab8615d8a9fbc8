SPECIFICATION KeySpec
CONSTANTS
  Blank = Blank
  Nil = Nil
  Ids = {k1, k2}
  KeyNames = {n1, n2}
  Togglers = {t1, t2}
  Validators = {v1}
INVARIANTS AcceptedIsRegistered
