SPECIFICATION Spec
CONSTANTS
  Accounts = {a1}
  NoAccount = nobody
  MaxGrants = 1
  MaxRotations = 0
  MaxAtOnce = 2
INVARIANT ProfileForgotten
