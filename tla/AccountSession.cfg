SPECIFICATION Spec
CONSTANTS
  Accounts = {a1, a2}
  NoAccount = nobody
  MaxGrants = 2
  MaxRotations = 1
  MaxAtOnce = 2
INVARIANT TypeOK
INVARIANT NoResurrection
INVARIANT RotationKept
INVARIANT AccessBacked
INVARIANT NeverStuck
SYMMETRY Symmetry
