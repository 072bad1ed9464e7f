SPECIFICATION FairSpec
CONSTANTS
  Accounts = {a1}
  NoAccount = nobody
  MaxGrants = 1
  MaxRotations = 0
  MaxAtOnce = 2
PROPERTY CommandsEnd
PROPERTY ExitCompletes
