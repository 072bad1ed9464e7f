SPECIFICATION Spec
CONSTANTS
  Values = {default, first, second}
  Default = default
  Broken = {truncated, garbled}
  OutOfRange = {outOfRange}
  Missing = missing
  Locked = locked
INVARIANT RecoversPrevious
