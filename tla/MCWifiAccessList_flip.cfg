\* A white list becomes a black list, or back, while it is enforced.
SPECIFICATION Spec
CONSTANTS
  Macs = {a, b}
  MaxRules = 2
  None = none
  Unset = unset
INVARIANTS
  NobodyEverLockedOut
