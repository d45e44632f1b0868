\* Every list of up to three rules over two addresses, every configuration.
SPECIFICATION Spec
CONSTANTS
  Macs = {a, b}
  MaxRules = 3
  None = none
  Unset = unset
SYMMETRY Symmetry
INVARIANTS
  TypeOK
  NobodyLockedOut
  KeptRulesSurvive
  SuccessMeansConfigured
  SettledIsUntouched
  FullOnlyWhileFiltering
PROPERTIES
  AdmitsByContract
