\* Every resource, every configuration, one earlier write still pending.
SPECIFICATION FairSpec
CONSTANTS
  Unset = unset
  MaxPending = 2
  MaxRaced = 1
INVARIANTS
  TypeOK
  SuccessMeansInForce
  InForceUpToFailure
  WritesAreRecorded
PROPERTIES
  UnconfiguredKept
  AppliesConfiguration
  OperationsEnd
  OperationsAdvance
