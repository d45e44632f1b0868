\* Three operations and four calls in all, configuration included.
SPECIFICATION Spec
CONSTANTS
  Ops = {o1, o2, o3}
  Configure = configure
  Lifetimes = {0, 61, 1200}
  MaxCalls = 4
SYMMETRY OpSymmetry
INVARIANTS
  TypeOK
  MutexMatchesHolder
  NoOperationEvictsAnother
  UnauthorizedOnlyAfterSecondLoss
  EveryLoginNeeded
  RetryUsesAnotherToken
PROPERTIES
  CallsAdvance
