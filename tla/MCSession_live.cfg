\* Two operations and three calls in all; no symmetry, as liveness is checked.
SPECIFICATION FairSpec
CONSTANTS
  Ops = {o1, o2}
  Configure = configure
  Lifetimes = {1200}
  MaxCalls = 3
PROPERTIES
  CallsFinish
  MeetsContract
