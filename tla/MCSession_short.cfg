\* The device advertises a lifetime no longer than the refresh margin.
SPECIFICATION FairSpec
CONSTANTS
  Ops = {o1, o2}
  Configure = configure
  Lifetimes = {60}
  MaxCalls = 4
INVARIANTS
  TransparentReauthentication
