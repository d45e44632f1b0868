\* Two passwords and four sessions, the third with a token too short for a key.
SPECIFICATION Spec
CONSTANTS
  Kinds = {"wifi", "ddns"}
  Passwords = {p1, p2}
  Empty = empty
  Garbled = garbled
  Failed = failed
  ShortTokens = {3}
  MaxTokens = 4
INVARIANTS
  TypeOK
PROPERTIES
  NeverWiped
  KeptWithinSession
  WifiKeyKept
  StoresByContract
