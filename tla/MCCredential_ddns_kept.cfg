\* The promise of UpdateDDNS about a password that is not configured.
SPECIFICATION FairSpec
CONSTANTS
  Kinds = {"ddns"}
  Passwords = {p1, p2}
  Empty = empty
  Garbled = garbled
  Failed = failed
  ShortTokens = {}
  MaxTokens = 3
PROPERTIES
  PasswordKept
