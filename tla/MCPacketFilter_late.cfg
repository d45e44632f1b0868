\* Two creates, one of which reaches the device after the client gave up on it.
SPECIFICATION FairSpec
CONSTANTS
  Resources = {r1, r2}
  Priorities = {p1}
  Other = other
  None = none
  Disturbances = {"late"}
PROPERTIES
  NoCreateOverwritesAnother
