CONSTANTS
  Chat <- MCChat
  Target = {"token", "channel"}
  PageSize = 2
  MailboxSize = 2
  MaxSettings = 2
  MaxFaults = 1
SPECIFICATION Spec
INVARIANTS
  TypeOK
PROPERTIES
  NothingSkipped
  StatusTruthful
  PollingGoesOn
