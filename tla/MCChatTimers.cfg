CONSTANTS
  Ann = Ann
  Bob = Bob
  Voter = {Ann, Bob}
  Options = {1, 2}
  Ballot <- MCBallot
  Durations = {1, 2}
  ResultsSecs = {1, 2}
  MailboxSize = 2
  MaxCommands = 4
  MaxFailures = 1
  MaxCrashes = 1
SPECIFICATION Spec
INVARIANTS
  TypeOK
  FocusDurable
  OwnExpiryIsLate
  TallyMatchesVotes
PROPERTIES
  PollOnlyMovesForward
  ResultsEventuallyCleared
