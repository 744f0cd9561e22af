SPECIFICATION FairIngestSpec
CONSTANTS
  s1 = s1
  s2 = s2
  k1 = k1
  k2 = k2
  Session <- MCSession
  Key <- MCKey
  Target = {t1}
  NoStream = NoStream
  MailboxCapacity = 1
  RestartLimit = 1
  MaxFruitless = 0
INVARIANTS
  RelaysFollowPublication
  StatusCurrent
  IngestTypeOK
  PublisherOwnsStage
  StagedStreamHasOwner
PROPERTIES
  GivenUpUntilNextStage
  OutputEndsAfterPublisher
