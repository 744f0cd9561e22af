SPECIFICATION FairIngestSpec
CONSTANTS
  s1 = s1
  s2 = s2
  k1 = k1
  k2 = k2
  Session = {s1}
  Key = {k1}
  Target = {t1}
  NoStream = NoStream
  MailboxCapacity = 1
  RestartLimit = 1
  MaxFruitless = 0
PROPERTY AbandonedStreamEnds
