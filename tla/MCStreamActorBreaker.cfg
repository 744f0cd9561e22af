SPECIFICATION Spec
CONSTANTS
  k1 = k1
  k2 = k2
  t1 = t1
  t2 = t2
  Session = {s1}
  Key = {k1}
  Target = {t1}
  NoStream = NoStream
  MailboxCapacity = 1
  RestartLimit = 5
  MaxFruitless = 6
INVARIANT FruitlessRestartsBounded
