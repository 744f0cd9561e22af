SPECIFICATION Spec
CONSTANTS
  t1 = t1
  t2 = t2
  n1 = n1
  Relay = {r1}
  Target = {t1}
  Name = {n1}
  NameOf <- MCNameOf
  Tested = {t1}
  Client = {c1}
  None = None
  Test = Test
  Slots = 1
PROPERTY DetachedNeverStarts
