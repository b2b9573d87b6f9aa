\* Three logins of one tab, two of them pending at once, and two page calls.
CONSTANTS
  t1 = t1
  t2 = t2
  t3 = t3
  l1 = l1
  l2 = l2
  f1 = f1
  f2 = f2
  None = None
  Tokens = {t1, t2, t3}
  Logins = {l1, l2}
  Fetches = {f1, f2}
SPECIFICATION FairSpec
INVARIANTS
  TypeOK
  LogoutSticks
  LastLoginStored
PROPERTY RestoreEnds
