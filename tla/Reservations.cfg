SPECIFICATION FairSpec
CONSTANTS
  p1 = p1
  p2 = p2
  t1 = t1
  t2 = t2
  c1 = c1
  Pod = {p1, p2}
  Trans = {t1, t2}
  Comp = {c1}
  On <- MCOn
  Home <- MCHome
  Keys = {1, 2, 3, 4}
  Free = Free
  Ext = Ext
  None = None
  Lent = {c1}
  MaxTiers = 2
  MaxCrash = 1
INVARIANTS
  TypeOK
  Exclusive
  OneTierLate
  KeepsOwn
PROPERTIES
  ReleaseOwn
  Freed
CONSTRAINT StillClaimed
CHECK_DEADLOCK FALSE
