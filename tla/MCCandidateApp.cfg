SPECIFICATION FairSpec
CONSTANTS
  t1 = t1  t2 = t2  w1 = w1  w2 = w2  s1 = s1  s2 = s2  code = code  mail = mail  None = None
  Tab <- TwoTabs
  Work <- TwoSlots
  Session <- TwoSessions
  Question <- Everything
  Sent <- Programs
  Checked <- Programs
  Duration = 1
  Briefing = 1
  Silence = 0
  Grace = 1
  DriveOpen = FALSE
  Scans = TRUE
  Faults = TRUE
  Full = TRUE
  MaxTime = 2
  MaxLoads = 2
INVARIANTS TypeOK OneTabWorks DoneIsDelivered
PROPERTIES WorkKept ExpiryEnds
CONSTRAINT Bounded
CHECK_DEADLOCK FALSE
