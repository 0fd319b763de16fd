SPECIFICATION Spec
CONSTANTS
  t1 = t1  t2 = t2  w1 = w1  w2 = w2  s1 = s1  s2 = s2  code = code  mail = mail  None = None
  Tab <- OneTab
  Work <- TwoSlots
  Session <- OneSession
  Question <- Programs
  Sent <- Programs
  Checked <- Programs
  Duration = 1
  Briefing = 1
  Silence = 0
  Grace = 1
  DriveOpen = FALSE
  Scans = FALSE
  Faults = FALSE
  Full = FALSE
  MaxTime = 2
  MaxLoads = 2
INVARIANT SubmittedAsTold
CHECK_DEADLOCK FALSE
