SPECIFICATION Spec
CONSTANTS
  i1 = i1  i2 = i2  s1 = s1  s2 = s2  d1 = d1  d2 = d2  c1 = c1
  r1 = r1  r2 = r2  a1 = a1  NULL = NULL
  Invite <- TwoInvites
  Session <- TwoSessions
  Drive <- TwoDrives
  Candidate <- OneCandidate
  Starter <- OneStarter
  Staff <- OneStaff
  None = NULL
INVARIANTS TypeOK RedeemedIsLinked LinkedSessionMatches OneActiveSession
SYMMETRY Interchangeable
PROPERTY ActiveLinkKept
