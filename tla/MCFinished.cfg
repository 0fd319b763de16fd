SPECIFICATION Spec
CONSTANTS
  r1 = r1  m1 = m1  w = w  t1 = t1  NULL = NULL
  Request <- OneRequest
  Monitor <- OneMonitor
  Worker = w
  Tab <- OneTab
  None = NULL
  Routes = {"begin"}
  DriveStates = {"none"}
  Bullmq = TRUE
  Faults = FALSE
  MaxDisconnectCount = 1
  GraceWindow = 1
  StaleThreshold = 1
  RestartBound = 1
INVARIANT FinishedIsScoredAndReaped
