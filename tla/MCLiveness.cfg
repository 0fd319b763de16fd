SPECIFICATION FairSpec
CONSTANTS
  r1 = r1  m1 = m1  w = w  t1 = t1  NULL = NULL
  Request <- OneRequest
  Monitor <- OneMonitor
  Worker = w
  Tab <- OneTab
  None = NULL
  Routes = {"begin", "heartbeat", "resume", "submit", "terminal", "remove"}
  DriveStates = {"none", "open"}
  Bullmq = TRUE
  Faults = FALSE
  MaxDisconnectCount = 2
  GraceWindow = 1
  StaleThreshold = 1
  RestartBound = 1
PROPERTIES StaleIsDetected ArmedTimerResolves ExpiredIsSwept
