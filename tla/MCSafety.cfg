SPECIFICATION Spec
CONSTANTS
  r1 = r1  m1 = m1  w = w  t1 = t1  NULL = NULL
  Request <- OneRequest
  Monitor <- OneMonitor
  Worker = w
  Tab <- OneTab
  None = NULL
  Routes = {"begin", "heartbeat", "resume", "close", "run", "decision"}
  DriveStates = {"none"}
  Bullmq = TRUE
  Faults = TRUE
  MaxDisconnectCount = 3
  GraceWindow = 1
  StaleThreshold = 1
  RestartBound = 2
INVARIANTS TypeOK DisconnectedIsResumable DisconnectsAccounted
PROPERTIES CountNeverDrops ImplementsProtocol SettledIsFinal GraceStaysArmed
