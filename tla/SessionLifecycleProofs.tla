----------------------- MODULE SessionLifecycleProofs -----------------------
(***************************************************************************)
(* Proofs about SessionLifecycle for every number of requests, monitors    *)
(* and tabs and every value of the limits.                                 *)
(***************************************************************************)
EXTENDS SessionLifecycle, TLAPS

\* An age stays an age, and a time that is set stays set, as time passes.
LEMMA Ageing ==
  /\ AgeCap \in Nat /\ 0 \in Age
  /\ \A age \in Age \cup {None} :
       /\ Older(age) \in Age \cup {None}
       /\ age # None => Older(age) # None
<1>1. AgeCap \in Nat /\ AgeCap > 0
  BY LifecycleAssumption DEF AgeCap
<1>2. 0 \in Age
  BY <1>1 DEF Age
<1>3. ASSUME NEW age \in Age \cup {None}
      PROVE  Older(age) \in Age \cup {None} /\ (age # None => Older(age) # None)
  <2>1. CASE age = None \/ age = AgeCap
    BY <2>1 DEF Older
  <2>2. CASE ~(age = None \/ age = AgeCap)
    BY <1>1, <2>2, LifecycleAssumption DEF Older, Age
  <2>3. QED  BY <2>1, <2>2
<1>4. QED  BY <1>1, <1>2, <1>3

\* The initial state is typed.
LEMMA InitTyped == ASSUME Init, DriveStates \subseteq DriveWindows
                   PROVE  TypeOK
BY DEF Init, TypeOK, RowOK, HandlersOK, Statuses, Deadlines, Tasks, Steps

\* What the moves of a handler from one step to another leave behind.
LEMMA GotoTyped ==
  ASSUME HandlersOK, NEW a \in Actor, NEW p \in Steps, Goto(a, p)
  PROVE  HandlersOK'
BY DEF HandlersOK, Goto

\* Reading the row and sampling the clock keeps handlers typed.
LEMMA PrepareTyped ==
  ASSUME HandlersOK, NEW a \in Actor, NEW n \in Nat, Prepare(a, n)
  PROVE  HandlersOK'
BY Ageing DEF HandlersOK, Prepare, Steps

\* Returning keeps handlers typed.
LEMMA ReturnTyped ==
  ASSUME HandlersOK, NEW a \in Actor, Return(a)
  PROVE  HandlersOK'
BY DEF HandlersOK, Return, Tasks, Steps

\* Starting a task keeps handlers typed.
LEMMA StartTyped ==
  ASSUME HandlersOK, NEW a \in Actor, NEW t \in Tasks, NEW p \in Steps,
         Start(a, t, p), UNCHANGED <<since, seen>>,
         tab' \in [Actor -> Tab \cup {None}]
  PROVE  HandlersOK'
BY DEF HandlersOK, Start

\* A step that moves no handler keeps handlers typed.
LEMMA StayTyped ==
  ASSUME HandlersOK, UNCHANGED handlers
  PROVE  HandlersOK'
BY DEF HandlersOK, handlers

-----------------------------------------------------------------------------
(* Type correctness, one lemma per kind of step *)

\* A request that arrives leaves the state typed.
LEMMA ArriveTyped ==
  ASSUME TypeOK, NEW r \in Request, Arrive(r)
  PROVE  TypeOK'
<1> USE DEF TypeOK, row, queue
<1>1. ASSUME NEW t \in Routes, NEW k \in Tab, Guard(r, t, k) PROVE TypeOK'
  <2>1. tab' \in [Actor -> Tab \cup {None}]
    BY <1>1 DEF Guard, HandlersOK
  <2>2. HandlersOK'
    BY <1>1, <2>1, StartTyped DEF Guard, Actor, Tasks, Steps
  <2>3. QED  BY <1>1, <2>2 DEF Guard, RowOK
<1>2. CASE DecisionReceive(r)
  <2>1. HandlersOK'
    BY <1>2, StartTyped DEF DecisionReceive, Actor, Tasks, Steps, HandlersOK
  <2>2. QED  BY <1>2, <2>1 DEF DecisionReceive, RowOK
<1>3. CASE RemoveCandidate(r)
  BY <1>3, StayTyped DEF RemoveCandidate, RowOK, Statuses
<1>4. QED  BY <1>1, <1>2, <1>3 DEF Arrive

\* Every step of a request in flight leaves the state typed.
LEMMA ServeTyped ==
  ASSUME TypeOK, NEW r \in Request, Serve(r)
  PROVE  TypeOK'
<1> USE DEF TypeOK, row, queue
<1>0. r \in Actor /\ {"read", "write", "workspace", "score", "reap", "finish"} \subseteq Steps
  BY DEF Actor, Steps
<1>1. CASE Extend(r)
  BY <1>0, <1>1, GotoTyped DEF Extend, RowOK, Deadlines
<1>2. CASE BeginRead(r)
  BY <1>0, <1>2, PrepareTyped, ReturnTyped DEF BeginRead, RowOK
<1>3. CASE BeginWrite(r)
  BY <1>0, <1>3, GotoTyped DEF BeginWrite, RowOK, HandlersOK, Statuses, Deadlines
<1>4. CASE BeginWorkspace(r)
  BY <1>0, <1>4, ReturnTyped DEF BeginWorkspace, RowOK
<1>5. CASE HeartbeatRead(r)
  BY <1>0, <1>5, PrepareTyped, ReturnTyped DEF HeartbeatRead, RowOK
<1>6. CASE HeartbeatWrite(r)
  BY <1>0, <1>6, ReturnTyped DEF HeartbeatWrite, RowOK, HandlersOK
<1>7. CASE ResumeRead(r)
  BY <1>0, <1>7, PrepareTyped, ReturnTyped DEF ResumeRead, RowOK
<1>8. CASE ResumeWrite(r)
  BY <1>0, <1>8, ReturnTyped DEF ResumeWrite, RowOK, HandlersOK, Statuses
<1>9. CASE CloseRead(r)
  BY <1>0, <1>9, GotoTyped, ReturnTyped DEF CloseRead, RowOK
<1>10. CASE CloseWrite(r)
  BY <1>0, <1>10, GotoTyped DEF CloseWrite, RowOK, Statuses
<1>11. CASE Score(r)
  BY <1>0, <1>11, GotoTyped DEF Score, RowOK
<1>12. CASE Reap(r)
  BY <1>0, <1>12, GotoTyped, ReturnTyped DEF Reap, RowOK
<1>13. CASE ExecuteRead(r)
  BY <1>0, <1>13, GotoTyped, ReturnTyped DEF ExecuteRead, RowOK
<1>14. CASE ExecuteWrite(r)
  BY <1>0, <1>14, ReturnTyped DEF ExecuteWrite, RowOK, Statuses
<1>15. CASE TerminalRun(r)
  BY <1>0, <1>15, ReturnTyped DEF TerminalRun, RowOK
<1>16. CASE DecisionRead(r)
  BY <1>0, <1>16, GotoTyped, ReturnTyped DEF DecisionRead, RowOK
<1>17. CASE DecisionWrite(r)
  BY <1>0, <1>17, ReturnTyped DEF DecisionWrite, RowOK, Statuses
<1>18. QED
  BY <1>1, <1>2, <1>3, <1>4, <1>5, <1>6, <1>7, <1>8, <1>9, <1>10, <1>11,
     <1>12, <1>13, <1>14, <1>15, <1>16, <1>17 DEF Serve

\* Every step of the heartbeat monitor leaves the state typed.
LEMMA MarkTyped ==
  ASSUME TypeOK, NEW m \in Monitor, Mark(m)
  PROVE  TypeOK'
<1> USE DEF TypeOK, row, queue
<1>0. m \in Actor /\ {"read", "write", "log", "log_limit", "enqueue"} \subseteq Steps
  BY DEF Actor, Steps
<1>1. CASE Scan(m)
  <2>1. HandlersOK'
    BY <1>0, <1>1, StartTyped DEF Scan, Tasks, HandlersOK
  <2>2. QED  BY <1>1, <2>1 DEF Scan, RowOK
<1>2. CASE MarkRead(m)
  BY <1>0, <1>2, PrepareTyped, ReturnTyped DEF MarkRead, RowOK
<1>3. CASE MarkLimit(m)
  BY <1>0, <1>3, GotoTyped DEF MarkLimit, RowOK, HandlersOK, Statuses
<1>4. CASE MarkLimitLog(m)
  BY <1>0, <1>4, ReturnTyped DEF MarkLimitLog, RowOK
<1>5. CASE MarkWrite(m)
  BY <1>0, <1>5, GotoTyped DEF MarkWrite, RowOK, HandlersOK, Statuses
<1>6. CASE MarkLog(m)
  BY <1>0, <1>6, GotoTyped DEF MarkLog, RowOK
<1>7. CASE MarkEnqueue(m)
  BY <1>0, <1>7, ReturnTyped, LifecycleAssumption DEF MarkEnqueue, EnqueueGrace, RowOK
<1>8. QED  BY <1>1, <1>2, <1>3, <1>4, <1>5, <1>6, <1>7 DEF Mark

\* Every step of the grace-window worker leaves the state typed.
LEMMA AutoSubmitTyped ==
  ASSUME TypeOK, AutoSubmit
  PROVE  TypeOK'
<1> USE DEF TypeOK, row, queue
<1>0. Worker \in Actor /\ {"read", "write", "score", "reap", "finish"} \subseteq Steps
  BY DEF Actor, Steps
<1>1. CASE Fire
  <2>1. HandlersOK'
    BY <1>0, <1>1, StartTyped DEF Fire, Tasks, HandlersOK
  <2>2. QED  BY <1>1, <2>1 DEF Fire, RowOK
<1>2. CASE AutoRead
  BY <1>0, <1>2, GotoTyped DEF AutoRead, RowOK
<1>3. CASE AutoWrite
  BY <1>0, <1>3, GotoTyped DEF AutoWrite, RowOK, Statuses
<1>4. CASE Score(Worker)
  BY <1>0, <1>4, GotoTyped DEF Score, RowOK
<1>5. CASE Reap(Worker)
  BY <1>0, <1>5, GotoTyped, ReturnTyped DEF Reap, RowOK
<1>6. CASE AutoFinish
  BY <1>0, <1>6, ReturnTyped DEF AutoFinish, RowOK
<1>7. QED  BY <1>1, <1>2, <1>3, <1>4, <1>5, <1>6 DEF AutoSubmit

\* A handler that fails and a restart leave the state typed.
LEMMA FaultTyped ==
  ASSUME TypeOK, Restart \/ (\E a \in Actor : Fail(a))
  PROVE  TypeOK'
<1> USE DEF TypeOK, row, queue
<1>1. CASE Restart
  <2>1. HandlersOK'
    BY <1>1 DEF Restart, HandlersOK, Tasks, Steps
  <2>2. graceJobs' \subseteq 0 .. GraceWindow /\ failedJob' \in BOOLEAN
    <3>1. 0 \in 0 .. GraceWindow
      BY LifecycleAssumption
    <3>2. QED  BY <1>1, <3>1 DEF Restart
  <2>3. RowOK'
    BY <1>1 DEF Restart, RowOK
  <2>4. QED  BY <1>1, <2>1, <2>2, <2>3 DEF Restart
<1>2. ASSUME NEW a \in Actor, Fail(a) PROVE TypeOK'
  BY <1>2, ReturnTyped, LifecycleAssumption DEF Fail, RowOK
<1>3. QED  BY <1>1, <1>2

\* The passing of time leaves the state typed.
LEMMA TickTyped ==
  ASSUME TypeOK, Tick
  PROVE  TypeOK'
<1> USE DEF TypeOK
<1>1. since' \in [Actor -> Age \cup {None}]
  BY Ageing DEF Tick, HandlersOK
<1>2. RowOK'
  BY Ageing DEF Tick, RowOK
<1>3. graceJobs' \subseteq 0 .. GraceWindow
  BY LifecycleAssumption DEF Tick
<1>4. QED  BY <1>1, <1>2, <1>3 DEF Tick, HandlersOK

\* Deadlines and the drive's window leave the state typed.
LEMMA EnvironmentTyped ==
  ASSUME TypeOK, Environment
  PROVE  TypeOK'
BY StayTyped DEF Environment, DeadlinePasses, DriveEnds, CloseEarly, TypeOK,
   RowOK, row, queue, DriveWindows, Deadlines

\* TypeOK is an invariant of the specification: no handler, in any order and
\* under any failure, stores a time, a count or a tab in another's place.
THEOREM TypeCorrect == Spec => []TypeOK
<1>1. Init => TypeOK
  BY InitTyped, LifecycleAssumption
<1>2. TypeOK /\ [Next]_vars => TypeOK'
  <2> SUFFICES ASSUME TypeOK, [Next]_vars PROVE TypeOK'
    OBVIOUS
  <2>1. CASE UNCHANGED vars
    BY <2>1, StayTyped DEF vars, row, queue, TypeOK, RowOK
  <2>2. CASE Next
    BY <2>2, ArriveTyped, ServeTyped, MarkTyped, AutoSubmitTyped, FaultTyped,
       TickTyped, EnvironmentTyped DEF Next
  <2>3. QED  BY <2>1, <2>2
<1>3. QED  BY <1>1, <1>2, PTL DEF Spec

-----------------------------------------------------------------------------
(* What is true of the disconnect bookkeeping, whatever overlaps *)

\* A scan that is about to mark a session has sampled the clock, and while
\* scans do not overlap the count it read is still the row's.
MarkDecided ==
  \A m \in Monitor :
    At(m, "mark", "write") =>
      /\ since[m] # None
      /\ SingleMonitor => seen[m] = disconnectCount

\* The inductive invariant: the row of a disconnected session depends on what
\* the scan that disconnected it had read, so the scan's own facts join it.
DisconnectInv == MarkDecided /\ DisconnectedIsResumable /\ DisconnectsAccounted

\* Every monitor but a is where it was.
Elsewhere(a) ==
  \A m \in Monitor : m # a =>
    task'[m] = task[m] /\ pc'[m] = pc[m] /\ seen'[m] = seen[m] /\ since'[m] = since[m]

\* A handler's move leaves every monitor but itself where it was.
LEMMA MoveElsewhere ==
  ASSUME HandlersOK, NEW a \in Actor,
         \/ \E p : Goto(a, p)
         \/ \E n : Prepare(a, n)
         \/ Return(a)
         \/ (\E t, p : Start(a, t, p)) /\ UNCHANGED <<since, seen>>
         \/ UNCHANGED handlers
  PROVE  Elsewhere(a)
BY DEF Elsewhere, HandlersOK, Goto, Prepare, Return, Start, Actor, handlers

\* A step that moves no monitor, counts nothing and does not disconnect.
Quiet ==
  /\ UNCHANGED <<disconnectCount, disconnectEvents>>
  /\ \A m \in Monitor :
       /\ task'[m] = task[m] /\ pc'[m] = pc[m] /\ seen'[m] = seen[m]
       /\ since[m] # None => since'[m] # None
  /\ status' = "DISCONNECTED" =>
       status = "DISCONNECTED" /\ (disconnectedAt # None => disconnectedAt' # None)

\* A quiet step preserves the inductive invariant.
LEMMA QuietSafe ==
  ASSUME DisconnectInv, Quiet
  PROVE  DisconnectInv'
<1>1. MarkDecided'
  BY DEF DisconnectInv, MarkDecided, Quiet, At, SingleMonitor
<1>2. DisconnectedIsResumable'
  BY DEF DisconnectInv, DisconnectedIsResumable, Quiet
<1>3. MarkUnlogged' = MarkUnlogged
  BY DEF Quiet, MarkUnlogged
<1>4. DisconnectsAccounted'
  BY <1>3 DEF DisconnectInv, DisconnectsAccounted, Quiet, SingleMonitor
<1>5. QED  BY <1>1, <1>2, <1>4 DEF DisconnectInv

\* No request, of a candidate or of staff, disturbs the bookkeeping.
LEMMA RequestQuiet ==
  ASSUME TypeOK, NEW r \in Request, Arrive(r) \/ Serve(r)
  PROVE  Quiet
<1>0. r \in Actor /\ r \notin Monitor /\ HandlersOK
  BY LifecycleAssumption DEF Actor, TypeOK
<1>1. Elsewhere(r)
  <2>1. CASE Arrive(r)
    BY <1>0, <2>1, MoveElsewhere DEF Arrive, Guard, DecisionReceive, RemoveCandidate
  <2>2. CASE Serve(r)
    BY <1>0, <2>2, MoveElsewhere
       DEF Serve, Extend, BeginRead, BeginWrite, BeginWorkspace, HeartbeatRead,
           HeartbeatWrite, ResumeRead, ResumeWrite, CloseRead, CloseWrite, Score,
           Reap, ExecuteRead, ExecuteWrite, TerminalRun, DecisionRead, DecisionWrite
  <2>3. QED  BY <2>1, <2>2
<1>2. /\ UNCHANGED <<disconnectCount, disconnectEvents>>
      /\ status' = "DISCONNECTED" =>
           status = "DISCONNECTED" /\ disconnectedAt' = disconnectedAt
  <2>1. CASE Arrive(r)
    BY <2>1 DEF Arrive, Guard, DecisionReceive, RemoveCandidate, row
  <2>2. CASE Serve(r)
    BY <2>2
       DEF Serve, Extend, BeginRead, BeginWrite, BeginWorkspace, HeartbeatRead,
           HeartbeatWrite, ResumeRead, ResumeWrite, CloseRead, CloseWrite, Score,
           Reap, ExecuteRead, ExecuteWrite, TerminalRun, DecisionRead,
           DecisionWrite, row
  <2>3. QED  BY <2>1, <2>2
<1>3. QED  BY <1>0, <1>1, <1>2 DEF Quiet, Elsewhere

\* Nor does the grace-window worker.
LEMMA AutoSubmitQuiet ==
  ASSUME TypeOK, AutoSubmit
  PROVE  Quiet
<1>0. Worker \in Actor /\ Worker \notin Monitor /\ HandlersOK
  BY LifecycleAssumption DEF Actor, TypeOK
<1>1. Elsewhere(Worker)
  BY <1>0, MoveElsewhere
     DEF AutoSubmit, Fire, AutoRead, AutoWrite, Score, Reap, AutoFinish, handlers
<1>2. /\ UNCHANGED <<disconnectCount, disconnectEvents>>
      /\ status' = "DISCONNECTED" =>
           status = "DISCONNECTED" /\ disconnectedAt' = disconnectedAt
  BY DEF AutoSubmit, Fire, AutoRead, AutoWrite, Score, Reap, AutoFinish, row
<1>3. QED  BY <1>0, <1>1, <1>2 DEF Quiet, Elsewhere

\* Nor does time, a deadline or the end of the drive.
LEMMA TimeQuiet ==
  ASSUME TypeOK, Tick \/ Environment
  PROVE  Quiet
<1>1. CASE Tick
  <2>1. \A m \in Monitor : since[m] # None => since'[m] # None
    BY <1>1, Ageing DEF Tick, TypeOK, HandlersOK, Actor
  <2>2. disconnectedAt # None => disconnectedAt' # None
    BY <1>1, Ageing DEF Tick, TypeOK, RowOK
  <2>3. QED  BY <1>1, <2>1, <2>2 DEF Tick, Quiet
<1>2. CASE Environment
  BY <1>2 DEF Environment, DeadlinePasses, DriveEnds, CloseEarly, Quiet, row, handlers
<1>3. QED  BY <1>1, <1>2

\* A fault only makes handlers forget: no monitor is newly about to mark.
LEMMA FaultSafe ==
  ASSUME TypeOK, DisconnectInv, Restart \/ (\E a \in Actor : Fail(a))
  PROVE  DisconnectInv'
<1>1. UNCHANGED row /\ UNCHANGED disconnectEvents /\ Faults
  BY DEF Restart, Fail
<1>2. \A m \in Monitor :
        \/ task'[m] = None
        \/ task'[m] = task[m] /\ pc'[m] = pc[m] /\ seen'[m] = seen[m] /\ since'[m] = since[m]
  BY DEF Restart, Fail, Return, TypeOK, HandlersOK, Actor
<1>3. None # "mark"
  BY LifecycleAssumption
<1>4. MarkDecided'
  BY <1>1, <1>2, <1>3 DEF DisconnectInv, MarkDecided, At, SingleMonitor, row
<1>5. DisconnectedIsResumable'
  BY <1>1 DEF DisconnectInv, DisconnectedIsResumable, row
<1>6. MarkUnlogged' => MarkUnlogged
  BY <1>2, <1>3 DEF MarkUnlogged
<1>7. DisconnectsAccounted'
  BY <1>1, <1>6 DEF DisconnectInv, DisconnectsAccounted, SingleMonitor, row, TypeOK, RowOK
<1>8. QED  BY <1>4, <1>5, <1>7 DEF DisconnectInv

\* The monitor's own steps.  The scan that writes is the one whose read the
\* invariant speaks of; with a single monitor no other handler is marking.
LEMMA MarkSafe ==
  ASSUME TypeOK, DisconnectInv, NEW m \in Monitor, Mark(m)
  PROVE  DisconnectInv' /\ (SingleMonitor => disconnectCount' >= disconnectCount)
<1> USE DEF At
<1>0. /\ m \in Actor /\ HandlersOK
      /\ disconnectCount \in Nat /\ disconnectEvents \in Nat /\ seen[m] \in Nat
      /\ MaxDisconnectCount \in Nat
  BY LifecycleAssumption DEF Actor, TypeOK, RowOK, HandlersOK
<1>1. Elsewhere(m)
  BY <1>0, MoveElsewhere
     DEF Mark, Scan, MarkRead, MarkLimit, MarkLimitLog, MarkWrite, MarkLog, MarkEnqueue
<1>2. CASE Scan(m) \/ MarkRead(m) \/ MarkEnqueue(m)
  <2>1. UNCHANGED row /\ UNCHANGED disconnectEvents
    BY <1>2 DEF Scan, MarkRead, MarkEnqueue
  <2>2. pc[m] \notin {"log", "log_limit"} \/ task[m] # "mark"
    BY <1>2, LifecycleAssumption DEF Scan, MarkRead, MarkEnqueue, Idle
  <2>3. pc'[m] \notin {"log", "log_limit"}
    BY <1>0, <1>2 DEF Scan, MarkRead, MarkEnqueue, Start, Prepare, Return, HandlersOK
  <2>4. At(m, "mark", "write")' => since'[m] # None /\ seen'[m] = disconnectCount
    BY <1>0, <1>2, LifecycleAssumption
       DEF Scan, MarkRead, MarkEnqueue, Start, Prepare, Return, HandlersOK
  <2>5. MarkDecided'
    BY <1>1, <2>1, <2>4 DEF MarkDecided, Elsewhere, DisconnectInv, SingleMonitor, row
  <2>6. MarkUnlogged' = MarkUnlogged
    BY <1>1, <2>2, <2>3 DEF MarkUnlogged, Elsewhere
  <2>7. QED
    BY <1>0, <2>1, <2>5, <2>6
       DEF DisconnectInv, DisconnectedIsResumable, DisconnectsAccounted, SingleMonitor, row
<1>3. CASE MarkLimit(m) \/ MarkWrite(m)
  <2>1. /\ since[m] # None
        /\ SingleMonitor => seen[m] = disconnectCount
    BY <1>3 DEF MarkLimit, MarkWrite, MarkDecided, DisconnectInv
  <2>2. /\ disconnectCount' = seen[m] + 1 /\ disconnectedAt' = since[m]
        /\ UNCHANGED disconnectEvents
        /\ status' = "DISCONNECTED" => ~AtLimit(seen[m] + 1)
    BY <1>3 DEF MarkLimit, MarkWrite
  <2>3. /\ task'[m] = "mark" /\ pc'[m] \in {"log", "log_limit"}
        /\ pc[m] = "write"
    BY <1>0, <1>3 DEF MarkLimit, MarkWrite, Goto, HandlersOK
  <2>4. MarkDecided'
    BY <1>1, <2>3 DEF MarkDecided, Elsewhere, DisconnectInv, SingleMonitor
  <2>5. DisconnectedIsResumable'
    BY <1>0, <2>1, <2>2 DEF DisconnectedIsResumable, AtLimit
  <2>6. SingleMonitor => ~MarkUnlogged /\ MarkUnlogged'
    BY <2>3 DEF SingleMonitor, MarkUnlogged
  <2>7. DisconnectsAccounted'
    BY <1>0, <2>1, <2>2, <2>6 DEF DisconnectInv, DisconnectsAccounted, SingleMonitor
  <2>8. QED  BY <1>0, <2>1, <2>2, <2>4, <2>5, <2>7 DEF DisconnectInv
<1>4. CASE MarkLimitLog(m) \/ MarkLog(m)
  <2>1. UNCHANGED row /\ disconnectEvents' = disconnectEvents + 1
    BY <1>4 DEF MarkLimitLog, MarkLog
  <2>2. /\ task[m] = "mark" /\ pc[m] \in {"log", "log_limit"}
        /\ pc'[m] \notin {"log", "log_limit", "write"}
    BY <1>0, <1>4 DEF MarkLimitLog, MarkLog, Goto, Return, HandlersOK
  <2>3. MarkDecided'
    BY <1>1, <2>1, <2>2 DEF MarkDecided, Elsewhere, DisconnectInv, SingleMonitor, row
  <2>4. SingleMonitor => MarkUnlogged /\ ~MarkUnlogged'
    BY <2>2 DEF SingleMonitor, MarkUnlogged
  <2>5. QED
    BY <1>0, <2>1, <2>3, <2>4
       DEF DisconnectInv, DisconnectedIsResumable, DisconnectsAccounted, SingleMonitor, row
<1>5. QED  BY <1>2, <1>3, <1>4 DEF Mark

\* Every step preserves the invariant and forgets no disconnect.
LEMMA StepSafe ==
  ASSUME TypeOK, DisconnectInv, [Next]_vars
  PROVE  DisconnectInv' /\ (SingleMonitor => disconnectCount' >= disconnectCount)
<1>0. disconnectCount \in Nat
  BY DEF TypeOK, RowOK
<1>1. CASE Restart \/ \E a \in Actor : Fail(a)
  <2>1. DisconnectInv'
    BY <1>1, FaultSafe
  <2>2. disconnectCount' = disconnectCount
    BY <1>1 DEF Restart, Fail, row
  <2>3. QED  BY <1>0, <2>1, <2>2
<1>2. CASE \E m \in Monitor : Mark(m)
  BY <1>2, MarkSafe
<1>3. CASE (\E r \in Request : Arrive(r) \/ Serve(r)) \/ AutoSubmit \/ Tick \/ Environment
  <2>1. Quiet
    BY <1>3, RequestQuiet, AutoSubmitQuiet, TimeQuiet
  <2>2. QED  BY <1>0, <2>1, QuietSafe DEF Quiet
<1>4. CASE UNCHANGED vars
  <2>1. Quiet
    BY <1>4 DEF vars, row, handlers, Quiet
  <2>2. QED  BY <1>0, <2>1, QuietSafe DEF Quiet
<1>5. QED  BY <1>1, <1>2, <1>3, <1>4 DEF Next

\* The invariant holds initially.
LEMMA InitSafe == ASSUME Init PROVE DisconnectInv
BY LifecycleAssumption
   DEF Init, DisconnectInv, MarkDecided, DisconnectedIsResumable,
       DisconnectsAccounted, MarkUnlogged, At, Actor

\* The inductive invariant holds in every reachable state.
LEMMA DisconnectInvariant == Spec => [](TypeOK /\ DisconnectInv)
<1>1. Init => DisconnectInv
  BY InitSafe
<1>2. TypeOK /\ DisconnectInv /\ [Next]_vars => DisconnectInv'
  BY StepSafe
<1>3. QED  BY <1>1, <1>2, TypeCorrect, PTL DEF Spec

\* resumeSession's branches for a missing disconnect time and for a count at
\* the limit are dead: only the grace window can refuse a resume.
THEOREM DisconnectedStaysResumable == Spec => []DisconnectedIsResumable
<1>1. DisconnectInv => DisconnectedIsResumable
  BY DEF DisconnectInv
<1>2. QED  BY <1>1, DisconnectInvariant, PTL

\* As long as scans do not overlap, the EventLog never shows a disconnect the
\* row does not count, and shows them all when nothing fails.
THEOREM DisconnectsAreAccounted == Spec => []DisconnectsAccounted
<1>1. DisconnectInv => DisconnectsAccounted
  BY DEF DisconnectInv
<1>2. QED  BY <1>1, DisconnectInvariant, PTL

\* As long as scans do not overlap, no handler forgets a disconnect.
THEOREM DisconnectsNeverForgotten == Spec => CountNeverDrops
<1>1. TypeOK /\ DisconnectInv /\ [Next]_vars
        => [SingleMonitor => disconnectCount' >= disconnectCount]_vars
  BY StepSafe
<1>2. QED  BY <1>1, DisconnectInvariant, PTL DEF Spec, CountNeverDrops

-----------------------------------------------------------------------------
(* The automatic submission of a disconnected session *)

\* Every handler but a is where it was.
Others(a) ==
  \A b \in Actor : b # a => task'[b] = task[b] /\ pc'[b] = pc[b]

\* A handler's move leaves every other handler where it was.
LEMMA MoveOthers ==
  ASSUME HandlersOK, NEW a \in Actor,
         \/ \E p : Goto(a, p)
         \/ \E n : Prepare(a, n)
         \/ Return(a)
         \/ \E t, p : Start(a, t, p)
         \/ UNCHANGED handlers
  PROVE  Others(a)
BY DEF Others, HandlersOK, Goto, Prepare, Return, Start, handlers

\* A step of a handler that carries nothing, and that takes no waiting job
\* away, leaves a session as armed as it was.
LEMMA StaysArmed ==
  ASSUME Armed, NEW a \in Actor, Others(a), ~Carries(a),
         graceJobs # {} => graceJobs' # {}
  PROVE  Armed'
BY DEF Armed, Carries, Others

\* No request disconnects a session or touches what carries its submission.
LEMMA RequestArmed ==
  ASSUME TypeOK, NEW r \in Request, Arrive(r) \/ Serve(r), Armed
  PROVE  Armed'
<1>0. r \in Actor /\ HandlersOK
  BY DEF Actor, TypeOK
<1>1. CASE Arrive(r)
  <2>1. Others(r)
    BY <1>0, <1>1, MoveOthers DEF Arrive, Guard, DecisionReceive, RemoveCandidate
  <2>2. Idle(r) /\ UNCHANGED graceJobs
    BY <1>1 DEF Arrive, Guard, DecisionReceive, RemoveCandidate, queue
  <2>3. ~Carries(r)
    BY <2>2, LifecycleAssumption DEF Carries, Idle
  <2>4. QED  BY <1>0, <2>1, <2>2, <2>3, StaysArmed
<1>2. CASE Serve(r)
  <2>1. Others(r)
    BY <1>0, <1>2, MoveOthers
       DEF Serve, Extend, BeginRead, BeginWrite, BeginWorkspace, HeartbeatRead,
           HeartbeatWrite, ResumeRead, ResumeWrite, CloseRead, CloseWrite, Score,
           Reap, ExecuteRead, ExecuteWrite, TerminalRun, DecisionRead, DecisionWrite
  <2>2. ~Carries(r) /\ UNCHANGED graceJobs
    BY <1>2
       DEF Serve, Extend, BeginRead, BeginWrite, BeginWorkspace, HeartbeatRead,
           HeartbeatWrite, ResumeRead, ResumeWrite, CloseRead, CloseWrite, Score,
           Reap, ExecuteRead, ExecuteWrite, TerminalRun, DecisionRead,
           DecisionWrite, At, Carries, queue
  <2>3. QED  BY <1>0, <2>1, <2>2, StaysArmed
<1>3. QED  BY <1>1, <1>2

\* A scan that disconnects a session carries its job until it has added it.
LEMMA MarkArmed ==
  ASSUME TypeOK, NEW m \in Monitor, Mark(m), status = "DISCONNECTED" => Armed,
         status' = "DISCONNECTED"
  PROVE  Armed' \/ AddIgnored
<1> USE DEF At
<1>0. m \in Actor /\ HandlersOK
  BY DEF Actor, TypeOK
<1>1. CASE Scan(m) \/ MarkRead(m) \/ MarkLimitLog(m)
  <2>1. Others(m)
    BY <1>0, <1>1, MoveOthers DEF Scan, MarkRead, MarkLimitLog
  <2>2. ~Carries(m)
    BY <1>1, LifecycleAssumption DEF Scan, MarkRead, MarkLimitLog, Idle, Carries
  <2>3. UNCHANGED <<status, graceJobs>>
    BY <1>1 DEF Scan, MarkRead, MarkLimitLog, row, queue
  <2>4. QED  BY <1>0, <2>1, <2>2, <2>3, StaysArmed
<1>2. CASE MarkLimit(m)
  BY <1>2 DEF MarkLimit
<1>3. CASE MarkWrite(m) \/ MarkLog(m)
  BY <1>0, <1>3 DEF MarkWrite, MarkLog, Goto, HandlersOK, Carries, Armed
<1>4. CASE MarkEnqueue(m) /\ ~JobIdHeld
  BY <1>4 DEF MarkEnqueue, EnqueueGrace, Armed
<1>5. CASE MarkEnqueue(m) /\ JobIdHeld
  BY <1>5 DEF AddIgnored
<1>6. QED  BY <1>1, <1>2, <1>3, <1>4, <1>5 DEF Mark

\* The job carries the submission from the moment it fires, and reads a session
\* that is still disconnected as such.
LEMMA AutoSubmitArmed ==
  ASSUME TypeOK, Bullmq, AutoSubmit, status = "DISCONNECTED" => Armed,
         status' = "DISCONNECTED"
  PROVE  Armed'
<1> USE DEF At
<1>0. Worker \in Actor /\ HandlersOK
  BY DEF Actor, TypeOK
<1>1. CASE Fire
  BY <1>0, <1>1 DEF Fire, JobHandled, Start, HandlersOK, Carries, Armed
<1>2. CASE AutoRead
  BY <1>0, <1>2 DEF AutoRead, Goto, HandlersOK, Carries, Armed, row
<1>3. CASE AutoWrite
  BY <1>3 DEF AutoWrite
<1>4. CASE Score(Worker) \/ Reap(Worker) \/ AutoFinish
  <2>1. Others(Worker)
    BY <1>0, <1>4, MoveOthers DEF Score, Reap, AutoFinish
  <2>2. ~Carries(Worker) /\ UNCHANGED <<status, graceJobs>>
    BY <1>4 DEF Score, Reap, AutoFinish, Carries, row, queue
  <2>3. QED  BY <1>0, <2>1, <2>2, StaysArmed
<1>5. QED  BY <1>1, <1>2, <1>3, <1>4 DEF AutoSubmit

\* A fault that spares the handler that carries the job spares the job: it
\* waits in Redis.
LEMMA FaultArmed ==
  ASSUME TypeOK, Bullmq, Restart \/ (\E a \in Actor : Fail(a)), Armed
  PROVE  Armed' \/ \E a \in Actor : Carries(a) /\ (Fail(a) \/ Restart)
<1>1. CASE \E a \in Actor : Carries(a) /\ (Fail(a) \/ Restart)
  BY <1>1
<1>2. CASE Restart /\ ~ \E a \in Actor : Carries(a)
  BY <1>2 DEF Restart, queue, Armed
<1>3. ASSUME NEW a \in Actor, Fail(a), ~Carries(a) PROVE Armed'
  <2>1. Others(a)
    BY <1>3, MoveOthers DEF Fail, TypeOK
  <2>2. QED  BY <1>3, <2>1, StaysArmed DEF Fail
<1>4. QED  BY <1>1, <1>2, <1>3

\* Neither time nor the drive takes a waiting job away.
LEMMA TimeArmed ==
  ASSUME Tick \/ Environment \/ UNCHANGED vars, Armed
  PROVE  Armed' /\ UNCHANGED status
<1>1. UNCHANGED <<status, task, pc>>
  BY DEF Tick, Environment, DeadlinePasses, DriveEnds, CloseEarly, vars, row, handlers
<1>2. graceJobs # {} => graceJobs' # {}
  BY DEF Tick, Environment, DeadlinePasses, DriveEnds, CloseEarly, vars, queue
<1>3. QED  BY <1>1, <1>2 DEF Armed, Carries

\* Under BullMQ only a fault of the handler that carries it, or a job id that
\* is held by a job which will not act again, loses the automatic submission of
\* a disconnected session.
THEOREM GraceJobIsKept == Spec => GraceStaysArmed
<1>1. TypeOK /\ [Next]_vars
        => [Bullmq /\ (status = "DISCONNECTED" => Armed) /\ status' = "DISCONNECTED" =>
              \/ Armed'
              \/ AddIgnored
              \/ \E a \in Actor : Carries(a) /\ (Fail(a) \/ Restart)]_vars
  <2> SUFFICES ASSUME TypeOK, Next, Bullmq, status = "DISCONNECTED" => Armed,
                      status' = "DISCONNECTED"
               PROVE  \/ Armed'
                      \/ AddIgnored
                      \/ \E a \in Actor : Carries(a) /\ (Fail(a) \/ Restart)
    OBVIOUS
  <2>1. ASSUME NEW r \in Request, Arrive(r) \/ Serve(r) PROVE Armed'
    <3>1. status = "DISCONNECTED"
      BY <2>1
         DEF Arrive, Guard, DecisionReceive, RemoveCandidate, Serve, Extend, BeginRead,
             BeginWrite, BeginWorkspace, HeartbeatRead, HeartbeatWrite, ResumeRead,
             ResumeWrite, CloseRead, CloseWrite, Score, Reap, ExecuteRead,
             ExecuteWrite, TerminalRun, DecisionRead, DecisionWrite, row
    <3>2. QED  BY <2>1, <3>1, RequestArmed
  <2>2. ASSUME NEW m \in Monitor, Mark(m) PROVE Armed' \/ AddIgnored
    BY <2>2, MarkArmed
  <2>3. CASE AutoSubmit
    BY <2>3, AutoSubmitArmed
  <2>4. CASE Restart \/ (\E a \in Actor : Fail(a))
    <3>1. status = "DISCONNECTED"
      BY <2>4 DEF Restart, Fail, row
    <3>2. QED  BY <2>4, <3>1, FaultArmed
  <2>5. CASE Tick \/ Environment
    <3>1. status = "DISCONNECTED"
      BY <2>5 DEF Tick, Environment, DeadlinePasses, DriveEnds, CloseEarly, row
    <3>2. QED  BY <2>5, <3>1, TimeArmed
  <2>6. QED  BY <2>1, <2>2, <2>3, <2>4, <2>5 DEF Next
<1>2. QED  BY <1>1, TypeCorrect, PTL DEF Spec, GraceStaysArmed
=============================================================================
