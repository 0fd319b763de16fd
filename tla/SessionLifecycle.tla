-------------------------- MODULE SessionLifecycle --------------------------
(***************************************************************************)
(* One row of the Session table and every handler that writes its status:  *)
(* the candidate's HTTP requests, the coding/SQL endpoints that start a    *)
(* session, the recruiter's decision, the heartbeat monitor's scan and the *)
(* grace-window queue worker.                                              *)
(*                                                                         *)
(* Every handler reads the row, awaits, and then updates it by id with no  *)
(* condition on what it read.  A handler in flight is an actor with a task *)
(* and a program counter; each database call is one step, so handlers      *)
(* interleave between any read and the update it decided.                  *)
(*                                                                         *)
(* EventLog rows are counted only for markDisconnected; the inserts that    *)
(* other handlers make after their update have no reader here, and one     *)
(* that is rejected stops its handler at the step it had reached.          *)
(* submittedAt, startedAt and lastActivityAt decide nothing and are left   *)
(* out.                                                                    *)
(*                                                                         *)
(* Timestamps are kept as ages in ticks, saturated just above the largest  *)
(* threshold the code compares them with; None is SQL NULL.                *)
(***************************************************************************)
EXTENDS Integers

CONSTANTS
  Request,             \* slots for HTTP requests in flight on the session
  Monitor,             \* slots for heartbeat-monitor scans in flight
  Worker,              \* the grace-window queue worker
  Tab,                 \* browser tab ids
  None,                \* SQL NULL, and the task of an idle actor
  Routes,              \* the requests the environment makes
  DriveStates,         \* the drive windows a session may start in
  Bullmq,              \* TRUE: INFRA_MODE=full, FALSE: the in-process queue
  Faults,              \* TRUE: awaited calls may fail, the API may restart
  MaxDisconnectCount,  \* MAX_DISCONNECT_COUNT
  GraceWindow,         \* GRACE_WINDOW_SECONDS, in ticks
  StaleThreshold,      \* HEARTBEAT_STALE_THRESHOLD_SECONDS, in ticks
  RestartBound         \* bound: a run revives the session below this count

Actor == Request \cup Monitor \cup {Worker}

GuardedRoutes == {"begin", "heartbeat", "resume", "close", "run", "submit",
                  "terminal"}
AdminRoutes   == {"decision", "remove"}

Statuses == {"NOT_STARTED", "IN_PROGRESS", "DISCONNECTED", "SUBMITTED",
             "AUTO_SUBMITTED", "ABANDONED", "CLOSED"}

\* Statuses from which candidate removal and the recruiter act on a session.
Active == {"NOT_STARTED", "IN_PROGRESS", "DISCONNECTED"}

\* "driveEnd": moved to the drive's scheduleEnd by the guard.
Deadlines == {"unset", "ahead", "driveEnd", "past"}

\* "none": no drive, "open": not CLOSED and before scheduleEnd, "over": past
\* scheduleEnd, "closed": closed early by staff.
DriveWindows == {"none", "open", "over", "closed"}

AgeCap == 1 + (IF StaleThreshold > GraceWindow THEN StaleThreshold ELSE GraceWindow)
Age    == 0 .. AgeCap

ASSUME LifecycleAssumption ==
  /\ None \notin Int /\ None \notin Tab
  /\ None \notin Actor \cup Statuses
  /\ Request \cap Monitor = {} /\ Worker \notin Request \cup Monitor
  /\ Routes \subseteq GuardedRoutes \cup AdminRoutes
  /\ None \notin GuardedRoutes \cup AdminRoutes \cup {"mark", "auto"}
  /\ DriveStates \subseteq DriveWindows
  /\ Bullmq \in BOOLEAN /\ Faults \in BOOLEAN
  /\ MaxDisconnectCount \in Nat \ {0}
  /\ GraceWindow \in Nat /\ StaleThreshold \in Nat /\ RestartBound \in Nat

VARIABLES
  \* the Session row
  status, disconnectCount, disconnectedAt, lastHeartbeatAt, activeTabId,
  deadlineAt,
  \* the drive's window
  drive,
  \* the grace-window queue: ticks left of each waiting job, and whether a
  \* failed job still holds the job id
  graceJobs, failedJob,
  \* how many EventLog rows markDisconnected wrote
  disconnectEvents,
  \* whether a Score row and a sandbox workspace exist
  scored, workspace,
  \* handlers in flight: route, next step, age of the sampled clock, the
  \* disconnectCount read, the tab of the request
  task, pc, since, seen, tab

row      == <<status, disconnectCount, disconnectedAt, lastHeartbeatAt,
              activeTabId, deadlineAt>>
queue    == <<graceJobs, failedJob>>
handlers == <<task, pc, since, seen, tab>>
vars     == <<row, drive, queue, disconnectEvents, scored, workspace, handlers>>

-----------------------------------------------------------------------------
(* Helpers *)

At(a, t, p) == task[a] = t /\ pc[a] = p
Idle(a)     == task[a] = None

\* The handler starts task t at step p.
Start(a, t, p) ==
  /\ task' = [task EXCEPT ![a] = t]
  /\ pc'   = [pc EXCEPT ![a] = p]

\* The next await of the same handler.
Goto(a, p) ==
  /\ pc' = [pc EXCEPT ![a] = p]
  /\ since' = [since EXCEPT ![a] = None]
  /\ UNCHANGED <<task, seen, tab>>

\* The handler read the row, samples the clock and will store it with its update.
Prepare(a, count) ==
  /\ pc'    = [pc EXCEPT ![a] = "write"]
  /\ since' = [since EXCEPT ![a] = 0]
  /\ seen'  = [seen EXCEPT ![a] = count]
  /\ UNCHANGED <<task, tab>>

\* The handler returns or throws.
Return(a) ==
  /\ task'  = [task EXCEPT ![a] = None]
  /\ pc'    = [pc EXCEPT ![a] = "idle"]
  /\ since' = [since EXCEPT ![a] = None]
  /\ seen'  = [seen EXCEPT ![a] = 0]
  /\ tab'   = [tab EXCEPT ![a] = None]

DeadlinePassed == deadlineAt = "past"

\* startSession creates a NOT_STARTED row; the owner guard, MCQ and proctoring
\* create an IN_PROGRESS one, without a deadline, for an id they do not know.
Init ==
  /\ status \in {"NOT_STARTED", "IN_PROGRESS"} /\ disconnectCount = 0
  /\ disconnectedAt = None /\ lastHeartbeatAt = None /\ activeTabId = None
  /\ deadlineAt = "unset"
  /\ drive \in DriveStates
  /\ graceJobs = {} /\ failedJob = FALSE
  /\ disconnectEvents = 0
  /\ scored = FALSE /\ workspace = FALSE
  /\ task  = [a \in Actor |-> None]
  /\ pc    = [a \in Actor |-> "idle"]
  /\ since = [a \in Actor |-> None]
  /\ seen  = [a \in Actor |-> 0]
  /\ tab   = [a \in Actor |-> None]

-----------------------------------------------------------------------------
(* SessionOwnerGuard, in front of every candidate route *)

\* Mutant of Guard: the deadline is not looked at.
GuardNoDeadline(r, t, k) ==
  /\ Idle(r) /\ t \in Routes \cap GuardedRoutes
  /\ t = "submit" \/ status \notin {"SUBMITTED", "CLOSED", "ABANDONED"}
  /\ Start(r, t, "read")
  /\ tab' = [tab EXCEPT ![r] = IF t \in {"heartbeat", "resume"} THEN k ELSE None]
  /\ UNCHANGED <<row, drive, queue, disconnectEvents, scored, workspace, since, seen>>

\* A refused request changes nothing and is not a step.
Guard(r, t, k) ==
  /\ Idle(r) /\ t \in Routes \cap GuardedRoutes
  /\ t = "submit" \/ status \notin {"SUBMITTED", "CLOSED", "ABANDONED"}
  /\ \/ ~DeadlinePassed /\ Start(r, t, "read")
     \/ DeadlinePassed /\ drive = "open" /\ Start(r, t, "extend")
  /\ tab' = [tab EXCEPT ![r] = IF t \in {"heartbeat", "resume"} THEN k ELSE None]
  /\ UNCHANGED <<row, drive, queue, disconnectEvents, scored, workspace, since,
                 seen>>

\* The guard moves an expired deadline to the drive's scheduleEnd.
Extend(r) ==
  /\ pc[r] = "extend"
  /\ deadlineAt' = IF drive = "over" THEN "past" ELSE "driveEnd"
  /\ Goto(r, "read")
  /\ UNCHANGED <<status, disconnectCount, disconnectedAt, lastHeartbeatAt,
                 activeTabId, drive, queue, disconnectEvents, scored,
                 workspace>>

-----------------------------------------------------------------------------
(* POST /sessions/:id/begin *)

\* Returns the current state unless NOT_STARTED; a drive whose start is more
\* than 20 minutes ago refuses.
BeginRead(r) ==
  /\ At(r, "begin", "read")
  /\ \/ status = "NOT_STARTED" /\ Prepare(r, 0)
     \/ (status # "NOT_STARTED" \/ drive # "none") /\ Return(r)
  /\ UNCHANGED <<row, drive, queue, disconnectEvents, scored, workspace>>

BeginWrite(r) ==
  /\ At(r, "begin", "write")
  /\ status' = "IN_PROGRESS"
  /\ deadlineAt' = "ahead"
  /\ lastHeartbeatAt' = since[r]
  /\ Goto(r, "workspace")
  /\ UNCHANGED <<disconnectCount, disconnectedAt, activeTabId, drive, queue,
                 disconnectEvents, scored, workspace>>

\* A provisioning error is caught and logged.
BeginWorkspace(r) ==
  /\ At(r, "begin", "workspace")
  /\ workspace' \in {TRUE} \cup (IF Faults THEN {workspace} ELSE {})
  /\ Return(r)
  /\ UNCHANGED <<row, drive, queue, disconnectEvents, scored>>

-----------------------------------------------------------------------------
(* POST /sessions/:id/heartbeat *)

HeartbeatRead(r) ==
  /\ At(r, "heartbeat", "read")
  /\ IF status = "IN_PROGRESS" /\ activeTabId \in {None, tab[r]}
       THEN Prepare(r, 0)
       ELSE Return(r)
  /\ UNCHANGED <<row, drive, queue, disconnectEvents, scored, workspace>>

\* Mutant of HeartbeatWrite: the tab and the time are swapped.
HeartbeatWriteSwapped(r) ==
  /\ At(r, "heartbeat", "write")
  /\ lastHeartbeatAt' = tab[r]
  /\ activeTabId' = since[r]
  /\ Return(r)
  /\ UNCHANGED <<status, disconnectCount, disconnectedAt, deadlineAt, drive,
                 queue, disconnectEvents, scored, workspace>>

HeartbeatWrite(r) ==
  /\ At(r, "heartbeat", "write")
  /\ lastHeartbeatAt' = since[r]
  /\ activeTabId' = tab[r]
  /\ Return(r)
  /\ UNCHANGED <<status, disconnectCount, disconnectedAt, deadlineAt, drive,
                 queue, disconnectEvents, scored, workspace>>

-----------------------------------------------------------------------------
(* POST /sessions/:id/resume *)

\* DISCONNECTED, below the disconnect limit, inside the grace window.
Resumable ==
  /\ status = "DISCONNECTED"
  /\ disconnectCount < MaxDisconnectCount
  /\ disconnectedAt # None
  /\ disconnectedAt <= GraceWindow

ResumeRead(r) ==
  /\ At(r, "resume", "read")
  /\ IF Resumable THEN Prepare(r, 0) ELSE Return(r)
  /\ UNCHANGED <<row, drive, queue, disconnectEvents, scored, workspace>>

\* Mutant of ResumeWrite: a successful resume forgives the disconnects.
ResumeWriteForgives(r) ==
  /\ At(r, "resume", "write")
  /\ status' = "IN_PROGRESS"
  /\ activeTabId' = tab[r]
  /\ lastHeartbeatAt' = since[r]
  /\ disconnectedAt' = None
  /\ disconnectCount' = 0
  /\ Return(r)
  /\ UNCHANGED <<deadlineAt, drive, queue, disconnectEvents, scored, workspace>>

ResumeWrite(r) ==
  /\ At(r, "resume", "write")
  /\ status' = "IN_PROGRESS"
  /\ activeTabId' = tab[r]
  /\ lastHeartbeatAt' = since[r]
  /\ disconnectedAt' = None
  /\ Return(r)
  /\ UNCHANGED <<disconnectCount, deadlineAt, drive, queue, disconnectEvents,
                 scored, workspace>>

-----------------------------------------------------------------------------
(* POST /sessions/:id/close *)

\* An already SUBMITTED session returns its timestamp; others are refused.
CloseRead(r) ==
  /\ At(r, "close", "read")
  /\ IF status \in {"IN_PROGRESS", "DISCONNECTED"} /\ ~DeadlinePassed
       THEN Goto(r, "write")
       ELSE Return(r)
  /\ UNCHANGED <<row, drive, queue, disconnectEvents, scored, workspace>>

CloseWrite(r) ==
  /\ At(r, "close", "write")
  /\ status' = "SUBMITTED"
  /\ Goto(r, "score")
  /\ UNCHANGED <<disconnectCount, disconnectedAt, lastHeartbeatAt, activeTabId,
                 deadlineAt, drive, queue, disconnectEvents, scored, workspace>>

\* computeSessionScores and reapWorkspace, shared by close and auto-submit;
\* the caller catches the errors of either.
Score(a) ==
  /\ pc[a] = "score"
  /\ scored' \in {TRUE} \cup (IF Faults THEN {scored} ELSE {})
  /\ Goto(a, "reap")
  /\ UNCHANGED <<row, drive, queue, disconnectEvents, workspace>>

Reap(a) ==
  /\ pc[a] = "reap"
  /\ workspace' \in {FALSE} \cup (IF Faults THEN {workspace} ELSE {})
  /\ IF task[a] = "close" THEN Return(a) ELSE Goto(a, "finish")
  /\ UNCHANGED <<row, drive, queue, disconnectEvents, scored>>

-----------------------------------------------------------------------------
(* Coding and SQL endpoints: they start a session that has not begun, and  *)
(* "run" also revives an AUTO_SUBMITTED one.                                *)

StartsSession(t) ==
  \/ status = "NOT_STARTED"
  \/ t = "run" /\ status = "AUTO_SUBMITTED" /\ disconnectCount < RestartBound

ExecuteRead(r) ==
  /\ task[r] \in {"run", "submit"} /\ pc[r] = "read"
  /\ IF StartsSession(task[r]) THEN Goto(r, "write") ELSE Return(r)
  /\ UNCHANGED <<row, drive, queue, disconnectEvents, scored, workspace>>

ExecuteWrite(r) ==
  /\ task[r] \in {"run", "submit"} /\ pc[r] = "write"
  /\ status' = "IN_PROGRESS"
  /\ Return(r)
  /\ UNCHANGED <<disconnectCount, disconnectedAt, lastHeartbeatAt, activeTabId,
                 deadlineAt, drive, queue, disconnectEvents, scored, workspace>>

\* A simulation terminal command provisions the workspace again if it is gone.
TerminalRun(r) ==
  /\ At(r, "terminal", "read")
  /\ workspace' = TRUE
  /\ Return(r)
  /\ UNCHANGED <<row, drive, queue, disconnectEvents, scored>>

-----------------------------------------------------------------------------
(* Staff: a recruiter's decision and a candidate's removal from the drive *)

DecisionReceive(r) ==
  /\ Idle(r) /\ "decision" \in Routes
  /\ Start(r, "decision", "read")
  /\ UNCHANGED <<row, drive, queue, disconnectEvents, scored, workspace, since,
                 seen, tab>>

DecisionRead(r) ==
  /\ At(r, "decision", "read")
  /\ IF status \in Active THEN Goto(r, "write") ELSE Return(r)
  /\ UNCHANGED <<row, drive, queue, disconnectEvents, scored, workspace>>

DecisionWrite(r) ==
  /\ At(r, "decision", "write")
  /\ status' = "SUBMITTED"
  /\ Return(r)
  /\ UNCHANGED <<disconnectCount, disconnectedAt, lastHeartbeatAt, activeTabId,
                 deadlineAt, drive, queue, disconnectEvents, scored, workspace>>

\* updateMany ... where status is active: the one conditional status write.
RemoveCandidate(r) ==
  /\ Idle(r) /\ "remove" \in Routes
  /\ drive # "none" /\ status \in Active
  /\ status' = "ABANDONED"
  /\ UNCHANGED <<disconnectCount, disconnectedAt, lastHeartbeatAt, activeTabId,
                 deadlineAt, drive, queue, disconnectEvents, scored, workspace,
                 handlers>>

-----------------------------------------------------------------------------
(* Heartbeat monitor: scan, then markDisconnected *)

\* Mutant of Stale: a session that never sent a heartbeat is not selected.
StaleIgnoresNull ==
  /\ status = "IN_PROGRESS"
  /\ lastHeartbeatAt # None /\ lastHeartbeatAt > StaleThreshold

Stale ==
  /\ status = "IN_PROGRESS"
  /\ \/ lastHeartbeatAt = None
     \/ lastHeartbeatAt # None /\ lastHeartbeatAt > StaleThreshold

Scan(m) ==
  /\ Idle(m) /\ Stale
  /\ Start(m, "mark", "read")
  /\ UNCHANGED <<row, drive, queue, disconnectEvents, scored, workspace, since,
                 seen, tab>>

\* Mutant of MarkRead: the scan's word is taken, the row is read for its count only.
MarkReadTrusts(m) ==
  /\ At(m, "mark", "read")
  /\ Prepare(m, disconnectCount)
  /\ UNCHANGED <<row, drive, queue, disconnectEvents, scored, workspace>>

MarkRead(m) ==
  /\ At(m, "mark", "read")
  /\ IF status = "IN_PROGRESS" THEN Prepare(m, disconnectCount) ELSE Return(m)
  /\ UNCHANGED <<row, drive, queue, disconnectEvents, scored, workspace>>

\* Mutant of AtLimit: one disconnect too many.
AtLimitLate(count) == count > MaxDisconnectCount

AtLimit(count) == count >= MaxDisconnectCount

\* The disconnect that reaches the limit submits the session at once ...
MarkLimit(m) ==
  /\ At(m, "mark", "write") /\ AtLimit(seen[m] + 1)
  /\ status' = "AUTO_SUBMITTED"
  /\ disconnectCount' = seen[m] + 1
  /\ disconnectedAt' = since[m]
  /\ Goto(m, "log_limit")
  /\ UNCHANGED <<lastHeartbeatAt, activeTabId, deadlineAt, drive, queue,
                 disconnectEvents, scored, workspace>>

MarkLimitLog(m) ==
  /\ At(m, "mark", "log_limit")
  /\ disconnectEvents' = disconnectEvents + 1
  /\ Return(m)
  /\ UNCHANGED <<row, drive, queue, scored, workspace>>

\* Mutant of MarkWrite: the count read is written back unchanged.
MarkWriteSameCount(m) ==
  /\ At(m, "mark", "write") /\ ~AtLimit(seen[m] + 1)
  /\ status' = "DISCONNECTED"
  /\ disconnectedAt' = since[m]
  /\ disconnectCount' = seen[m]
  /\ activeTabId' = None
  /\ Goto(m, "log")
  /\ UNCHANGED <<lastHeartbeatAt, deadlineAt, drive, queue, disconnectEvents,
                 scored, workspace>>

\* ... any other one opens the grace window.
MarkWrite(m) ==
  /\ At(m, "mark", "write") /\ ~AtLimit(seen[m] + 1)
  /\ status' = "DISCONNECTED"
  /\ disconnectedAt' = since[m]
  /\ disconnectCount' = seen[m] + 1
  /\ activeTabId' = None
  /\ Goto(m, "log")
  /\ UNCHANGED <<lastHeartbeatAt, deadlineAt, drive, queue, disconnectEvents,
                 scored, workspace>>

\* Mutant of MarkLog: the monitor is done once the event is logged.
MarkLogOnly(m) ==
  /\ At(m, "mark", "log")
  /\ disconnectEvents' = disconnectEvents + 1
  /\ Return(m)
  /\ UNCHANGED <<row, drive, queue, scored, workspace>>

MarkLog(m) ==
  /\ At(m, "mark", "log")
  /\ disconnectEvents' = disconnectEvents + 1
  /\ Goto(m, "enqueue")
  /\ UNCHANGED <<row, drive, queue, scored, workspace>>

\* BullMQ ignores an add whose job id is held by a waiting, active or failed
\* job; the in-process queue has no job ids.
JobIdHeld == graceJobs # {} \/ ~Idle(Worker) \/ failedJob

EnqueueGrace ==
  graceJobs' = IF Bullmq /\ JobIdHeld THEN graceJobs
                                      ELSE graceJobs \cup {GraceWindow}

MarkEnqueue(m) ==
  /\ At(m, "mark", "enqueue")
  /\ EnqueueGrace
  /\ Return(m)
  /\ UNCHANGED <<row, drive, failedJob, disconnectEvents, scored, workspace>>

-----------------------------------------------------------------------------
(* Grace-window worker: autoSubmit *)

GraceJobName  == "auto-submit"
LocalHandlers == {"disconnect-grace-window"}

\* Mutant of JobHandled: the processor also dispatches on the job's name.
JobHandledByName == GraceJobName \in LocalHandlers

\* The BullMQ processor takes any job of its queue; the in-process queue
\* looks the handler up by job name and drops a timer that has none.
JobHandled == Bullmq \/ GraceJobName \in LocalHandlers

Fire ==
  /\ Idle(Worker) /\ 0 \in graceJobs
  /\ graceJobs' = graceJobs \ {0}
  /\ IF JobHandled THEN Start(Worker, "auto", "read") ELSE UNCHANGED <<task, pc>>
  /\ UNCHANGED <<row, drive, failedJob, disconnectEvents, scored, workspace,
                 since, seen, tab>>

\* Mutant of AutoRead: only a submitted session is left alone.
AutoReadLoose ==
  /\ At(Worker, "auto", "read")
  /\ IF status # "SUBMITTED" THEN Goto(Worker, "write") ELSE Goto(Worker, "finish")
  /\ UNCHANGED <<row, drive, queue, disconnectEvents, scored, workspace>>

AutoRead ==
  /\ At(Worker, "auto", "read")
  /\ IF status = "DISCONNECTED" THEN Goto(Worker, "write") ELSE Goto(Worker, "finish")
  /\ UNCHANGED <<row, drive, queue, disconnectEvents, scored, workspace>>

AutoWrite ==
  /\ At(Worker, "auto", "write")
  /\ status' = "AUTO_SUBMITTED"
  /\ Goto(Worker, "score")
  /\ UNCHANGED <<disconnectCount, disconnectedAt, lastHeartbeatAt, activeTabId,
                 deadlineAt, drive, queue, disconnectEvents, scored, workspace>>

\* The processor returns; removeOnComplete frees the job id.
AutoFinish ==
  /\ At(Worker, "auto", "finish")
  /\ Return(Worker)
  /\ UNCHANGED <<row, drive, queue, disconnectEvents, scored, workspace>>

-----------------------------------------------------------------------------
(* Failures *)

\* An awaited call rejects outside a try block: the handler stops there. The
\* monitor catches per session; a failed job keeps its id (removeOnFail).
Fail(a) ==
  /\ Faults /\ ~Idle(a)
  /\ Return(a)
  /\ failedJob' = (failedJob \/ (a = Worker /\ Bullmq))
  /\ UNCHANGED <<row, drive, graceJobs, disconnectEvents, scored, workspace>>

\* The API process restarts.  BullMQ jobs survive in Redis: an active one is
\* found stalled and queued again, or failed when it stalled before.
\* In-process timers are gone.
Restart ==
  /\ Faults
  /\ task'  = [a \in Actor |-> None]
  /\ pc'    = [a \in Actor |-> "idle"]
  /\ since' = [a \in Actor |-> None]
  /\ seen'  = [a \in Actor |-> 0]
  /\ tab'   = [a \in Actor |-> None]
  /\ \/ ~Bullmq /\ graceJobs' = {} /\ UNCHANGED failedJob
     \/ Bullmq /\ Idle(Worker) /\ UNCHANGED queue
     \/ Bullmq /\ ~Idle(Worker) /\ graceJobs' = graceJobs \cup {0} /\ UNCHANGED failedJob
     \/ Bullmq /\ ~Idle(Worker) /\ failedJob' = TRUE /\ UNCHANGED graceJobs
  /\ UNCHANGED <<row, drive, disconnectEvents, scored, workspace>>

-----------------------------------------------------------------------------
(* Time and the drive *)

Older(age) == IF age = None \/ age = AgeCap THEN age ELSE age + 1

Tick ==
  /\ disconnectedAt'  = Older(disconnectedAt)
  /\ lastHeartbeatAt' = Older(lastHeartbeatAt)
  /\ since'     = [a \in Actor |-> Older(since[a])]
  /\ graceJobs' = {IF j = 0 THEN 0 ELSE j - 1 : j \in graceJobs}
  /\ UNCHANGED <<status, disconnectCount, activeTabId, deadlineAt, drive,
                 failedJob, disconnectEvents, scored, workspace, task, pc,
                 seen, tab>>

\* The session's own deadline, or the scheduleEnd it was moved to and that an
\* early close of the drive has since replaced.
DeadlinePasses ==
  /\ deadlineAt = "ahead" \/ (deadlineAt = "driveEnd" /\ drive = "closed")
  /\ deadlineAt' = "past"
  /\ UNCHANGED <<status, disconnectCount, disconnectedAt, lastHeartbeatAt,
                 activeTabId, drive, queue, disconnectEvents, scored,
                 workspace, handlers>>

DriveEnds ==
  /\ drive = "open"
  /\ drive' = "over"
  /\ deadlineAt' = IF deadlineAt = "driveEnd" THEN "past" ELSE deadlineAt
  /\ UNCHANGED <<status, disconnectCount, disconnectedAt, lastHeartbeatAt,
                 activeTabId, queue, disconnectEvents, scored, workspace,
                 handlers>>

\* closeEarly sets scheduleEnd to now and leaves the sessions alone.
CloseEarly ==
  /\ drive = "open"
  /\ drive' = "closed"
  /\ UNCHANGED <<row, queue, disconnectEvents, scored, workspace, handlers>>

-----------------------------------------------------------------------------
(* Specification *)

\* A request under way is served to its end.
Serve(r) ==
  \/ Extend(r)
  \/ BeginRead(r) \/ BeginWrite(r) \/ BeginWorkspace(r)
  \/ HeartbeatRead(r) \/ HeartbeatWrite(r)
  \/ ResumeRead(r) \/ ResumeWrite(r)
  \/ CloseRead(r) \/ CloseWrite(r) \/ Score(r) \/ Reap(r)
  \/ ExecuteRead(r) \/ ExecuteWrite(r) \/ TerminalRun(r)
  \/ DecisionRead(r) \/ DecisionWrite(r)

Mark(m) ==
  \/ Scan(m) \/ MarkRead(m)
  \/ MarkLimit(m) \/ MarkLimitLog(m)
  \/ MarkWrite(m) \/ MarkLog(m) \/ MarkEnqueue(m)

AutoSubmit ==
  \/ Fire \/ AutoRead \/ AutoWrite
  \/ Score(Worker) \/ Reap(Worker) \/ AutoFinish

Arrive(r) ==
  \/ \E t \in Routes, k \in Tab : Guard(r, t, k)
  \/ DecisionReceive(r)
  \/ RemoveCandidate(r)

Environment == DeadlinePasses \/ DriveEnds \/ CloseEarly

Next ==
  \/ \E r \in Request : Arrive(r) \/ Serve(r)
  \/ \E m \in Monitor : Mark(m)
  \/ AutoSubmit
  \/ \E a \in Actor : Fail(a)
  \/ Restart
  \/ Tick
  \/ Environment

\* The server finishes what it started, the scan and the worker run again and
\* again, time passes; candidates and staff may do nothing more.
Fairness ==
  /\ \A r \in Request : WF_vars(Serve(r))
  /\ \A m \in Monitor : WF_vars(Mark(m))
  /\ WF_vars(AutoSubmit)
  /\ WF_vars(Tick)

Spec     == Init /\ [][Next]_vars
FairSpec == Spec /\ Fairness

-----------------------------------------------------------------------------
(* Safety *)

Tasks == Routes \cup {"mark", "auto", None}
Steps == {"idle", "extend", "read", "write", "workspace", "log", "log_limit",
          "enqueue", "score", "reap", "finish"}

RowOK ==
  /\ status \in Statuses
  /\ disconnectCount \in Nat
  /\ disconnectedAt \in Age \cup {None}
  /\ lastHeartbeatAt \in Age \cup {None}
  /\ activeTabId \in Tab \cup {None}
  /\ deadlineAt \in Deadlines

HandlersOK ==
  /\ task  \in [Actor -> Tasks]
  /\ pc    \in [Actor -> Steps]
  /\ since \in [Actor -> Age \cup {None}]
  /\ seen  \in [Actor -> Nat]
  /\ tab   \in [Actor -> Tab \cup {None}]

\* Every column, queue entry and handler has its type: no handler stores a
\* time, a count or a tab in another's column.
TypeOK ==
  /\ RowOK /\ HandlersOK
  /\ drive \in DriveWindows
  /\ graceJobs \subseteq 0 .. GraceWindow /\ failedJob \in BOOLEAN
  /\ disconnectEvents \in Nat
  /\ scored \in BOOLEAN /\ workspace \in BOOLEAN

\* A DISCONNECTED row always has a disconnect time and a count strictly between
\* zero and the limit, whichever handlers overlap: resumeSession's 410
\* MAX_DISCONNECTS_REACHED and its "should not happen" branch for a missing
\* disconnectedAt are never taken, only the window itself can refuse a resume.
DisconnectedIsResumable ==
  status = "DISCONNECTED" =>
    /\ disconnectedAt # None
    /\ 0 < disconnectCount /\ disconnectCount < MaxDisconnectCount

\* The monitor does not overlap with itself: one scan at a time.
SingleMonitor == \A m, n \in Monitor : m = n

\* The candidate's disconnects are never forgotten: markDisconnected computes
\* the count from a row it read before its await, yet no handler of any kind
\* makes it go down as long as scans do not overlap.
CountNeverDrops ==
  [][SingleMonitor => disconnectCount' >= disconnectCount]_vars

\* Audit trail: the EventLog rows written by markDisconnected are never more
\* than the disconnects counted on the row, and when nothing fails they lag by
\* exactly the handlers that have still to write theirs.
MarkUnlogged == \E m \in Monitor : task[m] = "mark" /\ pc[m] \in {"log", "log_limit"}

DisconnectsAccounted ==
  SingleMonitor =>
    LET logged == disconnectEvents + (IF MarkUnlogged THEN 1 ELSE 0)
    IN  /\ logged <= disconnectCount
        /\ ~Faults => logged = disconnectCount

-----------------------------------------------------------------------------
(* Refinement: the status column follows StatusProtocol *)

Target(a) ==
  CASE task[a] \in {"begin", "resume", "run", "submit"} -> "IN_PROGRESS"
    [] task[a] \in {"close", "decision"} -> "SUBMITTED"
    [] task[a] = "auto" \/ (task[a] = "mark" /\ AtLimit(seen[a] + 1)) -> "AUTO_SUBMITTED"
    [] task[a] = "mark" /\ ~AtLimit(seen[a] + 1) -> "DISCONNECTED"
    [] OTHER -> None

Intent == [a \in Actor |-> IF pc[a] = "write" THEN Target(a) ELSE None]

\* Whatever the interleaving, a status is only ever written by a handler that
\* had read a status it may leave that way, and a candidate's removal is the
\* only write decided and made in one statement.
Protocol == INSTANCE StatusProtocol WITH intent <- Intent
ImplementsProtocol == Protocol!Spec

\* A session that is SUBMITTED or ABANDONED while no handler that had read it
\* earlier is about to write its status stays so for ever: of the twelve places
\* that write a status none decides to leave these two.  (While one has, SUBMITTED
\* may still become DISCONNECTED, AUTO_SUBMITTED or IN_PROGRESS.)
SettledIsFinal == Protocol!SettledIsFinal

\* What InviteRedemption relies on in its Progress and Revive.
FollowsStages == Protocol!StagesFollow

-----------------------------------------------------------------------------
(* The grace window and its job *)

\* A handler that will add the grace job of a disconnect it has written, or
\* that is the job and has yet to act on it.
Carries(a) ==
  \/ task[a] = "mark" /\ pc[a] \in {"log", "enqueue"}
  \/ task[a] = "auto" /\ pc[a] \in {"read", "write"}

Armed == graceJobs # {} \/ \E a \in Actor : Carries(a)

\* The add is ignored for a job that has failed or has already acted.
AddIgnored == \E m \in Monitor : MarkEnqueue(m) /\ JobIdHeld

\* Under BullMQ a disconnected session loses its automatic submission in two
\* ways only: the very handler that carries it fails or dies with the process,
\* or its job id is held by a job that will not act again.  No overlap of
\* disconnects, resumes, scans and an older job that is still running does.
GraceStaysArmed ==
  [][Bullmq /\ (status = "DISCONNECTED" => Armed) /\ status' = "DISCONNECTED" =>
       \/ Armed'
       \/ AddIgnored
       \/ \E a \in Actor : Carries(a) /\ (Fail(a) \/ Restart)]_vars

-----------------------------------------------------------------------------
(* Liveness, under FairSpec *)

\* A session without a recent heartbeat, a session that never sent one
\* included, is noticed by the monitor.
Silent == status = "IN_PROGRESS" /\ lastHeartbeatAt \notin 0 .. StaleThreshold

StaleIsDetected == Silent ~> ~Silent

\* A disconnected session with a grace job waiting is resumed or submitted.
ArmedTimerResolves ==
  (status = "DISCONNECTED" /\ graceJobs # {}) ~> status # "DISCONNECTED"

\* A session past its deadline in a drive that is not open does not stay
\* IN_PROGRESS: its heartbeats are refused, so the monitor takes it.
ExpiredIsSwept ==
  (status = "IN_PROGRESS" /\ DeadlinePassed /\ drive # "open")
    ~> ~(status = "IN_PROGRESS" /\ DeadlinePassed)

-----------------------------------------------------------------------------
(* What the repository's texts promise and the code does not keep *)

\* autoSubmit's comment: only a session still DISCONNECTED after the grace
\* window is auto-submitted.
GraceWindowHonoured ==
  [][status = "DISCONNECTED" /\ status' = "AUTO_SUBMITTED"
       => disconnectedAt >= GraceWindow]_vars

\* reapWorkspace's comment: the workspace goes when a session completes or
\* expires; closeSession's: scores are calculated upon submission.
FinishedIsScoredAndReaped ==
  status \in {"SUBMITTED", "AUTO_SUBMITTED"} /\ (\A a \in Actor : Idle(a))
    => scored /\ ~workspace
=============================================================================
