------------------------ MODULE SessionProtocolProofs ------------------------
(***************************************************************************)
(* SessionLifecycle implements StatusProtocol, for every value of the      *)
(* constants: each step decides, applies, withdraws or removes, or leaves  *)
(* the status and every handler's intent as they were.                     *)
(***************************************************************************)
EXTENDS SessionLifecycleProofs

\* The abstract state a step may leave alone.
pvars == <<status, Intent>>

\* A handler's new intent when it moves and the others stay.
LEMMA IntentMoves ==
  ASSUME HandlersOK, NEW a \in Actor,
         \/ \E p : Goto(a, p)
         \/ \E n : Prepare(a, n)
         \/ Return(a)
         \/ (\E t, p : Start(a, t, p)) /\ UNCHANGED <<since, seen>>
         \/ UNCHANGED handlers
  PROVE  Intent' = [Intent EXCEPT ![a] = Intent'[a]]
<1>1. \A b \in Actor : b # a => task'[b] = task[b] /\ pc'[b] = pc[b] /\ seen'[b] = seen[b]
  BY DEF HandlersOK, Goto, Prepare, Return, Start, handlers
<1>2. \A b \in Actor : b # a => Intent'[b] = Intent[b]
  BY <1>1 DEF Intent, Target, AtLimit
<1>3. QED  BY <1>2 DEF Intent

\* A handler that is not about to write ends its step with no intent, or with
\* one the status it has just read allows.
LEMMA ReadStep ==
  ASSUME NEW a \in Actor, pc[a] # "write", UNCHANGED status,
         Intent' = [Intent EXCEPT ![a] = Intent'[a]],
         \/ Intent'[a] = None
         \/ \E s \in DOMAIN Protocol!Source :
              status \in Protocol!Source[s] /\ Intent'[a] = s
  PROVE  [Protocol!Next]_pvars
<1>1. Intent[a] = None /\ Intent = [b \in Actor |-> Intent[b]]
  BY DEF Intent
<1>2. CASE Intent'[a] = None
  BY <1>1, <1>2 DEF pvars
<1>3. ASSUME NEW s \in DOMAIN Protocol!Source,
             status \in Protocol!Source[s], Intent'[a] = s
      PROVE  Protocol!Decide(a)
  BY <1>1, <1>3 DEF Protocol!Decide
<1>4. QED  BY <1>2, <1>3 DEF Protocol!Next

\* A handler that writes applies the intent it had and is left without one.
LEMMA WriteStep ==
  ASSUME NEW a \in Actor, Intent[a] # None, status' = Intent[a],
         Intent' = [Intent EXCEPT ![a] = Intent'[a]], Intent'[a] = None
  PROVE  [Protocol!Next]_pvars
BY DEF Protocol!Next, Protocol!Apply

\* A step that moves no status and no handler is an abstract stutter.
LEMMA KeepStep ==
  ASSUME UNCHANGED status, UNCHANGED <<task, pc, seen>>
  PROVE  [Protocol!Next]_pvars
BY DEF pvars, Intent, Target, AtLimit

\* The target of a handler's task, before and after a step.
LEMMA Targets ==
  ASSUME NEW a \in Actor
  PROVE  /\ pc[a] = "write" => Intent[a] = Target(a)
         /\ pc'[a] # "write" => Intent'[a] = None
         /\ pc'[a] = "write" => Intent'[a] = Target(a)'
BY DEF Intent

\* An idle handler has no target.
LEMMA IdleTarget ==
  ASSUME NEW a \in Actor, task[a] = None
  PROVE  Target(a) = None
<1>1. None \notin {"begin", "resume", "run", "submit", "close", "decision", "auto", "mark"}
  BY LifecycleAssumption DEF GuardedRoutes, AdminRoutes
<1>2. QED  BY <1>1 DEF Target

\* Every step of a request maps to an abstract step or a stutter.
LEMMA RequestStep ==
  ASSUME TypeOK, NEW r \in Request, Arrive(r) \/ Serve(r)
  PROVE  [Protocol!Next]_pvars
<1> USE DEF At
<1>0. r \in Actor /\ HandlersOK /\ None \notin Statuses
  BY LifecycleAssumption DEF Actor, TypeOK
<1>1. CASE RemoveCandidate(r)
  BY <1>1 DEF RemoveCandidate, Protocol!Next, Protocol!Remove, Active, handlers,
     Intent, Target, AtLimit
<1>2. CASE \/ \E t \in Routes, k \in Tab : Guard(r, t, k)
           \/ DecisionReceive(r)
           \/ Extend(r) \/ BeginWorkspace(r) \/ Score(r) \/ Reap(r) \/ TerminalRun(r)
  <2>1. UNCHANGED status /\ Intent' = [Intent EXCEPT ![r] = Intent'[r]]
    BY <1>0, <1>2, IntentMoves
       DEF Guard, DecisionReceive, Extend, BeginWorkspace, Score, Reap, TerminalRun, row
  <2>2. pc[r] # "write" \/ task[r] = None
    BY <1>2 DEF Guard, DecisionReceive, Idle, Extend, BeginWorkspace, Score, Reap, TerminalRun
  <2>3. pc'[r] # "write"
    BY <1>0, <1>2
       DEF Guard, DecisionReceive, Extend, BeginWorkspace, Score, Reap, TerminalRun,
           Start, Goto, Return, HandlersOK
  <2>4. Intent[r] = None
    BY <1>0, <2>2, IdleTarget DEF Intent
  <2>5. Intent'[r] = None
    BY <1>0, <2>3, Targets
  <2>6. QED  BY <1>0, <2>1, <2>4, <2>5 DEF pvars, Intent
<1>3. CASE BeginRead(r) \/ ResumeRead(r) \/ ExecuteRead(r)
  <2>1. UNCHANGED status /\ Intent' = [Intent EXCEPT ![r] = Intent'[r]]
    BY <1>0, <1>3, IntentMoves DEF BeginRead, ResumeRead, ExecuteRead, row
  <2>2. pc[r] = "read"
    BY <1>3 DEF BeginRead, ResumeRead, ExecuteRead
  <2>3. \/ pc'[r] # "write"
        \/ /\ task'[r] \in {"begin", "resume", "run", "submit"}
           /\ status \in {"NOT_STARTED", "DISCONNECTED", "AUTO_SUBMITTED"}
    BY <1>0, <1>3
       DEF BeginRead, ResumeRead, ExecuteRead, Resumable, StartsSession, Goto,
           Prepare, Return, HandlersOK
  <2>4. task'[r] \in {"begin", "resume", "run", "submit"} => Target(r)' = "IN_PROGRESS"
    BY DEF Target
  <2>5. \/ Intent'[r] = None
        \/ Intent'[r] = "IN_PROGRESS" /\ status \in Protocol!Source["IN_PROGRESS"]
    BY <1>0, <2>3, <2>4, Targets DEF Protocol!Source
  <2>6. "IN_PROGRESS" \in DOMAIN Protocol!Source
    BY DEF Protocol!Source
  <2>7. QED  BY <1>0, <2>1, <2>2, <2>5, <2>6, ReadStep
<1>4. CASE CloseRead(r) \/ DecisionRead(r)
  <2>1. UNCHANGED status /\ Intent' = [Intent EXCEPT ![r] = Intent'[r]]
    BY <1>0, <1>4, IntentMoves DEF CloseRead, DecisionRead, row
  <2>2. pc[r] = "read"
    BY <1>4 DEF CloseRead, DecisionRead
  <2>3. \/ pc'[r] # "write"
        \/ task'[r] \in {"close", "decision"} /\ status \in Active
    BY <1>0, <1>4 DEF CloseRead, DecisionRead, Active, Goto, Return, HandlersOK
  <2>4. task'[r] \in {"close", "decision"} => Target(r)' = "SUBMITTED"
    BY DEF Target
  <2>5. \/ Intent'[r] = None
        \/ Intent'[r] = "SUBMITTED" /\ status \in Protocol!Source["SUBMITTED"]
    BY <1>0, <2>3, <2>4, Targets DEF Protocol!Source, Active
  <2>6. "SUBMITTED" \in DOMAIN Protocol!Source
    BY DEF Protocol!Source
  <2>7. QED  BY <1>0, <2>1, <2>2, <2>5, <2>6, ReadStep
<1>5. CASE HeartbeatRead(r) \/ HeartbeatWrite(r)
  <2>1. UNCHANGED status /\ Intent' = [Intent EXCEPT ![r] = Intent'[r]]
    BY <1>0, <1>5, IntentMoves DEF HeartbeatRead, HeartbeatWrite, row
  <2>2. task[r] = "heartbeat" /\ (pc'[r] # "write" \/ task'[r] = "heartbeat")
    BY <1>0, <1>5 DEF HeartbeatRead, HeartbeatWrite, Prepare, Return, HandlersOK
  <2>3. /\ task[r] = "heartbeat" => Target(r) = None
        /\ task'[r] = "heartbeat" => Target(r)' = None
    BY DEF Target
  <2>4. Intent[r] = None /\ Intent'[r] = None
    BY <1>0, <2>2, <2>3, Targets DEF Intent
  <2>5. QED  BY <1>0, <2>1, <2>4 DEF pvars, Intent
<1>6. CASE \/ BeginWrite(r) \/ ResumeWrite(r) \/ CloseWrite(r)
           \/ ExecuteWrite(r) \/ DecisionWrite(r)
  <2>1. Intent' = [Intent EXCEPT ![r] = Intent'[r]]
    BY <1>0, <1>6, IntentMoves
       DEF BeginWrite, ResumeWrite, CloseWrite, ExecuteWrite, DecisionWrite
  <2>2. pc[r] = "write" /\ pc'[r] # "write"
    BY <1>0, <1>6
       DEF BeginWrite, ResumeWrite, CloseWrite, ExecuteWrite, DecisionWrite,
           Goto, Return, HandlersOK
  <2>3. status' = Target(r)
    BY <1>6
       DEF BeginWrite, ResumeWrite, CloseWrite, ExecuteWrite, DecisionWrite, Target
  <2>4. status' # None
    BY <1>0, <1>6
       DEF BeginWrite, ResumeWrite, CloseWrite, ExecuteWrite, DecisionWrite, Statuses
  <2>5. QED  BY <1>0, <2>1, <2>2, <2>3, <2>4, Targets, WriteStep
<1>7. QED  BY <1>1, <1>2, <1>3, <1>4, <1>5, <1>6 DEF Arrive, Serve

\* Every step of the monitor maps to an abstract step or a stutter.
LEMMA MarkStep ==
  ASSUME TypeOK, NEW m \in Monitor, Mark(m)
  PROVE  [Protocol!Next]_pvars
<1> USE DEF At
<1>0. m \in Actor /\ HandlersOK /\ None \notin Statuses
  BY LifecycleAssumption DEF Actor, TypeOK
<1>1. Intent' = [Intent EXCEPT ![m] = Intent'[m]]
  BY <1>0, IntentMoves
     DEF Mark, Scan, MarkRead, MarkLimit, MarkLimitLog, MarkWrite, MarkLog, MarkEnqueue
<1>2. CASE Scan(m) \/ MarkLimitLog(m) \/ MarkLog(m) \/ MarkEnqueue(m)
  <2>1. UNCHANGED status
    BY <1>2 DEF Scan, MarkLimitLog, MarkLog, MarkEnqueue, row
  <2>2. pc[m] # "write" \/ task[m] = None
    BY <1>2 DEF Scan, MarkLimitLog, MarkLog, MarkEnqueue, Idle
  <2>3. pc'[m] # "write"
    BY <1>0, <1>2
       DEF Scan, MarkLimitLog, MarkLog, MarkEnqueue, Start, Goto, Return, HandlersOK
  <2>4. Intent[m] = None /\ Intent'[m] = None
    BY <1>0, <2>2, <2>3, IdleTarget, Targets DEF Intent
  <2>5. QED  BY <1>0, <1>1, <2>1, <2>4 DEF pvars, Intent
<1>3. CASE MarkRead(m)
  <2>1. UNCHANGED status /\ pc[m] = "read"
    BY <1>3 DEF MarkRead, row
  <2>2. pc'[m] # "write" \/ (task'[m] = "mark" /\ status = "IN_PROGRESS")
    BY <1>0, <1>3 DEF MarkRead, Prepare, Return, HandlersOK
  <2>3. task'[m] = "mark" => Target(m)' \in {"AUTO_SUBMITTED", "DISCONNECTED"}
    BY DEF Target
  <2>4. \/ Intent'[m] = None
        \/ \E s \in DOMAIN Protocol!Source :
             status \in Protocol!Source[s] /\ Intent'[m] = s
    BY <1>0, <2>2, <2>3, Targets DEF Protocol!Source
  <2>5. QED  BY <1>0, <1>1, <2>1, <2>4, ReadStep
<1>4. CASE MarkLimit(m) \/ MarkWrite(m)
  <2>1. pc[m] = "write" /\ pc'[m] # "write"
    BY <1>0, <1>4 DEF MarkLimit, MarkWrite, Goto, HandlersOK
  <2>2. status' = Target(m)
    BY <1>4 DEF MarkLimit, MarkWrite, Target
  <2>3. status' # None
    BY <1>0, <1>4 DEF MarkLimit, MarkWrite, Statuses
  <2>4. QED  BY <1>0, <1>1, <2>1, <2>2, <2>3, Targets, WriteStep
<1>5. QED  BY <1>2, <1>3, <1>4 DEF Mark

\* Every step of the worker maps to an abstract step or a stutter.
LEMMA AutoSubmitStep ==
  ASSUME TypeOK, AutoSubmit
  PROVE  [Protocol!Next]_pvars
<1> USE DEF At
<1>0. Worker \in Actor /\ HandlersOK /\ None \notin Statuses
  BY LifecycleAssumption DEF Actor, TypeOK
<1>1. Intent' = [Intent EXCEPT ![Worker] = Intent'[Worker]]
  <2>1. CASE Fire /\ ~JobHandled
    BY <1>0, <2>1, IntentMoves DEF Fire, handlers
  <2>2. CASE (Fire /\ JobHandled) \/ AutoRead \/ AutoWrite \/ AutoFinish
    BY <1>0, <2>2, IntentMoves DEF Fire, AutoRead, AutoWrite, AutoFinish
  <2>3. CASE Score(Worker) \/ Reap(Worker)
    BY <1>0, <2>3, IntentMoves DEF Score, Reap
  <2>4. QED  BY <2>1, <2>2, <2>3 DEF AutoSubmit
<1>2. CASE Fire \/ Score(Worker) \/ Reap(Worker) \/ AutoFinish
  <2>1. UNCHANGED status
    BY <1>2 DEF Fire, Score, Reap, AutoFinish, row
  <2>2. pc[Worker] # "write" \/ task[Worker] = None
    BY <1>2 DEF Fire, Score, Reap, AutoFinish, Idle
  <2>3. pc'[Worker] # "write" \/ task'[Worker] = None
    BY <1>0, <1>2 DEF Fire, Score, Reap, AutoFinish, Idle, Start, Goto, Return, HandlersOK
  <2>4. task'[Worker] = None => Target(Worker)' = None
    <3>1. None \notin {"begin", "resume", "run", "submit", "close", "decision", "auto", "mark"}
      BY LifecycleAssumption DEF GuardedRoutes, AdminRoutes
    <3>2. QED  BY <3>1 DEF Target
  <2>5. Intent[Worker] = None /\ Intent'[Worker] = None
    BY <1>0, <2>2, <2>3, <2>4, IdleTarget, Targets DEF Intent
  <2>6. QED  BY <1>0, <1>1, <2>1, <2>5 DEF pvars, Intent
<1>3. CASE AutoRead
  <2>1. UNCHANGED status /\ pc[Worker] = "read"
    BY <1>3 DEF AutoRead, row
  <2>2. pc'[Worker] # "write" \/ (task'[Worker] = "auto" /\ status = "DISCONNECTED")
    BY <1>0, <1>3 DEF AutoRead, Goto, HandlersOK
  <2>3. task'[Worker] = "auto" => Target(Worker)' = "AUTO_SUBMITTED"
    BY DEF Target
  <2>4. \/ Intent'[Worker] = None
        \/ \E s \in DOMAIN Protocol!Source :
             status \in Protocol!Source[s] /\ Intent'[Worker] = s
    BY <1>0, <2>2, <2>3, Targets DEF Protocol!Source
  <2>5. QED  BY <1>0, <1>1, <2>1, <2>4, ReadStep
<1>4. CASE AutoWrite
  <2>1. pc[Worker] = "write" /\ pc'[Worker] # "write"
    BY <1>0, <1>4 DEF AutoWrite, Goto, HandlersOK
  <2>2. status' = Target(Worker)
    BY <1>4 DEF AutoWrite, Target
  <2>3. status' # None
    BY <1>0, <1>4 DEF AutoWrite, Statuses
  <2>4. QED  BY <1>0, <1>1, <2>1, <2>2, <2>3, Targets, WriteStep
<1>5. QED  BY <1>2, <1>3, <1>4 DEF AutoSubmit

\* A failure or a restart withdraws intents.
LEMMA FaultStep ==
  ASSUME TypeOK, Restart \/ (\E a \in Actor : Fail(a))
  PROVE  [Protocol!Next]_pvars
<1>1. CASE Restart
  <2>1. UNCHANGED status /\ Intent' = [a \in Actor |-> None]
    BY <1>1 DEF Restart, row, Intent
  <2>2. Protocol!Withdraw
    BY <2>1 DEF Protocol!Withdraw
  <2>3. QED  BY <2>2 DEF Protocol!Next
<1>2. ASSUME NEW a \in Actor, Fail(a) PROVE [Protocol!Next]_pvars
  <2>1. UNCHANGED status /\ HandlersOK /\ Return(a)
    BY <1>2 DEF Fail, row, TypeOK
  <2>2. Intent' = [Intent EXCEPT ![a] = Intent'[a]]
    BY <2>1, IntentMoves
  <2>3. Intent'[a] = None
    BY <2>1, Targets DEF Return, HandlersOK
  <2>4. Intent' = [b \in Actor |-> IF b \in {a} THEN None ELSE Intent[b]]
    BY <2>2, <2>3 DEF Intent
  <2>5. Protocol!Withdraw
    BY <2>1, <2>4 DEF Protocol!Withdraw
  <2>6. QED  BY <2>5 DEF Protocol!Next
<1>3. QED  BY <1>1, <1>2

\* The detailed specification implements the abstract one: whatever handlers
\* overlap, fail or restart, each status was decided by a handler that had
\* read a status it may leave that way.
THEOREM LifecycleImplementsProtocol == Spec => ImplementsProtocol
<1>1. Init => Protocol!Init
  BY DEF Init, Protocol!Init, Intent
<1>2. TypeOK /\ [Next]_vars => [Protocol!Next]_pvars
  <2> SUFFICES ASSUME TypeOK, [Next]_vars PROVE [Protocol!Next]_pvars
    OBVIOUS
  <2>1. CASE Tick \/ Environment \/ UNCHANGED vars
    BY <2>1, KeepStep
       DEF Tick, Environment, DeadlinePasses, DriveEnds, CloseEarly, vars, row, handlers
  <2>2. CASE Next
    BY <2>1, <2>2, RequestStep, MarkStep, AutoSubmitStep, FaultStep DEF Next
  <2>3. QED  BY <2>1, <2>2
<1>3. QED
  BY <1>1, <1>2, TypeCorrect, PTL DEF Spec, ImplementsProtocol, Protocol!Spec, Protocol!vars, pvars

-----------------------------------------------------------------------------
(* What the lifecycle inherits from the protocol *)

\* StatusProtocol with the lifecycle's state, and what is proved of it.
P == INSTANCE StatusProtocolProofs WITH intent <- Intent

\* The theorems of StatusProtocolProofs speak of the specification that the
\* lifecycle implements.
LEMMA SameProtocol ==
  /\ Protocol!Init => P!Init
  /\ [Protocol!Next]_pvars => [P!Next]_pvars
BY DEF Protocol!Init, Protocol!Next, Protocol!Decide, Protocol!Apply, Protocol!Withdraw,
       Protocol!Remove, Protocol!Source,
       P!Init, P!Next, P!Decide, P!Apply, P!Withdraw, P!Remove, P!Source

\* The lifecycle keeps to the protocol, under the name the theorems know.
LEMMA LifecycleKeepsProtocol == Spec => P!Spec
BY LifecycleImplementsProtocol, SameProtocol, PTL
   DEF ImplementsProtocol, Protocol!Spec, Protocol!vars, P!Spec, P!vars, pvars

\* A session moves through its stages as SessionStages says, which is what
\* InviteRedemption relies on.
THEOREM LifecycleFollowsStages == Spec => FollowsStages
<1>1. [P!Stage!MayBecome(P!Stage!StageOf(status), P!Stage!StageOf(status'))]_pvars
        => [Protocol!Stage!MayBecome(Protocol!Stage!StageOf(status),
                                     Protocol!Stage!StageOf(status'))]_pvars
  BY DEF P!Stage!MayBecome, P!Stage!StageOf, P!Stage!Proceeds, P!Stage!Revives,
         P!Stage!Removes, P!Stage!Active, Protocol!Stage!MayBecome,
         Protocol!Stage!StageOf, Protocol!Stage!Proceeds, Protocol!Stage!Revives,
         Protocol!Stage!Removes, Protocol!Stage!Active
<1>2. QED
  BY <1>1, LifecycleKeepsProtocol, P!ProtocolStages, PTL
     DEF FollowsStages, P!StagesFollow, Protocol!StagesFollow, P!vars, Protocol!vars, pvars

\* A session that is over stays so once the handlers that had read it earlier
\* are through.
THEOREM LifecycleSettles == Spec => SettledIsFinal
<1>1. [P!Settled => P!Settled' /\ status' = status]_pvars
        => [Protocol!Settled => Protocol!Settled' /\ status' = status]_pvars
  BY DEF P!Settled, P!Final, Protocol!Settled, Protocol!Final
<1>2. QED
  BY <1>1, LifecycleKeepsProtocol, P!ProtocolSettles, PTL
     DEF SettledIsFinal, P!SettledIsFinal, Protocol!SettledIsFinal, P!vars, Protocol!vars, pvars
=============================================================================
