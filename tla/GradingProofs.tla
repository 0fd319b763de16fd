---------------------------- MODULE GradingProofs ----------------------------
(***************************************************************************)
(* Proofs about Grading, for any questions, texts, executions and outcomes *)
(* and any number of requests, gradings and decisions in flight.           *)
(***************************************************************************)
EXTENDS Grading, TLAPS

ReqRow ==
  [step : {"idle", "create", "judge", "sandbox", "save", "count", "score"},
   kind : {"run", "submit", "draft", None}, q : Question \cup {None},
   text : Text \cup {None}, exec : Execution \cup {None}, mark : Marks \cup {None}]

GradeRow ==
  [step : {"idle", "finish", "load", "save"}, finish : Finished \cup {None},
   marks : [Question -> Marks \cup {None}], confident : BOOLEAN]

CallRow ==
  [step : {"idle", "submit", "commit"}, outcome : Outcome \cup {None},
   decided : BOOLEAN, scored : BOOLEAN]

\* A call in flight holds the values its next step uses.
ReqOK(x) ==
  /\ x \in ReqRow
  /\ x.step # "idle" => x.q \in Question
  /\ x.step = "judge" => x.exec \in Execution
  /\ x.step \in {"create", "judge", "sandbox"} => x.kind \in {"run", "submit"}

GradeOK(x) == x \in GradeRow /\ (x.step = "finish" => x.finish \in Finished)

CallOK(x) == x \in CallRow /\ (x.step # "idle" => x.outcome \in Outcome)

RowsOK ==
  /\ status \in {"ACTIVE"} \cup Over
  /\ answer \in [Question -> AnswerRow \cup {None}]
  /\ exec \in [Execution -> ExecRow]
  /\ score \in ScoreRow \cup {None}
  /\ decision \in Outcome \cup {None}
  /\ audited \in Outcome \cup {None}

ReqsOK   == req \in [Caller -> ReqRow] /\ \A r \in Caller : ReqOK(req[r])
GradesOK == grade \in [Grader -> GradeRow] /\ \A g \in Grader : GradeOK(grade[g])
CallsOK  == call \in [Staff -> CallRow] /\ \A a \in Staff : CallOK(call[a])

HistoryOK == upToDate \subseteq Grader \cup {"score"} /\ failed \in BOOLEAN

\* A score that was read is still there.
ScoredKnown == \A a \in Staff : call[a].scored => score # None

Typed ==
  RowsOK /\ ReqsOK /\ GradesOK /\ CallsOK /\ HistoryOK /\ drained \in BOOLEAN /\ ScoredKnown

-----------------------------------------------------------------------------
(* The steps by what they write *)

\* A request comes in: no row is written.
Accepting ==
  \E r \in Caller, q \in Question :
    \/ \E t \in Text :
         \/ \E kind \in {"run", "submit"} : Accept(r, q, kind, t)
         \/ AcceptDraft(r, q, t)
         \/ \E kind \in {"submit", "draft"} : AcceptChoice(r, q, kind, t)
         \/ SubmitPrompt(r, q, t)
    \/ RejectPrompt(r, q)
    \/ \E m \in {"part", "full"} : SubmitSimulation(r, q, m)

\* Executions are written.
Executing ==
  \E r \in Caller :
    \/ CreateExecution(r) \/ JudgeFails(r)
    \/ \E m \in {"part", "full"} : Judge(r, m)
    \/ \E m \in {"part", "full"} : ExecuteSql(r, m)

\* Answers are written.
Saving ==
  \/ \E r \in Caller : SaveAnswer(r) \/ SaveFails(r) \/ CountRejection(r)
  \/ \E q \in Question : LogSimulation(q)

\* A simulation writes the score.
Scoring == \E r \in Caller : ScoreSimulation(r) \/ ScoreSimulationFails(r)

\* A closing is under way, and writes the score.
Closing ==
  \E g \in Grader :
    \/ \E finish \in Finished : Close(g, finish)
    \/ Finish(g) \/ Load(g) \/ SaveScore(g) \/ GradingFails(g)

\* A decision is under way, and writes itself, the audit and the score.
Deciding ==
  \E a \in Staff :
    \/ \E o \in Outcome : ReadDecision(a, o)
    \/ SubmitForDecision(a) \/ Commit(a)

\* The session is moved, and nothing else.
Moving == Reopen \/ SubmitAtLimit \/ Remove

\* These are all.
LEMMA StepCases ==
  ASSUME Step
  PROVE  Accepting \/ Executing \/ Saving \/ Scoring \/ Closing \/ Deciding \/ Moving
<1>1. ASSUME NEW r \in Caller, NEW q \in Question, NEW t \in Text,
             \/ \E kind \in {"run", "submit"} : Accept(r, q, kind, t)
             \/ AcceptDraft(r, q, t)
             \/ \E kind \in {"submit", "draft"} : AcceptChoice(r, q, kind, t)
             \/ SubmitPrompt(r, q, t)
      PROVE  Accepting
  BY <1>1, Zenon DEF Accepting
<1>2. ASSUME NEW r \in Caller, NEW q \in Question,
             RejectPrompt(r, q) \/ \E m \in {"part", "full"} : SubmitSimulation(r, q, m)
      PROVE  Accepting
  BY <1>2, Zenon DEF Accepting
<1>3. ASSUME NEW r \in Caller,
             \/ CreateExecution(r) \/ JudgeFails(r)
             \/ \E m \in {"part", "full"} : Judge(r, m)
             \/ \E m \in {"part", "full"} : ExecuteSql(r, m)
      PROVE  Executing
  BY <1>3, Zenon DEF Executing
<1>4. QED
  BY <1>1, <1>2, <1>3, Zenon DEF Step, Saving, Scoring, Closing, Deciding, Moving

\* What each leaves alone.
LEMMA AcceptingFrame ==
  ASSUME Accepting
  PROVE  UNCHANGED <<answer, exec, score, decision, audited, grade, call, history>>
<1>1. PICK r \in Caller, q \in Question :
        \/ \E t \in Text :
             \/ \E kind \in {"run", "submit"} : Accept(r, q, kind, t)
             \/ AcceptDraft(r, q, t)
             \/ \E kind \in {"submit", "draft"} : AcceptChoice(r, q, kind, t)
             \/ SubmitPrompt(r, q, t)
        \/ RejectPrompt(r, q)
        \/ \E m \in {"part", "full"} : SubmitSimulation(r, q, m)
  BY Zenon DEF Accepting
<1>2. QED
  BY <1>1 DEF Accept, AcceptDraft, AcceptChoice, SubmitPrompt, RejectPrompt,
              SubmitSimulation, rows

\* A run or an execution at work changes execution rows only.
LEMMA ExecutingFrame ==
  Executing =>
    /\ UNCHANGED <<status, answer, score, decision, audited, grade, call, failed>>
    /\ upToDate' = {} \/ UNCHANGED <<exec, upToDate>>
BY DEF Executing, CreateExecution, Judge, JudgeFails, ExecuteSql, rows, history

\* Saving an answer changes answers only.
LEMMA SavingFrame ==
  Saving =>
    /\ UNCHANGED <<status, exec, score, decision, audited, grade, call, failed>>
    /\ upToDate' = {} \/ UNCHANGED <<answer, upToDate>>
BY DEF Saving, SaveAnswer, SaveFails, CountRejection, LogSimulation, rows, history

\* The end of submitSimulation changes the score only.
LEMMA ScoringFrame ==
  Scoring =>
    /\ UNCHANGED <<status, answer, exec, decision, audited, grade, call, failed>>
    /\ upToDate' = {} \/ UNCHANGED <<score, upToDate>>
BY DEF Scoring, ScoreSimulation, ScoreSimulationFails, rows, history

\* A closing leaves answers, executions, requests and decisions alone.
LEMMA ClosingFrame ==
  Closing => UNCHANGED <<answer, exec, decision, audited, req, call>>
BY DEF Closing, Close, Finish, Load, SaveScore, GradingFails, rows

\* A decision leaves answers, executions, requests and gradings alone.
LEMMA DecidingFrame ==
  Deciding => UNCHANGED <<answer, exec, req, grade, history>>
BY DEF Deciding, ReadDecision, SubmitForDecision, Commit, rows

\* The handlers that only move the session change its status only.
LEMMA MovingFrame ==
  Moving => UNCHANGED <<answer, exec, score, decision, audited, req, grade, call, history>>
BY DEF Moving, Reopen, SubmitAtLimit, Remove, rows

-----------------------------------------------------------------------------
(* Helpers *)

\* The records of idle slots are typed.
LEMMA IdleTyped == ReqOK(NoReq) /\ GradeOK(NoGrade) /\ CallOK(NoCall) /\ NoExec \in ExecRow
BY DEF ReqOK, ReqRow, NoReq, GradeOK, GradeRow, NoGrade, CallOK, CallRow, NoCall,
       NoExec, ExecRow

\* A slot that moves to a typed record leaves all of its kind typed.
LEMMA ReqMoves ==
  ASSUME ReqsOK, NEW r \in Caller, NEW x, ReqOK(x), req' = [req EXCEPT ![r] = x]
  PROVE  ReqsOK'
BY DEF ReqsOK, ReqOK

\* Gradings stay typed when one moves to a typed value.
LEMMA GradeMoves ==
  ASSUME GradesOK, NEW g \in Grader, NEW x, GradeOK(x), grade' = [grade EXCEPT ![g] = x]
  PROVE  GradesOK'
BY DEF GradesOK, GradeOK

\* Decisions stay typed when one moves to a typed value.
LEMMA CallMoves ==
  ASSUME CallsOK, NEW a \in Staff, NEW x, CallOK(x), call' = [call EXCEPT ![a] = x]
  PROVE  CallsOK'
BY DEF CallsOK, CallOK

\* Slots that do not move stay typed.
LEMMA SlotsStay ==
  /\ ReqsOK /\ UNCHANGED req => ReqsOK'
  /\ GradesOK /\ UNCHANGED grade => GradesOK'
  /\ CallsOK /\ UNCHANGED call => CallsOK'
BY DEF ReqsOK, GradesOK, CallsOK

\* What is graded is a mark.
LEMMA MarksTyped ==
  ASSUME RowsOK, NEW q \in Question
  PROVE  MarksOf(q) \subseteq Marks \cup {None}
<1>1. CASE answer[q] = None
  BY <1>1 DEF MarksOf
<1>2. CASE answer[q] # None
  <2>1. answer[q] \in AnswerRow
    BY <1>2 DEF RowsOK
  <2>2. \A e \in Rows(q) : exec[e].mark \in Marks \cup {None}
    BY DEF RowsOK, ExecRow, Rows
  <2>3. QED
    BY <1>2, <2>1, <2>2, GradingAssumption DEF MarksOf, AnswerRow, Marks, Question
<1>3. QED  BY <1>1, <1>2

-----------------------------------------------------------------------------
(* Types *)

\* A request that is accepted is typed.
LEMMA NewReqOK ==
  ASSUME NEW step \in {"create", "sandbox", "save", "count"}, NEW q \in Question,
         NEW kind \in {"run", "submit", "draft"}, NEW t \in Text \cup {None},
         step \in {"create", "sandbox"} => kind # "draft"
  PROVE  ReqOK([NoReq EXCEPT !.step = step, !.kind = kind, !.q = q, !.text = t])
BY DEF ReqOK, ReqRow, NoReq

\* A request that comes in is typed.
LEMMA AcceptTyped ==
  ASSUME Typed, Accepting
  PROVE  RowsOK' /\ ReqsOK'
<1>1. PICK r \in Caller, q \in Question :
        \/ \E t \in Text :
             \/ \E kind \in {"run", "submit"} : Accept(r, q, kind, t)
             \/ AcceptDraft(r, q, t)
             \/ \E kind \in {"submit", "draft"} : AcceptChoice(r, q, kind, t)
             \/ SubmitPrompt(r, q, t)
        \/ RejectPrompt(r, q)
        \/ \E m \in {"part", "full"} : SubmitSimulation(r, q, m)
  BY Zenon DEF Accepting
<1>2. status' \in {"ACTIVE"} \cup Over
  BY <1>1 DEF Typed, RowsOK, Accept, AcceptDraft, AcceptChoice, SubmitPrompt, RejectPrompt,
              SubmitSimulation
<1>3. RowsOK'
  BY <1>2, AcceptingFrame DEF Typed, RowsOK
<1>4. ASSUME NEW t \in Text, NEW kind \in {"run", "submit"}, Accept(r, q, kind, t)
      PROVE  ReqsOK'
  BY <1>4, NewReqOK, ReqMoves DEF Accept, Typed
<1>5. ASSUME NEW t \in Text, AcceptDraft(r, q, t) PROVE ReqsOK'
  BY <1>5, NewReqOK, ReqMoves DEF AcceptDraft, Typed
<1>6. ASSUME NEW t \in Text, NEW kind \in {"submit", "draft"}, AcceptChoice(r, q, kind, t)
      PROVE  ReqsOK'
  BY <1>6, NewReqOK, ReqMoves DEF AcceptChoice, Typed
<1>7. ASSUME NEW t \in Text, SubmitPrompt(r, q, t) PROVE ReqsOK'
  BY <1>7, NewReqOK, ReqMoves DEF SubmitPrompt, Typed
<1>8. CASE RejectPrompt(r, q)
  <2>1. PICK t \in {None} \cup (IF answer[q] = None THEN {} ELSE {answer[q].text}) :
          req' = [req EXCEPT ![r] =
            [NoReq EXCEPT !.step = "count", !.kind = "run", !.q = q, !.text = t]]
    BY <1>8 DEF RejectPrompt
  <2>2. t = None \/ (answer[q] # None /\ t = answer[q].text)
    OBVIOUS
  <2>3. answer[q] = None \/ answer[q] \in AnswerRow
    BY DEF Typed, RowsOK
  <2>4. t \in Text \cup {None}
    BY <2>2, <2>3 DEF AnswerRow
  <2>5. ReqsOK'
    BY <2>1, <2>4, NewReqOK, ReqMoves DEF Typed
  <2>6. QED  BY <1>3, <2>5
<1>9. ASSUME NEW m \in {"part", "full"}, SubmitSimulation(r, q, m) PROVE ReqsOK'
  <2>1. ReqOK([NoReq EXCEPT !.step = "save", !.kind = "submit", !.q = q, !.mark = m])
    BY DEF ReqOK, ReqRow, NoReq, Marks
  <2>2. QED  BY <1>9, <2>1, ReqMoves DEF SubmitSimulation, Typed
<1>10. QED
  BY <1>1, <1>3, <1>4, <1>5, <1>6, <1>7, <1>8, <1>9

\* Judge0's answer goes into the row the request created, and no other.
LEMMA JudgedRow ==
  ASSUME Typed, NEW r \in Caller, NEW m, Judge(r, m)
  PROVE  /\ req[r].exec \in Execution
         /\ exec' = [exec EXCEPT ![req[r].exec] =
                       [exec[req[r].exec] EXCEPT !.state = "DONE", !.mark = m]]
<1>1. req[r].exec \in Execution
  BY DEF Typed, ReqsOK, ReqOK, Judge
<1>2. DEFINE e == req[r].exec
<1>3. exec' = [exec EXCEPT ![e].state = "DONE", ![e].mark = m]
  BY DEF Judge
<1>4. exec[e] \in ExecRow /\ exec \in [Execution -> ExecRow]
  BY <1>1 DEF Typed, RowsOK
<1> HIDE DEF e
<1>5. exec' = [exec EXCEPT ![e] = [exec[e] EXCEPT !.state = "DONE", !.mark = m]]
  BY <1>1, <1>3, <1>4 DEF ExecRow
<1>6. QED  BY <1>1, <1>5 DEF e

\* Executions that come and get their result are typed, and so are the requests
\* as they go on.
LEMMA ExecuteTyped ==
  ASSUME Typed, Executing
  PROVE  RowsOK' /\ ReqsOK'
<1> PICK r \in Caller :
      \/ CreateExecution(r) \/ JudgeFails(r)
      \/ \E m \in {"part", "full"} : Judge(r, m)
      \/ \E m \in {"part", "full"} : ExecuteSql(r, m)
  BY Zenon DEF Executing
<1>0. ReqOK(req[r]) /\ req[r] \in ReqRow
  BY DEF Typed, ReqsOK
<1>1. CASE CreateExecution(r)
  <2>1. PICK e \in Execution :
          /\ exec' = [exec EXCEPT ![e] =
               [state |-> "PENDING", kind |-> req[r].kind, q |-> req[r].q,
                text |-> req[r].text, mark |-> "part"]]
          /\ req' = [req EXCEPT ![r].step = "judge", ![r].exec = e]
    BY <1>1 DEF CreateExecution
  <2>2. [state |-> "PENDING", kind |-> req[r].kind, q |-> req[r].q,
         text |-> req[r].text, mark |-> "part"] \in ExecRow
    BY <1>0, <1>1 DEF CreateExecution, ReqOK, ReqRow, ExecRow, Marks
  <2>3. exec' \in [Execution -> ExecRow]
    BY <2>1, <2>2 DEF Typed, RowsOK
  <2>4. ReqOK([req[r] EXCEPT !.step = "judge", !.exec = e])
    BY <1>0, <1>1 DEF CreateExecution, ReqOK, ReqRow
  <2>5. req' = [req EXCEPT ![r] = [req[r] EXCEPT !.step = "judge", !.exec = e]]
    BY <2>1 DEF Typed, ReqsOK, ReqRow
  <2>6. ReqsOK'
    BY <2>4, <2>5, ReqMoves DEF Typed
  <2>7. QED  BY <1>1, <2>3, <2>6 DEF CreateExecution, Typed, RowsOK
<1>2. CASE JudgeFails(r)
  <2>1. ReqsOK'
    BY <1>2, IdleTyped, ReqMoves DEF JudgeFails, Typed
  <2>2. QED  BY <1>2, <2>1 DEF JudgeFails, Typed, RowsOK, rows
<1>3. ASSUME NEW m \in {"part", "full"}, Judge(r, m) PROVE RowsOK' /\ ReqsOK'
  <2>1. exec' \in [Execution -> ExecRow]
    <3>1. exec[req[r].exec] \in ExecRow
      BY <1>0, <1>3 DEF Judge, ReqOK, Typed, RowsOK
    <3>2. [exec[req[r].exec] EXCEPT !.state = "DONE", !.mark = m] \in ExecRow
      BY <3>1 DEF ExecRow, Marks
    <3>3. req[r].exec \in Execution
          /\ exec' = [exec EXCEPT ![req[r].exec] =
                        [exec[req[r].exec] EXCEPT !.state = "DONE", !.mark = m]]
      BY <1>3, JudgedRow
    <3>4. QED  BY <3>2, <3>3 DEF Typed, RowsOK
  <2>2. ReqOK([req[r] EXCEPT !.step = "save", !.mark = m])
    BY <1>0, <1>3 DEF Judge, ReqOK, ReqRow, Marks
  <2>3. ReqsOK'
    BY <1>3, <2>2, IdleTyped, ReqMoves DEF Judge, Typed
  <2>4. QED  BY <1>3, <2>1, <2>3 DEF Judge, Typed, RowsOK
<1>4. ASSUME NEW m \in {"part", "full"}, ExecuteSql(r, m) PROVE RowsOK' /\ ReqsOK'
  <2>1. CASE req' = [req EXCEPT ![r] = NoReq] /\ UNCHANGED exec
    <3>1. ReqsOK'
      BY <2>1, IdleTyped, ReqMoves DEF Typed
    <3>2. QED  BY <1>4, <2>1, <3>1 DEF ExecuteSql, Typed, RowsOK
  <2>2. ASSUME NEW e \in Execution,
               exec' = [exec EXCEPT ![e] =
                 [state |-> "DONE", kind |-> req[r].kind, q |-> req[r].q,
                  text |-> req[r].text, mark |-> m]],
               req' = [req EXCEPT ![r] = IF req[r].kind = "submit"
                         THEN [req[r] EXCEPT !.step = "save", !.exec = e] ELSE NoReq]
        PROVE  RowsOK' /\ ReqsOK'
    <3>1. [state |-> "DONE", kind |-> req[r].kind, q |-> req[r].q,
           text |-> req[r].text, mark |-> m] \in ExecRow
      BY <1>0, <1>4 DEF ExecuteSql, ReqOK, ReqRow, ExecRow, Marks
    <3>2. exec' \in [Execution -> ExecRow]
      BY <2>2, <3>1 DEF Typed, RowsOK
    <3>3. ReqOK([req[r] EXCEPT !.step = "save", !.exec = e])
      BY <1>0, <1>4 DEF ExecuteSql, ReqOK, ReqRow
    <3>4. ReqsOK'
      BY <2>2, <3>3, IdleTyped, ReqMoves DEF Typed
    <3>5. QED  BY <1>4, <3>2, <3>4 DEF ExecuteSql, Typed, RowsOK
  <2>3. QED  BY <1>4, <2>1, <2>2 DEF ExecuteSql
<1>5. QED  BY <1>1, <1>2, <1>3, <1>4

\* Answers that are saved, and what a simulation logs, are typed.
LEMMA SaveTyped ==
  ASSUME Typed, Saving
  PROVE  RowsOK' /\ ReqsOK'
<1>0. ASSUME NEW r \in Caller PROVE ReqOK(req[r]) /\ req[r] \in ReqRow
  BY DEF Typed, ReqsOK
<1>1. ASSUME NEW r \in Caller, req[r].step # "idle" PROVE ReqOK(Saved(r))
  BY <1>0, <1>1, IdleTyped DEF Saved, ReqOK, ReqRow
<1>2. ASSUME NEW r \in Caller, SaveAnswer(r) PROVE RowsOK' /\ ReqsOK'
  <2>1. Answer(r) \in AnswerRow
    BY <1>0 DEF Answer, AnswerRow, ReqRow
  <2>2. answer' \in [Question -> AnswerRow \cup {None}]
    BY <1>2, <2>1 DEF SaveAnswer, Typed, RowsOK
  <2>3. ReqsOK'
    BY <1>1, <1>2, ReqMoves DEF SaveAnswer, Typed
  <2>4. QED  BY <1>2, <2>2, <2>3 DEF SaveAnswer, Typed, RowsOK
<1>3. ASSUME NEW r \in Caller, SaveFails(r) PROVE RowsOK' /\ ReqsOK'
  <2>1. ReqsOK'
    BY <1>1, <1>3, ReqMoves DEF SaveFails, Typed
  <2>2. QED  BY <1>3, <2>1 DEF SaveFails, Typed, RowsOK, rows
<1>4. ASSUME NEW r \in Caller, CountRejection(r) PROVE RowsOK' /\ ReqsOK'
  <2>1. req[r].q \in Question
    BY <1>0, <1>4 DEF CountRejection, ReqOK
  <2>2. answer[req[r].q] = None \/ answer[req[r].q].draft \in BOOLEAN
    BY <2>1 DEF Typed, RowsOK, AnswerRow
  <2>3. [text |-> req[r].text, mark |-> None,
         draft |-> answer[req[r].q] = None \/ answer[req[r].q].draft] \in AnswerRow
    BY <1>0, <2>2 DEF AnswerRow, ReqRow
  <2>4. answer' \in [Question -> AnswerRow \cup {None}]
    BY <1>4, <2>3 DEF CountRejection, Typed, RowsOK
  <2>5. ReqsOK'
    BY <1>4, IdleTyped, ReqMoves DEF CountRejection, Typed
  <2>6. QED  BY <1>4, <2>4, <2>5 DEF CountRejection, Typed, RowsOK
<1>5. ASSUME NEW q \in Question, LogSimulation(q) PROVE RowsOK' /\ ReqsOK'
  <2>1. [text |-> None, draft |-> TRUE, mark |-> "part"] \in AnswerRow
    BY DEF AnswerRow, Marks
  <2>2. answer' \in [Question -> AnswerRow \cup {None}]
    BY <1>5, <2>1 DEF LogSimulation, Typed, RowsOK
  <2>3. QED  BY <1>5, <2>2 DEF LogSimulation, Typed, RowsOK, ReqsOK
<1>6. QED  BY <1>2, <1>3, <1>4, <1>5 DEF Saving

\* The score a simulation writes is a row.
LEMMA SimulationScore ==
  ASSUME Typed, NEW r \in Caller, ScoreSimulation(r)
  PROVE  score' \in ScoreRow /\ score' # None
<1>1. ReqOK(req[r]) /\ req[r] \in ReqRow
  BY DEF Typed, ReqsOK
<1>2. OnlyMark(req[r].q, req[r].mark) \in [Question -> Marks \cup {None}]
  BY <1>1 DEF OnlyMark, ReqRow
<1>3. score = None \/ score \in ScoreRow
  BY DEF Typed, RowsOK
<1>4. score' \in ScoreRow
  BY <1>2, <1>3 DEF ScoreSimulation, ScoreRow
<1>5. QED  BY <1>4, GradingAssumption

\* A simulation that writes the score, or fails to, is typed.
LEMMA ScoreTyped ==
  ASSUME Typed, Scoring
  PROVE  RowsOK' /\ ReqsOK'
<1> PICK r \in Caller : ScoreSimulation(r) \/ ScoreSimulationFails(r)
  BY DEF Scoring
<1>1. ReqsOK'
  BY IdleTyped, ReqMoves DEF ScoreSimulation, ScoreSimulationFails, Typed
<1>2. score' \in ScoreRow \cup {None}
  BY SimulationScore DEF ScoreSimulationFails, rows, Typed, RowsOK
<1>3. QED  BY <1>1, <1>2, ScoringFrame DEF Typed, RowsOK

\* What a closing does is typed.
LEMMA GradeTyped ==
  ASSUME Typed, Closing
  PROVE  RowsOK' /\ GradesOK' /\ HistoryOK'
<1> PICK g \in Grader :
      \/ \E finish \in Finished : Close(g, finish)
      \/ Finish(g) \/ Load(g) \/ SaveScore(g) \/ GradingFails(g)
  BY Zenon DEF Closing
<1>0. GradeOK(grade[g]) /\ grade[g] \in GradeRow
  BY DEF Typed, GradesOK
<1>1. ASSUME NEW finish \in Finished, Close(g, finish)
      PROVE  RowsOK' /\ GradesOK' /\ HistoryOK'
  <2>1. GradeOK([NoGrade EXCEPT !.step = "finish", !.finish = finish])
    BY DEF NoGrade, GradeOK, GradeRow
  <2>2. GradesOK'
    BY <1>1, <2>1, GradeMoves DEF Close, Typed
  <2>3. QED  BY <1>1, <2>2 DEF Close, Typed, RowsOK, rows, history, HistoryOK
<1>2. CASE Finish(g)
  <2>1. GradeOK([grade[g] EXCEPT !.step = "load"])
    BY <1>0 DEF GradeOK, GradeRow
  <2>2. GradesOK'
    BY <1>2, <2>1, GradeMoves DEF Finish, Typed
  <2>3. QED  BY <1>0, <1>2, <2>2 DEF Finish, Typed, RowsOK, rows, history, HistoryOK, GradeOK, Over
<1>3. CASE Load(g)
  <2>1. PICK marks \in [Question -> AnyMark] :
          grade' = [grade EXCEPT ![g].step = "save", ![g].marks = marks,
                                 ![g].confident = Confident]
    BY <1>3 DEF Load
  <2>2. AnyMark \subseteq Marks \cup {None}
    BY MarksTyped DEF AnyMark, Typed
  <2>3. Confident \in BOOLEAN
    BY DEF Confident
  <2>4. GradeOK([grade[g] EXCEPT !.step = "save", !.marks = marks, !.confident = Confident])
    BY <1>0, <2>2, <2>3 DEF GradeOK, GradeRow
  <2>5. grade' = [grade EXCEPT ![g] =
                    [grade[g] EXCEPT !.step = "save", !.marks = marks, !.confident = Confident]]
    BY <1>0, <2>1 DEF Typed, GradesOK, GradeRow
  <2>6. GradesOK'
    BY <2>4, <2>5, GradeMoves DEF Typed
  <2>7. QED  BY <1>3, <2>6 DEF Load, Typed, RowsOK, rows, HistoryOK
<1>4. CASE SaveScore(g)
  <2>1. GradesOK'
    BY <1>4, IdleTyped, GradeMoves DEF SaveScore, Typed
  <2>2. score' \in ScoreRow
    BY <1>0, <1>4 DEF SaveScore, ScoreRow, GradeRow
  <2>3. QED  BY <1>4, <2>1, <2>2 DEF SaveScore, Typed, RowsOK, HistoryOK
<1>5. CASE GradingFails(g)
  <2>1. GradesOK'
    BY <1>5, IdleTyped, GradeMoves DEF GradingFails, Typed
  <2>2. QED  BY <1>5, <2>1 DEF GradingFails, Typed, RowsOK, rows, HistoryOK
<1>6. QED  BY <1>1, <1>2, <1>3, <1>4, <1>5

\* What a decision does is typed.
LEMMA DecideTyped ==
  ASSUME Typed, Deciding
  PROVE  RowsOK' /\ CallsOK'
<1> PICK a \in Staff :
      \/ \E o \in Outcome : ReadDecision(a, o)
      \/ SubmitForDecision(a) \/ Commit(a)
  BY Zenon DEF Deciding
<1>0. CallOK(call[a]) /\ call[a] \in CallRow
  BY DEF Typed, CallsOK
<1>1. ASSUME NEW o \in Outcome, ReadDecision(a, o) PROVE RowsOK' /\ CallsOK'
  <2>1. CallOK([step |-> IF status = "ACTIVE" THEN "submit" ELSE "commit", outcome |-> o,
                decided |-> decision # None, scored |-> score # None])
    BY DEF CallOK, CallRow
  <2>2. CallsOK'
    BY <1>1, <2>1, CallMoves DEF ReadDecision, Typed
  <2>3. QED  BY <1>1, <2>2 DEF ReadDecision, Typed, RowsOK, rows
<1>2. CASE SubmitForDecision(a)
  <2>1. CallOK([call[a] EXCEPT !.step = "commit"])
    BY <1>0, <1>2 DEF SubmitForDecision, CallOK, CallRow
  <2>2. CallsOK'
    BY <1>2, <2>1, CallMoves DEF SubmitForDecision, Typed
  <2>3. QED  BY <1>2, <2>2 DEF SubmitForDecision, Typed, RowsOK, rows, Over, Finished
<1>3. CASE Commit(a)
  <2>1. CallsOK'
    BY <1>3, IdleTyped, CallMoves DEF Commit, Typed
  <2>2. Reviewed(a) \in ScoreRow \cup {None}
    BY DEF Reviewed, Typed, RowsOK, ScoredKnown, ScoreRow
  <2>3. call[a].outcome \in Outcome
    BY <1>0, <1>3 DEF CallOK, Commit
  <2>4. QED  BY <1>3, <2>1, <2>2, <2>3 DEF Commit, Typed, RowsOK
<1>4. QED  BY <1>1, <1>2, <1>3

\* A score is never taken away.
LEMMA ScoreStays ==
  ASSUME Typed, Step, score # None
  PROVE  score' # None
<1>1. score \in ScoreRow
  BY DEF Typed, RowsOK
<1>2. CASE Scoring
  BY <1>2, SimulationScore DEF Scoring, ScoreSimulationFails, rows
<1>3. CASE Closing
  <2>1. PICK g \in Grader :
          \/ \E finish \in Finished : Close(g, finish)
          \/ Finish(g) \/ Load(g) \/ SaveScore(g) \/ GradingFails(g)
    BY <1>3, Zenon DEF Closing
  <2>2. CASE SaveScore(g)
    <3>1. score' \in ScoreRow
      BY <2>2 DEF SaveScore, ScoreRow, GradeRow, Typed, GradesOK
    <3>2. QED  BY <3>1, GradingAssumption
  <2>3. CASE ~SaveScore(g)
    BY <2>1, <2>3 DEF Close, Finish, Load, GradingFails, rows
  <2>4. QED  BY <2>2, <2>3
<1>4. CASE Deciding
  <2>1. ASSUME NEW a \in Staff PROVE Reviewed(a) \in ScoreRow
    BY <1>1 DEF Reviewed, ScoreRow
  <2>2. score' \in ScoreRow
    BY <1>1, <1>4, <2>1 DEF Deciding, ReadDecision, SubmitForDecision, Commit, rows
  <2>3. QED  BY <2>2, GradingAssumption
<1>5. QED
  BY <1>2, <1>3, <1>4, StepCases, AcceptingFrame, ExecutingFrame, SavingFrame, MovingFrame

\* What a call has read stays true.
LEMMA ScoredStays ==
  ASSUME Typed, Step
  PROVE  ScoredKnown'
<1>1. SUFFICES ASSUME NEW a \in Staff, call'[a].scored PROVE score' # None
  BY DEF ScoredKnown
<1>2. CASE call'[a] = call[a]
  BY <1>1, <1>2, ScoreStays DEF Typed, ScoredKnown
<1>3. CASE call'[a] # call[a]
  <2>1. Deciding
    BY <1>3, StepCases, AcceptingFrame, ExecutingFrame, SavingFrame, ScoringFrame,
       ClosingFrame, MovingFrame
  <2>2. PICK b \in Staff :
          \/ \E o \in Outcome : ReadDecision(b, o)
          \/ SubmitForDecision(b) \/ Commit(b)
    BY <2>1, Zenon DEF Deciding
  <2>3. a = b
    BY <1>3, <2>2 DEF ReadDecision, SubmitForDecision, Commit, Typed, CallsOK
  <2>4. CASE \E o \in Outcome : ReadDecision(b, o)
    <3>1. call'[a].scored = (score # None)
      BY <2>3, <2>4 DEF ReadDecision, Typed, CallsOK
    <3>2. QED  BY <1>1, <3>1, ScoreStays
  <2>5. CASE SubmitForDecision(b)
    BY <1>1, <2>3, <2>5 DEF SubmitForDecision, rows, Typed, CallsOK, CallRow, ScoredKnown
  <2>6. CASE Commit(b)
    BY <1>1, <2>3, <2>6 DEF Commit, NoCall, Typed, CallsOK
  <2>7. QED  BY <2>2, <2>4, <2>5, <2>6
<1>4. QED  BY <1>2, <1>3

\* Every step keeps the types.
LEMMA StepTyped ==
  ASSUME Typed, [Next]_vars
  PROVE  Typed'
<1>1. CASE UNCHANGED vars
  BY <1>1 DEF Typed, RowsOK, ReqsOK, GradesOK, CallsOK, HistoryOK, ScoredKnown, vars, rows,
              history
<1>2. CASE Next
  <2>1. Step /\ drained' \in BOOLEAN
    BY <1>2 DEF Next, Drain
  <2>2. ScoredKnown'
    BY <2>1, ScoredStays
  <2>3. CASE Accepting
    BY <2>1, <2>2, <2>3, AcceptTyped, AcceptingFrame, SlotsStay DEF Typed, HistoryOK, history
  <2>4. CASE Executing
    BY <2>1, <2>2, <2>4, ExecuteTyped, ExecutingFrame, SlotsStay DEF Typed, HistoryOK
  <2>5. CASE Saving
    BY <2>1, <2>2, <2>5, SaveTyped, SavingFrame, SlotsStay DEF Typed, HistoryOK
  <2>6. CASE Scoring
    BY <2>1, <2>2, <2>6, ScoreTyped, ScoringFrame, SlotsStay DEF Typed, HistoryOK
  <2>7. CASE Closing
    BY <2>1, <2>2, <2>7, GradeTyped, ClosingFrame, SlotsStay DEF Typed
  <2>8. CASE Deciding
    BY <2>1, <2>2, <2>8, DecideTyped, DecidingFrame, SlotsStay DEF Typed, HistoryOK, history
  <2>9. CASE Moving
    BY <2>1, <2>2, <2>9, MovingFrame, SlotsStay
       DEF Moving, Reopen, SubmitAtLimit, Remove, Over, Finished, Typed, RowsOK, HistoryOK,
           history
  <2>10. QED
    BY <2>1, <2>3, <2>4, <2>5, <2>6, <2>7, <2>8, <2>9, StepCases
<1>3. QED  BY <1>1, <1>2

\* The types hold throughout.
LEMMA AlwaysTyped == Spec => []Typed
<1>1. ASSUME Init PROVE Typed
  <2>1. RowsOK
    BY <1>1, IdleTyped DEF Init, RowsOK
  <2>2. ReqsOK
    BY <1>1, IdleTyped DEF Init, ReqsOK, ReqOK
  <2>3. GradesOK
    BY <1>1, IdleTyped DEF Init, GradesOK, GradeOK
  <2>4. CallsOK
    BY <1>1, IdleTyped DEF Init, CallsOK, CallOK
  <2>5. HistoryOK /\ drained \in BOOLEAN
    BY <1>1 DEF Init, HistoryOK
  <2>6. ScoredKnown
    BY <1>1 DEF Init, ScoredKnown, NoCall
  <2>7. QED  BY <2>1, <2>2, <2>3, <2>4, <2>5, <2>6 DEF Typed
<1>2. QED  BY <1>1, StepTyped, PTL DEF Spec

\* Every variable keeps its type, and a call in flight names what it works on,
\* whatever fails and however the candidate's requests, the gradings and the
\* decisions overlap.
THEOREM GradingTypeCorrect == Spec => []TypeOK
<1>1. Typed => TypeOK
  BY DEF Typed, TypeOK, RowsOK, ReqsOK, GradesOK, CallsOK, HistoryOK, ReqOK, GradeOK, CallOK,
         ReqRow, GradeRow, CallRow
<1>2. QED  BY <1>1, AlwaysTyped, PTL

-----------------------------------------------------------------------------
(* Decisions and closings *)

\* Only a commit writes a decision, and its audit entry with it.
LEMMA DecisionStep ==
  ASSUME DecisionAudited, [Next]_vars
  PROVE  DecisionAudited'
<1>1. CASE UNCHANGED <<decision, audited>>
  BY <1>1 DEF DecisionAudited
<1>2. CASE Deciding
  BY <1>2 DEF DecisionAudited, Deciding, ReadDecision, SubmitForDecision, Commit
<1>3. CASE UNCHANGED vars
  BY <1>1, <1>3 DEF vars
<1>4. QED
  BY <1>1, <1>2, <1>3, StepCases, AcceptingFrame, ExecutingFrame, SavingFrame, ScoringFrame,
     ClosingFrame, MovingFrame DEF Next

\* The decision of a session is always the one its newest audit entry names,
\* also when decisions overlap and one is refused (recordDecision's transaction).
THEOREM DecisionIsAudited == Spec => []DecisionAudited
<1>1. Init => DecisionAudited
  BY DEF Init, DecisionAudited
<1>2. QED  BY <1>1, DecisionStep, PTL DEF Spec

\* A closing ends in a score that is there, or in a failure that is recorded.
LEMMA ClosingStep ==
  ASSUME Typed, Next, NEW g \in Grader,
         grade[g].step \in {"load", "save"}, grade'[g].step = "idle"
  PROVE  score' # None \/ failed'
<1>1. Step /\ grade'[g] # grade[g]
  BY DEF Next
<1>2. Closing
  BY <1>1, StepCases, AcceptingFrame, ExecutingFrame, SavingFrame, ScoringFrame,
     DecidingFrame, MovingFrame
<1>3. PICK h \in Grader :
        \/ \E finish \in Finished : Close(h, finish)
        \/ Finish(h) \/ Load(h) \/ SaveScore(h) \/ GradingFails(h)
  BY <1>2, Zenon DEF Closing
<1>4. g = h
  BY <1>1, <1>3 DEF Close, Finish, Load, SaveScore, GradingFails, Typed, GradesOK
<1>5. CASE \E finish \in Finished : Close(h, finish)
  BY <1>4, <1>5 DEF Close
<1>6. CASE Finish(h)
  BY <1>4, <1>6 DEF Finish
<1>7. CASE Load(h)
  BY <1>4, <1>7 DEF Load, Typed, GradesOK, GradeRow
<1>8. CASE SaveScore(h)
  <2>1. score' \in ScoreRow
    BY <1>8 DEF SaveScore, ScoreRow, GradeRow, Typed, GradesOK
  <2>2. QED  BY <2>1, GradingAssumption
<1>9. CASE GradingFails(h)
  BY <1>4, <1>9 DEF GradingFails
<1>10. QED  BY <1>3, <1>5, <1>6, <1>7, <1>8, <1>9

\* Whoever finishes a session leaves a score or a failed grading behind, with
\* no answers to grade and after a decision as well (closeSession, autoSubmit).
THEOREM ClosingsEndInScore == Spec => ClosingEndsInScore
<1>1. ASSUME Typed, [Next]_vars
      PROVE  [\A g \in Grader :
                grade[g].step \in {"load", "save"} /\ grade'[g].step = "idle" =>
                  score' # None \/ failed']_vars
  BY <1>1, ClosingStep
<1>2. QED  BY <1>1, AlwaysTyped, PTL DEF Spec, ClosingEndsInScore

-----------------------------------------------------------------------------
(* Sealed answers *)

\* A session that is drained is finished, with no checked request in flight.
Drained == drained => status \in Over /\ NothingInFlight

\* A finished session that stays finished takes no checked request.
LEMMA NoneComes ==
  ASSUME Typed, Step, NothingInFlight, status \in Over, status' \in Over
  PROVE  NothingInFlight'
<1>1. SUFFICES ASSUME NEW s \in Caller PROVE req'[s].q \notin Checked
  BY DEF NothingInFlight
<1>2. req[s].q \notin Checked /\ NoReq.q \notin Checked
  BY GradingAssumption DEF NothingInFlight, NoReq, Checked, Question
<1>3. CASE UNCHANGED req
  BY <1>2, <1>3
<1>4. CASE Accepting
  <2>1. PICK r \in Caller, q \in Question :
          \/ \E t \in Text :
               \/ \E kind \in {"run", "submit"} : Accept(r, q, kind, t)
               \/ AcceptDraft(r, q, t)
               \/ \E kind \in {"submit", "draft"} : AcceptChoice(r, q, kind, t)
               \/ SubmitPrompt(r, q, t)
          \/ RejectPrompt(r, q)
          \/ \E m \in {"part", "full"} : SubmitSimulation(r, q, m)
    BY <1>4, Zenon DEF Accepting
  <2>2. q \notin Checked /\ (req'[s].q = req[s].q \/ req'[s].q = q)
    <3>1. ~ \E t \in Text :
              AcceptDraft(r, q, t) \/ \E kind \in {"run", "submit"} : Accept(r, q, kind, t)
      BY DEF AcceptDraft, Accept, Over, Finished
    <3>2. q \notin Checked
      BY <2>1, <3>1, GradingAssumption
         DEF AcceptChoice, SubmitPrompt, RejectPrompt, SubmitSimulation, Checked
    <3>3. QED
      BY <2>1, <3>1, <3>2
         DEF AcceptChoice, SubmitPrompt, RejectPrompt, SubmitSimulation, NoReq, Typed, ReqsOK
  <2>3. QED  BY <1>2, <2>2
<1>5. CASE Executing
  <2>1. PICK r \in Caller :
          \/ CreateExecution(r) \/ JudgeFails(r)
          \/ \E m \in {"part", "full"} : Judge(r, m)
          \/ \E m \in {"part", "full"} : ExecuteSql(r, m)
    BY <1>5, Zenon DEF Executing
  <2>2. req[r] \in ReqRow
    BY DEF Typed, ReqsOK
  <2>3. \E x : req' = [req EXCEPT ![r] = x] /\ x.q \in {req[r].q, NoReq.q}
    <3>1. CASE CreateExecution(r)
      <4>1. PICK e \in Execution : req' = [req EXCEPT ![r].step = "judge", ![r].exec = e]
        BY <3>1 DEF CreateExecution
      <4>2. req' = [req EXCEPT ![r] = [req[r] EXCEPT !.step = "judge", !.exec = e]]
        BY <4>1 DEF Typed, ReqsOK, ReqRow
      <4>3. [req[r] EXCEPT !.step = "judge", !.exec = e].q = req[r].q
        BY <2>2 DEF ReqRow
      <4>4. QED  BY <4>2, <4>3
    <3>2. CASE JudgeFails(r)
      BY <3>2 DEF JudgeFails
    <3>3. ASSUME NEW m, Judge(r, m)
          PROVE  \E x : req' = [req EXCEPT ![r] = x] /\ x.q \in {req[r].q, NoReq.q}
      <4>1. [req[r] EXCEPT !.step = "save", !.mark = m].q = req[r].q
        BY <2>2 DEF ReqRow
      <4>2. QED  BY <3>3, <4>1 DEF Judge
    <3>4. ASSUME NEW m, ExecuteSql(r, m)
          PROVE  \E x : req' = [req EXCEPT ![r] = x] /\ x.q \in {req[r].q, NoReq.q}
      <4>1. \A e : [req[r] EXCEPT !.step = "save", !.exec = e].q = req[r].q
        BY <2>2 DEF ReqRow
      <4>2. QED  BY <3>4, <4>1 DEF ExecuteSql
    <3>5. QED  BY <2>1, <3>1, <3>2, <3>3, <3>4
  <2>4. QED  BY <1>2, <2>3 DEF Typed, ReqsOK, NothingInFlight
<1>6. CASE Saving
  <2>1. ASSUME NEW r \in Caller, SaveAnswer(r) \/ SaveFails(r) \/ CountRejection(r)
        PROVE  req'[s].q \notin Checked
    <3>1. req[r] \in ReqRow /\ req[r].q \notin Checked
      BY DEF Typed, ReqsOK, NothingInFlight
    <3>2. Saved(r).q \notin Checked
      BY <1>2, <3>1 DEF Saved, ReqRow
    <3>3. req' = [req EXCEPT ![r] = Saved(r)] \/ req' = [req EXCEPT ![r] = NoReq]
      BY <2>1 DEF SaveAnswer, SaveFails, CountRejection
    <3>4. QED  BY <1>2, <3>2, <3>3 DEF Typed, ReqsOK
  <2>2. QED  BY <1>3, <1>6, <2>1 DEF Saving, LogSimulation
<1>7. CASE Scoring
  BY <1>2, <1>7 DEF Scoring, ScoreSimulation, ScoreSimulationFails, Typed, ReqsOK
<1>8. QED
  BY <1>3, <1>4, <1>5, <1>6, <1>7, StepCases, ClosingFrame, DecidingFrame, MovingFrame

\* Being drained is kept as the history variable says.
LEMMA DrainedStep ==
  ASSUME Typed, Drained, [Next]_vars
  PROVE  Drained'
<1>1. CASE UNCHANGED vars
  BY <1>1 DEF vars, Drained, NothingInFlight
<1>2. CASE Next
  BY <1>2, NoneComes DEF Next, Drain, Drained
<1>3. QED  BY <1>1, <1>2

\* Without a checked request in flight no checked answer changes.
LEMMA SealedStep ==
  ASSUME Typed, NothingInFlight, Step, NEW q \in Checked
  PROVE  answer'[q] = answer[q]
<1>1. q \in Question
  BY DEF Checked, Question
<1>2. CASE UNCHANGED answer
  BY <1>2
<1>3. CASE Saving
  <2>1. ASSUME NEW r \in Caller, SaveAnswer(r) \/ SaveFails(r) \/ CountRejection(r)
        PROVE  answer'[q] = answer[q]
    <3>1. req[r].q # q
      BY DEF NothingInFlight
    <3>2. QED
      BY <1>1, <2>1, <3>1 DEF SaveAnswer, SaveFails, CountRejection, rows, Typed, RowsOK
  <2>2. ASSUME NEW p \in Question, LogSimulation(p) PROVE answer'[q] = answer[q]
    <3>1. p # q
      BY <2>2, GradingAssumption DEF LogSimulation, Checked
    <3>2. QED  BY <1>1, <2>2, <3>1 DEF LogSimulation, Typed, RowsOK
  <2>3. QED  BY <1>3, <2>1, <2>2 DEF Saving
<1>4. QED
  BY <1>2, <1>3, StepCases, AcceptingFrame, ExecutingFrame, ScoringFrame, ClosingFrame,
     DecidingFrame, MovingFrame

\* Once a session is finished and no request that saw it active is left, its
\* coding and SQL answers change no more until it is set going again (the
\* status checks of coding.service.ts and sql.service.ts).
THEOREM DrainedAnswersSealed == Spec => AnswersSealed
<1>1. Init => Drained
  BY DEF Init, Drained
<1>2. ASSUME Typed, Drained, [Next]_vars
      PROVE  [drained /\ drained' => \A q \in Checked : answer'[q] = answer[q]]_vars
  BY <1>2, SealedStep DEF Drained, Next
<1>3. QED  BY <1>1, <1>2, DrainedStep, AlwaysTyped, PTL DEF Spec, AnswersSealed

-----------------------------------------------------------------------------
(* What is there stays there *)

\* A row may be born, or get the result of the request that waits for it.
LEMMA ExecStep ==
  ASSUME Typed, Step, NEW e \in Execution
  PROVE  \/ exec'[e] = exec[e]
         \/ /\ exec[e].state = "unborn" /\ exec'[e].state # "unborn"
            /\ exec'[e].mark = "full" => exec'[e].state = "DONE"
         \/ \E r \in Caller :
              /\ req[r].step = "judge" /\ req[r].exec = e
              /\ exec'[e].state = "DONE"
<1>1. CASE UNCHANGED exec
  BY <1>1
<1>2. CASE Executing
  <2>1. PICK r \in Caller :
          \/ CreateExecution(r) \/ JudgeFails(r)
          \/ \E m \in {"part", "full"} : Judge(r, m)
          \/ \E m \in {"part", "full"} : ExecuteSql(r, m)
    BY <1>2, Zenon DEF Executing
  <2>2. exec \in [Execution -> ExecRow]
    BY DEF Typed, RowsOK
  <2>3. CASE CreateExecution(r)
    BY <2>2, <2>3 DEF CreateExecution
  <2>4. CASE JudgeFails(r)
    BY <2>4 DEF JudgeFails, rows
  <2>5. ASSUME NEW m \in {"part", "full"}, Judge(r, m)
        PROVE  exec'[e] = exec[e] \/ (req[r].step = "judge" /\ req[r].exec = e
                                      /\ exec'[e].state = "DONE")
    <3>1. exec' = [exec EXCEPT ![req[r].exec] =
                     [exec[req[r].exec] EXCEPT !.state = "DONE", !.mark = m]]
      BY <2>5, JudgedRow
    <3>2. [exec[e] EXCEPT !.state = "DONE", !.mark = m].state = "DONE"
      BY <2>2 DEF ExecRow
    <3>3. QED  BY <2>2, <2>5, <3>1, <3>2 DEF Judge
  <2>6. ASSUME NEW m \in {"part", "full"}, ExecuteSql(r, m)
        PROVE  exec'[e] = exec[e] \/ (exec[e].state = "unborn" /\ exec'[e].state = "DONE")
    <3>1. \/ UNCHANGED exec
          \/ \E d \in Execution :
               /\ exec[d].state = "unborn"
               /\ exec' = [exec EXCEPT ![d] =
                    [state |-> "DONE", kind |-> req[r].kind, q |-> req[r].q,
                     text |-> req[r].text, mark |-> m]]
      BY <2>6, Zenon DEF ExecuteSql
    <3>2. QED  BY <2>2, <3>1
  <2>7. QED  BY <2>1, <2>3, <2>4, <2>5, <2>6
<1>3. QED
  BY <1>1, <1>2, StepCases, AcceptingFrame, SavingFrame, ScoringFrame, ClosingFrame,
     DecidingFrame, MovingFrame

\* An answer that is there is never taken away.
LEMMA AnswersStay ==
  ASSUME Typed, Step, NEW q \in Question, answer[q] # None
  PROVE  answer'[q] # None
<1>1. CASE UNCHANGED answer
  BY <1>1
<1>2. CASE Saving
  <2>1. ASSUME NEW r \in Caller
        PROVE  Answer(r) \in AnswerRow
    BY DEF Answer, AnswerRow, Typed, ReqsOK, ReqRow
  <2>2. ASSUME NEW r \in Caller, CountRejection(r)
        PROVE  [text |-> req[r].text, mark |-> None,
                draft |-> answer[req[r].q] = None \/ answer[req[r].q].draft] \in AnswerRow
    <3>1. req[r].q \in Question /\ req[r] \in ReqRow
      BY <2>2 DEF CountRejection, Typed, ReqsOK, ReqOK
    <3>2. answer[req[r].q] = None \/ answer[req[r].q].draft \in BOOLEAN
      BY <3>1 DEF Typed, RowsOK, AnswerRow
    <3>3. QED  BY <3>1, <3>2 DEF AnswerRow, ReqRow
  <2>3. [text |-> None, draft |-> TRUE, mark |-> "part"] \in AnswerRow
    BY DEF AnswerRow, Marks
  <2>4. ASSUME NEW p, NEW x \in AnswerRow, answer' = [answer EXCEPT ![p] = x]
        PROVE  answer'[q] # None
    BY <2>4, GradingAssumption DEF Typed, RowsOK
  <2>5. ASSUME NEW r \in Caller, SaveAnswer(r) PROVE answer'[q] # None
    BY <2>1, <2>4, <2>5 DEF SaveAnswer
  <2>6. ASSUME NEW r \in Caller, SaveFails(r) PROVE answer'[q] # None
    BY <2>6 DEF SaveFails, rows
  <2>7. ASSUME NEW r \in Caller, CountRejection(r) PROVE answer'[q] # None
    BY <2>2, <2>4, <2>7 DEF CountRejection
  <2>8. ASSUME NEW p \in Question, LogSimulation(p) PROVE answer'[q] # None
    BY <2>3, <2>4, <2>8 DEF LogSimulation
  <2>9. QED  BY <1>2, <2>5, <2>6, <2>7, <2>8 DEF Saving
<1>3. QED
  BY <1>1, <1>2, StepCases, AcceptingFrame, ExecutingFrame, ScoringFrame, ClosingFrame,
     DecidingFrame, MovingFrame

\* A session that could be published stays so.
LEMMA ConfidentStays ==
  ASSUME Typed, Step, Confident
  PROVE  Confident'
<1>1. PICK q \in Question, e \in Execution : answer[q] # None /\ exec[e].state # "unborn"
  BY DEF Confident
<1>2. answer'[q] # None
  BY <1>1, AnswersStay
<1>3. exec'[e].state # "unborn"
  BY <1>1, ExecStep
<1>4. QED  BY <1>2, <1>3 DEF Confident

\* Marks are a function of the answers and the executions.
LEMMA MarksStay ==
  ASSUME UNCHANGED <<answer, exec>>
  PROVE  /\ \A q \in Question : MarksOf(q)' = MarksOf(q)
         /\ Confident' = Confident
<1>1. \A q \in Question : Rows(q)' = Rows(q)
  BY DEF Rows
<1>2. QED  BY <1>1 DEF MarksOf, Confident

-----------------------------------------------------------------------------
(* Scores *)

\* A decision leaves the score as it is, or marks it as reviewed.
LEMMA DecideScore ==
  ASSUME Typed, Deciding
  PROVE  \/ UNCHANGED score /\ (decision' = decision \/ decision' \in Outcome)
         \/ /\ score # None /\ score' = [score EXCEPT !.reviewed = TRUE]
            /\ decision' \in Outcome
<1> PICK a \in Staff :
      \/ \E o \in Outcome : ReadDecision(a, o)
      \/ SubmitForDecision(a) \/ Commit(a)
  BY Zenon DEF Deciding
<1>1. CASE Commit(a)
  <2>1. call[a].outcome \in Outcome
    BY <1>1 DEF Commit, Typed, CallsOK, CallOK
  <2>2. call[a].scored => score # None
    BY DEF Typed, ScoredKnown
  <2>3. QED  BY <1>1, <2>1, <2>2 DEF Commit, Reviewed
<1>2. CASE ~Commit(a)
  BY <1>2 DEF ReadDecision, SubmitForDecision, rows
<1>3. QED  BY <1>1, <1>2

\* A grading that has read the session knows no more confidence than there is.
LoadsConfident == \A g \in Grader : grade[g].confident => Confident

\* It stays so: what could be published can be later.
LEMMA LoadsConfidentStep ==
  ASSUME Typed, Step, LoadsConfident
  PROVE  LoadsConfident'
<1>1. SUFFICES ASSUME NEW h \in Grader, grade'[h].confident PROVE Confident'
  BY DEF LoadsConfident
<1>2. CASE grade'[h] = grade[h]
  BY <1>1, <1>2, ConfidentStays DEF LoadsConfident
<1>3. CASE grade'[h] # grade[h]
  <2>1. Closing
    BY <1>3, StepCases, AcceptingFrame, ExecutingFrame, SavingFrame, ScoringFrame,
       DecidingFrame, MovingFrame
  <2>2. PICK g \in Grader :
          \/ \E finish \in Finished : Close(g, finish)
          \/ Finish(g) \/ Load(g) \/ SaveScore(g) \/ GradingFails(g)
    BY <2>1, Zenon DEF Closing
  <2>3. h = g /\ grade[g] \in GradeRow /\ (grade[g].confident => Confident)
    BY <1>3, <2>2 DEF Close, Finish, Load, SaveScore, GradingFails, Typed, GradesOK,
       LoadsConfident
  <2>4. CASE \E finish \in Finished : Close(g, finish)
    BY <1>1, <2>3, <2>4 DEF Close, NoGrade, Typed, GradesOK
  <2>5. CASE Finish(g)
    BY <1>1, <2>3, <2>5, ConfidentStays DEF Finish, Typed, GradesOK, GradeRow
  <2>6. CASE Load(g)
    <3>1. grade'[g].confident = Confident
      BY <2>6, <2>3 DEF Load, Typed, GradesOK, GradeRow
    <3>2. QED  BY <1>1, <2>3, <3>1, ConfidentStays
  <2>7. CASE SaveScore(g) \/ GradingFails(g)
    BY <1>1, <2>3, <2>7 DEF SaveScore, GradingFails, NoGrade, Typed, GradesOK
  <2>8. QED  BY <2>2, <2>4, <2>5, <2>6, <2>7
<1>4. QED  BY <1>2, <1>3

\* Each of the three handlers that write the flag has its reason.
LEMMA ReviewedStep ==
  ASSUME Typed, Step, LoadsConfident, ReviewedIsEarned
  PROVE  ReviewedIsEarned'
<1>1. SUFFICES ASSUME score' # None, score'.reviewed
      PROVE  decision' # None \/ Confident'
  BY DEF ReviewedIsEarned
<1>2. CASE UNCHANGED <<score, decision>>
  BY <1>1, <1>2, ConfidentStays DEF ReviewedIsEarned
<1>3. CASE Scoring
  <2>1. PICK r \in Caller : ScoreSimulation(r) \/ ScoreSimulationFails(r)
    BY <1>3 DEF Scoring
  <2>2. CASE ScoreSimulation(r)
    <3>1. score'.reviewed = (score # None /\ score.reviewed)
      BY <2>2 DEF ScoreSimulation
    <3>2. QED  BY <1>1, <1>3, <3>1, ConfidentStays, ScoringFrame DEF ReviewedIsEarned
  <2>3. CASE ScoreSimulationFails(r)
    BY <1>2, <2>3 DEF ScoreSimulationFails, rows
  <2>4. QED  BY <2>1, <2>2, <2>3
<1>4. CASE Closing
  <2>1. UNCHANGED score \/ \E g \in Grader : score'.reviewed = grade[g].confident
    <3>1. PICK g \in Grader :
            \/ \E finish \in Finished : Close(g, finish)
            \/ Finish(g) \/ Load(g) \/ SaveScore(g) \/ GradingFails(g)
      BY <1>4, Zenon DEF Closing
    <3>2. CASE SaveScore(g)
      BY <3>2 DEF SaveScore
    <3>3. CASE ~SaveScore(g)
      BY <3>1, <3>3 DEF Close, Finish, Load, GradingFails, rows
    <3>4. QED  BY <3>2, <3>3
  <2>2. QED
    BY <1>1, <1>2, <1>4, <2>1, ConfidentStays, ClosingFrame DEF LoadsConfident
<1>5. CASE Deciding
  <2>1. CASE decision' \in Outcome
    BY <2>1, GradingAssumption
  <2>2. CASE UNCHANGED <<score, decision>>
    BY <1>2, <2>2
  <2>3. QED  BY <1>5, <2>1, <2>2, DecideScore
<1>6. QED
  BY <1>2, <1>3, <1>4, <1>5, StepCases, AcceptingFrame, ExecutingFrame, SavingFrame, MovingFrame

\* A score marked as reviewed has a decision behind it, or the confidence of a
\* session with an answer and an execution, whichever of saveScores,
\* recordDecision and submitSimulation wrote the flag last.
THEOREM ReviewsAreEarned == Spec => []ReviewedIsEarned
<1>1. Init => LoadsConfident /\ ReviewedIsEarned
  BY DEF Init, LoadsConfident, ReviewedIsEarned, NoGrade
<1>2. ASSUME Typed, LoadsConfident, ReviewedIsEarned, [Next]_vars
      PROVE  LoadsConfident' /\ ReviewedIsEarned'
  <2>1. CASE UNCHANGED vars
    BY <1>2, <2>1, MarksStay DEF vars, rows, LoadsConfident, ReviewedIsEarned
  <2>2. CASE Next
    BY <1>2, <2>2, LoadsConfidentStep, ReviewedStep DEF Next
  <2>3. QED  BY <1>2, <2>1, <2>2
<1>3. QED  BY <1>1, <1>2, AlwaysTyped, PTL DEF Spec

\* A grading that nothing was written after holds what it would read now.
ReadsNow(g) ==
  /\ grade[g].step = "save"
  /\ \A q \in Question : grade[g].marks[q] \in MarksOf(q)
  /\ grade[g].confident = Confident

LoadsCurrent == \A g \in Grader : g \in upToDate => ReadsNow(g)

Current == LoadsCurrent /\ ScoreIsCurrent

\* Nothing is read anew when neither answers nor executions change.
LEMMA CurrentStays ==
  ASSUME Current, UNCHANGED <<answer, exec, grade, upToDate>>, score # None => score' # None,
         score # None => score'.marks = score.marks /\ score'.confident = score.confident
  PROVE  Current'
<1>1. \A q \in Question : MarksOf(q)' = MarksOf(q)
  BY MarksStay
<1>2. Confident' = Confident
  BY MarksStay
<1>3. LoadsCurrent'
  BY <1>1, <1>2 DEF Current, LoadsCurrent, ReadsNow
<1>4. ScoreIsCurrent'
  <2>1. SUFFICES ASSUME "score" \in upToDate
                 PROVE  /\ score' # None
                        /\ \A q \in Question : score'.marks[q] \in MarksOf(q)'
                        /\ score'.confident = Confident'
    BY DEF ScoreIsCurrent
  <2>2. /\ score # None
        /\ \A q \in Question : score.marks[q] \in MarksOf(q)
        /\ score.confident = Confident
    BY <2>1 DEF Current, ScoreIsCurrent
  <2>3. QED  BY <1>1, <1>2, <2>2
<1>5. QED  BY <1>3, <1>4 DEF Current

\* When something was written nothing counts as current.
LEMMA NoneCurrent ==
  ASSUME upToDate' = {}
  PROVE  Current'
BY DEF Current, LoadsCurrent, ScoreIsCurrent

\* A closing reads what is there, and saves what it has read.
LEMMA CloseCurrent ==
  ASSUME Typed, Current, Closing
  PROVE  Current'
<1> PICK g \in Grader :
      \/ \E finish \in Finished : Close(g, finish)
      \/ Finish(g) \/ Load(g) \/ SaveScore(g) \/ GradingFails(g)
  BY Zenon DEF Closing
<1>1. g # "score" /\ grade[g] \in GradeRow
  BY GradingAssumption DEF Typed, GradesOK
<1>2. /\ \A q \in Question : MarksOf(q)' = MarksOf(q)
      /\ Confident' = Confident
  BY ClosingFrame, MarksStay
<1>3. ASSUME NEW h \in Grader, h # g PROVE grade'[h] = grade[h]
  BY <1>3 DEF Close, Finish, Load, SaveScore, GradingFails, Typed, GradesOK
<1>4. ASSUME NEW h \in Grader, h # g, h \in upToDate PROVE ReadsNow(h)'
  BY <1>2, <1>3, <1>4 DEF Current, LoadsCurrent, ReadsNow
<1>5. ASSUME UNCHANGED score, "score" \in upToDate' => "score" \in upToDate
      PROVE  ScoreIsCurrent'
  BY <1>2, <1>5 DEF Current, ScoreIsCurrent
<1>6. CASE SaveScore(g)
  <2>1. LoadsCurrent'
    <3>1. ASSUME NEW h \in Grader, h \in upToDate' PROVE h # g /\ h \in upToDate
      BY <1>6, <3>1, GradingAssumption DEF SaveScore
    <3>2. QED  BY <1>4, <3>1 DEF LoadsCurrent
  <2>2. score' \in ScoreRow
    BY <1>1, <1>6 DEF SaveScore, ScoreRow, GradeRow
  <2>3. score' # None
    BY <2>2, GradingAssumption
  <2>4. "score" \in upToDate' =>
          /\ \A q \in Question : score'.marks[q] \in MarksOf(q)
          /\ score'.confident = Confident
    <3>1. "score" \in upToDate' => g \in upToDate
      BY <1>1, <1>6 DEF SaveScore
    <3>2. score'.marks = grade[g].marks /\ score'.confident = grade[g].confident
      BY <1>6 DEF SaveScore
    <3>3. QED  BY <3>1, <3>2 DEF Current, LoadsCurrent, ReadsNow
  <2>5. ScoreIsCurrent'
    BY <1>2, <2>3, <2>4 DEF ScoreIsCurrent
  <2>6. QED  BY <2>1, <2>5 DEF Current
<1>7. CASE Load(g)
  <2>1. PICK marks \in [Question -> AnyMark] :
          /\ \A q \in Question : marks[q] \in MarksOf(q)
          /\ grade' = [grade EXCEPT ![g].step = "save", ![g].marks = marks,
                                    ![g].confident = Confident]
    BY <1>7 DEF Load
  <2>2. grade'[g].step = "save" /\ grade'[g].marks = marks /\ grade'[g].confident = Confident
    BY <1>1, <2>1 DEF Typed, GradesOK, GradeRow
  <2>3. ReadsNow(g)'
    BY <1>2, <2>1, <2>2 DEF ReadsNow
  <2>4. LoadsCurrent'
    BY <1>4, <1>7, <2>3 DEF Load, LoadsCurrent
  <2>5. UNCHANGED score /\ ("score" \in upToDate' => "score" \in upToDate)
    BY <1>1, <1>7 DEF Load, rows
  <2>6. QED  BY <1>5, <2>4, <2>5 DEF Current
<1>8. CASE GradingFails(g)
  <2>1. LoadsCurrent'
    BY <1>4, <1>8 DEF GradingFails, LoadsCurrent
  <2>2. UNCHANGED score /\ ("score" \in upToDate' => "score" \in upToDate)
    BY <1>8 DEF GradingFails, rows
  <2>3. QED  BY <1>5, <2>1, <2>2 DEF Current
<1>9. CASE Finish(g) \/ \E finish \in Finished : Close(g, finish)
  <2>1. grade[g].step # "save" /\ UNCHANGED <<score, upToDate>>
    BY <1>9 DEF Finish, Close, rows, history
  <2>2. g \notin upToDate'
    BY <2>1 DEF Current, LoadsCurrent, ReadsNow
  <2>3. LoadsCurrent'
    BY <1>4, <2>1, <2>2 DEF LoadsCurrent
  <2>4. QED  BY <1>5, <2>1, <2>3 DEF Current
<1>10. QED  BY <1>6, <1>7, <1>8, <1>9

\* A write of anything graded makes all of it stale, and no other step does.
LEMMA CurrentStep ==
  ASSUME Typed, Step, Current
  PROVE  Current'
<1>1. score # None => score' # None
  BY ScoreStays
<1>2. CASE UNCHANGED <<answer, exec, score, grade, upToDate>>
  BY <1>2, CurrentStays
<1>3. CASE upToDate' = {}
  BY <1>3, NoneCurrent
<1>4. CASE Closing
  BY <1>4, CloseCurrent
<1>5. CASE Deciding
  <2>1. score # None => score'.marks = score.marks /\ score'.confident = score.confident
    <3>1. score # None => score \in ScoreRow
      BY DEF Typed, RowsOK
    <3>2. QED  BY <1>5, <3>1, DecideScore DEF ScoreRow
  <2>2. QED  BY <1>1, <1>5, <2>1, DecidingFrame, CurrentStays DEF history
<1>6. QED
  BY <1>2, <1>3, <1>4, <1>5, StepCases, AcceptingFrame, ExecutingFrame, SavingFrame,
     ScoringFrame, MovingFrame DEF history

\* If nothing was written since the grading that came last read the session,
\* the score is what grading it again may give, whichever gradings overlap
\* (computeSessionScores).
THEOREM ScoresAreCurrent == Spec => []ScoreIsCurrent
<1>1. Init => Current
  BY DEF Init, Current, LoadsCurrent, ScoreIsCurrent
<1>2. ASSUME Typed, Current, [Next]_vars PROVE Current'
  <2>1. CASE UNCHANGED vars
    BY <1>2, <2>1, CurrentStays DEF vars, rows, history
  <2>2. CASE Next
    BY <1>2, <2>2, CurrentStep DEF Next
  <2>3. QED  BY <1>2, <2>1, <2>2
<1>3. Current => ScoreIsCurrent
  BY DEF Current
<1>4. QED  BY <1>1, <1>2, <1>3, AlwaysTyped, PTL DEF Spec

-----------------------------------------------------------------------------
(* Requests and the executions they wait for *)

PendingRow(x) ==
  [state |-> "PENDING", kind |-> x.kind, q |-> x.q, text |-> x.text, mark |-> "part"]

DoneRow(x, m) ==
  [state |-> "DONE", kind |-> x.kind, q |-> x.q, text |-> x.text, mark |-> m]

\* Request r is accepted, creates its row, goes on with a result, goes on to
\* the score, or ends.
Accepted(r) ==
  /\ UNCHANGED exec
  /\ \/ req'[r].step = "create" /\ req'[r].q \in Coding
     \/ req'[r].step = "sandbox" /\ req'[r].q \in Sql
     \/ req'[r].step = "count" /\ req'[r].q \in Prompting
     \/ req'[r].step = "save" /\ (req'[r].kind = "draft" \/ req'[r].q \notin Checked)

Created(r) ==
  /\ req[r].step = "create"
  /\ \E e \in Execution :
       /\ exec[e].state = "unborn"
       /\ exec' = [exec EXCEPT ![e] = PendingRow(req[r])]
       /\ req'[r] = [req[r] EXCEPT !.step = "judge", !.exec = e]

Answered(r) ==
  \E m \in {"part", "full"} :
    \/ /\ req[r].step = "judge"
       /\ exec' = [exec EXCEPT ![req[r].exec] =
                     [exec[req[r].exec] EXCEPT !.state = "DONE", !.mark = m]]
       /\ \/ req'[r] = NoReq
          \/ req[r].kind = "submit" /\ req'[r] = [req[r] EXCEPT !.step = "save", !.mark = m]
     \/ /\ req[r].step = "sandbox"
        /\ \E e \in Execution :
             /\ exec[e].state = "unborn"
             /\ exec' = [exec EXCEPT ![e] = DoneRow(req[r], m)]
             /\ \/ req'[r] = NoReq
                \/ req[r].kind = "submit"
                   /\ req'[r] = [req[r] EXCEPT !.step = "save", !.exec = e]

ToScore(r) ==
  UNCHANGED exec /\ req[r].q \in Simulation /\ req'[r] = [req[r] EXCEPT !.step = "score"]

Ended(r) == UNCHANGED exec /\ req'[r] = NoReq

\* A step is one request's, or changes neither requests nor executions.
LEMMA ReqStep ==
  ASSUME Typed, Step
  PROVE  \/ UNCHANGED <<req, exec>>
         \/ \E r \in Caller :
              /\ \A s \in Caller \ {r} : req'[s] = req[s]
              /\ Accepted(r) \/ Created(r) \/ Answered(r) \/ ToScore(r) \/ Ended(r)
<1>0. req \in [Caller -> ReqRow] /\ exec \in [Execution -> ExecRow]
  BY DEF Typed, ReqsOK, RowsOK
<1> DEFINE Others(r) == \A s \in Caller \ {r} : req'[s] = req[s]
<1>1. CASE Accepting
  <2>1. PICK r \in Caller, q \in Question :
          \/ \E t \in Text :
               \/ \E kind \in {"run", "submit"} : Accept(r, q, kind, t)
               \/ AcceptDraft(r, q, t)
               \/ \E kind \in {"submit", "draft"} : AcceptChoice(r, q, kind, t)
               \/ SubmitPrompt(r, q, t)
          \/ RejectPrompt(r, q)
          \/ \E m \in {"part", "full"} : SubmitSimulation(r, q, m)
    BY <1>1, Zenon DEF Accepting
  <2>2. Others(r)
    BY <1>0, <2>1 DEF Accept, AcceptDraft, AcceptChoice, SubmitPrompt, RejectPrompt,
       SubmitSimulation
  <2>3. ASSUME NEW kind, NEW t, Accept(r, q, kind, t) PROVE Accepted(r)
    BY <1>0, <1>1, <2>3, AcceptingFrame DEF Accept, Accepted, NoReq, Checked
  <2>4. ASSUME NEW t, AcceptDraft(r, q, t) PROVE Accepted(r)
    BY <1>0, <1>1, <2>4, AcceptingFrame DEF AcceptDraft, Accepted, NoReq
  <2>5. ASSUME NEW kind, NEW t, AcceptChoice(r, q, kind, t) PROVE Accepted(r)
    BY <1>0, <1>1, <2>5, AcceptingFrame, GradingAssumption
       DEF AcceptChoice, Accepted, NoReq, Checked
  <2>6. ASSUME NEW t, SubmitPrompt(r, q, t) PROVE Accepted(r)
    BY <1>0, <1>1, <2>6, AcceptingFrame, GradingAssumption
       DEF SubmitPrompt, Accepted, NoReq, Checked
  <2>7. ASSUME RejectPrompt(r, q) PROVE Accepted(r)
    BY <1>0, <1>1, <2>7, AcceptingFrame DEF RejectPrompt, Accepted, NoReq
  <2>8. ASSUME NEW m, SubmitSimulation(r, q, m) PROVE Accepted(r)
    BY <1>0, <1>1, <2>8, AcceptingFrame, GradingAssumption
       DEF SubmitSimulation, Accepted, NoReq, Checked
  <2>9. Accepted(r)
    BY <2>1, <2>3, <2>4, <2>5, <2>6, <2>7, <2>8, Zenon
  <2>10. QED  BY <2>2, <2>9
<1>2. CASE Executing
  <2>1. PICK r \in Caller :
          \/ CreateExecution(r) \/ JudgeFails(r)
          \/ \E m \in {"part", "full"} : Judge(r, m)
          \/ \E m \in {"part", "full"} : ExecuteSql(r, m)
    BY <1>2, Zenon DEF Executing
  <2>2. CASE CreateExecution(r)
    <3>1. PICK e \in Execution :
            /\ exec[e].state = "unborn"
            /\ exec' = [exec EXCEPT ![e] = PendingRow(req[r])]
            /\ req' = [req EXCEPT ![r].step = "judge", ![r].exec = e]
      BY <2>2, Zenon DEF CreateExecution, PendingRow
    <3>2. req' = [req EXCEPT ![r] = [req[r] EXCEPT !.step = "judge", !.exec = e]]
      BY <1>0, <3>1 DEF ReqRow
    <3>3. Others(r) /\ req'[r] = [req[r] EXCEPT !.step = "judge", !.exec = e]
      BY <1>0, <3>2
    <3>4. QED  BY <2>2, <3>1, <3>3 DEF CreateExecution, Created
  <2>3. CASE JudgeFails(r)
    <3>1. Others(r) /\ Ended(r)
      BY <1>0, <2>3 DEF JudgeFails, Ended, rows
    <3>2. QED  BY <3>1
  <2>4. ASSUME NEW m \in {"part", "full"}, Judge(r, m) PROVE Others(r) /\ Answered(r)
    <3>1. exec' = [exec EXCEPT ![req[r].exec] =
                     [exec[req[r].exec] EXCEPT !.state = "DONE", !.mark = m]]
      BY <2>4, JudgedRow
    <3>2. /\ Others(r)
          /\ \/ req'[r] = NoReq
             \/ req[r].kind = "submit" /\ req'[r] = [req[r] EXCEPT !.step = "save", !.mark = m]
      BY <1>0, <2>4 DEF Judge
    <3>3. QED  BY <2>4, <3>1, <3>2, Zenon DEF Judge, Answered
  <2>5. ASSUME NEW m \in {"part", "full"}, ExecuteSql(r, m)
        PROVE  Others(r) /\ (Ended(r) \/ Answered(r))
    <3>1. CASE req' = [req EXCEPT ![r] = NoReq] /\ UNCHANGED exec
      BY <1>0, <3>1 DEF Ended
    <3>2. ASSUME NEW e \in Execution, exec[e].state = "unborn",
                 exec' = [exec EXCEPT ![e] = DoneRow(req[r], m)],
                 req' = [req EXCEPT ![r] = IF req[r].kind = "submit"
                           THEN [req[r] EXCEPT !.step = "save", !.exec = e] ELSE NoReq]
          PROVE  Others(r) /\ Answered(r)
      <4>1. /\ Others(r)
            /\ \/ req'[r] = NoReq
               \/ req[r].kind = "submit"
                  /\ req'[r] = [req[r] EXCEPT !.step = "save", !.exec = e]
        BY <1>0, <3>2
      <4>2. req[r].step = "sandbox"
        BY <2>5 DEF ExecuteSql
      <4>3. QED  BY <3>2, <4>1, <4>2, Zenon DEF Answered
    <3>3. QED  BY <2>5, <3>1, <3>2, Zenon DEF ExecuteSql, DoneRow
  <2>6. QED  BY <2>1, <2>2, <2>3, <2>4, <2>5
<1>3. CASE Saving
  <2>1. UNCHANGED exec
    BY <1>3, SavingFrame
  <2>2. ASSUME NEW r \in Caller, SaveAnswer(r) \/ SaveFails(r) \/ CountRejection(r)
        PROVE  Others(r) /\ (ToScore(r) \/ Ended(r))
    BY <1>0, <2>1, <2>2 DEF SaveAnswer, SaveFails, CountRejection, Saved, ToScore, Ended
  <2>3. QED  BY <1>3, <2>1, <2>2 DEF Saving, LogSimulation
<1>4. CASE Scoring
  <2>1. PICK r \in Caller : ScoreSimulation(r) \/ ScoreSimulationFails(r)
    BY <1>4 DEF Scoring
  <2>2. Others(r) /\ Ended(r)
    BY <1>0, <1>4, <2>1, ScoringFrame DEF ScoreSimulation, ScoreSimulationFails, Ended
  <2>3. QED  BY <2>2
<1>5. QED
  BY <1>1, <1>2, <1>3, <1>4, StepCases, ClosingFrame, DecidingFrame, MovingFrame

\* A request that waits for a result has a row of its own, which waits as well.
Owned ==
  /\ \A r \in Caller : req[r].step = "judge" => exec[req[r].exec] = PendingRow(req[r])
  /\ \A r, s \in Caller :
       r # s /\ req[r].step = "judge" /\ req[s].step = "judge" => req[r].exec # req[s].exec

\* A request is about a question its route takes.
RightQuestion(x) ==
  /\ x.step \in {"create", "judge"} => x.q \in Coding
  /\ x.step = "sandbox" => x.q \in Sql
  /\ x.step = "count" => x.q \in Prompting
  /\ x.step = "score" => x.q \in Simulation

Routed == \A r \in Caller : RightQuestion(req[r])

\* A request that has its answer waits no more.
LEMMA AnsweredMoves ==
  ASSUME Typed, NEW r \in Caller, Answered(r)
  PROVE  req'[r].step \in {"save", "idle"}
<1>1. req[r] \in ReqRow
  BY DEF Typed, ReqsOK
<1>2. ASSUME NEW m PROVE [req[r] EXCEPT !.step = "save", !.mark = m].step = "save"
  BY <1>1 DEF ReqRow
<1>3. ASSUME NEW e PROVE [req[r] EXCEPT !.step = "save", !.exec = e].step = "save"
  BY <1>1 DEF ReqRow
<1>4. NoReq.step = "idle"
  BY DEF NoReq
<1>5. \/ req'[r] = NoReq
      \/ \E m : req'[r] = [req[r] EXCEPT !.step = "save", !.mark = m]
      \/ \E e : req'[r] = [req[r] EXCEPT !.step = "save", !.exec = e]
  BY Zenon DEF Answered
<1>6. QED  BY <1>2, <1>3, <1>4, <1>5

\* Requests keep their question on the way from step to step.
LEMMA RoutedStep ==
  ASSUME Typed, Step, Routed
  PROVE  Routed'
<1>1. SUFFICES ASSUME NEW s \in Caller PROVE RightQuestion(req'[s])
  BY DEF Routed
<1>2. CASE req'[s] = req[s]
  BY <1>2 DEF Routed
<1>3. CASE req'[s] # req[s]
  <2>1. Accepted(s) \/ Created(s) \/ Answered(s) \/ ToScore(s) \/ Ended(s)
    BY <1>3, ReqStep
  <2>2. req[s] \in ReqRow /\ RightQuestion(req[s])
    BY DEF Typed, ReqsOK, Routed
  <2>3. CASE Accepted(s)
    BY <2>3 DEF Accepted, RightQuestion
  <2>4. CASE Created(s)
    <3>1. PICK e : req'[s] = [req[s] EXCEPT !.step = "judge", !.exec = e]
      BY <2>4 DEF Created
    <3>2. req'[s].step = "judge" /\ req'[s].q = req[s].q
      BY <2>2, <3>1 DEF ReqRow
    <3>3. QED  BY <2>2, <2>4, <3>2 DEF Created, RightQuestion
  <2>5. CASE Answered(s)
    <3>1. req'[s].step \in {"save", "idle"}
      BY <2>5, AnsweredMoves
    <3>2. QED  BY <3>1 DEF RightQuestion
  <2>6. CASE ToScore(s)
    BY <2>2, <2>6 DEF ToScore, RightQuestion, ReqRow
  <2>7. CASE Ended(s)
    BY <2>7 DEF Ended, RightQuestion, NoReq
  <2>8. QED  BY <2>1, <2>3, <2>4, <2>5, <2>6, <2>7
<1>4. QED  BY <1>2, <1>3

\* A row is created for one request only, and no other touches it.
LEMMA OwnedStep ==
  ASSUME Typed, Step, Owned
  PROVE  Owned'
<1>0. req \in [Caller -> ReqRow] /\ exec \in [Execution -> ExecRow]
  BY DEF Typed, ReqsOK, RowsOK
<1>1. ASSUME NEW s \in Caller, req[s].step = "judge"
      PROVE  /\ req[s].exec \in Execution /\ exec[req[s].exec] = PendingRow(req[s])
             /\ exec[req[s].exec].state = "PENDING"
  BY <1>1 DEF Typed, ReqsOK, ReqOK, Owned, PendingRow
<1>2. CASE UNCHANGED <<req, exec>>
  BY <1>2 DEF Owned
<1>3. ASSUME NEW r \in Caller, \A s \in Caller \ {r} : req'[s] = req[s],
             Accepted(r) \/ Created(r) \/ Answered(r) \/ ToScore(r) \/ Ended(r)
      PROVE  Owned'
  <2>1. ASSUME NEW s \in Caller, s # r, req[s].step = "judge"
        PROVE  exec'[req[s].exec] = exec[req[s].exec]
    <3>1. CASE UNCHANGED exec
      BY <3>1
    <3>2. ASSUME NEW e \in Execution, NEW x, exec[e].state = "unborn",
                 exec' = [exec EXCEPT ![e] = x]
          PROVE  exec'[req[s].exec] = exec[req[s].exec]
      BY <1>0, <1>1, <2>1, <3>2
    <3>3. ASSUME req[r].step = "judge", NEW x, exec' = [exec EXCEPT ![req[r].exec] = x]
          PROVE  exec'[req[s].exec] = exec[req[s].exec]
      BY <1>0, <1>1, <2>1, <3>3 DEF Owned
    <3>4. QED  BY <1>3, <3>1, <3>2, <3>3 DEF Accepted, Created, Answered, ToScore, Ended
  <2>2. CASE Created(r)
    <3>1. PICK e \in Execution :
            /\ exec[e].state = "unborn"
            /\ exec' = [exec EXCEPT ![e] = PendingRow(req[r])]
            /\ req'[r] = [req[r] EXCEPT !.step = "judge", !.exec = e]
      BY <2>2 DEF Created
    <3>2. /\ req'[r].exec = e
          /\ PendingRow(req'[r]) = PendingRow(req[r])
      BY <1>0, <3>1 DEF ReqRow, PendingRow
    <3>3. exec'[req'[r].exec] = PendingRow(req'[r])
      BY <1>0, <3>1, <3>2
    <3>4. ASSUME NEW s \in Caller, s # r, req[s].step = "judge"
          PROVE  req[s].exec # e
      BY <1>1, <3>1, <3>4
    <3>5. QED  BY <1>1, <1>3, <2>1, <3>2, <3>3, <3>4 DEF Owned
  <2>3. CASE ~Created(r)
    <3>1. req'[r].step # "judge"
      BY <1>0, <1>3, <2>3, AnsweredMoves DEF Accepted, ToScore, Ended, ReqRow, NoReq
    <3>2. QED  BY <1>1, <1>3, <2>1, <3>1 DEF Owned
  <2>4. QED  BY <2>2, <2>3
<1>4. QED  BY <1>2, <1>3, ReqStep

\* A row that has a result keeps it.
LEMMA DoneStays ==
  ASSUME Typed, Step, Owned, NEW e \in Execution, exec[e].state = "DONE"
  PROVE  exec'[e] = exec[e]
<1>1. ASSUME NEW r \in Caller, req[r].step = "judge", req[r].exec = e PROVE FALSE
  <2>1. exec[e] = PendingRow(req[r])
    BY <1>1 DEF Owned
  <2>2. PendingRow(req[r]).state = "PENDING"
    BY DEF PendingRow
  <2>3. QED  BY <2>1, <2>2
<1>2. QED  BY <1>1, ExecStep

-----------------------------------------------------------------------------
(* Full marks *)

\* Only an execution that has its result may have passed everything.
FullDone == \A e \in Execution : exec[e].mark = "full" => exec[e].state = "DONE"

FullRun(q) ==
  \E e \in Execution : exec[e].state = "DONE" /\ exec[e].q = q /\ exec[e].mark = "full"

LoadsEarned ==
  \A g \in Grader, q \in Coding :
    grade[g].step = "save" /\ grade[g].marks[q] = "full" => FullRun(q)

\* A row that appears or gets its result is full only when it is done.
LEMMA FullDoneStep ==
  ASSUME Typed, Step, FullDone
  PROVE  FullDone'
<1>1. SUFFICES ASSUME NEW e \in Execution, exec'[e].mark = "full"
               PROVE  exec'[e].state = "DONE"
  BY DEF FullDone
<1>2. QED  BY <1>1, ExecStep DEF FullDone

\* A full run stays on record.
LEMMA FullRunStays ==
  ASSUME Typed, Step, Owned, NEW q, FullRun(q)
  PROVE  FullRun(q)'
BY DoneStays DEF FullRun

\* A full mark that is graded is that of an execution.
LEMMA FullMarkRun ==
  ASSUME FullDone, NEW q \in Coding, "full" \in MarksOf(q)
  PROVE  FullRun(q)
<1>1. answer[q] # None
  BY GradingAssumption DEF MarksOf, Marks
<1>2. MarksOf(q) = IF Rows(q) = {} THEN {"fallback"} ELSE {exec[e].mark : e \in Rows(q)}
  BY <1>1, GradingAssumption DEF MarksOf
<1>3. PICK e \in Rows(q) : exec[e].mark = "full"
  BY <1>2
<1>4. QED  BY <1>3 DEF Rows, FullRun, FullDone

\* A grading reads full marks of full runs only.
LEMMA LoadsEarnedStep ==
  ASSUME Typed, Step, Owned, FullDone, LoadsEarned
  PROVE  LoadsEarned'
<1>1. SUFFICES ASSUME NEW h \in Grader, NEW q \in Coding,
                      grade'[h].step = "save", grade'[h].marks[q] = "full"
               PROVE  FullRun(q)'
  BY DEF LoadsEarned
<1>2. CASE grade'[h] = grade[h]
  BY <1>1, <1>2, FullRunStays DEF LoadsEarned
<1>3. CASE grade'[h] # grade[h]
  <2>1. Closing
    BY <1>3, StepCases, AcceptingFrame, ExecutingFrame, SavingFrame, ScoringFrame,
       DecidingFrame, MovingFrame
  <2>2. PICK g \in Grader :
          \/ \E finish \in Finished : Close(g, finish)
          \/ Finish(g) \/ Load(g) \/ SaveScore(g) \/ GradingFails(g)
    BY <2>1, Zenon DEF Closing
  <2>3. h = g /\ grade[g] \in GradeRow
    BY <1>3, <2>2 DEF Close, Finish, Load, SaveScore, GradingFails, Typed, GradesOK
  <2>4. CASE Load(g)
    <3>1. grade'[g].marks[q] \in MarksOf(q)
      <4>1. q \in Question
        BY DEF Question
      <4>2. PICK marks \in [Question -> AnyMark] :
              /\ \A p \in Question : marks[p] \in MarksOf(p)
              /\ grade' = [grade EXCEPT ![g].step = "save", ![g].marks = marks,
                                        ![g].confident = Confident]
        BY <2>4 DEF Load
      <4>3. grade'[g].marks = marks
        BY <2>3, <4>2 DEF Typed, GradesOK, GradeRow
      <4>4. QED  BY <4>1, <4>2, <4>3
    <3>2. QED  BY <1>1, <2>3, <3>1, FullMarkRun, FullRunStays
  <2>5. CASE ~Load(g)
    <3>1. CASE Finish(g)
      BY <1>1, <2>3, <3>1 DEF Finish, Typed, GradesOK, GradeRow
    <3>2. CASE SaveScore(g) \/ GradingFails(g)
      BY <1>1, <2>3, <3>2 DEF SaveScore, GradingFails, NoGrade, Typed, GradesOK
    <3>3. ASSUME NEW finish \in Finished, Close(g, finish) PROVE FALSE
      BY <1>1, <2>3, <3>3 DEF Close, NoGrade, Typed, GradesOK
    <3>4. QED  BY <2>2, <2>5, <3>1, <3>2, <3>3
  <2>6. QED  BY <2>4, <2>5
<1>4. QED  BY <1>2, <1>3

\* Neither gradings nor simulations nor decisions write any other.
LEMMA FullMarkStep ==
  ASSUME Typed, Step, Owned, Routed, LoadsEarned, FullMarkEarned
  PROVE  FullMarkEarned'
<1>1. SUFFICES ASSUME score' # None, NEW q \in Coding, score'.marks[q] = "full"
               PROVE  FullRun(q)'
  BY DEF FullMarkEarned, FullRun
<1>2. CASE UNCHANGED score
  <2>1. FullRun(q)
    BY <1>1, <1>2 DEF FullMarkEarned, FullRun
  <2>2. QED  BY <2>1, FullRunStays
<1>3. CASE Scoring
  <2>1. PICK r \in Caller : ScoreSimulation(r) \/ ScoreSimulationFails(r)
    BY <1>3 DEF Scoring
  <2>2. CASE ScoreSimulation(r)
    <3>1. score'.marks = OnlyMark(req[r].q, req[r].mark) /\ req[r].q \in Simulation
      BY <2>2 DEF ScoreSimulation, Routed, RightQuestion
    <3>2. q \in Question /\ q # req[r].q
      BY <3>1, GradingAssumption DEF Question
    <3>3. score'.marks[q] = None
      BY <3>1, <3>2 DEF OnlyMark
    <3>4. QED  BY <1>1, <3>3, GradingAssumption DEF Marks
  <2>3. CASE ScoreSimulationFails(r)
    BY <1>2, <2>3 DEF ScoreSimulationFails, rows
  <2>4. QED  BY <2>1, <2>2, <2>3
<1>4. CASE Closing
  <2>1. PICK g \in Grader :
          \/ \E finish \in Finished : Close(g, finish)
          \/ Finish(g) \/ Load(g) \/ SaveScore(g) \/ GradingFails(g)
    BY <1>4, Zenon DEF Closing
  <2>2. CASE SaveScore(g)
    <3>1. grade[g].step = "save" /\ score'.marks = grade[g].marks
      BY <2>2 DEF SaveScore
    <3>2. FullRun(q)
      BY <1>1, <3>1 DEF LoadsEarned
    <3>3. QED  BY <3>2, FullRunStays
  <2>3. CASE ~SaveScore(g)
    BY <1>2, <2>1, <2>3 DEF Close, Finish, Load, GradingFails, rows
  <2>4. QED  BY <2>2, <2>3
<1>5. CASE Deciding
  <2>1. CASE UNCHANGED score
    BY <1>2, <2>1
  <2>2. CASE score # None /\ score' = [score EXCEPT !.reviewed = TRUE]
    <3>1. score \in ScoreRow
      BY <2>2 DEF Typed, RowsOK
    <3>2. score'.marks = score.marks
      BY <2>2, <3>1 DEF ScoreRow
    <3>3. FullRun(q)
      BY <1>1, <2>2, <3>2 DEF FullMarkEarned, FullRun
    <3>4. QED  BY <3>3, FullRunStays
  <2>3. QED  BY <1>5, <2>1, <2>2, DecideScore
<1>6. QED
  BY <1>2, <1>3, <1>4, <1>5, StepCases, AcceptingFrame, ExecutingFrame, SavingFrame, MovingFrame

-----------------------------------------------------------------------------
(* Submitted answers *)

\* Text t was run to the end as a submission to q, with mark m if it is code.
RanAs(q, t, m) ==
  \E e \in Execution :
    /\ exec[e].state = "DONE" /\ exec[e].kind = "submit"
    /\ exec[e].q = q /\ exec[e].text = t
    /\ q \in Coding => exec[e].mark = m

\* A request about to save a submission has had its run.
SavesRan ==
  \A r \in Caller :
    req[r].step = "save" /\ req[r].q \in Checked /\ req[r].kind # "draft" =>
      RanAs(req[r].q, req[r].text, req[r].mark)

\* A run stays on record: what req[r] or answer[q] names now is there later.
LEMMA RanStays ==
  ASSUME Typed, Step, Owned
  PROVE  \A q, t, m : RanAs(q, t, m) =>
           \E e \in Execution :
             /\ exec'[e].state = "DONE" /\ exec'[e].kind = "submit"
             /\ exec'[e].q = q /\ exec'[e].text = t
             /\ q \in Coding => exec'[e].mark = m
BY DoneStays DEF RanAs

\* A submission goes on to be saved with the row that has its result.
LEMMA AnsweredRan ==
  ASSUME Typed, Owned, Routed, NEW r \in Caller, Answered(r), req'[r].step = "save"
  PROVE  \E e \in Execution :
           /\ exec'[e].state = "DONE" /\ exec'[e].kind = "submit"
           /\ exec'[e].q = req'[r].q /\ exec'[e].text = req'[r].text
           /\ req'[r].q \in Coding => exec'[e].mark = req'[r].mark
<1>0. req[r] \in ReqRow /\ RightQuestion(req[r]) /\ exec \in [Execution -> ExecRow]
  BY DEF Typed, ReqsOK, RowsOK, Routed
<1>1. req'[r] # NoReq
  BY DEF NoReq
<1>2. PICK m \in {"part", "full"} :
        \/ /\ req[r].step = "judge" /\ req[r].kind = "submit"
           /\ exec' = [exec EXCEPT ![req[r].exec] =
                         [exec[req[r].exec] EXCEPT !.state = "DONE", !.mark = m]]
           /\ req'[r] = [req[r] EXCEPT !.step = "save", !.mark = m]
        \/ /\ req[r].step = "sandbox" /\ req[r].kind = "submit"
           /\ \E e \in Execution :
                /\ exec' = [exec EXCEPT ![e] = DoneRow(req[r], m)]
                /\ req'[r] = [req[r] EXCEPT !.step = "save", !.exec = e]
  BY <1>1, Zenon DEF Answered
<1>3. CASE /\ req[r].step = "judge" /\ req[r].kind = "submit"
           /\ exec' = [exec EXCEPT ![req[r].exec] =
                         [exec[req[r].exec] EXCEPT !.state = "DONE", !.mark = m]]
           /\ req'[r] = [req[r] EXCEPT !.step = "save", !.mark = m]
  <2>1. req[r].exec \in Execution /\ exec[req[r].exec] = PendingRow(req[r])
    BY <1>3 DEF Typed, ReqsOK, ReqOK, Owned
  <2>2. exec'[req[r].exec] = DoneRow(req[r], m)
    <3>1. exec'[req[r].exec] = [PendingRow(req[r]) EXCEPT !.state = "DONE", !.mark = m]
      BY <1>0, <1>3, <2>1, Zenon
    <3>2. QED  BY <3>1 DEF PendingRow, DoneRow
  <2>3. /\ req'[r].q = req[r].q /\ req'[r].text = req[r].text /\ req'[r].mark = m
    <3>1. req'[r] = [req[r] EXCEPT !.step = "save", !.mark = m]
      BY <1>3, Zenon
    <3>2. QED  BY <1>0, <3>1 DEF ReqRow
  <2>4. req[r].kind = "submit"
    BY <1>3, Zenon
  <2>5. /\ DoneRow(req[r], m).state = "DONE" /\ DoneRow(req[r], m).kind = "submit"
        /\ DoneRow(req[r], m).q = req[r].q /\ DoneRow(req[r], m).text = req[r].text
        /\ DoneRow(req[r], m).mark = m
    BY <2>4 DEF DoneRow
  <2>6. QED  BY <2>1, <2>2, <2>3, <2>5
<1>4. ASSUME req[r].step = "sandbox", req[r].kind = "submit", NEW e \in Execution,
             exec' = [exec EXCEPT ![e] = DoneRow(req[r], m)],
             req'[r] = [req[r] EXCEPT !.step = "save", !.exec = e]
      PROVE  /\ exec'[e].state = "DONE" /\ exec'[e].kind = "submit"
             /\ exec'[e].q = req'[r].q /\ exec'[e].text = req'[r].text
             /\ req'[r].q \in Coding => exec'[e].mark = req'[r].mark
  <2>1. exec'[e] = DoneRow(req[r], m)
    BY <1>0, <1>4
  <2>2. req'[r].q = req[r].q /\ req'[r].text = req[r].text
    BY <1>0, <1>4 DEF ReqRow
  <2>3. req[r].q \notin Coding
    BY <1>0, <1>4, GradingAssumption DEF RightQuestion
  <2>4. QED  BY <1>4, <2>1, <2>2, <2>3 DEF DoneRow
<1>5. QED  BY <1>2, <1>3, <1>4

\* So every request that is about to save has had its run.
LEMMA SavesRanStep ==
  ASSUME Typed, Step, Owned, Routed, SavesRan
  PROVE  SavesRan'
<1>1. SUFFICES ASSUME NEW s \in Caller, req'[s].step = "save", req'[s].q \in Checked,
                      req'[s].kind # "draft"
               PROVE  RanAs(req[s].q, req[s].text, req[s].mark)'
  BY DEF SavesRan
<1>2. CASE req'[s] = req[s]
  <2>1. RanAs(req[s].q, req[s].text, req[s].mark)
    BY <1>1, <1>2 DEF SavesRan
  <2>2. QED  BY <1>2, <2>1, RanStays DEF RanAs
<1>3. CASE req'[s] # req[s]
  <2>1. Accepted(s) \/ Created(s) \/ Answered(s) \/ ToScore(s) \/ Ended(s)
    BY <1>3, ReqStep
  <2>2. req[s] \in ReqRow
    BY DEF Typed, ReqsOK
  <2>3. ~Created(s)
    <3>1. ASSUME NEW e PROVE [req[s] EXCEPT !.step = "judge", !.exec = e].step = "judge"
      BY <2>2 DEF ReqRow
    <3>2. QED  BY <1>1, <3>1 DEF Created
  <2>4. Answered(s)
    BY <1>1, <2>1, <2>2, <2>3 DEF Accepted, ToScore, Ended, ReqRow, NoReq
  <2>5. QED  BY <1>1, <2>4, AnsweredRan DEF RanAs
<1>4. QED  BY <1>2, <1>3

\* And every answer that is saved as submitted was run.
LEMMA SubmittedStep ==
  ASSUME Typed, Step, Owned, Routed, SavesRan, SubmittedAnswerRan
  PROVE  SubmittedAnswerRan'
<1>1. SUFFICES ASSUME NEW q \in Checked, answer'[q] # None, ~answer'[q].draft
               PROVE  RanAs(q, answer[q].text, answer[q].mark)'
  BY DEF SubmittedAnswerRan, RanAs
<1>2. q \in Question
  BY DEF Checked, Question
<1>3. CASE answer'[q] = answer[q]
  <2>1. RanAs(q, answer[q].text, answer[q].mark)
    BY <1>1, <1>3 DEF SubmittedAnswerRan, RanAs
  <2>2. QED  BY <1>3, <2>1, RanStays DEF RanAs
<1>4. CASE answer'[q] # answer[q]
  <2>1. Saving
    BY <1>4, StepCases, AcceptingFrame, ExecutingFrame, ScoringFrame, ClosingFrame,
       DecidingFrame, MovingFrame
  <2>2. ASSUME NEW p \in Question, LogSimulation(p) PROVE FALSE
    <3>1. p # q
      BY <2>2, GradingAssumption DEF LogSimulation, Checked
    <3>2. QED  BY <1>2, <1>4, <2>2, <3>1 DEF LogSimulation, Typed, RowsOK
  <2>3. ASSUME NEW r \in Caller, SaveFails(r) PROVE FALSE
    BY <1>4, <2>3 DEF SaveFails, rows
  <2>4. ASSUME NEW r \in Caller, CountRejection(r) PROVE FALSE
    <3>1. req[r].q # q
      BY <2>4, GradingAssumption DEF CountRejection, Routed, RightQuestion, Checked
    <3>2. QED  BY <1>2, <1>4, <2>4, <3>1 DEF CountRejection, Typed, RowsOK
  <2>5. PICK r \in Caller : SaveAnswer(r)
    BY <2>1, <2>2, <2>3, <2>4 DEF Saving
  <2>6. req[r].q = q /\ answer'[q] = Answer(r)
    BY <1>2, <1>4, <2>5 DEF SaveAnswer, Typed, RowsOK
  <2>7. RanAs(q, req[r].text, req[r].mark)
    <3>1. answer'[q].draft = (req[r].kind = "draft")
      BY <2>6 DEF Answer
    <3>2. QED  BY <1>1, <2>5, <2>6, <3>1 DEF SaveAnswer, SavesRan
  <2>8. req[r].text = answer'[q].text /\ req[r].mark = answer'[q].mark
    BY <2>6 DEF Answer
  <2>9. QED  BY <2>7, <2>8, RanStays DEF RanAs
<1>5. QED  BY <1>3, <1>4

-----------------------------------------------------------------------------
\* What requests, executions and gradings have to do with each other.
Kept == Owned /\ Routed /\ FullDone /\ LoadsEarned /\ SavesRan

\* They hold throughout, and with them what is saved and graded.
LEMMA AlwaysKept == Spec => [](Kept /\ FullMarkEarned /\ SubmittedAnswerRan)
<1>1. ASSUME Init PROVE Kept /\ FullMarkEarned /\ SubmittedAnswerRan
  <2>1. Owned /\ Routed /\ SavesRan
    BY <1>1 DEF Init, NoReq, Owned, Routed, RightQuestion, SavesRan
  <2>2. FullDone
    BY <1>1, GradingAssumption DEF Init, NoExec, FullDone, Marks
  <2>3. LoadsEarned /\ FullMarkEarned
    BY <1>1 DEF Init, NoGrade, LoadsEarned, FullMarkEarned
  <2>4. SubmittedAnswerRan
    BY <1>1 DEF Init, SubmittedAnswerRan, Checked, Question
  <2>5. QED  BY <2>1, <2>2, <2>3, <2>4 DEF Kept
<1>2. ASSUME Typed, Kept, FullMarkEarned, SubmittedAnswerRan, [Next]_vars
      PROVE  Kept' /\ FullMarkEarned' /\ SubmittedAnswerRan'
  <2>1. CASE UNCHANGED vars
    BY <1>2, <2>1 DEF vars, rows, Kept, Owned, Routed, FullDone, LoadsEarned, FullRun, SavesRan,
       RanAs, FullMarkEarned, SubmittedAnswerRan
  <2>2. CASE Next
    BY <1>2, <2>2, OwnedStep, RoutedStep, FullDoneStep, LoadsEarnedStep, SavesRanStep,
       FullMarkStep, SubmittedStep DEF Next, Kept
  <2>3. QED  BY <1>2, <2>1, <2>2
<1>3. QED  BY <1>1, <1>2, AlwaysTyped, PTL DEF Spec

\* A submitted coding or SQL answer was run to the end as that question's
\* submission, and a coding answer holds that run's result, however many
\* submissions, runs and drafts of a question overlap (coding.service.ts and
\* sql.service.ts submit).
THEOREM SubmittedAnswersRan == Spec => []SubmittedAnswerRan
BY AlwaysKept, PTL

\* No code is graded fully right unless an execution of that question passed
\* everything, whatever ran while the score was computed (evaluateCoding).
THEOREM FullMarksEarned == Spec => []FullMarkEarned
BY AlwaysKept, PTL

=============================================================================
