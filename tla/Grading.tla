------------------------------- MODULE Grading -------------------------------
(***************************************************************************)
(* The answers of one session, the executions behind them, the score they  *)
(* are graded to and the recruiter's decision.                             *)
(*                                                                         *)
(* A request of the candidate reads the session first and writes the       *)
(* answer last: for code, Judge0's run of the tests lies in between.  The  *)
(* grader reads every answer and execution, and upserts the score; a       *)
(* simulation that is submitted writes the same score; a decision marks    *)
(* it as reviewed.  None of them holds a lock, and any of them may be      *)
(* under way when the session is finished or decided.                      *)
(*                                                                         *)
(* Abstracted: marks keep only whether everything was right or less (or    *)
(* that the length of the text was graded for want of a result);           *)
(* weights and the composite are functions of the marks.  The include of   *)
(* the grader's query is one read.  How the status moves is the subject of *)
(* SessionLifecycle: here a session is active, finished or abandoned, and  *)
(* Reopen, SubmitAtLimit and Remove are what its other handlers do.        *)
(***************************************************************************)
EXTENDS FiniteSets

CONSTANTS
  Coding, Sql, Mcq, Prompting, Simulation,  \* the questions of each module
  Text,                          \* what an answer may say ...
  Correct,                       \* ... and which options are right ones
  Execution,                     \* ids of execution rows, each used once
  Outcome,                       \* what a recruiter may decide
  Caller, Grader, Staff,         \* slots for calls in flight
  None                           \* SQL NULL, or no row

Question == Coding \cup Sql \cup Mcq \cup Prompting \cup Simulation

\* Questions whose routes look at the session's status before they answer.
Checked == Coding \cup Sql

Marks    == {"part", "full", "fallback"}
Finished == {"SUBMITTED", "AUTO_SUBMITTED"}
Over     == Finished \cup {"ABANDONED"}

\* The rows of the tables.
AnswerRow == [text : Text \cup {None}, draft : BOOLEAN, mark : Marks \cup {None}]
ExecRow   == [state : {"unborn", "PENDING", "DONE"}, kind : {"run", "submit", None},
              q : Question \cup {None}, text : Text \cup {None},
              mark : Marks \cup {None}]
ScoreRow  == [marks : [Question -> Marks \cup {None}], confident : BOOLEAN,
              reviewed : BOOLEAN]

ASSUME GradingAssumption ==
  /\ None \notin Question \cup Text \cup Execution \cup Marks \cup Outcome
  /\ None \notin AnswerRow /\ None \notin ScoreRow
  /\ Correct \subseteq Text
  /\ Coding \cap (Sql \cup Mcq \cup Prompting \cup Simulation) = {}
  /\ Sql \cap (Mcq \cup Prompting \cup Simulation) = {}
  /\ Mcq \cap (Prompting \cup Simulation) = {}
  /\ Prompting \cap Simulation = {}
  /\ "score" \notin Grader

VARIABLES
  status,     \* of the session: "ACTIVE" (not started, in progress,
              \* disconnected), finished or ABANDONED
  answer,     \* ModuleResponse row of each question
  exec,       \* CodingExecution and SQLExecution rows
  score,      \* Score row
  decision,   \* ReviewerDecision row: its outcome
  audited,    \* the outcome in the newest audit entry
  req,        \* requests of the candidate in flight, with what they hold
  grade,      \* closings and the gradings they lead to
  call,       \* decisions in flight, with what they have read
  \* history
  upToDate,   \* the loads, and "score", that nothing was written since
  drained,    \* over, and at some time since then nothing was in flight
  failed      \* a grading has failed

rows    == <<answer, exec, score>>
history == <<upToDate, failed>>
vars    == <<status, rows, decision, audited, req, grade, call, history, drained>>

NoExec  == [state |-> "unborn", kind |-> None, q |-> None, text |-> None, mark |-> None]
NoReq   == [step |-> "idle", kind |-> None, q |-> None, text |-> None,
            exec |-> None, mark |-> None]
NoGrade == [step |-> "idle", finish |-> None, marks |-> [q \in Question |-> None],
            confident |-> FALSE]
NoCall  == [step |-> "idle", outcome |-> None, decided |-> FALSE, scored |-> FALSE]

Idle(r) == req[r].step = "idle"

\* Nothing that looked at the status is on its way to write an answer.
NothingInFlight == \A r \in Caller : req[r].q \notin Checked

Init ==
  /\ status   = "ACTIVE"
  /\ answer   = [q \in Question |-> None]
  /\ exec     = [e \in Execution |-> NoExec]
  /\ score    = None
  /\ decision = None
  /\ audited  = None
  /\ req      = [r \in Caller |-> NoReq]
  /\ grade    = [g \in Grader |-> NoGrade]
  /\ call     = [a \in Staff |-> NoCall]
  /\ upToDate = {}
  /\ drained  = FALSE
  /\ failed   = FALSE

-----------------------------------------------------------------------------
(* POST /coding and /sql: run, submit, draft; POST /mcq: submit, draft *)

\* A run sets an AUTO_SUBMITTED session going again, a submit is refused one.
Accept(r, q, kind, t) ==
  /\ Idle(r) /\ q \in Checked
  /\ status = "ACTIVE" \/ (kind = "run" /\ status = "AUTO_SUBMITTED")
  /\ status' = "ACTIVE"
  /\ req' = [req EXCEPT ![r] =
       [NoReq EXCEPT !.step = IF q \in Coding THEN "create" ELSE "sandbox",
                     !.kind = kind, !.q = q, !.text = t]]
  /\ UNCHANGED <<rows, decision, audited, grade, call, history>>

\* Mutant of AcceptDraft: the status is not looked at.
AcceptAnyDraft(r, q, t) ==
  /\ Idle(r) /\ q \in Checked
  /\ req' = [req EXCEPT ![r] =
       [NoReq EXCEPT !.step = "save", !.kind = "draft", !.q = q, !.text = t]]
  /\ UNCHANGED <<status, rows, decision, audited, grade, call, history>>

AcceptDraft(r, q, t) ==
  /\ Idle(r) /\ q \in Checked
  /\ status = "ACTIVE"
  /\ req' = [req EXCEPT ![r] =
       [NoReq EXCEPT !.step = "save", !.kind = "draft", !.q = q, !.text = t]]
  /\ UNCHANGED <<status, rows, decision, audited, grade, call, history>>

\* The service does not look at the status; the owner guard refuses the draft
\* of a SUBMITTED or ABANDONED session, and lets every submit pass.
AcceptChoice(r, q, kind, t) ==
  /\ Idle(r) /\ q \in Mcq
  /\ kind = "submit" \/ status \notin {"SUBMITTED", "ABANDONED"}
  /\ req' = [req EXCEPT ![r] =
       [NoReq EXCEPT !.step = "save", !.kind = kind, !.q = q, !.text = t]]
  /\ UNCHANGED <<status, rows, decision, audited, grade, call, history>>

\* Mutant of CreateExecution: the request forgets the row.
CreateExecutionUnkept(r) ==
  /\ req[r].step = "create"
  /\ \E e \in Execution :
       /\ exec[e].state = "unborn"
       /\ exec' = [exec EXCEPT ![e] =
            [state |-> "PENDING", kind |-> req[r].kind, q |-> req[r].q,
             text |-> req[r].text, mark |-> "part"]]
       /\ req' = [req EXCEPT ![r].step = "judge"]
  /\ upToDate' = {}
  /\ UNCHANGED <<status, answer, score, decision, audited, grade, call, failed>>

\* A row with no result yet, 0 of its tests passed.
CreateExecution(r) ==
  /\ req[r].step = "create"
  /\ \E e \in Execution :
       /\ exec[e].state = "unborn"
       /\ exec' = [exec EXCEPT ![e] =
            [state |-> "PENDING", kind |-> req[r].kind, q |-> req[r].q,
             text |-> req[r].text, mark |-> "part"]]
       /\ req' = [req EXCEPT ![r].step = "judge", ![r].exec = e]
  /\ upToDate' = {}
  /\ UNCHANGED <<status, answer, score, decision, audited, grade, call, failed>>

\* Judge0 has answered: the row gets the result, and a submit goes on with it.
Judge(r, m) ==
  /\ req[r].step = "judge"
  /\ exec' = [exec EXCEPT ![req[r].exec].state = "DONE", ![req[r].exec].mark = m]
  /\ req' = [req EXCEPT ![r] = IF req[r].kind = "submit"
                                 THEN [req[r] EXCEPT !.step = "save", !.mark = m]
                                 ELSE NoReq]
  /\ upToDate' = {}
  /\ UNCHANGED <<status, answer, score, decision, audited, grade, call, failed>>

\* Mutant of JudgeFails: the failure is caught and the code is saved unpassed.
JudgeFailsSaved(r) ==
  /\ req[r].step = "judge"
  /\ req' = [req EXCEPT ![r] = IF req[r].kind = "submit"
                                 THEN [req[r] EXCEPT !.step = "save", !.mark = "part"]
                                 ELSE NoReq]
  /\ UNCHANGED <<status, rows, decision, audited, grade, call, history>>

\* Judge0 throws, or the process stops: the row stays PENDING.
JudgeFails(r) ==
  /\ req[r].step = "judge"
  /\ req' = [req EXCEPT ![r] = NoReq]
  /\ UNCHANGED <<status, rows, decision, audited, grade, call, history>>

\* The sandbox runs the query before there is a row; an insert that fails is
\* caught, and ends a submit as well.
ExecuteSql(r, m) ==
  /\ req[r].step = "sandbox"
  /\ \/ \E e \in Execution :
          /\ exec[e].state = "unborn"
          /\ exec' = [exec EXCEPT ![e] =
               [state |-> "DONE", kind |-> req[r].kind, q |-> req[r].q,
                text |-> req[r].text, mark |-> m]]
          /\ req' = [req EXCEPT ![r] = IF req[r].kind = "submit"
                                         THEN [req[r] EXCEPT !.step = "save", !.exec = e]
                                         ELSE NoReq]
          /\ upToDate' = {}
     \/ /\ req' = [req EXCEPT ![r] = NoReq]
        /\ UNCHANGED <<exec, upToDate>>
  /\ UNCHANGED <<status, answer, score, decision, audited, grade, call, failed>>

Answer(r) == [text |-> req[r].text, draft |-> req[r].kind = "draft", mark |-> req[r].mark]

\* After its answer a simulation goes on to the score, whatever became of it.
Saved(r) == IF req[r].q \in Simulation THEN [req[r] EXCEPT !.step = "score"] ELSE NoReq

SaveAnswer(r) ==
  /\ req[r].step = "save"
  /\ answer' = [answer EXCEPT ![req[r].q] = Answer(r)]
  /\ req' = [req EXCEPT ![r] = Saved(r)]
  /\ upToDate' = {}
  /\ UNCHANGED <<status, exec, score, decision, audited, grade, call, failed>>

SaveFails(r) ==
  /\ req[r].step \in {"save", "count"}
  /\ req' = [req EXCEPT ![r] = Saved(r)]
  /\ UNCHANGED <<status, rows, decision, audited, grade, call, history>>

-----------------------------------------------------------------------------
(* POST /ai-prompting: run, submit *)

\* The guard lets every submit pass; the evaluation goes into the answer.
SubmitPrompt(r, q, t) ==
  /\ Idle(r) /\ q \in Prompting
  /\ req' = [req EXCEPT ![r] =
       [NoReq EXCEPT !.step = "save", !.kind = "submit", !.q = q, !.text = t]]
  /\ UNCHANGED <<status, rows, decision, audited, grade, call, history>>

\* No guard stands in front of a run, which saves nothing, unless its prompt is
\* rejected: then the answer is read, or taken for missing if that fails, ...
RejectPrompt(r, q) ==
  /\ Idle(r) /\ q \in Prompting
  /\ \E t \in {None} \cup (IF answer[q] = None THEN {} ELSE {answer[q].text}) :
       req' = [req EXCEPT ![r] =
         [NoReq EXCEPT !.step = "count", !.kind = "run", !.q = q, !.text = t]]
  /\ UNCHANGED <<status, rows, decision, audited, grade, call, history>>

\* ... and written back with one more rejection; a new one is a draft.
CountRejection(r) ==
  /\ req[r].step = "count"
  /\ answer' = [answer EXCEPT ![req[r].q] =
       [text  |-> req[r].text, mark |-> None,
        draft |-> answer[req[r].q] = None \/ answer[req[r].q].draft]]
  /\ req' = [req EXCEPT ![r] = NoReq]
  /\ upToDate' = {}
  /\ UNCHANGED <<status, exec, score, decision, audited, grade, call, failed>>

-----------------------------------------------------------------------------
(* POST /sessions/:id/simulation/submit *)

\* No route and no service asks for the status.  The model's evaluation, or
\* the fallback for it, takes long; then the answer is saved, and the score.
SubmitSimulation(r, q, m) ==
  /\ Idle(r) /\ q \in Simulation
  /\ req' = [req EXCEPT ![r] =
       [NoReq EXCEPT !.step = "save", !.kind = "submit", !.q = q, !.mark = m]]
  /\ UNCHANGED <<status, rows, decision, audited, grade, call, history>>

\* What the candidate says and does meanwhile is kept in the same row, with no
\* result (see Simulation).
LogSimulation(q) ==
  /\ q \in Simulation
  /\ answer' = [answer EXCEPT ![q] = [text |-> None, draft |-> TRUE, mark |-> "part"]]
  /\ upToDate' = {}
  /\ UNCHANGED <<status, exec, score, decision, audited, req, grade, call, failed>>

OnlyMark(q, m) == [p \in Question |-> IF p = q THEN m ELSE None]

\* Mutant of ScoreSimulation: the update takes the evaluation for a review.
ScoreSimulationReviewed(r) ==
  /\ req[r].step = "score"
  /\ score' = [marks |-> OnlyMark(req[r].q, req[r].mark),
               confident |-> IF score = None THEN TRUE ELSE score.confident,
               reviewed  |-> score # None]
  /\ req' = [req EXCEPT ![r] = NoReq]
  /\ upToDate' = {}
  /\ UNCHANGED <<status, answer, exec, decision, audited, grade, call, failed>>

\* A new score is confident and not reviewed; one that is there keeps both.
ScoreSimulation(r) ==
  /\ req[r].step = "score"
  /\ score' = [marks |-> OnlyMark(req[r].q, req[r].mark),
               confident |-> IF score = None THEN TRUE ELSE score.confident,
               reviewed  |-> score # None /\ score.reviewed]
  /\ req' = [req EXCEPT ![r] = NoReq]
  /\ upToDate' = {}
  /\ UNCHANGED <<status, answer, exec, decision, audited, grade, call, failed>>

ScoreSimulationFails(r) ==
  /\ req[r].step = "score"
  /\ req' = [req EXCEPT ![r] = NoReq]
  /\ UNCHANGED <<status, rows, decision, audited, grade, call, history>>

-----------------------------------------------------------------------------
(* Closing, auto-submission and the grading that follows *)

\* closeSession and autoSubmit read the session, and finish it unconditionally.
Close(g, finish) ==
  /\ grade[g].step = "idle"
  /\ status = "ACTIVE"
  /\ grade' = [grade EXCEPT ![g] = [NoGrade EXCEPT !.step = "finish", !.finish = finish]]
  /\ UNCHANGED <<status, rows, decision, audited, req, call, history>>

Finish(g) ==
  /\ grade[g].step = "finish"
  /\ status' = grade[g].finish
  /\ grade' = [grade EXCEPT ![g].step = "load"]
  /\ UNCHANGED <<rows, decision, audited, req, call, history>>

Rows(q) == {e \in Execution : exec[e].state # "unborn" /\ exec[e].q = q}

\* Mutant of MarksOf: executions are not told apart by their question.
MarksOfAny(q) ==
  CASE answer[q] = None   -> {None}
    [] answer[q] # None /\ q \in Coding ->
         LET E == {e \in Execution : exec[e].state # "unborn"}
         IN  IF E = {} THEN {"fallback"} ELSE {exec[e].mark : e \in E}
    [] answer[q] # None /\ q \in Sql    -> {"fallback"}
    [] answer[q] # None /\ q \in Mcq    ->
         {IF answer[q].text \in Correct THEN "full" ELSE "part"}
    [] answer[q] # None /\ q \in Prompting ->
         {IF answer[q].text = None THEN "part" ELSE "fallback"}
    [] answer[q] # None /\ q \in Simulation -> {answer[q].mark}

\* What a question may be graded: code by the last of its executions, runs and
\* those under way included, in whatever order the rows come; a query by its
\* length and a prompt by there being one, for no answer holds the execution's
\* result or the overall score that the grader asks for.
MarksOf(q) ==
  CASE answer[q] = None -> {None}
    [] answer[q] # None /\ q \in Coding ->
         IF Rows(q) = {} THEN {"fallback"} ELSE {exec[e].mark : e \in Rows(q)}
    [] answer[q] # None /\ q \in Sql -> {"fallback"}
    [] answer[q] # None /\ q \in Mcq ->
         {IF answer[q].text \in Correct THEN "full" ELSE "part"}
    [] answer[q] # None /\ q \in Prompting ->
         {IF answer[q].text = None THEN "part" ELSE "fallback"}
    [] answer[q] # None /\ q \in Simulation -> {answer[q].mark}

AnyMark == UNION {MarksOf(q) : q \in Question}

\* Above the threshold for publishing: something was answered, and something run.
Confident == /\ \E q \in Question : answer[q] # None
             /\ \E e \in Execution : exec[e].state # "unborn"

\* Mutant of Load: with nothing to grade there is no score.
LoadAnswered(g) ==
  /\ grade[g].step = "load"
  /\ IF \A q \in Question : answer[q] = None
       THEN /\ grade' = [grade EXCEPT ![g] = NoGrade]
            /\ UNCHANGED upToDate
       ELSE /\ \E marks \in [Question -> AnyMark] :
                 /\ \A q \in Question : marks[q] \in MarksOf(q)
                 /\ grade' = [grade EXCEPT ![g].step = "save", ![g].marks = marks,
                                           ![g].confident = Confident]
            /\ upToDate' = upToDate \cup {g}
  /\ UNCHANGED <<status, rows, decision, audited, req, call, failed>>

Load(g) ==
  /\ grade[g].step = "load"
  /\ \E marks \in [Question -> AnyMark] :
       /\ \A q \in Question : marks[q] \in MarksOf(q)
       /\ grade' = [grade EXCEPT ![g].step = "save", ![g].marks = marks,
                                 ![g].confident = Confident]
  /\ upToDate' = upToDate \cup {g}
  /\ UNCHANGED <<status, rows, decision, audited, req, call, failed>>

\* Mutant of SaveScore: a score that is there keeps its marks.
SaveScoreOnce(g) ==
  /\ grade[g].step = "save"
  /\ score' = IF score = None
                THEN [marks |-> grade[g].marks, confident |-> grade[g].confident,
                      reviewed |-> grade[g].confident]
                ELSE score
  /\ grade' = [grade EXCEPT ![g] = NoGrade]
  /\ upToDate' = (upToDate \ {g, "score"})
                   \cup (IF g \in upToDate THEN {"score"} ELSE {})
  /\ UNCHANGED <<status, answer, exec, decision, audited, req, call, failed>>

\* Every column of the row is written, reviewed among them.
SaveScore(g) ==
  /\ grade[g].step = "save"
  /\ score' = [marks     |-> grade[g].marks,
               confident |-> grade[g].confident,
               reviewed  |-> grade[g].confident]
  /\ grade' = [grade EXCEPT ![g] = NoGrade]
  /\ upToDate' = (upToDate \ {g, "score"})
                   \cup (IF g \in upToDate THEN {"score"} ELSE {})
  /\ UNCHANGED <<status, answer, exec, decision, audited, req, call, failed>>

\* Any call of a closing may fail; nothing grades the session again.
GradingFails(g) ==
  /\ grade[g].step # "idle"
  /\ failed' = (failed \/ grade[g].step # "finish")
  /\ grade' = [grade EXCEPT ![g] = NoGrade]
  /\ upToDate' = upToDate \ {g}
  /\ UNCHANGED <<status, rows, decision, audited, req, call>>

\* A request that read the session before it was finished writes an active
\* status after, or a run revives it.
Reopen ==
  /\ status \in Over
  /\ status' = "ACTIVE"
  /\ UNCHANGED <<rows, decision, audited, req, grade, call, history>>

\* markDisconnected submits, some time after it read the session, at the limit
\* of disconnects; nothing is graded.
SubmitAtLimit ==
  /\ status # "AUTO_SUBMITTED"
  /\ status' = "AUTO_SUBMITTED"
  /\ UNCHANGED <<rows, decision, audited, req, grade, call, history>>

\* The candidate is removed from the drive.
Remove ==
  /\ status = "ACTIVE"
  /\ status' = "ABANDONED"
  /\ UNCHANGED <<rows, decision, audited, req, grade, call, history>>

-----------------------------------------------------------------------------
(* POST /admin/sessions/:id/decision *)

ReadDecision(a, o) ==
  /\ call[a].step = "idle"
  /\ call' = [call EXCEPT ![a] =
       [step |-> IF status = "ACTIVE" THEN "submit" ELSE "commit", outcome |-> o,
        decided |-> decision # None, scored |-> score # None]]
  /\ UNCHANGED <<status, rows, decision, audited, req, grade, history>>

SubmitForDecision(a) ==
  /\ call[a].step = "submit"
  /\ status' = "SUBMITTED"
  /\ call' = [call EXCEPT ![a].step = "commit"]
  /\ UNCHANGED <<rows, decision, audited, req, grade, history>>

Reviewed(a) == IF call[a].scored THEN [score EXCEPT !.reviewed = TRUE] ELSE score

\* Mutant of Commit: the audit entry is not part of the transaction.
CommitLogged(a) ==
  /\ call[a].step = "commit"
  /\ IF call[a].decided \/ decision = None
       THEN /\ decision' = call[a].outcome
            /\ score' = Reviewed(a)
       ELSE UNCHANGED <<decision, score>>
  /\ audited' = call[a].outcome
  /\ call' = [call EXCEPT ![a] = NoCall]
  /\ UNCHANGED <<status, answer, exec, req, grade, history>>

\* One transaction.  The decision that was read is updated; if none was read, a
\* row is created, which fails when there is one by now: a session has at most
\* one.  The score is marked only if it was there when it was read.
Commit(a) ==
  /\ call[a].step = "commit"
  /\ IF call[a].decided \/ decision = None
       THEN /\ decision' = call[a].outcome
            /\ score' = Reviewed(a)
            /\ audited' = call[a].outcome
       ELSE UNCHANGED <<decision, score, audited>>
  /\ call' = [call EXCEPT ![a] = NoCall]
  /\ UNCHANGED <<status, answer, exec, req, grade, history>>

-----------------------------------------------------------------------------
Step ==
  \/ \E r \in Caller :
       \/ \E q \in Question, t \in Text :
            \/ \E kind \in {"run", "submit"} : Accept(r, q, kind, t)
            \/ AcceptDraft(r, q, t)
            \/ \E kind \in {"submit", "draft"} : AcceptChoice(r, q, kind, t)
            \/ SubmitPrompt(r, q, t)
       \/ \E q \in Question : RejectPrompt(r, q)
       \/ CountRejection(r)
       \/ \E q \in Question, m \in {"part", "full"} : SubmitSimulation(r, q, m)
       \/ CreateExecution(r) \/ JudgeFails(r)
       \/ \E m \in {"part", "full"} : Judge(r, m)
       \/ \E m \in {"part", "full"} : ExecuteSql(r, m)
       \/ SaveAnswer(r) \/ SaveFails(r)
       \/ ScoreSimulation(r) \/ ScoreSimulationFails(r)
  \/ \E g \in Grader :
       \/ \E finish \in Finished : Close(g, finish)
       \/ Finish(g) \/ Load(g) \/ SaveScore(g) \/ GradingFails(g)
  \/ \E q \in Question : LogSimulation(q)
  \/ Reopen \/ SubmitAtLimit \/ Remove
  \/ \E a \in Staff :
       \/ \E o \in Outcome : ReadDecision(a, o)
       \/ SubmitForDecision(a) \/ Commit(a)

\* The history variable drained follows whatever the step does.
Drain == drained' = (status' \in Over /\ (drained \/ NothingInFlight'))

Next == Step /\ Drain

Spec == Init /\ [][Next]_vars

-----------------------------------------------------------------------------
(* Properties *)

\* Every variable has its type, and a request on its way names what it works on.
TypeOK ==
  /\ status \in {"ACTIVE"} \cup Over
  /\ answer \in [Question -> AnswerRow \cup {None}]
  /\ exec \in [Execution -> ExecRow]
  /\ score \in ScoreRow \cup {None}
  /\ decision \in Outcome \cup {None}
  /\ audited \in Outcome \cup {None}
  /\ req \in [Caller ->
       [step : {"idle", "create", "judge", "sandbox", "save", "count", "score"},
        kind : {"run", "submit", "draft", None}, q : Question \cup {None},
        text : Text \cup {None}, exec : Execution \cup {None},
        mark : Marks \cup {None}]]
  /\ \A r \in Caller : req[r].step # "idle" => req[r].q \in Question
  /\ \A r \in Caller : req[r].step = "judge" => req[r].exec \in Execution
  /\ grade \in [Grader ->
       [step : {"idle", "finish", "load", "save"}, finish : Finished \cup {None},
        marks : [Question -> Marks \cup {None}], confident : BOOLEAN]]
  /\ \A g \in Grader : grade[g].step = "finish" => grade[g].finish \in Finished
  /\ call \in [Staff ->
       [step : {"idle", "submit", "commit"}, outcome : Outcome \cup {None},
        decided : BOOLEAN, scored : BOOLEAN]]
  /\ \A a \in Staff : call[a].step # "idle" => call[a].outcome \in Outcome
  /\ upToDate \subseteq Grader \cup {"score"}
  /\ drained \in BOOLEAN /\ failed \in BOOLEAN

\* A submitted answer to a coding or SQL question was run to the end as that
\* question's submission, and a coding answer holds the result of that run:
\* also when submissions, runs and drafts of one question overlap.
\* (coding.service.ts submit, sql.service.ts submit)
SubmittedAnswerRan ==
  \A q \in Checked :
    answer[q] # None /\ ~answer[q].draft =>
      \E e \in Execution :
        /\ exec[e].state = "DONE" /\ exec[e].kind = "submit"
        /\ exec[e].q = q /\ exec[e].text = answer[q].text
        /\ q \in Coding => exec[e].mark = answer[q].mark

\* No code is graded fully right unless an execution of that very question
\* passed all its tests, whatever was running when the score was computed.
\* (session-scoring.service.ts evaluateCoding)
FullMarkEarned ==
  score # None =>
    \A q \in Coding :
      score.marks[q] = "full" =>
        \E e \in Execution : exec[e].state = "DONE" /\ exec[e].q = q
                             /\ exec[e].mark = "full"

\* A score marked as reviewed has a recruiter's decision behind it, or was
\* published for the confidence of a session with an answer and an execution:
\* three handlers write the flag.  (session-scoring.service.ts saveScores,
\* admin.service.ts recordDecision, simulation.service.ts submitSimulation)
ReviewedIsEarned ==
  score # None /\ score.reviewed => decision # None \/ Confident

\* If nothing was answered, run or scored since the last grading read the
\* session, the score is what grading it now may give: later gradings that read
\* earlier do not matter then.  (session-scoring.service.ts computeSessionScores)
ScoreIsCurrent ==
  "score" \in upToDate =>
    /\ score # None
    /\ \A q \in Question : score.marks[q] \in MarksOf(q)
    /\ score.confident = Confident

\* The decision is the one the newest audit entry names, also when decisions
\* overlap and one of them is refused.  (admin.service.ts recordDecision)
DecisionAudited == decision = audited

\* Once the session is over and no request that saw it active is left, its coding
\* and SQL answers change no more, until it is set going again.
\* (the status checks of coding.service.ts and sql.service.ts)
AnswersSealed ==
  [][drained /\ drained' => \A q \in Checked : answer'[q] = answer[q]]_vars

\* A closing that has finished the session ends with a score in place or with a
\* failure of its own: with no answers to grade, and after a decision, as well.
\* (session.service.ts closeSession, autoSubmit)
ClosingEndsInScore ==
  [][\A g \in Grader :
       grade[g].step \in {"load", "save"} /\ grade'[g].step = "idle" =>
         score' # None \/ failed']_vars
=============================================================================
