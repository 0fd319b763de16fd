-------------------------- MODULE CandidateAppProofs --------------------------
(***************************************************************************)
(* Proofs about CandidateApp, for any number of tabs, functions under way, *)
(* sessions and questions.                                                 *)
(***************************************************************************)
EXTENDS CandidateApp, TLAPS

\* A function has what the call it is waiting for needs, and waits for nothing
\* when it is none.
StepOK(x) ==
  /\ x.kind = "idle" => x.tab = None /\ x.step = "reply" /\ x.left = {}
  /\ x.step \in {"answers", "close", "closing"} => x.kind = "sync"
  /\ x.kind = "sync" => x.step \in {"answers", "close", "closing", "reply"}
  /\ x.step \in {"begin", "begun", "answers", "close", "closing"} => x.session \in Session
  /\ x.kind = "sync" => x.session \in Session
  /\ x.step = "reply" /\ x.kind # "idle" => x.tab # None

\* The page of a function is there, with an assessment if it creates a session.
PageOK(x) ==
  x.tab # None => /\ Opened(x.tab)
                  /\ x.kind = "create" => tab[x.tab].mem # None

WithAssessment == {"preparing", "waiting-room", "assessment", "pre-submit-review",
                   "syncing", "done"}

TabsOK == /\ tab \in [Tab -> TabRow]
          /\ \A t \in Tab : Shown(t) \in WithAssessment => tab[t].mem # None

StoreOK == stored \in Assessment \cup {None} /\ unsaved \in BOOLEAN

WorksOK == /\ work \in [Work -> WorkRow]
           /\ \A w \in Work : StepOK(work[w])

PagesOK == \A w \in Work : PageOK(work[w])

RowsOK == sess \in [Session -> SessionRow]

LateOK == pending \in [Session -> SUBSET Decision] /\ overtaken \in SUBSET Session

RestOK == /\ now \in 0 .. MaxTime
          /\ inbox \in [Tab -> SUBSET Message]
          /\ report \in [Tab -> Report \cup {None}]
          /\ shared \in BOOLEAN /\ forced \in BOOLEAN

Typed == TabsOK /\ StoreOK /\ WorksOK /\ PagesOK /\ RowsOK /\ LateOK /\ RestOK

-----------------------------------------------------------------------------
(* Operators *)

LEMMA NoneApart == None \notin Nat /\ None \notin Tab /\ None \notin Session /\ None \notin Assessment
BY AppAssumption

\* Starting the clock touches nothing but a clock that stands.
LEMMA TimedOK ==
  ASSUME NEW a \in Assessment, NEW time \in Nat
  PROVE  /\ Timed(a, time) \in Assessment
         /\ Timed(a, time).session = a.session /\ Timed(a, time).answers = a.answers
         /\ a.timer # None => Timed(a, time) = a
BY DEF Timed, Assessment

\* What initAssessment leaves is of the session it is given; it is what was there
\* if that was of the session and had time.
LEMMA InitialisedOK ==
  ASSUME NEW a \in Assessment \cup {None}, NEW s \in Session
  PROVE  /\ Initialised(a, s) \in Assessment
         /\ Initialised(a, s).session = s
         /\ a # None /\ a.session = s /\ ~Over(a) => Initialised(a, s) = a
<1>1. Fresh(s) \in Assessment /\ Fresh(s).session = s
  BY DEF Fresh, Assessment
<1>2. QED  BY <1>1 DEF Initialised

\* Storing, or not, leaves something that can be stored.
LEMMA PersistsOK ==
  ASSUME StoreOK, NEW a \in Assessment, Persists(a)
  PROVE  StoreOK' /\ stored' \in {a, stored}
BY DEF StoreOK, Persists

LEMMA NoWorkOK == NoWork \in WorkRow /\ StepOK(NoWork) /\ NoWork.tab = None /\ NoWork.kind = "idle"
BY DEF NoWork, WorkRow, StepOK

\* A slot that moves to a good record leaves all of them good.
LEMMA WorkMoves ==
  ASSUME WorksOK, NEW w \in Work, NEW x \in WorkRow, StepOK(x), work' = [work EXCEPT ![w] = x]
  PROVE  WorksOK' /\ work'[w] = x /\ \A v \in Work \ {w} : work'[v] = work[v]
BY DEF WorksOK, StepOK

\* The same of an answer that nobody may wait for.
LEMMA GoesMoves ==
  ASSUME WorksOK, NEW w \in Work, NEW x \in WorkRow, StepOK(x) \/ work[w].tab = None,
         Goes(w, x)
  PROVE  /\ WorksOK'
         /\ work'[w] = IF work[w].tab = None THEN NoWork ELSE x
         /\ \A v \in Work \ {w} : work'[v] = work[v]
<1> DEFINE y == IF work[w].tab = None THEN NoWork ELSE x
<1>1. y \in WorkRow /\ StepOK(y)
  BY NoWorkOK
<1>2. work' = [work EXCEPT ![w] = y]
  BY DEF Goes, WorksOK
<1> HIDE DEF y
<1>3. WorksOK' /\ work'[w] = y /\ \A v \in Work \ {w} : work'[v] = work[v]
  BY <1>1, <1>2, WorkMoves
<1>4. QED  BY <1>3 DEF y

\* The function of a call goes on, with nobody waiting for it or not.
Moves(w, x) ==
  \/ Goes(w, x) /\ (StepOK(x) \/ work[w].tab = None)
  \/ work' = [work EXCEPT ![w] = x] /\ StepOK(x)

LEMMA MovesOK ==
  ASSUME WorksOK, NEW w \in Work, NEW x \in WorkRow, Moves(w, x)
  PROVE  /\ WorksOK'
         /\ work'[w] = x \/ work'[w] = NoWork
         /\ \A v \in Work \ {w} : work'[v] = work[v]
BY WorkMoves, GoesMoves DEF Moves

\* What the guard lets a handler write.
LEMMA HandledOK ==
  ASSUME RowsOK, NEW s \in Session, NEW sub \in BOOLEAN, NEW x \in SessionRow,
         sess' = Handled(s, sub, x)
  PROVE  /\ RowsOK'
         /\ \/ UNCHANGED sess
            \/ /\ Admits(s, sub) /\ sess' = [sess EXCEPT ![s] = x] /\ sess'[s] = x
               /\ \A v \in Session \ {s} : sess'[v] = sess[v]
<1>1. CASE Admits(s, sub)
  BY <1>1 DEF RowsOK, Handled
<1>2. CASE ~Admits(s, sub)
  BY <1>2 DEF RowsOK, Handled
<1>3. QED  BY <1>1, <1>2

LEMMA ExtendedOK ==
  ASSUME RowsOK, NEW s \in Session
  PROVE  /\ Extended(s) \in SessionRow
         /\ Extended(s).status = sess[s].status /\ Extended(s).answers = sess[s].answers
         /\ Extended(s).started = sess[s].started
BY AppAssumption DEF RowsOK, Extended, SessionRow

\* A handler that has only looked has moved a deadline at most.
LEMMA LookedOK ==
  ASSUME RowsOK, NEW s \in Session, NEW sub \in BOOLEAN, Looked(s, sub)
  PROVE  /\ RowsOK'
         /\ \A v \in Session : /\ sess'[v].status = sess[v].status
                               /\ sess'[v].answers = sess[v].answers
<1>1. /\ Extended(s) \in SessionRow
      /\ Extended(s).status = sess[s].status /\ Extended(s).answers = sess[s].answers
  BY ExtendedOK
<1>2. sess' = Handled(s, sub, Extended(s))
  BY DEF Looked
<1>3. QED  BY <1>1, <1>2, HandledOK

\* A row is written over another.
LEMMA WritesOK ==
  ASSUME RowsOK, LateOK, NEW s \in Session, NEW x \in SessionRow, Writes(s, x)
  PROVE  /\ RowsOK' /\ overtaken' \in SUBSET Session /\ overtaken \subseteq overtaken'
         /\ sess'[s] = x /\ \A v \in Session \ {s} : sess'[v] = sess[v]
         /\ sess[s].status = "SUBMITTED" => x.status = "SUBMITTED" \/ s \in overtaken'
BY DEF RowsOK, LateOK, Writes

LEMMA DecidesOK ==
  ASSUME LateOK, NEW s \in Session, NEW d \in Decision, Decides(s, d), UNCHANGED overtaken
  PROVE  LateOK'
BY DEF LateOK, Decides

\* The functions that go on under their pages, the others not at all.
LEMMA LeaveMoves ==
  ASSUME WorksOK, NEW t \in Tab, NEW w, NEW x \in WorkRow, StepOK(x), Leave(t, w, x)
  PROVE  /\ WorksOK'
         /\ \A v \in Work : \/ v = w /\ work'[v] = x
                            \/ work'[v] = NoWork
                            \/ /\ work'[v] = [work[v] EXCEPT !.tab = None]
                               /\ work[v].step # "reply"
                            \/ work'[v] = work[v] /\ work[v].tab # t
<1>1. PICK kept \in SUBSET {v \in Calls(t) : work[v].step # "reply"} :
        work' = [v \in Work |-> CASE v = w -> x
                                  [] v \in kept -> [work[v] EXCEPT !.tab = None]
                                  [] v \in Calls(t) \ kept -> NoWork
                                  [] OTHER -> work[v]]
  BY DEF Leave
<1>2. ASSUME NEW v \in Work
      PROVE  \/ v = w /\ work'[v] = x
             \/ work'[v] = NoWork
             \/ /\ work'[v] = [work[v] EXCEPT !.tab = None]
                /\ work[v].step # "reply"
             \/ work'[v] = work[v] /\ work[v].tab # t
  BY <1>1 DEF Calls
<1>3. ASSUME NEW v \in Work
      PROVE  work'[v] \in WorkRow /\ StepOK(work'[v])
  <2>1. work[v] \in WorkRow /\ StepOK(work[v])
    BY DEF WorksOK
  <2>2. work[v].step # "reply" =>
          [work[v] EXCEPT !.tab = None] \in WorkRow /\ StepOK([work[v] EXCEPT !.tab = None])
    BY <2>1 DEF WorkRow, StepOK
  <2>3. QED  BY <1>2, <2>1, <2>2, NoWorkOK
<1>4. work' \in [Work -> WorkRow]
  <2>1. work' = [v \in Work |-> work'[v]]
    BY <1>1
  <2>2. QED  BY <1>3, <2>1
<1>5. QED  BY <1>2, <1>3, <1>4 DEF WorksOK, StepOK


-----------------------------------------------------------------------------
(* Types: the server *)

\* What nothing is written to keeps its type.
LEMMA TypesStay ==
  ASSUME Typed
  PROVE  /\ UNCHANGED tab => TabsOK'
         /\ UNCHANGED <<stored, unsaved>> => StoreOK'
         /\ UNCHANGED work => WorksOK'
         /\ UNCHANGED <<tab, work>> => PagesOK'
         /\ UNCHANGED sess => RowsOK'
         /\ UNCHANGED <<pending, overtaken>> => LateOK'
         /\ UNCHANGED <<now, inbox, report, shared, forced>> => RestOK'
BY DEF Typed, TabsOK, StoreOK, WorksOK, PagesOK, PageOK, RowsOK, LateOK, RestOK, Shown, Opened

\* Pages stay while the tabs do and functions only end or go on.
LEMMA PagesStay ==
  ASSUME PagesOK, UNCHANGED tab,
         \A v \in Work : work'[v].tab # None =>
           work'[v].tab = work[v].tab /\ work'[v].kind = work[v].kind
  PROVE  PagesOK'
BY DEF PagesOK, PageOK, Opened, Shown

\* A call that is answered changes its own function and one session.
LEMMA CallTyped ==
  ASSUME Typed, NEW w \in Work, NEW x \in WorkRow, Moves(w, x),
         x.tab = work[w].tab, x.kind = work[w].kind,
         RowsOK', LateOK', UNCHANGED <<now, tab, inbox, stored, unsaved, report, shared, forced>>
  PROVE  Typed'
<1>1. /\ WorksOK'
      /\ work'[w] = x \/ work'[w] = NoWork
      /\ \A v \in Work \ {w} : work'[v] = work[v]
  BY MovesOK DEF Typed
<1>2. \A v \in Work : work'[v].tab # None =>
           work'[v].tab = work[v].tab /\ work'[v].kind = work[v].kind
  BY <1>1, NoWorkOK
<1>3. PagesOK'
  BY <1>2, PagesStay DEF Typed
<1>4. QED  BY <1>1, <1>3, TypesStay DEF Typed

LEMMA StartRequestTyped ==
  ASSUME Typed, NEW w \in Work, StartRequest(w)
  PROVE  Typed'
<1>1. PICK s \in Session :
        /\ sess' = [sess EXCEPT ![s].status = IF @ = "UNBORN" THEN "NOT_STARTED" ELSE @]
        /\ Goes(w, [work[w] EXCEPT
                      !.session = s, !.started = sess[s].started,
                      !.step = IF work[w].kind = "create" THEN "begin" ELSE "reply"])
  BY DEF StartRequest
<1> DEFINE x == [work[w] EXCEPT
                      !.session = s, !.started = sess[s].started,
                      !.step = IF work[w].kind = "create" THEN "begin" ELSE "reply"]
<1>2. work[w] \in WorkRow /\ StepOK(work[w]) /\ work[w].step = "start"
  BY DEF Typed, WorksOK, StartRequest
<1>3. sess[s] \in SessionRow
  BY DEF Typed, RowsOK
<1>4. x \in WorkRow
  BY <1>2, <1>3 DEF WorkRow, SessionRow
<1>5. /\ x.tab = work[w].tab /\ x.kind = work[w].kind /\ x.session = s
      /\ x.step = IF work[w].kind = "create" THEN "begin" ELSE "reply"
  BY <1>2 DEF WorkRow
<1>6. StepOK(x) \/ work[w].tab = None
  BY <1>2, <1>5 DEF StepOK
<1>7. RowsOK'
  BY <1>1, <1>3 DEF Typed, RowsOK, SessionRow, Status
<1>8. UNCHANGED <<now, tab, inbox, stored, unsaved, pending, overtaken, report, shared, forced>>
  BY DEF StartRequest
<1> HIDE DEF x
<1>9. Moves(w, x)
  BY <1>1, <1>6 DEF x, Moves
<1>10. LateOK'
  BY <1>8, TypesStay
<1>11. QED  BY <1>4, <1>5, <1>7, <1>8, <1>9, <1>10, CallTyped

\* A call goes from one step to the next, or fails.
Steps(w, to, x) ==
  /\ work[w].step # "reply"
  /\ to \in {"begun", "close", "closing", "reply"}
  /\ to = "begun" => work[w].step = "begin"
  /\ to = "close" => work[w].step = "answers"
  /\ to = "closing" => work[w].step = "close"
  /\ x = [work[w] EXCEPT !.step = to] \/ x = [work[w] EXCEPT !.step = to, !.clean = FALSE]
  /\ \/ Goes(w, x)
     \/ to # "reply" /\ work' = [work EXCEPT ![w] = x]

LEMMA StepMoves ==
  ASSUME Typed, NEW w \in Work, NEW to, NEW x, Steps(w, to, x)
  PROVE  /\ x \in WorkRow /\ Moves(w, x)
         /\ x.tab = work[w].tab /\ x.kind = work[w].kind /\ x.session = work[w].session
         /\ x.all = work[w].all /\ x.left = work[w].left
         /\ x.step = to /\ (x.clean => work[w].clean)
<1>1. work[w] \in WorkRow /\ StepOK(work[w])
  BY DEF Typed, WorksOK
<1>2. /\ x \in WorkRow
      /\ x.tab = work[w].tab /\ x.kind = work[w].kind /\ x.session = work[w].session
      /\ x.all = work[w].all /\ x.left = work[w].left
      /\ x.step = to /\ (x.clean => work[w].clean)
  BY <1>1 DEF WorkRow, Steps
<1>3. StepOK(x) \/ (to = "reply" /\ work[w].tab = None)
  BY <1>1, <1>2 DEF StepOK, Steps
<1>4. QED  BY <1>2, <1>3 DEF Moves, Steps

\* The rest of what such a step does.
LEMMA StepTyped ==
  ASSUME Typed, NEW w \in Work, NEW to, NEW x, Steps(w, to, x),
         RowsOK', LateOK', UNCHANGED <<now, tab, inbox, stored, unsaved, report, shared, forced>>
  PROVE  Typed'
BY StepMoves, CallTyped

\* One step of a record in a slot.
LEMMA SlotStep ==
  ASSUME Typed, NEW w \in Work, NEW to
  PROVE  [work EXCEPT ![w].step = to] = [work EXCEPT ![w] = [work[w] EXCEPT !.step = to]]
BY DEF Typed, WorksOK

\* The step a call's function is at next; what becomes of a call that is refused.
At(w, to)  == [work[w] EXCEPT !.step = to]
Refused(w) == [work[w] EXCEPT !.step = "reply", !.clean = FALSE]

\* The steps of the calls that go on without sending an answer.
LEMMA CallSteps ==
  ASSUME Typed, NEW w \in Work
  PROVE  /\ BeginRequest(w) => Steps(w, "begun", At(w, "begun")) \/ Steps(w, "reply", At(w, "reply"))
         /\ BeginWrite(w)   => Steps(w, "reply", At(w, "reply"))
         /\ Posted(w)       => Steps(w, "close", At(w, "close"))
         /\ CloseRequest(w) => Steps(w, "closing", At(w, "closing")) \/ Steps(w, "reply", Refused(w))
         /\ CloseWrite(w)   => Steps(w, "reply", At(w, "reply"))
         /\ work[w].step # "reply" /\ Goes(w, Refused(w)) => Steps(w, "reply", Refused(w))
<1>1. ASSUME BeginRequest(w)
      PROVE  Steps(w, "begun", At(w, "begun")) \/ Steps(w, "reply", At(w, "reply"))
  <2>1. work[w].step = "begin"
    BY <1>1 DEF BeginRequest
  <2>2. work' = [work EXCEPT ![w] = At(w, "begun")] \/ Goes(w, At(w, "reply"))
    BY <1>1, SlotStep DEF BeginRequest, At
  <2>3. QED  BY <2>1, <2>2 DEF Steps, At
<1>2. BeginWrite(w) => Steps(w, "reply", At(w, "reply"))
  BY DEF BeginWrite, Steps, At
<1>3. Posted(w) => Steps(w, "close", At(w, "close"))
  BY DEF Posted, Steps, At
<1>4. ASSUME CloseRequest(w)
      PROVE  Steps(w, "closing", At(w, "closing")) \/ Steps(w, "reply", Refused(w))
  <2>1. work[w].step = "close"
    BY <1>4 DEF CloseRequest
  <2>2. work' = [work EXCEPT ![w] = At(w, "closing")] \/ Goes(w, Refused(w))
    BY <1>4, SlotStep DEF CloseRequest, At, Refused
  <2>3. QED  BY <2>1, <2>2 DEF Steps, At, Refused
<1>5. CloseWrite(w) => Steps(w, "reply", At(w, "reply"))
  BY DEF CloseWrite, Steps, At
<1>6. work[w].step # "reply" /\ Goes(w, Refused(w)) => Steps(w, "reply", Refused(w))
  BY DEF Steps, Refused
<1>7. QED  BY <1>1, <1>2, <1>3, <1>4, <1>5, <1>6

LEMMA BeginRequestTyped ==
  ASSUME Typed, NEW w \in Work, BeginRequest(w)
  PROVE  Typed'
<1> DEFINE s == work[w].session
<1>1. work[w].step = "begin" /\ s \in Session
  BY DEF Typed, WorksOK, BeginRequest, StepOK
<1>2. Looked(s, FALSE)
      /\ UNCHANGED <<now, tab, inbox, stored, unsaved, pending, overtaken, report, shared, forced>>
  BY DEF BeginRequest
<1>3. RowsOK' /\ LateOK'
  BY <1>1, <1>2, LookedOK, TypesStay DEF Typed
<1>4. QED  BY <1>2, <1>3, CallSteps, StepTyped

\* What begins writes.
LEMMA BeginRow ==
  ASSUME Typed, NEW w \in Work, BeginWrite(w)
  PROVE  LET s == work[w].session
             x == [sess[s] EXCEPT !.status = "IN_PROGRESS", !.started = now,
                                  !.begun = TRUE, !.deadline = now + Duration]
         IN  /\ s \in Session /\ x \in SessionRow /\ Writes(s, x)
             /\ x.answers = sess[s].answers
<1>1. work[w].session \in Session
  BY DEF Typed, WorksOK, BeginWrite, StepOK
<1>2. sess[work[w].session] \in SessionRow /\ now \in Nat /\ now + Duration \in Nat
  BY <1>1, AppAssumption DEF Typed, RowsOK, RestOK
<1>3. QED  BY <1>1, <1>2 DEF BeginWrite, SessionRow, Status

\* A handler that has written its row.
LEMMA WritesTyped ==
  ASSUME Typed, NEW s \in Session, NEW x \in SessionRow, Writes(s, x), UNCHANGED pending
  PROVE  RowsOK' /\ LateOK'
BY WritesOK DEF Typed, LateOK

LEMMA BeginWriteTyped ==
  ASSUME Typed, NEW w \in Work, BeginWrite(w)
  PROVE  Typed'
<1>1. UNCHANGED <<now, tab, inbox, stored, unsaved, pending, report, shared, forced>>
  BY DEF BeginWrite
<1>2. RowsOK' /\ LateOK'
  BY <1>1, BeginRow, WritesTyped
<1>3. QED  BY <1>1, <1>2, CallSteps, StepTyped

\* What a request from an open assessment, or a submission, decides.
LEMMA DecidedTyped ==
  ASSUME Typed, NEW s \in Session, NEW sub \in BOOLEAN, Looked(s, sub),
         UNCHANGED pending \/ \E d \in Decision : Decides(s, d),
         UNCHANGED <<now, tab, inbox, stored, unsaved, work, overtaken, report, shared, forced>>
  PROVE  Typed'
<1>1. RowsOK' /\ LateOK'
  BY LookedOK, DecidesOK, TypesStay DEF Typed
<1>2. QED  BY <1>1, TypesStay DEF Typed

LEMMA RunTyped ==
  ASSUME Typed, NEW t \in Tab, NEW q \in Question, Run(t, q)
  PROVE  Typed'
<1>1. tab[t].mem.session \in Session
  <2>1. tab[t].mem \in Assessment
    BY DEF Typed, TabsOK, Run, WithAssessment, TabRow, Shown
  <2>2. QED  BY <2>1 DEF Assessment
<1>2. "start" \in Decision /\ "revive" \in Decision
  BY DEF Decision
<1>3. UNCHANGED pending \/ \E d \in Decision : Decides(tab[t].mem.session, d)
  BY <1>2 DEF Run
<1>4. Looked(tab[t].mem.session, FALSE)
      /\ UNCHANGED <<now, tab, inbox, stored, unsaved, work, overtaken, report, shared, forced>>
  BY DEF Run
<1>5. QED  BY <1>1, <1>3, <1>4, DecidedTyped

LEMMA StartFirstTyped ==
  ASSUME Typed, NEW w \in Work, StartFirst(w)
  PROVE  Typed'
<1>1. work[w].session \in Session
  BY DEF Typed, WorksOK, StartFirst, StepOK
<1>2. "start" \in Decision
  BY DEF Decision
<1>3. /\ Looked(work[w].session, TRUE) /\ Decides(work[w].session, "start")
      /\ UNCHANGED <<now, tab, inbox, stored, unsaved, work, overtaken, report, shared, forced>>
  BY DEF StartFirst
<1>4. QED  BY <1>1, <1>2, <1>3, DecidedTyped

\* What a handler writes that has decided earlier.
LEMMA LateRow ==
  ASSUME Typed, NEW s \in Session, NEW d, LateWrite(s, d)
  PROVE  \E x \in SessionRow : Writes(s, x) /\ x.answers = sess[s].answers
<1> DEFINE x == [sess[s] EXCEPT
                  !.status  = CASE d = "disconnect"  -> "DISCONNECTED"
                                [] d = "auto-submit" -> "AUTO_SUBMITTED"
                                [] OTHER             -> "IN_PROGRESS",
                  !.started = IF d = "start" THEN now ELSE @,
                  !.since   = IF d = "disconnect" THEN now ELSE @]
<1>1. sess[s] \in SessionRow /\ now \in Nat
  BY DEF Typed, RowsOK, RestOK
<1>2. x \in SessionRow /\ x.answers = sess[s].answers
  BY <1>1 DEF SessionRow, Status
<1>3. Writes(s, x)
  BY DEF LateWrite
<1> HIDE DEF x
<1>4. QED  BY <1>2, <1>3

LEMMA LateWriteTyped ==
  ASSUME Typed, NEW s \in Session, NEW d, LateWrite(s, d)
  PROVE  Typed'
<1>1. /\ pending' = [pending EXCEPT ![s] = @ \ {d}]
      /\ UNCHANGED <<now, tab, inbox, stored, unsaved, work, report, shared, forced>>
  BY DEF LateWrite
<1>2. RowsOK' /\ overtaken' \in SUBSET Session
  BY LateRow, WritesOK DEF Typed
<1>3. LateOK'
  BY <1>1, <1>2 DEF Typed, LateOK
<1>4. QED  BY <1>1, <1>2, <1>3, TypesStay DEF Typed

\* What an answer does to its session.
LEMMA PostRow ==
  ASSUME Typed, NEW w \in Work, Post(w)
  PROVE  \E q \in work[w].left, x \in SessionRow :
           LET s == work[w].session
           IN  /\ s \in Session
               /\ sess' = Handled(s, TRUE, x)
               /\ work' = [work EXCEPT ![w] =
                             [work[w] EXCEPT !.left = @ \ {q}, !.clean = @ /\ Accepts(s, q)]]
               /\ sess[s].answers \subseteq x.answers
               /\ Accepts(s, q) => q \in x.answers /\ Admits(s, TRUE)
               /\ x.status = sess[s].status
<1> DEFINE s == work[w].session
<1>1. work[w] \in WorkRow /\ s \in Session
  BY DEF Typed, WorksOK, Post, StepOK
<1>2. PICK q \in work[w].left :
        /\ sess' = Handled(s, TRUE,
                     IF Accepts(s, q) THEN [Extended(s) EXCEPT !.answers = @ \cup {q}]
                                      ELSE Extended(s))
        /\ work' = [work EXCEPT ![w].left = @ \ {q}, ![w].clean = @ /\ Accepts(s, q)]
  BY DEF Post
<1> DEFINE taken == [Extended(s) EXCEPT !.answers = @ \cup {q}]
           x     == IF Accepts(s, q) THEN taken ELSE Extended(s)
<1>3. /\ Extended(s) \in SessionRow
      /\ Extended(s).status = sess[s].status /\ Extended(s).answers = sess[s].answers
  BY <1>1, ExtendedOK DEF Typed
<1>4. q \in Question
  BY <1>1 DEF WorkRow
<1>5. /\ taken \in SessionRow /\ taken.answers = sess[s].answers \cup {q}
      /\ taken.status = sess[s].status
  BY <1>3, <1>4 DEF SessionRow
<1>6. Accepts(s, q) => Admits(s, TRUE)
  BY DEF Accepts
<1>7. work' = [work EXCEPT ![w] =
                 [work[w] EXCEPT !.left = @ \ {q}, !.clean = @ /\ Accepts(s, q)]]
  BY <1>1, <1>2 DEF Typed, WorksOK
<1>8. sess' = Handled(s, TRUE, x)
  BY <1>2
<1> HIDE DEF taken
<1>9. /\ x \in SessionRow /\ sess[s].answers \subseteq x.answers
      /\ Accepts(s, q) => q \in x.answers /\ Admits(s, TRUE)
      /\ x.status = sess[s].status
  BY <1>3, <1>5, <1>6
<1> HIDE DEF x
<1>10. QED  BY <1>1, <1>7, <1>8, <1>9

LEMMA PostTyped ==
  ASSUME Typed, NEW w \in Work, Post(w)
  PROVE  Typed'
<1> DEFINE s == work[w].session
<1>1. PICK q \in work[w].left, x \in SessionRow :
        /\ s \in Session
        /\ sess' = Handled(s, TRUE, x)
        /\ work' = [work EXCEPT ![w] =
                      [work[w] EXCEPT !.left = @ \ {q}, !.clean = @ /\ Accepts(s, q)]]
  BY PostRow
<1> DEFINE y == [work[w] EXCEPT !.left = @ \ {q}, !.clean = @ /\ Accepts(s, q)]
<1>2. work[w] \in WorkRow /\ StepOK(work[w]) /\ work[w].step = "answers"
  BY DEF Typed, WorksOK, Post
<1>3. (work[w].clean /\ Accepts(s, q)) \in BOOLEAN
  BY Zenon
<1>4. y \in WorkRow /\ StepOK(y) /\ y.tab = work[w].tab /\ y.kind = work[w].kind
  BY <1>2, <1>3 DEF WorkRow, StepOK
<1>5. RowsOK'
  BY <1>1, HandledOK DEF Typed
<1>6. UNCHANGED <<now, tab, inbox, stored, unsaved, pending, overtaken, report, shared, forced>>
  BY DEF Post
<1>7. work' = [work EXCEPT ![w] = y]
  BY <1>1
<1> HIDE DEF y
<1>8. WorksOK' /\ work'[w] = y /\ \A v \in Work \ {w} : work'[v] = work[v]
  BY <1>4, <1>7, WorkMoves DEF Typed
<1>9. PagesOK'
  BY <1>4, <1>6, <1>8, PagesStay DEF Typed
<1>10. QED  BY <1>5, <1>6, <1>8, <1>9, TypesStay DEF Typed

LEMMA PostedTyped ==
  ASSUME Typed, NEW w \in Work, Posted(w)
  PROVE  Typed'
<1>1. UNCHANGED <<now, tab, inbox, stored, unsaved, sess, pending, overtaken, report, shared, forced>>
  BY DEF Posted
<1>2. RowsOK' /\ LateOK'
  BY <1>1, TypesStay
<1>3. QED  BY <1>1, <1>2, CallSteps, StepTyped

LEMMA CloseRequestTyped ==
  ASSUME Typed, NEW w \in Work, CloseRequest(w)
  PROVE  Typed'
<1> DEFINE s == work[w].session
<1>1. work[w].step = "close" /\ s \in Session
  BY DEF Typed, WorksOK, CloseRequest, StepOK
<1>2. Looked(s, FALSE)
      /\ UNCHANGED <<now, tab, inbox, stored, unsaved, pending, overtaken, report, shared, forced>>
  BY DEF CloseRequest
<1>3. RowsOK' /\ LateOK'
  BY <1>1, <1>2, LookedOK, TypesStay DEF Typed
<1>4. QED  BY <1>2, <1>3, CallSteps, StepTyped

\* What a closing writes.
LEMMA CloseRow ==
  ASSUME Typed, NEW w \in Work, CloseWrite(w)
  PROVE  LET s == work[w].session
             x == [sess[s] EXCEPT !.status = "SUBMITTED"]
         IN  /\ s \in Session /\ x \in SessionRow /\ Writes(s, x)
             /\ x.answers = sess[s].answers /\ x.status = "SUBMITTED"
<1>1. work[w].session \in Session
  BY DEF Typed, WorksOK, CloseWrite, StepOK
<1>2. sess[work[w].session] \in SessionRow
  BY <1>1 DEF Typed, RowsOK
<1>3. QED  BY <1>1, <1>2 DEF CloseWrite, SessionRow, Status

LEMMA CloseWriteTyped ==
  ASSUME Typed, NEW w \in Work, CloseWrite(w)
  PROVE  Typed'
<1>1. UNCHANGED <<now, tab, inbox, stored, unsaved, pending, report, shared, forced>>
  BY DEF CloseWrite
<1>2. RowsOK' /\ LateOK'
  BY <1>1, CloseRow, WritesTyped
<1>3. QED  BY <1>1, <1>2, CallSteps, StepTyped

LEMMA CallFailsTyped ==
  ASSUME Typed, NEW w \in Work, CallFails(w)
  PROVE  Typed'
<1>1. work[w] \in WorkRow /\ StepOK(work[w])
  BY DEF Typed, WorksOK
<1>2. UNCHANGED <<now, tab, inbox, stored, unsaved, sess, pending, overtaken, report, shared, forced>>
  BY DEF CallFails
<1>3. CASE /\ work[w].step \in {"start", "begin", "begun", "close", "closing"}
           /\ Goes(w, [work[w] EXCEPT !.step = "reply", !.clean = FALSE])
  <2>1. RowsOK' /\ LateOK'
    BY <1>2, TypesStay
  <2>2. work[w].step # "reply" /\ Goes(w, Refused(w))
    BY <1>3 DEF Refused
  <2>3. QED  BY <1>2, <2>1, <2>2, CallSteps, StepTyped
<1>4. ASSUME NEW q \in work[w].left, work[w].step = "answers",
             work' = [work EXCEPT ![w].left = @ \ {q}, ![w].clean = FALSE]
      PROVE  Typed'
  <2> DEFINE y == [work[w] EXCEPT !.left = @ \ {q}, !.clean = FALSE]
  <2>1. y \in WorkRow /\ StepOK(y) /\ y.tab = work[w].tab /\ y.kind = work[w].kind
    BY <1>1, <1>4 DEF WorkRow, StepOK
  <2>2. work' = [work EXCEPT ![w] = y]
    BY <1>4 DEF Typed, WorksOK
  <2> HIDE DEF y
  <2>3. WorksOK' /\ work'[w] = y /\ \A v \in Work \ {w} : work'[v] = work[v]
    BY <2>1, <2>2, WorkMoves DEF Typed
  <2>4. PagesOK'
    BY <1>2, <2>1, <2>3, PagesStay DEF Typed
  <2>5. QED  BY <1>2, <2>3, <2>4, TypesStay DEF Typed
<1>5. QED  BY <1>3, <1>4 DEF CallFails

LEMMA MonitorTyped ==
  ASSUME Typed, NEW s \in Session, Scan(s) \/ AutoSubmit(s)
  PROVE  Typed'
<1>1. \E d \in Decision : Decides(s, d)
  BY DEF Scan, AutoSubmit, Decision
<1>2. UNCHANGED <<now, tab, inbox, stored, unsaved, work, sess, overtaken, report, shared, forced>>
  BY DEF Scan, AutoSubmit
<1>3. LateOK'
  BY <1>1, <1>2, DecidesOK DEF Typed
<1>4. QED  BY <1>2, <1>3, TypesStay DEF Typed

-----------------------------------------------------------------------------
(* Types: the tabs *)

\* A tab that stays open and keeps an assessment it has, if it is to have one.
LEMMA TabMoves ==
  ASSUME TabsOK, PagesOK, WorksOK, NEW t \in Tab, NEW x \in TabRow,
         tab' = [tab EXCEPT ![t] = x],
         Opened(t) => x.screen # "closed",
         tab[t].mem # None => x.mem # None,
         x.screen \in WithAssessment => x.mem # None,
         \A v \in Work : \/ work'[v].tab = None
                         \/ work'[v].tab = work[v].tab /\ work'[v].kind = work[v].kind
                         \/ work'[v].tab = t /\ x.screen # "closed" /\ x.mem # None
  PROVE  TabsOK' /\ PagesOK' /\ tab'[t] = x /\ \A u \in Tab \ {t} : tab'[u] = tab[u]
<1>1. tab'[t] = x /\ \A u \in Tab \ {t} : tab'[u] = tab[u]
  BY DEF TabsOK
<1>2. TabsOK'
  BY <1>1 DEF TabsOK, Shown
<1>3. ASSUME NEW v \in Work, work'[v].tab # None
      PROVE  /\ tab'[work'[v].tab].screen # "closed"
             /\ work'[v].kind = "create" => tab'[work'[v].tab].mem # None
  <2>1. CASE work'[v].tab = t /\ x.screen # "closed" /\ x.mem # None
    BY <1>1, <2>1
  <2>2. CASE work'[v].tab = work[v].tab /\ work'[v].kind = work[v].kind
    <3>1. work[v].tab \in Tab /\ PageOK(work[v])
      BY <1>3, <2>2 DEF WorksOK, WorkRow, PagesOK
    <3>2. QED  BY <1>1, <1>3, <2>2, <3>1 DEF PageOK, Opened, Shown
  <2>3. QED  BY <1>3, <2>1, <2>2
<1>4. PagesOK'
  BY <1>3 DEF PagesOK, PageOK, Opened, Shown
<1>5. QED  BY <1>1, <1>2, <1>4

\* An answer comes to the page that waits for it.
LEMMA ReplyFacts ==
  ASSUME Typed, NEW w \in Work, work[w].step = "reply", work[w].kind # "idle"
  PROVE  /\ work[w] \in WorkRow /\ work[w].tab \in Tab /\ Opened(work[w].tab)
         /\ tab[work[w].tab] \in TabRow
         /\ work[w].kind = "create" => tab[work[w].tab].mem # None
BY DEF Typed, WorksOK, WorkRow, StepOK, PagesOK, PageOK, TabsOK

\* The function is over.
LEMMA WorkEnds ==
  ASSUME Typed, NEW w \in Work, work' = [work EXCEPT ![w] = NoWork]
  PROVE  WorksOK' /\ work'[w] = NoWork /\ \A v \in Work \ {w} : work'[v] = work[v]
BY NoWorkOK, WorkMoves DEF Typed

\* Keeping an assessment on a screen.
LEMMA KeepsTyped ==
  ASSUME Typed, NEW t \in Tab, Opened(t), NEW scr \in Screen, scr # "closed",
         NEW a \in Assessment, NEW due \in Nat, WorksOK',
         tab' = [tab EXCEPT ![t].screen = scr, ![t].mem = a, ![t].due = due],
         StoreOK',
         \A v \in Work : \/ work'[v] = NoWork
                         \/ work'[v] = work[v],
         UNCHANGED <<sess, pending, overtaken>>, RestOK'
  PROVE  Typed'
<1> DEFINE x == [tab[t] EXCEPT !.screen = scr, !.mem = a, !.due = due]
<1>1. tab[t] \in TabRow
  BY DEF Typed, TabsOK
<1>2. x \in TabRow /\ x.screen = scr /\ x.mem = a /\ a # None
  BY <1>1, NoneApart DEF TabRow
<1>3. tab' = [tab EXCEPT ![t] = x]
  BY DEF Typed, TabsOK
<1> HIDE DEF x
<1>4. \A v \in Work : \/ work'[v].tab = None
                      \/ work'[v].tab = work[v].tab /\ work'[v].kind = work[v].kind
  BY NoWorkOK
<1>5. /\ Opened(t) => x.screen # "closed"
      /\ tab[t].mem # None => x.mem # None
      /\ x.screen \in WithAssessment => x.mem # None
  BY <1>2
<1>6. TabsOK /\ PagesOK /\ WorksOK
  BY DEF Typed
<1>7. \A v \in Work : \/ work'[v].tab = None
                      \/ work'[v].tab = work[v].tab /\ work'[v].kind = work[v].kind
                      \/ work'[v].tab = t /\ x.screen # "closed" /\ x.mem # None
  BY <1>4
<1>8. x \in TabRow
  BY <1>2
<1>9. TabsOK' /\ PagesOK'
  BY <1>3, <1>5, <1>6, <1>7, <1>8, TabMoves
<1>10. QED  BY <1>9, TypesStay DEF Typed

LEMMA ResolvedTyped ==
  ASSUME Typed, NEW w \in Work, Resolved(w)
  PROVE  Typed'
<1> DEFINE t == work[w].tab
           s == work[w].session
<1>1. /\ work[w] \in WorkRow /\ t \in Tab /\ Opened(t) /\ tab[t] \in TabRow
  BY ReplyFacts DEF Resolved
<1>2. work' = [work EXCEPT ![w] = NoWork] /\ UNCHANGED <<now, inbox, sess, pending, overtaken, report, shared>>
  BY DEF Resolved
<1>3. WorksOK' /\ \A v \in Work : work'[v] = NoWork \/ work'[v] = work[v]
  BY <1>2, WorkEnds
<1>4. CASE /\ s = None
           /\ tab' = [tab EXCEPT ![t].screen = Legal(t, "resolving", "expired")]
           /\ UNCHANGED <<stored, unsaved, forced>>
  <2> DEFINE x == [tab[t] EXCEPT !.screen = Legal(t, "resolving", "expired")]
  <2>1. x \in TabRow /\ x.screen # "closed" /\ x.mem = tab[t].mem
        /\ (x.screen = tab[t].screen \/ x.screen = "expired")
    BY <1>1 DEF TabRow, Screen, Legal, Shown, Opened
  <2>2. x.screen \in WithAssessment => x.mem # None
    BY <1>1, <2>1 DEF Typed, TabsOK, WithAssessment, Shown
  <2>3. tab' = [tab EXCEPT ![t] = x]
    BY <1>4 DEF Typed, TabsOK
  <2> HIDE DEF x
  <2>4. \A v \in Work : \/ work'[v].tab = None
                        \/ work'[v].tab = work[v].tab /\ work'[v].kind = work[v].kind
    BY <1>3, NoWorkOK
  <2>5. TabsOK' /\ PagesOK'
    BY <1>1, <2>1, <2>2, <2>3, <2>4, TabMoves DEF Typed
  <2>6. QED  BY <1>2, <1>3, <1>4, <2>5, TypesStay DEF Typed
<1>5. ASSUME s # None, NEW scr \in Screen, scr # "closed", NEW a \in Assessment,
             Keeps(t, scr, a), forced' \in BOOLEAN
      PROVE  Typed'
  <2>1. tab' = [tab EXCEPT ![t].screen = scr, ![t].mem = a, ![t].due = tab[t].due]
    BY <1>1, <1>5 DEF Keeps, Typed, TabsOK, TabRow
  <2>2. tab[t].due \in Nat
    BY <1>1 DEF TabRow
  <2>3. StoreOK'
    BY <1>5, PersistsOK DEF Keeps, Typed
  <2>4. RestOK'
    BY <1>2, <1>5 DEF Typed, RestOK
  <2>5. QED  BY <1>1, <1>2, <1>3, <1>5, <2>1, <2>2, <2>3, <2>4, KeepsTyped
<1>6. s # None => Initialised(tab[t].mem, s) \in Assessment
  <2>1. tab[t].mem \in Assessment \cup {None} /\ (s # None => s \in Session)
    BY <1>1 DEF TabRow, WorkRow
  <2>2. QED  BY <2>1, InitialisedOK
<1>7. CASE /\ s # None /\ work[w].started = None
           /\ Keeps(t, Legal(t, "resolving", "preparing"), Initialised(tab[t].mem, s))
           /\ UNCHANGED forced
  <2>1. Legal(t, "resolving", "preparing") \in Screen
        /\ Legal(t, "resolving", "preparing") # "closed"
    BY <1>1 DEF Legal, Shown, Opened, Screen, TabRow
  <2>2. QED  BY <1>5, <1>6, <1>7, <2>1 DEF Typed, RestOK
<1>8. CASE /\ s # None /\ work[w].started # None
           /\ Keeps(t, "assessment", Timed(Initialised(tab[t].mem, s), work[w].started))
           /\ forced' = (forced \/ Shown(t) = "session-conflict")
  <2>1. work[w].started \in Nat
    BY <1>1, <1>8 DEF WorkRow
  <2>2. Timed(Initialised(tab[t].mem, s), work[w].started) \in Assessment
    BY <1>6, <1>8, <2>1, TimedOK
  <2>3. forced' \in BOOLEAN
    BY <1>8 DEF Typed, RestOK
  <2>4. "assessment" \in Screen /\ "assessment" # "closed"
    BY DEF Screen
  <2>5. QED  BY <1>5, <1>8, <2>2, <2>3, <2>4
<1>9. QED  BY <1>4, <1>7, <1>8 DEF Resolved

LEMMA ProceedTyped ==
  ASSUME Typed, NEW t \in Tab, NEW w \in Work, Proceed(t, w)
  PROVE  Typed'
<1> DEFINE x == [NoWork EXCEPT !.kind = "create", !.tab = t, !.step = "start"]
<1>1. x \in WorkRow /\ StepOK(x) /\ x.tab = t /\ x.kind = "create"
  BY NoneApart DEF NoWork, WorkRow, StepOK
<1>2. work' = [work EXCEPT ![w] = x]
      /\ UNCHANGED <<now, tab, inbox, stored, unsaved, sess, pending, overtaken, report, shared, forced>>
  BY DEF Proceed
<1> HIDE DEF x
<1>3. WorksOK' /\ work'[w] = x /\ \A v \in Work \ {w} : work'[v] = work[v]
  BY <1>1, <1>2, WorkMoves DEF Typed
<1>4. Shown(t) = "preparing" /\ tab[t].mem # None
  BY DEF Proceed, Typed, TabsOK, WithAssessment
<1>5. PagesOK'
  BY <1>1, <1>2, <1>3, <1>4 DEF Typed, PagesOK, PageOK, Opened, Shown
<1>6. QED  BY <1>2, <1>3, <1>5, TypesStay DEF Typed

LEMMA CreatedTyped ==
  ASSUME Typed, NEW w \in Work, Created(w)
  PROVE  Typed'
<1> DEFINE t == work[w].tab
           s == IF work[w].session = None THEN tab[t].mem.session ELSE work[w].session
           a == Initialised(tab[t].mem, s)
<1>1. /\ work[w] \in WorkRow /\ t \in Tab /\ Opened(t) /\ tab[t] \in TabRow
      /\ tab[t].mem \in Assessment
  <2>1. /\ work[w] \in WorkRow /\ t \in Tab /\ Opened(t) /\ tab[t] \in TabRow
        /\ tab[t].mem # None
    BY ReplyFacts DEF Created
  <2>2. QED  BY <2>1 DEF TabRow
<1>2. s \in Session
  BY <1>1 DEF WorkRow, Assessment
<1>3. a \in Assessment
  BY <1>1, <1>2, InitialisedOK
<1>4. PICK due \in (now + 1) .. (now + Briefing) :
        /\ tab' = [tab EXCEPT
                     ![t].screen = Legal(t, "preparing", "waiting-room"),
                     ![t].mem = a,
                     ![t].due = IF Shown(t) = "preparing" THEN due ELSE @]
        /\ Persists(a)
  BY DEF Created
<1> DEFINE d   == IF Shown(t) = "preparing" THEN due ELSE tab[t].due
           scr == Legal(t, "preparing", "waiting-room")
<1>5. d \in Nat
  BY <1>1, <1>4, AppAssumption DEF Typed, RestOK, TabRow
<1>6. scr \in Screen /\ scr # "closed"
  BY <1>1 DEF Legal, Shown, Opened, Screen, TabRow
<1>7. tab' = [tab EXCEPT ![t].screen = scr, ![t].mem = a, ![t].due = d]
  BY <1>1, <1>4 DEF Typed, TabsOK, TabRow
<1>8. work' = [work EXCEPT ![w] = NoWork] /\ UNCHANGED <<now, inbox, sess, pending, overtaken, report, shared, forced>>
  BY DEF Created
<1>9. WorksOK' /\ \A v \in Work : work'[v] = NoWork \/ work'[v] = work[v]
  BY <1>8, WorkEnds
<1>10. StoreOK' /\ RestOK'
  BY <1>3, <1>4, <1>8, PersistsOK DEF Typed, RestOK
<1> HIDE DEF t, s, a, d, scr
<1>11. QED  BY <1>1, <1>3, <1>5, <1>6, <1>7, <1>8, <1>9, <1>10, KeepsTyped

\* A tab on one of its screens with an assessment.
LEMMA AtScreen ==
  ASSUME Typed, NEW t \in Tab, Shown(t) \in WithAssessment
  PROVE  Opened(t) /\ tab[t] \in TabRow /\ tab[t].mem \in Assessment
BY DEF Typed, TabsOK, WithAssessment, Opened, TabRow

LEMMA StayTyped ==
  ASSUME Typed, NEW t \in Tab, Opened(t), NEW scr \in Screen, scr # "closed",
         NEW a \in Assessment,
         tab' = [tab EXCEPT ![t].screen = scr, ![t].mem = a],
         StoreOK', RestOK', UNCHANGED <<work, sess, pending, overtaken>>
  PROVE  Typed'
<1> DEFINE x == [tab[t] EXCEPT !.screen = scr, !.mem = a]
<1>1. tab[t] \in TabRow
  BY DEF Typed, TabsOK
<1>2. x \in TabRow /\ x.screen = scr /\ x.mem = a /\ a # None
  BY <1>1, NoneApart DEF TabRow
<1>3. tab' = [tab EXCEPT ![t] = x]
  BY DEF Typed, TabsOK
<1> HIDE DEF x
<1>4. TabsOK /\ PagesOK /\ WorksOK
  BY DEF Typed
<1>5. \A v \in Work : work'[v].tab = work[v].tab /\ work'[v].kind = work[v].kind
  OBVIOUS
<1>6. TabsOK' /\ PagesOK'
  BY <1>2, <1>3, <1>4, <1>5, TabMoves
<1>7. QED  BY <1>6, TypesStay DEF Typed

LEMMA LaunchTyped ==
  ASSUME Typed, NEW t \in Tab, Launch(t)
  PROVE  Typed'
<1>1. Opened(t) /\ tab[t] \in TabRow /\ tab[t].mem \in Assessment
  BY AtScreen DEF Launch, WithAssessment
<1>2. tab[t].mem.session \in Session /\ now \in Nat
  BY <1>1 DEF Assessment, Typed, RestOK
<1> DEFINE a == Timed(Initialised(tab[t].mem, tab[t].mem.session), now)
<1>3. a \in Assessment
  BY <1>1, <1>2, InitialisedOK, TimedOK
<1>4. /\ tab' = [tab EXCEPT ![t].screen = "assessment", ![t].mem = a] /\ Persists(a)
      /\ UNCHANGED <<now, inbox, work, sess, pending, overtaken, report, shared, forced>>
  BY DEF Launch, Keeps
<1> HIDE DEF a
<1>5. "assessment" \in Screen
  BY DEF Screen
<1>6. StoreOK'
  BY <1>3, <1>4, PersistsOK DEF Typed
<1>7. QED  BY <1>1, <1>3, <1>4, <1>5, <1>6, StayTyped, TypesStay

LEMMA AnswerTyped ==
  ASSUME Typed, NEW t \in Tab, NEW q \in Question, Answer(t, q)
  PROVE  Typed'
<1>1. Opened(t) /\ tab[t] \in TabRow /\ tab[t].mem \in Assessment
  BY AtScreen DEF Answer, WithAssessment
<1> DEFINE a == [tab[t].mem EXCEPT !.answers = @ \cup {q}]
<1>2. a \in Assessment
  BY <1>1 DEF Assessment
<1>3. /\ tab' = [tab EXCEPT ![t].screen = "assessment", ![t].mem = a] /\ Persists(a)
      /\ UNCHANGED <<now, inbox, work, sess, pending, overtaken, report, shared, forced>>
  BY DEF Answer, Keeps
<1> HIDE DEF a
<1>4. "assessment" \in Screen
  BY DEF Screen
<1>5. StoreOK'
  BY <1>2, <1>3, PersistsOK DEF Typed
<1>6. QED  BY <1>1, <1>2, <1>3, <1>4, <1>5, StayTyped, TypesStay

LEMMA EntersTyped ==
  ASSUME Typed, NEW t \in Tab, Opened(t), tab[t].mem # None, Enters(t, tab[t].mem),
         RestOK', UNCHANGED <<work, sess, pending, overtaken>>
  PROVE  Typed'
<1>1. tab[t].mem \in Assessment /\ now \in Nat
  BY DEF Typed, TabsOK, TabRow, RestOK
<1>2. Timed(tab[t].mem, now) \in Assessment
  BY <1>1, TimedOK
<1>3. /\ tab' = [tab EXCEPT ![t].screen = "assessment", ![t].mem = Timed(tab[t].mem, now)]
      /\ StoreOK'
  BY <1>2, PersistsOK, TypesStay DEF Enters, Typed
<1>4. "assessment" \in Screen
  BY DEF Screen
<1>5. QED  BY <1>2, <1>3, <1>4, StayTyped

LEMMA ReviewBackTyped ==
  ASSUME Typed, NEW t \in Tab, Review(t) \/ Back(t)
  PROVE  Typed'
<1>1. Opened(t) /\ tab[t] \in TabRow /\ tab[t].mem \in Assessment /\ tab[t].mem # None
  BY AtScreen, NoneApart DEF Review, Back, WithAssessment
<1>2. CASE Review(t)
  <2>1. tab' = [tab EXCEPT ![t].screen = "pre-submit-review", ![t].mem = tab[t].mem]
        /\ UNCHANGED <<now, inbox, stored, unsaved, work, sess, pending, overtaken, report, shared, forced>>
    BY <1>1, <1>2 DEF Review, Typed, TabsOK, TabRow
  <2>2. "pre-submit-review" \in Screen /\ RestOK' /\ StoreOK'
    BY <2>1, TypesStay DEF Screen
  <2>3. QED  BY <1>1, <2>1, <2>2, StayTyped
<1>3. CASE Back(t)
  BY <1>1, <1>3, EntersTyped, TypesStay DEF Back
<1>4. QED  BY <1>2, <1>3

LEMMA SyncsTyped ==
  ASSUME Typed, NEW t \in Tab, NEW w \in Work, NEW auto \in BOOLEAN,
         Shown(t) \in WithAssessment, Syncs(t, w, auto)
  PROVE  Typed'
<1>1. Opened(t) /\ tab[t] \in TabRow /\ tab[t].mem \in Assessment
  BY AtScreen
<1> DEFINE a == tab[t].mem
           x == [NoWork EXCEPT !.kind = "sync", !.tab = t, !.step = "answers",
                               !.session = a.session, !.left = a.answers \cap Sent,
                               !.all = a.answers, !.auto = auto]
           y == [tab[t] EXCEPT !.screen = "syncing"]
<1>2. x \in WorkRow /\ StepOK(x) /\ x.tab = t /\ x.kind = "sync"
  BY <1>1, NoneApart DEF NoWork, WorkRow, StepOK, Assessment
<1>3. y \in TabRow /\ y.screen = "syncing" /\ y.mem # None
  BY <1>1, NoneApart DEF TabRow, Screen
<1>4. /\ work' = [work EXCEPT ![w] = x]
      /\ UNCHANGED <<now, inbox, stored, unsaved, sess, pending, overtaken, report, shared, forced>>
  BY DEF Syncs
<1>5. tab' = [tab EXCEPT ![t] = y]
  BY DEF Syncs, Typed, TabsOK
<1> HIDE DEF x, y
<1>6. WorksOK' /\ work'[w] = x /\ \A v \in Work \ {w} : work'[v] = work[v]
  BY <1>2, <1>4, WorkMoves DEF Typed
<1>7. TabsOK' /\ PagesOK'
  BY <1>2, <1>3, <1>5, <1>6, TabMoves DEF Typed
<1>8. QED  BY <1>4, <1>6, <1>7, TypesStay DEF Typed

LEMMA SyncedTyped ==
  ASSUME Typed, NEW w \in Work, Synced(w)
  PROVE  Typed'
<1> DEFINE t == work[w].tab
           x == [tab[t] EXCEPT !.screen = Legal(t, "syncing", "done")]
           r == [session |-> work[w].session, answers |-> work[w].all,
                 auto |-> work[w].auto, clean |-> work[w].clean]
<1>1. /\ work[w] \in WorkRow /\ t \in Tab /\ Opened(t) /\ tab[t] \in TabRow
      /\ StepOK(work[w]) /\ work[w].kind = "sync"
  BY ReplyFacts DEF Synced, Typed, WorksOK
<1>2. work' = [work EXCEPT ![w] = NoWork] /\ UNCHANGED <<now, inbox, stored, unsaved, sess, pending, overtaken, shared, forced>>
  BY DEF Synced
<1>3. WorksOK' /\ \A v \in Work : work'[v] = NoWork \/ work'[v] = work[v]
  BY <1>2, WorkEnds
<1>4. x \in TabRow /\ x.mem = tab[t].mem /\ x.screen # "closed"
      /\ (x.screen = tab[t].screen \/ (tab[t].screen = "syncing" /\ x.screen = "done"))
  BY <1>1 DEF TabRow, Screen, Legal, Shown, Opened
<1>5. x.screen \in WithAssessment => x.mem # None
  BY <1>1, <1>4 DEF Typed, TabsOK, WithAssessment, Shown
<1>6. tab' = [tab EXCEPT ![t] = x]
  BY DEF Synced, Typed, TabsOK
<1>7. r \in Report
  BY <1>1 DEF WorkRow, StepOK, Report
<1>8. RestOK'
  BY <1>1, <1>2, <1>7 DEF Synced, Typed, RestOK
<1> HIDE DEF x
<1>9. \A v \in Work : \/ work'[v].tab = None
                      \/ work'[v].tab = work[v].tab /\ work'[v].kind = work[v].kind
  BY <1>3, NoWorkOK
<1>10. TabsOK' /\ PagesOK'
  BY <1>1, <1>4, <1>5, <1>6, <1>9, TabMoves DEF Typed
<1>11. QED  BY <1>2, <1>3, <1>8, <1>10, TypesStay DEF Typed

LEMMA HearTyped ==
  ASSUME Typed, NEW t \in Tab, NEW m, Hear(t, m)
  PROVE  Typed'
<1> DEFINE x == [tab[t] EXCEPT !.screen = "session-conflict"]
           rest == [inbox EXCEPT ![t] = @ \ {m}]
<1>1. /\ tab[t] \in TabRow
      /\ m \in Message /\ inbox \in [Tab -> SUBSET Message]
      /\ TabsOK /\ PagesOK /\ WorksOK
  BY DEF Typed, TabsOK, RestOK, Hear
<1>2. UNCHANGED <<now, stored, unsaved, work, sess, pending, overtaken, report, shared, forced>>
  BY DEF Hear
<1>3. x \in TabRow /\ x.screen = "session-conflict" /\ x.mem = tab[t].mem
  BY <1>1 DEF TabRow, Screen
<1>4. \/ UNCHANGED tab
      \/ tab' = [tab EXCEPT ![t] = x]
  BY DEF Hear, Typed, TabsOK
<1> HIDE DEF x
<1>5. \A v \in Work : work'[v].tab = work[v].tab /\ work'[v].kind = work[v].kind
  BY <1>2
<1>6. ASSUME tab' = [tab EXCEPT ![t] = x]
      PROVE  TabsOK' /\ PagesOK'
  <2>1. x.screen # "closed" /\ x.screen \notin WithAssessment
    BY <1>3 DEF WithAssessment
  <2>2. QED  BY <1>1, <1>3, <1>5, <1>6, <2>1, TabMoves
<1>7. ASSUME UNCHANGED tab
      PROVE  TabsOK' /\ PagesOK'
  BY <1>2, <1>7, TypesStay
<1>8. TabsOK' /\ PagesOK'
  BY <1>4, <1>6, <1>7
<1>9. inbox' \in [Tab -> SUBSET Message]
  <2>1. rest \in [Tab -> SUBSET Message]
    BY <1>1
  <2>2. CASE m.kind = "tab-opened" /\ Opened(m.tab)
    <3>1. inbox' = [rest EXCEPT ![m.tab] = @ \cup {Said("invalidate", t, m.id)}]
      BY <2>2 DEF Hear
    <3>2. Said("invalidate", t, m.id) \in Message
      BY <1>1 DEF Said, Message
    <3> HIDE DEF rest
    <3>3. QED  BY <2>1, <3>1, <3>2
  <2>3. CASE ~(m.kind = "tab-opened" /\ Opened(m.tab))
    BY <2>1, <2>3 DEF Hear
  <2>4. QED  BY <2>2, <2>3
<1>10. QED  BY <1>2, <1>8, <1>9, TypesStay DEF Typed, RestOK

LEMMA ClaimTyped ==
  ASSUME Typed, NEW t \in Tab, Claim(t)
  PROVE  Typed'
<1>1. UNCHANGED <<now, work, sess, pending, overtaken, report, shared, forced>>
  BY DEF Claim
<1>2. Opened(t) /\ tab[t].mem # None /\ Enters(t, tab[t].mem)
  BY DEF Claim, Opened
<1>3. Said("continue-here", t, 0) \in Message
  BY DEF Said, Message
<1>4. inbox' \in [Tab -> SUBSET Message]
  BY <1>3 DEF Claim, Typed, RestOK
<1>5. RestOK'
  BY <1>1, <1>4 DEF Typed, RestOK
<1>6. QED  BY <1>1, <1>2, <1>5, EntersTyped

\* A page goes, with its functions; w is what the next one starts, if any does.
LEMMA PageGoes ==
  ASSUME Typed, NEW t \in Tab, NEW w, NEW x \in WorkRow, StepOK(x), Leave(t, w, x),
         x.kind # "create", x.tab \in {t, None}, NEW y \in TabRow,
         y.screen \in {"closed", "resolving"}, x.tab = t => y.screen = "resolving",
         tab' = [tab EXCEPT ![t] = y]
  PROVE  TabsOK' /\ PagesOK' /\ WorksOK'
<1>1. /\ WorksOK'
      /\ \A v \in Work : \/ v = w /\ work'[v] = x
                         \/ work'[v] = NoWork
                         \/ /\ work'[v] = [work[v] EXCEPT !.tab = None]
                            /\ work[v].step # "reply"
                         \/ work'[v] = work[v] /\ work[v].tab # t
  BY LeaveMoves DEF Typed
<1>2. tab'[t] = y /\ \A u \in Tab \ {t} : tab'[u] = tab[u]
  BY DEF Typed, TabsOK
<1>3. TabsOK'
  BY <1>2 DEF Typed, TabsOK, Shown, WithAssessment
<1>4. ASSUME NEW v \in Work, work'[v].tab # None
      PROVE  /\ tab'[work'[v].tab].screen # "closed"
             /\ work'[v].kind = "create" => tab'[work'[v].tab].mem # None
  <2>1. work[v] \in WorkRow /\ PageOK(work[v])
    BY DEF Typed, WorksOK, PagesOK
  <2>2. CASE work'[v] = x
    BY <1>2, <1>4, <2>2
  <2>3. CASE work'[v] = NoWork
    BY <1>4, <2>3, NoWorkOK
  <2>4. CASE work'[v] = [work[v] EXCEPT !.tab = None]
    BY <1>4, <2>1, <2>4 DEF WorkRow
  <2>5. CASE work'[v] = work[v] /\ work[v].tab # t
    <3>1. work[v].tab \in Tab \ {t}
      BY <1>4, <2>1, <2>5 DEF WorkRow
    <3>2. QED  BY <1>2, <1>4, <2>1, <2>5, <3>1 DEF PageOK, Opened, Shown
  <2>6. QED  BY <1>1, <2>2, <2>3, <2>4, <2>5
<1>5. PagesOK'
  BY <1>4 DEF PagesOK, PageOK, Opened, Shown
<1>6. QED  BY <1>1, <1>3, <1>5

LEMMA LoadsTyped ==
  ASSUME Typed, NEW t \in Tab, NEW w \in Work, NEW said \in SUBSET Message,
         Loads(t, w, said)
  PROVE  Typed'
<1> DEFINE id == tab[t].id + 1
           x  == [NoWork EXCEPT !.kind = "resolve", !.tab = t, !.step = "start"]
           y  == [screen |-> "resolving", mem |-> stored, due |-> 0, id |-> id]
<1>1. id \in Nat /\ stored \in Assessment \cup {None}
  BY DEF Typed, TabsOK, TabRow, StoreOK
<1>2. x \in WorkRow /\ StepOK(x) /\ x.tab = t /\ x.kind = "resolve"
  BY NoneApart DEF NoWork, WorkRow, StepOK
<1>3. y \in TabRow /\ y.screen = "resolving"
  BY <1>1 DEF TabRow, Screen
<1>4. /\ tab' = [tab EXCEPT ![t] = y] /\ Leave(t, w, x)
      /\ UNCHANGED <<now, stored, sess, pending, overtaken, report, forced>> /\ unsaved' = FALSE
      /\ shared' = (shared \/ \E u \in Tab \ {t} : Opened(u))
  BY DEF Loads
<1>5. inbox' \in [Tab -> SUBSET Message]
  <2>1. Said("tab-opened", t, id) \in Message
    BY <1>1 DEF Said, Message
  <2>2. inbox' = [u \in Tab |->
                    CASE u = t -> {}
                      [] u \in Others(t) -> inbox[u] \cup said \cup {Said("tab-opened", t, id)}
                      [] OTHER -> inbox[u]]
    BY DEF Loads
  <2>3. inbox \in [Tab -> SUBSET Message]
    BY DEF Typed, RestOK
  <2> HIDE DEF id
  <2>4. QED  BY <2>1, <2>2, <2>3 DEF Others
<1> HIDE DEF x, y
<1>6. TabsOK' /\ PagesOK' /\ WorksOK'
  BY <1>2, <1>3, <1>4, PageGoes
<1>7. shared' \in BOOLEAN
  BY <1>4 DEF Typed, RestOK
<1>8. QED  BY <1>4, <1>5, <1>6, <1>7, TypesStay DEF Typed, StoreOK, RestOK

LEMMA LoadTyped ==
  ASSUME Typed, NEW t \in Tab, NEW w \in Work, Load(t, w) \/ ClaimAnew(t, w)
  PROVE  Typed'
<1>1. {Said("continue-here", t, 0)} \in SUBSET Message /\ {} \in SUBSET Message
  BY DEF Said, Message
<1>2. QED  BY <1>1, LoadsTyped DEF Load, ClaimAnew

LEMMA ShutTyped ==
  ASSUME Typed, NEW t \in Tab, Shut(t)
  PROVE  Typed'
<1> DEFINE y == [tab[t] EXCEPT !.screen = "closed", !.mem = None, !.due = 0]
<1>1. y \in TabRow /\ y.screen = "closed"
  BY DEF Typed, TabsOK, TabRow, Screen
<1>2. tab' = [tab EXCEPT ![t] = y]
  BY DEF Shut, Typed, TabsOK
<1>3. /\ Leave(t, None, NoWork) /\ UNCHANGED <<now, stored, unsaved, sess, pending, overtaken, report, shared, forced>>
      /\ inbox' = [inbox EXCEPT ![t] = {}]
  BY DEF Shut
<1> HIDE DEF y
<1>4. TabsOK' /\ PagesOK' /\ WorksOK'
  BY <1>1, <1>2, <1>3, NoWorkOK, NoneApart, PageGoes
<1>5. QED  BY <1>3, <1>4, TypesStay DEF Typed, RestOK

LEMMA TickTyped ==
  ASSUME Typed, Tick
  PROVE  Typed'
<1>1. UNCHANGED <<tab, inbox, stored, unsaved, work, sess, pending, overtaken, report, shared, forced>>
      /\ now' \in 0 .. MaxTime
  BY AppAssumption DEF Tick, Typed, RestOK
<1>2. QED  BY <1>1, TypesStay DEF Typed, RestOK

-----------------------------------------------------------------------------
(* Types: every step *)

LEMMA InitTyped == Init => Typed
<1> SUFFICES ASSUME Init PROVE Typed
  OBVIOUS
<1>1. TabsOK
  <2>1. [screen |-> "closed", mem |-> None, due |-> 0, id |-> 0] \in TabRow
    BY DEF TabRow, Screen
  <2>2. tab = [t \in Tab |-> [screen |-> "closed", mem |-> None, due |-> 0, id |-> 0]]
    BY DEF Init
  <2>3. QED  BY <2>1, <2>2 DEF TabsOK, Shown, WithAssessment
<1>2. StoreOK /\ RestOK
  <2>1. StoreOK
    BY DEF Init, StoreOK
  <2>2. now \in 0 .. MaxTime
    BY AppAssumption DEF Init
  <2>3. inbox \in [Tab -> SUBSET Message]
    BY DEF Init
  <2>4. report \in [Tab -> Report \cup {None}]
    BY DEF Init
  <2>5. shared \in BOOLEAN /\ forced \in BOOLEAN
    BY DEF Init
  <2>6. QED  BY <2>1, <2>2, <2>3, <2>4, <2>5 DEF RestOK
<1>3. WorksOK /\ PagesOK
  <2>1. work \in [Work -> WorkRow] /\ \A w \in Work : work[w] = NoWork
    BY NoWorkOK DEF Init
  <2>2. QED  BY <2>1, NoWorkOK DEF WorksOK, PagesOK, PageOK
<1>4. RowsOK
  BY AppAssumption DEF Init, RowsOK, Unborn, SessionRow, Status
<1>5. LateOK
  BY DEF Init, LateOK
<1>6. QED  BY <1>1, <1>2, <1>3, <1>4, <1>5 DEF Typed

LEMMA CandidateTyped ==
  ASSUME Typed, NEW t \in Tab, Candidate(t)
  PROVE  Typed'
<1>1. ASSUME NEW w \in Work, Submit(t, w)
      PROVE  Typed'
  BY <1>1, SyncsTyped DEF Submit, WithAssessment
<1>2. QED  BY <1>1, ShutTyped, LaunchTyped, AnswerTyped, RunTyped, ReviewBackTyped, ClaimTyped,
              LoadTyped, ProceedTyped DEF Candidate

LEMMA FunctionTyped ==
  ASSUME Typed, NEW w \in Work, Function(w)
  PROVE  Typed'
BY StartRequestTyped, BeginRequestTyped, BeginWriteTyped, StartFirstTyped, PostTyped,
   PostedTyped, CloseRequestTyped, CloseWriteTyped, ResolvedTyped, CreatedTyped, SyncedTyped DEF Function

LEMMA NextTyped == Typed /\ [Next]_vars => Typed'
<1> SUFFICES ASSUME Typed, [Next]_vars PROVE Typed'
  OBVIOUS
<1>1. ASSUME NEW t \in Tab, NEW w \in Work, Expire(t, w)
      PROVE  Typed'
  BY <1>1, SyncsTyped DEF Expire, WithAssessment
<1>2. CASE UNCHANGED vars
  BY <1>2, TypesStay DEF Typed, vars
<1>3. QED  BY <1>1, <1>2, CandidateTyped, FunctionTyped, HearTyped, CallFailsTyped,
              MonitorTyped, LateWriteTyped, TickTyped DEF Next

\* Every variable has its type, a tab has the assessment its screen works on, and
\* a function under way that is not cut off has its page.
THEOREM TypeInvariant == Spec => []TypeOK
<1>1. Typed => TypeOK
  BY DEF Typed, TypeOK, TabsOK, StoreOK, WorksOK, PagesOK, PageOK, RowsOK, LateOK, RestOK,
         WithAssessment
<1>2. QED  BY <1>1, InitTyped, NextTyped, PTL DEF Spec

-----------------------------------------------------------------------------
(* One tab works *)

\* Tab t has to step aside; tab u is still to hear that t was opened.
Doomed(t) == \E m \in inbox[t] :
               m.kind = "continue-here" \/ (m.kind = "invalidate" /\ m.id = tab[t].id)

Announced(t, u) == Said("tab-opened", t, tab[t].id) \in inbox[u]

\* Of two tabs at work, one is told of the other, or told to go.
Settled(t, u) == Doomed(t) \/ Doomed(u) \/ Announced(t, u) \/ Announced(u, t)

Settling ==
  ~forced => \A t, u \in Tab : t # u /\ AtWork(t) /\ AtWork(u) => Settled(t, u)

\* Messages that stay keep what they settle between pages that stay.
LEMMA SettledStays ==
  ASSUME NEW t \in Tab, NEW u \in Tab, Settled(t, u),
         tab'[t].id = tab[t].id, tab'[u].id = tab[u].id,
         inbox[t] \subseteq inbox'[t], inbox[u] \subseteq inbox'[u]
  PROVE  Settled(t, u)'
<1>1. Doomed(t) => Doomed(t)'
  BY DEF Doomed
<1>2. Doomed(u) => Doomed(u)'
  BY DEF Doomed
<1>3. Announced(t, u) => Announced(t, u)'
  BY DEF Announced
<1>4. Announced(u, t) => Announced(u, t)'
  BY DEF Announced
<1>5. QED  BY <1>1, <1>2, <1>3, <1>4 DEF Settled

\* No page comes or goes, nobody is heard, and no tab is back from a conflict.
LEMMA SettlingStays ==
  ASSUME Settling, UNCHANGED inbox, ~forced' => ~forced,
         \A u \in Tab : tab'[u].id = tab[u].id /\ (AtWork(u)' => AtWork(u))
  PROVE  Settling'
<1> SUFFICES ASSUME ~forced', NEW t \in Tab, NEW u \in Tab, t # u, AtWork(t)', AtWork(u)'
             PROVE  Settled(t, u)'
  BY DEF Settling
<1>1. Settled(t, u)
  BY DEF Settling
<1>2. QED  BY <1>1, SettledStays

\* One tab goes to another screen on its page.
LEMMA ScreenMoves ==
  ASSUME Typed, Settling, NEW t \in Tab, NEW y, tab' = [tab EXCEPT ![t] = y],
         y.id = tab[t].id, AtWork(t) \/ y.screen = tab[t].screen,
         UNCHANGED inbox, ~forced' => ~forced
  PROVE  Settling'
<1>1. tab'[t] = y /\ \A u \in Tab \ {t} : tab'[u] = tab[u]
  BY DEF Typed, TabsOK
<1>2. ASSUME NEW u \in Tab
      PROVE  tab'[u].id = tab[u].id /\ (AtWork(u)' => AtWork(u))
  BY <1>1 DEF AtWork, Opened, Shown
<1>3. QED  BY <1>2, SettlingStays

LEMMA HearSettles ==
  ASSUME Typed, Settling, NEW t \in Tab, NEW m, Hear(t, m)
  PROVE  Settling'
<1> DEFINE aside == m.kind = "continue-here" \/ (m.kind = "invalidate" /\ m.id = tab[t].id)
           rest  == [inbox EXCEPT ![t] = @ \ {m}]
<1>1. /\ inbox \in [Tab -> SUBSET Message] /\ tab \in [Tab -> TabRow]
      /\ m \in inbox[t] /\ m \in Message /\ UNCHANGED forced
  BY DEF Typed, RestOK, TabsOK, Hear
<1>2. tab' = IF aside THEN [tab EXCEPT ![t].screen = "session-conflict"] ELSE tab
  BY DEF Hear
<1>3. /\ \A u \in Tab : tab'[u].id = tab[u].id
      /\ \A u \in Tab \ {t} : tab'[u] = tab[u]
      /\ IF aside THEN tab'[t].screen = "session-conflict" ELSE tab'[t] = tab[t]
  BY <1>1, <1>2 DEF TabRow
<1>4. \A u \in Tab : AtWork(u)' => AtWork(u) /\ ~(u = t /\ aside)
  BY <1>3 DEF AtWork, Opened, Shown
<1>5. /\ inbox[t] \ {m} \subseteq inbox'[t]
      /\ \A u \in Tab \ {t} : inbox[u] \subseteq inbox'[u]
  BY <1>1 DEF Hear
<1>6. ASSUME NEW u \in Tab, u # t, AtWork(u), m = Said("tab-opened", u, tab[u].id)
      PROVE  Doomed(u)'
  <2>1. m.kind = "tab-opened" /\ m.tab = u /\ m.id = tab[u].id /\ Opened(m.tab)
    BY <1>6 DEF Said, AtWork
  <2>2. inbox' = [rest EXCEPT ![u] = @ \cup {Said("invalidate", t, tab[u].id)}]
    BY <2>1 DEF Hear
  <2>3. Said("invalidate", t, tab[u].id) \in inbox'[u]
    BY <1>1, <2>2
  <2>4. Said("invalidate", t, tab[u].id).kind = "invalidate"
        /\ Said("invalidate", t, tab[u].id).id = tab'[u].id
    BY <1>3 DEF Said
  <2>5. QED  BY <2>3, <2>4 DEF Doomed
<1>7. ASSUME NEW u \in Tab, u # t, ~forced, AtWork(t)', AtWork(u)'
      PROVE  Doomed(t)' \/ Doomed(u)' \/ Announced(t, u)' \/ Announced(u, t)'
  <2>1. AtWork(t) /\ AtWork(u) /\ ~aside
    BY <1>4, <1>7
  <2>2. Settled(t, u)
    BY <1>7, <2>1 DEF Settling
  <2>3. CASE Doomed(t)
    <3>1. PICK n \in inbox[t] :
            n.kind = "continue-here" \/ (n.kind = "invalidate" /\ n.id = tab[t].id)
      BY <2>3 DEF Doomed
    <3>2. n \in inbox'[t]
      BY <1>5, <2>1, <3>1
    <3>3. QED  BY <1>3, <3>1, <3>2 DEF Doomed
  <2>4. CASE Doomed(u)
    BY <1>3, <1>5, <1>7, <2>4 DEF Doomed
  <2>5. CASE Announced(t, u)
    BY <1>3, <1>5, <1>7, <2>5 DEF Announced
  <2>6. CASE Announced(u, t)
    <3>1. CASE m = Said("tab-opened", u, tab[u].id)
      BY <1>6, <1>7, <2>1, <3>1
    <3>2. CASE m # Said("tab-opened", u, tab[u].id)
      BY <1>3, <1>5, <2>6, <3>2 DEF Announced
    <3>3. QED  BY <3>1, <3>2
  <2>7. QED  BY <2>2, <2>3, <2>4, <2>5, <2>6 DEF Settled
<1>8. SUFFICES ASSUME ~forced', NEW v \in Tab, NEW u \in Tab, v # u, AtWork(v)', AtWork(u)'
               PROVE  Settled(v, u)'
  BY DEF Settling
<1>9. CASE v = t
  BY <1>1, <1>7, <1>8, <1>9 DEF Settled
<1>10. CASE u = t
  BY <1>1, <1>7, <1>8, <1>10 DEF Settled
<1>11. CASE v # t /\ u # t
  <2>1. Settled(v, u)
    BY <1>1, <1>4, <1>8 DEF Settling
  <2>2. QED  BY <1>3, <1>5, <1>11, <2>1, SettledStays
<1>12. QED  BY <1>9, <1>10, <1>11

LEMMA LoadsSettles ==
  ASSUME Typed, Settling, NEW t \in Tab, NEW w \in Work, NEW said, Loads(t, w, said)
  PROVE  Settling'
<1> DEFINE id == tab[t].id + 1
<1>1. /\ tab' = [tab EXCEPT ![t] =
                   [screen |-> "resolving", mem |-> stored, due |-> 0, id |-> id]]
      /\ inbox' = [u \in Tab |->
                    CASE u = t -> {}
                      [] u \in Others(t) -> inbox[u] \cup said \cup {Said("tab-opened", t, id)}
                      [] OTHER -> inbox[u]]
      /\ UNCHANGED forced
  BY DEF Loads
<1>2. tab'[t].id = id /\ \A u \in Tab \ {t} : tab'[u] = tab[u]
  BY <1>1 DEF Typed, TabsOK
<1> HIDE DEF id
<1>3. \A u \in Tab \ {t} : AtWork(u)' => AtWork(u) /\ u \in Others(t)
  BY <1>2 DEF AtWork, Opened, Shown, Others
<1>4. /\ \A u \in Tab \ {t} : inbox[u] \subseteq inbox'[u]
      /\ \A u \in Others(t) : Said("tab-opened", t, id) \in inbox'[u]
  BY <1>1 DEF Others
<1>5. \A u \in Tab \ {t} : AtWork(u)' => Announced(t, u)'
  BY <1>2, <1>3, <1>4 DEF Announced
<1>6. SUFFICES ASSUME ~forced', NEW v \in Tab, NEW u \in Tab, v # u, AtWork(v)', AtWork(u)'
               PROVE  Settled(v, u)'
  BY DEF Settling
<1>7. CASE v = t \/ u = t
  BY <1>5, <1>6, <1>7 DEF Settled
<1>8. CASE v # t /\ u # t
  <2>1. Settled(v, u)
    BY <1>1, <1>3, <1>6, <1>8 DEF Settling
  <2>2. QED  BY <1>2, <1>4, <1>8, <2>1, SettledStays
<1>9. QED  BY <1>7, <1>8

LEMMA ClaimSettles ==
  ASSUME Typed, Settling, NEW t \in Tab, Claim(t)
  PROVE  Settling'
<1>1. /\ inbox' = [u \in Tab |-> IF Opened(u)
                                 THEN inbox[u] \cup {Said("continue-here", t, 0)} ELSE inbox[u]]
      /\ Opened(t)
      /\ tab' = [tab EXCEPT ![t].screen = "assessment", ![t].mem = Timed(tab[t].mem, now)]
  BY DEF Claim, Enters, Opened
<1>2. \A u \in Tab : AtWork(u)' => Opened(u)
  BY <1>1 DEF Typed, TabsOK, TabRow, AtWork, Opened, Shown
<1>3. \A u \in Tab : Opened(u) => Said("continue-here", t, 0) \in inbox'[u]
  BY <1>1
<1>4. Said("continue-here", t, 0).kind = "continue-here"
  BY DEF Said
<1>5. \A u \in Tab : AtWork(u)' => Doomed(u)'
  BY <1>2, <1>3, <1>4 DEF Doomed
<1>6. QED  BY <1>5 DEF Settling, Settled

LEMMA ShutSettles ==
  ASSUME Typed, Settling, NEW t \in Tab, Shut(t)
  PROVE  Settling'
<1>1. /\ tab' = [tab EXCEPT ![t].screen = "closed", ![t].mem = None, ![t].due = 0]
      /\ inbox' = [inbox EXCEPT ![t] = {}] /\ UNCHANGED forced
  BY DEF Shut
<1>2. /\ tab'[t].screen = "closed"
      /\ \A u \in Tab \ {t} : tab'[u] = tab[u] /\ inbox'[u] = inbox[u]
  BY <1>1 DEF Typed, TabsOK, TabRow, RestOK
<1>3. SUFFICES ASSUME ~forced', NEW v \in Tab, NEW u \in Tab, v # u, AtWork(v)', AtWork(u)'
               PROVE  Settled(v, u)'
  BY DEF Settling
<1>4. v # t /\ u # t
  BY <1>2, <1>3 DEF AtWork, Opened, Shown
<1>5. Settled(v, u)
  BY <1>1, <1>2, <1>3, <1>4 DEF Settling, AtWork, Opened, Shown
<1>6. QED  BY <1>2, <1>4, <1>5, SettledStays

\* One tab's row changes, its page stays, and it is not back from a conflict.
LEMMA RowSettles ==
  ASSUME Typed, Settling, NEW t \in Tab, \A u \in Tab \ {t} : tab'[u] = tab[u],
         tab'[t].id = tab[t].id, AtWork(t) \/ tab'[t].screen = tab[t].screen,
         UNCHANGED inbox, ~forced' => ~forced
  PROVE  Settling'
<1>1. ASSUME NEW u \in Tab
      PROVE  tab'[u].id = tab[u].id /\ (AtWork(u)' => AtWork(u))
  BY DEF AtWork, Opened, Shown
<1>2. QED  BY <1>1, SettlingStays

LEMMA LaunchSettles ==
  ASSUME Typed, Settling, NEW t \in Tab, Launch(t)
  PROVE  Settling'
<1> DEFINE a == Timed(Initialised(tab[t].mem, tab[t].mem.session), now)
<1>1. AtWork(t) /\ UNCHANGED <<inbox, forced>>
      /\ tab' = [tab EXCEPT ![t].screen = "assessment", ![t].mem = a]
  BY DEF Launch, Keeps, AtWork, Opened
<1> HIDE DEF a
<1>2. tab'[t].id = tab[t].id /\ \A u \in Tab \ {t} : tab'[u] = tab[u]
  BY <1>1 DEF Typed, TabsOK, TabRow
<1>3. QED  BY <1>1, <1>2, RowSettles

LEMMA ReviewSettles ==
  ASSUME Typed, Settling, NEW t \in Tab, Review(t)
  PROVE  Settling'
<1>1. AtWork(t) /\ UNCHANGED <<inbox, forced>>
      /\ tab' = [tab EXCEPT ![t].screen = "pre-submit-review"]
  BY DEF Review, AtWork, Opened
<1>2. tab'[t].id = tab[t].id /\ \A u \in Tab \ {t} : tab'[u] = tab[u]
  BY <1>1 DEF Typed, TabsOK, TabRow
<1>3. QED  BY <1>1, <1>2, RowSettles

LEMMA BackSettles ==
  ASSUME Typed, Settling, NEW t \in Tab, Back(t)
  PROVE  Settling'
<1> DEFINE a == Timed(tab[t].mem, now)
<1>1. AtWork(t) /\ UNCHANGED <<inbox, forced>>
      /\ tab' = [tab EXCEPT ![t].screen = "assessment", ![t].mem = a]
  BY DEF Back, Enters, AtWork, Opened
<1> HIDE DEF a
<1>2. tab'[t].id = tab[t].id /\ \A u \in Tab \ {t} : tab'[u] = tab[u]
  BY <1>1 DEF Typed, TabsOK, TabRow
<1>3. QED  BY <1>1, <1>2, RowSettles

LEMMA AnswerSettles ==
  ASSUME Typed, Settling, NEW t \in Tab, NEW q \in Question, Answer(t, q)
  PROVE  Settling'
<1> DEFINE a == [tab[t].mem EXCEPT !.answers = @ \cup {q}]
<1>1. AtWork(t) /\ UNCHANGED <<inbox, forced>>
      /\ tab' = [tab EXCEPT ![t].screen = "assessment", ![t].mem = a]
  BY DEF Answer, Keeps, AtWork, Opened
<1> HIDE DEF a
<1>2. tab'[t].id = tab[t].id /\ \A u \in Tab \ {t} : tab'[u] = tab[u]
  BY <1>1 DEF Typed, TabsOK, TabRow
<1>3. QED  BY <1>1, <1>2, RowSettles

LEMMA SyncsSettles ==
  ASSUME Typed, Settling, NEW t \in Tab, NEW w \in Work, Submit(t, w) \/ Expire(t, w)
  PROVE  Settling'
<1>1. AtWork(t)
  BY DEF Submit, Expire, AtWork, Opened
<1>2. UNCHANGED <<inbox, forced>> /\ tab' = [tab EXCEPT ![t].screen = "syncing"]
  BY DEF Submit, Expire, Syncs
<1>3. tab'[t].id = tab[t].id /\ \A u \in Tab \ {t} : tab'[u] = tab[u]
  BY <1>2 DEF Typed, TabsOK, TabRow
<1>4. QED  BY <1>1, <1>2, <1>3, RowSettles

LEMMA SyncedSettles ==
  ASSUME Typed, Settling, NEW w \in Work, Synced(w)
  PROVE  Settling'
<1> DEFINE t == work[w].tab
<1>1. t \in Tab /\ Opened(t) /\ tab[t] \in TabRow
  BY ReplyFacts DEF Synced
<1>2. UNCHANGED <<inbox, forced>> /\ tab' = [tab EXCEPT ![t].screen = Legal(t, "syncing", "done")]
  BY DEF Synced
<1> HIDE DEF t
<1>3. tab'[t].id = tab[t].id /\ tab'[t].screen = Legal(t, "syncing", "done")
      /\ \A u \in Tab \ {t} : tab'[u] = tab[u]
  BY <1>1, <1>2 DEF Typed, TabsOK, TabRow
<1>4. AtWork(t) \/ tab'[t].screen = tab[t].screen
  BY <1>3 DEF Legal, AtWork, Opened, Shown
<1>5. QED  BY <1>1, <1>2, <1>3, <1>4, RowSettles

LEMMA CreatedSettles ==
  ASSUME Typed, Settling, NEW w \in Work, Created(w)
  PROVE  Settling'
<1> DEFINE t == work[w].tab
           s == IF work[w].session = None THEN tab[t].mem.session ELSE work[w].session
           a == Initialised(tab[t].mem, s)
<1>1. t \in Tab /\ Opened(t) /\ tab[t] \in TabRow
  BY ReplyFacts DEF Created
<1>2. PICK due \in (now + 1) .. (now + Briefing) :
        tab' = [tab EXCEPT
                  ![t].screen = Legal(t, "preparing", "waiting-room"),
                  ![t].mem = a,
                  ![t].due = IF Shown(t) = "preparing" THEN due ELSE @]
  BY Zenon DEF Created
<1>3. UNCHANGED <<inbox, forced>>
  BY DEF Created
<1> HIDE DEF t, s, a
<1>4. tab'[t].id = tab[t].id /\ tab'[t].screen = Legal(t, "preparing", "waiting-room")
      /\ \A u \in Tab \ {t} : tab'[u] = tab[u]
  BY <1>1, <1>2 DEF Typed, TabsOK, TabRow
<1>5. AtWork(t) \/ tab'[t].screen = tab[t].screen
  BY <1>4 DEF Legal, AtWork, Opened, Shown
<1>6. QED  BY <1>1, <1>3, <1>4, <1>5, RowSettles

LEMMA ResolvedSettles ==
  ASSUME Typed, Settling, NEW w \in Work, Resolved(w)
  PROVE  Settling'
<1> DEFINE t == work[w].tab
           b == Initialised(tab[t].mem, work[w].session)
           a == Timed(b, work[w].started)
<1>1. t \in Tab /\ Opened(t) /\ tab[t] \in TabRow
  BY ReplyFacts DEF Resolved
<1>2. UNCHANGED inbox
  BY DEF Resolved
<1>3. \/ /\ tab' = [tab EXCEPT ![t].screen = Legal(t, "resolving", "expired")]
         /\ UNCHANGED forced
      \/ /\ tab' = [tab EXCEPT ![t].screen = Legal(t, "resolving", "preparing"), ![t].mem = b]
         /\ UNCHANGED forced
      \/ /\ tab' = [tab EXCEPT ![t].screen = "assessment", ![t].mem = a]
         /\ forced' = (forced \/ Shown(t) = "session-conflict")
  BY DEF Resolved, Keeps
<1> HIDE DEF t, a, b
<1>4. tab'[t].id = tab[t].id /\ \A u \in Tab \ {t} : tab'[u] = tab[u]
  BY <1>1, <1>3 DEF Typed, TabsOK, TabRow
<1>5. CASE UNCHANGED forced /\ tab'[t].screen \in {Legal(t, "resolving", "expired"),
                                                 Legal(t, "resolving", "preparing")}
  <2>1. AtWork(t) \/ tab'[t].screen = tab[t].screen
    BY <1>5 DEF Legal, AtWork, Opened, Shown
  <2>2. QED  BY <1>1, <1>2, <1>4, <1>5, <2>1, RowSettles
<1>6. CASE forced' = (forced \/ Shown(t) = "session-conflict")
  <2>1. CASE Shown(t) = "session-conflict"
    BY <1>6, <2>1 DEF Settling
  <2>2. CASE Shown(t) # "session-conflict"
    <3>1. AtWork(t) /\ (~forced' => ~forced)
      BY <1>1, <1>6, <2>2 DEF AtWork
    <3>2. QED  BY <1>1, <1>2, <1>4, <3>1, RowSettles
  <2>3. QED  BY <2>1, <2>2
<1>7. QED
  <2>1. CASE tab' = [tab EXCEPT ![t].screen = Legal(t, "resolving", "expired")]
             /\ UNCHANGED forced
    BY <1>1, <1>5, <2>1 DEF Typed, TabsOK, TabRow
  <2>2. CASE tab' = [tab EXCEPT ![t].screen = Legal(t, "resolving", "preparing"), ![t].mem = b]
             /\ UNCHANGED forced
    BY <1>1, <1>5, <2>2 DEF Typed, TabsOK, TabRow
  <2>3. QED  BY <1>3, <1>6, <2>1, <2>2

\* A call goes on, is answered or is lost; this leaves the tabs as they are.
Calling(w) ==
  \/ StartRequest(w) \/ BeginRequest(w) \/ BeginWrite(w) \/ StartFirst(w) \/ Post(w)
  \/ Posted(w) \/ CloseRequest(w) \/ CloseWrite(w) \/ CallFails(w)

LEMMA CallSettles ==
  ASSUME NEW w \in Work, Calling(w)
  PROVE  UNCHANGED <<now, tab, inbox, stored, unsaved, report, shared, forced>>
<1>1. CASE StartRequest(w)
  BY <1>1, Zenon DEF StartRequest
<1>2. CASE BeginRequest(w)
  BY <1>2 DEF BeginRequest
<1>3. CASE Post(w)
  BY <1>3, Zenon DEF Post
<1>4. CASE Posted(w)
  BY <1>4 DEF Posted
<1>5. CASE CloseRequest(w)
  BY <1>5 DEF CloseRequest
<1>6. CASE CallFails(w)
  BY <1>6 DEF CallFails
<1>7. CASE BeginWrite(w)
  BY <1>7 DEF BeginWrite
<1>8. CASE StartFirst(w)
  BY <1>8 DEF StartFirst
<1>9. CASE CloseWrite(w)
  BY <1>9 DEF CloseWrite
<1>10. QED
  BY <1>1, <1>2, <1>3, <1>4, <1>5, <1>6, <1>7, <1>8, <1>9 DEF Calling

LEMMA NextSettles == Typed /\ Settling /\ [Next]_vars => Settling'
<1> SUFFICES ASSUME Typed, Settling, [Next]_vars PROVE Settling'
  OBVIOUS
<1>1. ASSUME UNCHANGED <<tab, inbox, forced>>
      PROVE  Settling'
  BY <1>1, SettlingStays DEF AtWork, Opened, Shown
<1>2. ASSUME NEW t \in Tab, Candidate(t)
      PROVE  Settling'
  <2>1. ASSUME NEW w \in Work, Load(t, w) \/ ClaimAnew(t, w)
        PROVE  Settling'
    BY <2>1, LoadsSettles DEF Load, ClaimAnew
  <2>2. ASSUME NEW w \in Work, Proceed(t, w)
        PROVE  Settling'
    BY <1>1, <2>2 DEF Proceed
  <2>3. ASSUME NEW q \in Question, Run(t, q)
        PROVE  Settling'
    BY <1>1, <2>3 DEF Run
  <2>4. QED  BY <1>2, <2>1, <2>2, <2>3, ShutSettles, LaunchSettles, ReviewSettles, BackSettles,
                AnswerSettles, SyncsSettles, ClaimSettles DEF Candidate
<1>3. ASSUME NEW w \in Work, Function(w) \/ CallFails(w)
      PROVE  Settling'
  <2>1. CASE Calling(w)
    BY <1>1, <2>1, CallSettles
  <2>2. QED  BY <1>3, <2>1, ResolvedSettles, CreatedSettles, SyncedSettles DEF Function, Calling
<1>4. ASSUME NEW s \in Session, NEW d \in Decision, Scan(s) \/ AutoSubmit(s) \/ LateWrite(s, d)
      PROVE  Settling'
  BY <1>1, <1>4 DEF Scan, AutoSubmit, LateWrite
<1>5. CASE Tick
  BY <1>1, <1>5 DEF Tick
<1>6. CASE UNCHANGED vars
  BY <1>1, <1>6 DEF vars
<1>7. "start" \in Decision
  BY DEF Decision
<1>8. QED  BY <1>2, <1>3, <1>4, <1>5, <1>6, <1>7, HearSettles, SyncsSettles DEF Next

\* Once the tabs have heard each other at most one is at work, unless a function
\* under way has forced one back.
THEOREM OneTab == Spec => []OneTabWorks
<1>1. Init => Settling
  BY DEF Init, Settling, AtWork, Opened, Shown
<1>2. Settling => OneTabWorks
  BY DEF Settling, Settled, Doomed, Announced, OneTabWorks
<1>3. QED  BY <1>1, <1>2, InitTyped, NextTyped, NextSettles, PTL DEF Spec

-----------------------------------------------------------------------------
(* Done is delivered *)

\* What a submission under way has achieved, if nothing went wrong.
Sound(x, rows, over) ==
  x.kind = "sync" /\ x.clean =>
    /\ (x.all \cap Sent) \ x.left \subseteq rows[x.session].answers
    /\ x.step \in {"close", "closing", "reply"} => x.left = {}
    /\ x.step = "reply" => rows[x.session].status = "SUBMITTED" \/ x.session \in over

Delivery == DoneIsDelivered /\ \A w \in Work : Sound(work[w], sess, overtaken)

\* The server takes back no answer, and no submission but by an earlier decision.
Grows == /\ overtaken \subseteq overtaken'
         /\ \A s \in Session :
              /\ sess[s].answers \subseteq sess'[s].answers
              /\ sess[s].status = "SUBMITTED" => sess'[s].status = "SUBMITTED" \/ s \in overtaken'

\* What was achieved stays so.
LEMMA SoundStays ==
  ASSUME Grows, NEW x \in WorkRow, StepOK(x), Sound(x, sess, overtaken)
  PROVE  Sound(x, sess', overtaken')
<1>1. x.kind = "sync" => x.session \in Session
  BY DEF StepOK
<1>2. QED  BY <1>1 DEF Sound, Grows

LEMMA DoneStays ==
  ASSUME Typed, DoneIsDelivered, Grows, UNCHANGED report
  PROVE  DoneIsDelivered'
<1> SUFFICES ASSUME NEW t \in Tab, report[t] # None, report[t].clean
             PROVE  /\ \/ sess'[report[t].session].status = "SUBMITTED"
                       \/ report[t].session \in overtaken'
                    /\ report[t].answers \cap Sent \subseteq sess'[report[t].session].answers
  BY DEF DoneIsDelivered
<1>1. report[t].session \in Session
  BY DEF Typed, RestOK, Report
<1>2. QED  BY <1>1 DEF DoneIsDelivered, Grows

\* Functions go on as they are, are cut off from their page, end or begin.
LEMMA DeliveryStays ==
  ASSUME Typed, Delivery, Grows, UNCHANGED report,
         \A v \in Work : \/ work'[v] = work[v]
                         \/ work'[v] = [work[v] EXCEPT !.tab = None]
                         \/ Sound(work'[v], sess', overtaken')
  PROVE  Delivery'
<1>1. DoneIsDelivered'
  BY DoneStays DEF Delivery
<1>2. ASSUME NEW v \in Work
      PROVE  Sound(work'[v], sess', overtaken')
  <2>1. work[v] \in WorkRow /\ Sound(work[v], sess', overtaken')
    BY SoundStays DEF Delivery, Typed, WorksOK
  <2>2. Sound([work[v] EXCEPT !.tab = None], sess', overtaken')
    BY <2>1 DEF Sound, WorkRow
  <2>3. QED  BY <2>1, <2>2
<1>3. QED  BY <1>1, <1>2 DEF Delivery

LEMMA NoWorkSound == ASSUME NEW rows, NEW over PROVE Sound(NoWork, rows, over)
BY DEF Sound, NoWork

LEMMA StayGrows == UNCHANGED <<sess, overtaken>> => Grows
BY DEF Grows

\* One row is written through the guard.
LEMMA HandledGrows ==
  ASSUME Typed, NEW s \in Session, NEW sub \in BOOLEAN, NEW x \in SessionRow,
         sess' = Handled(s, sub, x), sess[s].answers \subseteq x.answers,
         x.status = sess[s].status, UNCHANGED overtaken
  PROVE  Grows
<1>1. \/ UNCHANGED sess
      \/ /\ sess'[s] = x
         /\ \A v \in Session \ {s} : sess'[v] = sess[v]
  BY HandledOK DEF Typed
<1>2. QED  BY <1>1 DEF Grows

LEMMA LookedGrows ==
  ASSUME Typed, NEW s \in Session, NEW sub \in BOOLEAN, Looked(s, sub), UNCHANGED overtaken
  PROVE  Grows
BY LookedOK DEF Typed, Grows

LEMMA WritesGrows ==
  ASSUME Typed, NEW s \in Session, NEW x \in SessionRow, Writes(s, x), x.answers = sess[s].answers
  PROVE  Grows
<1>1. /\ overtaken \subseteq overtaken'
      /\ sess'[s] = x /\ \A v \in Session \ {s} : sess'[v] = sess[v]
      /\ sess[s].status = "SUBMITTED" => x.status = "SUBMITTED" \/ s \in overtaken'
  BY WritesOK DEF Typed
<1>2. QED  BY <1>1 DEF Grows

\* A function that is not a clean submission, or what Goes makes of one.
LEMMA GoesSound ==
  ASSUME Typed, NEW w \in Work, NEW x, Goes(w, x), Sound(x, sess', overtaken')
  PROVE  Sound(work'[w], sess', overtaken') /\ \A v \in Work \ {w} : work'[v] = work[v]
<1>1. work' = [work EXCEPT ![w] = IF work[w].tab = None THEN NoWork ELSE x]
  BY DEF Goes, Typed, WorksOK
<1>2. work'[w] = (IF work[w].tab = None THEN NoWork ELSE x)
      /\ \A v \in Work \ {w} : work'[v] = work[v]
  BY <1>1 DEF Typed, WorksOK
<1>3. QED  BY <1>2, NoWorkSound

\* A call that goes on to a sound step.
LEMMA StepDelivers ==
  ASSUME Typed, Delivery, Grows, UNCHANGED report, NEW w \in Work, NEW to, NEW x,
         Steps(w, to, x), Sound(x, sess', overtaken')
  PROVE  Delivery'
<1>1. x \in WorkRow /\ Moves(w, x)
  BY StepMoves
<1>2. work'[w] = x \/ work'[w] = NoWork
  BY <1>1, MovesOK DEF Typed
<1>3. \A v \in Work \ {w} : work'[v] = work[v]
  BY <1>1, MovesOK DEF Typed
<1>4. QED  BY <1>2, <1>3, NoWorkSound, DeliveryStays

LEMMA StartRequestDelivers ==
  ASSUME Typed, Delivery, NEW w \in Work, StartRequest(w)
  PROVE  Delivery'
<1>1. PICK s \in Session :
        /\ sess[s].status \in Active \/ sess[s].status = "UNBORN"
        /\ sess' = [sess EXCEPT ![s].status = IF @ = "UNBORN" THEN "NOT_STARTED" ELSE @]
        /\ Goes(w, [work[w] EXCEPT
                      !.session = s, !.started = sess[s].started,
                      !.step = IF work[w].kind = "create" THEN "begin" ELSE "reply"])
  BY Zenon DEF StartRequest
<1>2. Grows
  <2>1. UNCHANGED overtaken
    BY Zenon DEF StartRequest
  <2>2. QED  BY <1>1, <2>1 DEF Typed, RowsOK, SessionRow, Active, Grows
<1> DEFINE x == [work[w] EXCEPT
                   !.session = s, !.started = sess[s].started,
                   !.step = IF work[w].kind = "create" THEN "begin" ELSE "reply"]
<1>3. work[w] \in WorkRow /\ work[w].kind # "sync"
  BY DEF Typed, WorksOK, StepOK, StartRequest
<1>4. x.kind # "sync"
  BY <1>3 DEF WorkRow
<1>5. Goes(w, x) /\ UNCHANGED report
  BY <1>1, Zenon DEF StartRequest
<1> HIDE DEF x
<1>6. Sound(x, sess', overtaken')
  BY <1>4 DEF Sound
<1>7. QED  BY <1>2, <1>5, <1>6, GoesSound, DeliveryStays

LEMMA BeginDelivers ==
  ASSUME Typed, Delivery, NEW w \in Work, BeginRequest(w) \/ BeginWrite(w)
  PROVE  Delivery'
<1>1. work[w] \in WorkRow /\ work[w].kind # "sync" /\ work[w].session \in Session
  BY DEF Typed, WorksOK, BeginRequest, BeginWrite, StepOK
<1>2. Grows /\ UNCHANGED report
  <2>1. CASE BeginRequest(w)
    BY <1>1, <2>1, LookedGrows DEF BeginRequest
  <2>2. CASE BeginWrite(w)
    BY <2>2, BeginRow, WritesGrows DEF BeginWrite
  <2>3. QED  BY <2>1, <2>2
<1>3. PICK to, x : Steps(w, to, x)
  BY CallSteps
<1>4. x.kind # "sync"
  BY <1>1, <1>3, StepMoves
<1>5. Sound(x, sess', overtaken')
  BY <1>4 DEF Sound
<1>6. QED  BY <1>2, <1>3, <1>5, StepDelivers

LEMMA RunDelivers ==
  ASSUME Typed, Delivery, NEW t \in Tab, NEW q \in Question, Run(t, q)
  PROVE  Delivery'
<1>1. tab[t].mem.session \in Session
  <2>1. tab[t].mem \in Assessment
    BY DEF Typed, TabsOK, Run, WithAssessment, TabRow, Shown
  <2>2. QED  BY <2>1 DEF Assessment
<1>2. Looked(tab[t].mem.session, FALSE) /\ UNCHANGED <<work, overtaken, report>>
  BY DEF Run
<1>3. QED  BY <1>1, <1>2, LookedGrows, DeliveryStays

LEMMA StartFirstDelivers ==
  ASSUME Typed, Delivery, NEW w \in Work, StartFirst(w)
  PROVE  Delivery'
<1>1. work[w].session \in Session
  BY DEF Typed, WorksOK, StartFirst, StepOK
<1>2. Looked(work[w].session, TRUE) /\ UNCHANGED <<work, overtaken, report>>
  BY DEF StartFirst
<1>3. QED  BY <1>1, <1>2, LookedGrows, DeliveryStays

LEMMA LateWriteDelivers ==
  ASSUME Typed, Delivery, NEW s \in Session, NEW d, LateWrite(s, d)
  PROVE  Delivery'
<1>1. Grows
  BY LateRow, WritesGrows
<1>2. UNCHANGED <<work, report>>
  BY DEF LateWrite
<1>3. QED  BY <1>1, <1>2, DeliveryStays

LEMMA PostDelivers ==
  ASSUME Typed, Delivery, NEW w \in Work, Post(w)
  PROVE  Delivery'
<1> DEFINE s == work[w].session
<1>1. PICK q \in work[w].left, x \in SessionRow :
        /\ s \in Session
        /\ sess' = Handled(s, TRUE, x)
        /\ work' = [work EXCEPT ![w] =
                      [work[w] EXCEPT !.left = @ \ {q}, !.clean = @ /\ Accepts(s, q)]]
        /\ sess[s].answers \subseteq x.answers
        /\ Accepts(s, q) => q \in x.answers /\ Admits(s, TRUE)
        /\ x.status = sess[s].status
  BY Zenon, PostRow
<1> DEFINE ok == Accepts(s, q)
           y == [work[w] EXCEPT !.left = @ \ {q}, !.clean = @ /\ ok]
<1>2. work[w] \in WorkRow /\ work[w].step = "answers" /\ UNCHANGED <<overtaken, report>>
  BY DEF Typed, WorksOK, Post
<1>3. Grows
  BY <1>1, <1>2, HandledGrows
<1>4. work' = [work EXCEPT ![w] = y]
  BY <1>1
<1>5. ok => q \in sess'[s].answers
  BY <1>1 DEF Handled, Typed, RowsOK
<1> HIDE DEF ok
<1>6. /\ y.left = work[w].left \ {q} /\ y.clean = (work[w].clean /\ ok)
      /\ y.step = "answers" /\ y.all = work[w].all /\ y.session = s /\ y.kind = work[w].kind
  BY <1>2 DEF WorkRow
<1> HIDE DEF y
<1>7. Sound(work[w], sess', overtaken') 
  BY <1>3, SoundStays DEF Typed, WorksOK, Delivery
<1>8. Sound(y, sess', overtaken')
  BY <1>5, <1>6, <1>7 DEF Sound
<1>9. work'[w] = y /\ \A v \in Work \ {w} : work'[v] = work[v]
  BY <1>4 DEF Typed, WorksOK
<1>10. QED  BY <1>2, <1>3, <1>8, <1>9, DeliveryStays

LEMMA PostedDelivers ==
  ASSUME Typed, Delivery, NEW w \in Work, Posted(w)
  PROVE  Delivery'
<1>1. /\ work[w] \in WorkRow /\ work[w].left = {}
      /\ Sound(work[w], sess, overtaken)
      /\ UNCHANGED <<sess, overtaken, report>>
  BY DEF Typed, WorksOK, Posted, Delivery
<1> DEFINE x == At(w, "close")
<1>2. Steps(w, "close", x)
  BY CallSteps
<1> HIDE DEF x
<1>3. /\ x.kind = work[w].kind /\ x.session = work[w].session /\ x.all = work[w].all
      /\ x.left = work[w].left /\ x.step = "close" /\ (x.clean => work[w].clean)
  BY <1>2, StepMoves
<1>4. Sound(x, sess', overtaken')
  BY <1>1, <1>3 DEF Sound
<1>5. QED  BY <1>1, <1>2, <1>4, StayGrows, StepDelivers

\* A closing goes on with no answer left to be sent; a refused one is not clean.
LEMMA CloseRequestDelivers ==
  ASSUME Typed, Delivery, NEW w \in Work, CloseRequest(w)
  PROVE  Delivery'
<1>1. /\ work[w] \in WorkRow /\ work[w].step = "close" /\ work[w].session \in Session
      /\ Looked(work[w].session, FALSE) /\ UNCHANGED <<overtaken, report>>
  BY DEF Typed, WorksOK, CloseRequest, StepOK
<1>2. Grows
  BY <1>1, LookedGrows
<1>3. Sound(work[w], sess', overtaken')
  BY <1>2, SoundStays DEF Typed, WorksOK, Delivery
<1>4. CASE Steps(w, "closing", At(w, "closing"))
  <2> DEFINE x == At(w, "closing")
  <2>1. Steps(w, "closing", x)
    BY <1>4
  <2> HIDE DEF x
  <2>2. /\ x.kind = work[w].kind /\ x.session = work[w].session /\ x.all = work[w].all
        /\ x.left = work[w].left /\ x.step = "closing" /\ (x.clean => work[w].clean)
    BY <2>1, StepMoves
  <2>3. Sound(x, sess', overtaken')
    BY <1>1, <1>3, <2>2 DEF Sound
  <2>4. QED  BY <1>1, <1>2, <2>1, <2>3, StepDelivers
<1>5. CASE Steps(w, "reply", Refused(w))
  <2>1. ~Refused(w).clean
    BY <1>1 DEF Refused, WorkRow
  <2>2. Sound(Refused(w), sess', overtaken')
    BY <2>1 DEF Sound
  <2>3. QED  BY <1>1, <1>2, <1>5, <2>2, StepDelivers
<1>6. QED  BY <1>4, <1>5, CallSteps

LEMMA CloseWriteDelivers ==
  ASSUME Typed, Delivery, NEW w \in Work, CloseWrite(w)
  PROVE  Delivery'
<1> DEFINE s == work[w].session
           row == [sess[s] EXCEPT !.status = "SUBMITTED"]
           x == At(w, "reply")
<1>1. /\ work[w] \in WorkRow /\ work[w].step = "closing" /\ UNCHANGED report
  BY DEF Typed, WorksOK, CloseWrite
<1>2. /\ s \in Session /\ row \in SessionRow /\ Writes(s, row)
      /\ row.answers = sess[s].answers /\ row.status = "SUBMITTED"
  <2>1. s \in Session /\ row \in SessionRow /\ Writes(s, row) /\ row.answers = sess[s].answers
    BY CloseRow
  <2>2. sess[s] \in SessionRow
    BY <2>1 DEF Typed, RowsOK
  <2>3. QED  BY <2>1, <2>2 DEF SessionRow
<1>3. Steps(w, "reply", x)
  BY CallSteps
<1> HIDE DEF row, x
<1>4. Grows /\ sess'[s] = row
  BY <1>2, WritesGrows, WritesOK DEF Typed
<1>5. Sound(work[w], sess', overtaken')
  BY <1>4, SoundStays DEF Typed, WorksOK, Delivery
<1>6. /\ x.kind = work[w].kind /\ x.session = work[w].session /\ x.all = work[w].all
      /\ x.left = work[w].left /\ x.step = "reply" /\ (x.clean => work[w].clean)
  BY <1>3, StepMoves
<1>7. Sound(x, sess', overtaken')
  BY <1>1, <1>2, <1>4, <1>5, <1>6 DEF Sound
<1>8. QED  BY <1>1, <1>3, <1>4, <1>7, StepDelivers

LEMMA CallFailsDelivers ==
  ASSUME Typed, Delivery, NEW w \in Work, CallFails(w)
  PROVE  Delivery'
<1>1. work[w] \in WorkRow /\ UNCHANGED <<sess, overtaken, report>>
  BY DEF Typed, WorksOK, CallFails
<1>2. ASSUME NEW x, Goes(w, x), ~x.clean
      PROVE  Delivery'
  <2>1. Sound(x, sess', overtaken')
    BY <1>2 DEF Sound
  <2>2. QED  BY <1>1, <1>2, <2>1, StayGrows, GoesSound, DeliveryStays
<1>3. CASE Goes(w, [work[w] EXCEPT !.step = "reply", !.clean = FALSE])
  <2> DEFINE x == [work[w] EXCEPT !.step = "reply", !.clean = FALSE]
  <2>1. ~x.clean /\ Goes(w, x)
    BY <1>1, <1>3 DEF WorkRow
  <2> HIDE DEF x
  <2>2. QED  BY <1>2, <2>1
<1>4. ASSUME NEW q, work' = [work EXCEPT ![w].left = @ \ {q}, ![w].clean = FALSE]
      PROVE  Delivery'
  <2>1. /\ ~work'[w].clean
        /\ \A v \in Work \ {w} : work'[v] = work[v]
    BY <1>1, <1>4 DEF Typed, WorksOK, WorkRow
  <2>2. Sound(work'[w], sess', overtaken')
    BY <2>1 DEF Sound
  <2>3. QED  BY <1>1, <2>1, <2>2, StayGrows, DeliveryStays
<1>5. QED  BY <1>3, <1>4 DEF CallFails

LEMMA MonitorDelivers ==
  ASSUME Typed, Delivery, NEW s \in Session, Scan(s) \/ AutoSubmit(s)
  PROVE  Delivery'
<1>1. UNCHANGED <<work, sess, overtaken, report>>
  BY DEF Scan, AutoSubmit
<1>2. QED  BY <1>1, StayGrows, DeliveryStays

\* A function ends without a word, or a tab's page does.
LEMMA EndDelivers ==
  ASSUME Typed, Delivery, UNCHANGED <<sess, overtaken, report>>,
         \A v \in Work : \/ work'[v] = work[v]
                         \/ work'[v] = [work[v] EXCEPT !.tab = None]
                         \/ work'[v] = NoWork
                         \/ work'[v].kind # "sync"
  PROVE  Delivery'
<1>1. ASSUME NEW v \in Work
      PROVE  \/ work'[v] = work[v]
             \/ work'[v] = [work[v] EXCEPT !.tab = None]
             \/ Sound(work'[v], sess', overtaken')
  BY NoWorkSound DEF Sound
<1>2. QED  BY <1>1, StayGrows, DeliveryStays

LEMMA SyncedDelivers ==
  ASSUME Typed, Delivery, NEW w \in Work, Synced(w)
  PROVE  Delivery'
<1> DEFINE t == work[w].tab
           r == [session |-> work[w].session, answers |-> work[w].all,
                 auto |-> work[w].auto, clean |-> work[w].clean]
<1>1. /\ work[w] \in WorkRow /\ t \in Tab /\ work[w].kind = "sync" /\ work[w].step = "reply"
      /\ work' = [work EXCEPT ![w] = NoWork] /\ UNCHANGED <<sess, overtaken>>
  BY ReplyFacts DEF Synced
<1>2. /\ report' = report \/ report' = [report EXCEPT ![t] = r]
  BY DEF Synced
<1>3. work[w].clean => /\ \/ sess[work[w].session].status = "SUBMITTED"
                          \/ work[w].session \in overtaken
                       /\ work[w].all \cap Sent \subseteq sess[work[w].session].answers
  BY <1>1 DEF Delivery, Sound
<1>4. r.clean => /\ sess[r.session].status = "SUBMITTED" \/ r.session \in overtaken
                 /\ r.answers \cap Sent \subseteq sess[r.session].answers
  BY <1>3
<1> HIDE DEF r
<1>5. \A u \in Tab : report'[u] = report[u] \/ report'[u] = r
  BY <1>1, <1>2 DEF Typed, RestOK
<1>6. DoneIsDelivered'
  BY <1>1, <1>4, <1>5 DEF DoneIsDelivered, Delivery
<1>7. \A v \in Work : work'[v] = work[v] \/ work'[v] = NoWork
  BY <1>1 DEF Typed, WorksOK
<1>8. \A v \in Work : Sound(work'[v], sess', overtaken')
  BY <1>1, <1>7, NoWorkSound DEF Delivery
<1>9. QED  BY <1>6, <1>8 DEF Delivery

LEMMA SyncsDelivers ==
  ASSUME Typed, Delivery, NEW t \in Tab, NEW w \in Work, NEW auto \in BOOLEAN, Syncs(t, w, auto)
  PROVE  Delivery'
<1> DEFINE a == tab[t].mem
           x == [NoWork EXCEPT !.kind = "sync", !.tab = t, !.step = "answers",
                               !.session = a.session, !.left = a.answers \cap Sent,
                               !.all = a.answers, !.auto = auto]
<1>1. work' = [work EXCEPT ![w] = x] /\ UNCHANGED <<sess, overtaken, report>>
  BY DEF Syncs
<1>2. x.left = x.all \cap Sent /\ x.step = "answers"
  BY DEF NoWork
<1> HIDE DEF x
<1>3. Sound(x, sess', overtaken')
  BY <1>2 DEF Sound
<1>4. work'[w] = x /\ \A v \in Work \ {w} : work'[v] = work[v]
  BY <1>1 DEF Typed, WorksOK
<1>5. QED  BY <1>1, <1>3, <1>4, StayGrows, DeliveryStays

LEMMA LeaveDelivers ==
  ASSUME Typed, Delivery, NEW t \in Tab, NEW w, NEW x \in WorkRow, StepOK(x),
         x.kind # "sync", Leave(t, w, x), UNCHANGED <<sess, overtaken, report>>
  PROVE  Delivery'
<1>1. \A v \in Work : \/ v = w /\ work'[v] = x
                      \/ work'[v] = NoWork
                      \/ /\ work'[v] = [work[v] EXCEPT !.tab = None]
                         /\ work[v].step # "reply"
                      \/ work'[v] = work[v] /\ work[v].tab # t
  BY LeaveMoves DEF Typed
<1>2. \A v \in Work : \/ work'[v] = work[v]
                      \/ work'[v] = [work[v] EXCEPT !.tab = None]
                      \/ work'[v] = NoWork
                      \/ work'[v].kind # "sync"
  BY <1>1
<1>3. QED  BY <1>2, EndDelivers

LEMMA PagesDeliver ==
  ASSUME Typed, Delivery, NEW t \in Tab, NEW w \in Work,
         Load(t, w) \/ ClaimAnew(t, w) \/ Shut(t)
  PROVE  Delivery'
<1>1. CASE Shut(t)
  BY <1>1, NoWorkOK, LeaveDelivers DEF Shut
<1>2. ASSUME NEW said, Loads(t, w, said)
      PROVE  Delivery'
  <2> DEFINE x == [NoWork EXCEPT !.kind = "resolve", !.tab = t, !.step = "start"]
  <2>1. x \in WorkRow /\ StepOK(x) /\ x.kind # "sync"
    BY NoneApart DEF NoWork, WorkRow, StepOK
  <2>2. Leave(t, w, x) /\ UNCHANGED <<sess, overtaken, report>>
    BY <1>2 DEF Loads
  <2> HIDE DEF x
  <2>3. QED  BY <2>1, <2>2, LeaveDelivers
<1>3. QED  BY <1>1, <1>2 DEF Load, ClaimAnew

LEMMA ProceedDelivers ==
  ASSUME Typed, Delivery, NEW t \in Tab, NEW w \in Work, Proceed(t, w)
  PROVE  Delivery'
<1> DEFINE x == [NoWork EXCEPT !.kind = "create", !.tab = t, !.step = "start"]
<1>1. x.kind # "sync"
  BY DEF NoWork
<1>2. work' = [work EXCEPT ![w] = x] /\ UNCHANGED <<sess, overtaken, report>>
  BY DEF Proceed
<1> HIDE DEF x
<1>3. \A v \in Work : work'[v] = work[v] \/ work'[v].kind # "sync"
  BY <1>1, <1>2 DEF Typed, WorksOK
<1>4. QED  BY <1>2, <1>3, EndDelivers

LEMMA RepliesDeliver ==
  ASSUME Typed, Delivery, NEW w \in Work, Resolved(w) \/ Created(w)
  PROVE  Delivery'
<1>1. work' = [work EXCEPT ![w] = NoWork] /\ UNCHANGED <<sess, overtaken, report>>
  <2>1. CASE Resolved(w)
    BY <2>1 DEF Resolved
  <2>2. CASE Created(w)
    BY <2>2, Zenon DEF Created
  <2>3. QED  BY <2>1, <2>2
<1>2. \A v \in Work : work'[v] = work[v] \/ work'[v] = NoWork
  BY <1>1, WorkEnds
<1>3. QED  BY <1>1, <1>2, EndDelivers

LEMMA NextDelivers == Typed /\ Delivery /\ [Next]_vars => Delivery'
<1> SUFFICES ASSUME Typed, Delivery, [Next]_vars PROVE Delivery'
  OBVIOUS
<1>1. ASSUME UNCHANGED <<work, sess, overtaken, report>>
      PROVE  Delivery'
  BY <1>1, EndDelivers
<1>2. ASSUME NEW t \in Tab, Candidate(t)
      PROVE  Delivery'
  <2>1. ASSUME NEW w \in Work, Load(t, w) \/ ClaimAnew(t, w)
        PROVE  Delivery'
    BY <2>1, PagesDeliver
  <2>2. CASE Shut(t)
    BY <2>2, NoWorkOK, LeaveDelivers DEF Shut
  <2>3. ASSUME NEW w \in Work, Submit(t, w)
        PROVE  Delivery'
    BY <2>3, SyncsDelivers DEF Submit
  <2>4. ASSUME NEW q \in Question, Answer(t, q)
        PROVE  Delivery'
    BY <1>1, <2>4 DEF Answer
  <2>5. CASE Launch(t)
    BY <1>1, <2>5 DEF Launch
  <2>6. CASE Review(t)
    BY <1>1, <2>6 DEF Review
  <2>7. CASE Back(t)
    BY <1>1, <2>7 DEF Back
  <2>8. CASE Claim(t)
    BY <1>1, <2>8 DEF Claim
  <2>9. QED  BY <1>2, <2>1, <2>2, <2>3, <2>4, <2>5, <2>6, <2>7, <2>8, RunDelivers, ProceedDelivers
             DEF Candidate
<1>3. ASSUME NEW t \in Tab, NEW w \in Work, Expire(t, w)
      PROVE  Delivery'
  BY <1>3, SyncsDelivers DEF Expire
<1>4. ASSUME NEW t \in Tab, NEW m, Hear(t, m)
      PROVE  Delivery'
  BY <1>1, <1>4 DEF Hear
<1>5. ASSUME NEW w \in Work, Function(w)
      PROVE  Delivery'
  BY <1>5, StartRequestDelivers, BeginDelivers, StartFirstDelivers, PostDelivers,
     PostedDelivers, CloseRequestDelivers, CloseWriteDelivers, RepliesDeliver, SyncedDelivers DEF Function
<1>6. CASE Tick
  BY <1>1, <1>6 DEF Tick
<1>7. CASE UNCHANGED vars
  BY <1>1, <1>7 DEF vars
<1>8. QED  BY <1>2, <1>3, <1>4, <1>5, <1>6, <1>7, CallFailsDelivers, MonitorDelivers,
              LateWriteDelivers DEF Next

\* A tab that shows "submitted" after no call was refused or lost tells the truth,
\* for good: the session has every answer of the tab's that is sent at all, and is
\* submitted unless a decision made before has been written over it.
THEOREM DoneDelivered == Spec => []DoneIsDelivered
<1>1. Init => Delivery
  <2> SUFFICES ASSUME Init PROVE Delivery
    OBVIOUS
  <2>1. \A w \in Work : Sound(work[w], sess, overtaken)
    BY NoWorkSound DEF Init
  <2>2. DoneIsDelivered
    BY DEF Init, DoneIsDelivered
  <2>3. QED  BY <2>1, <2>2 DEF Delivery
<1>2. Delivery => DoneIsDelivered
  BY DEF Delivery
<1>3. QED  BY <1>1, <1>2, InitTyped, NextTyped, NextDelivers, PTL DEF Spec

-----------------------------------------------------------------------------
(* Work is kept *)

\* What the page has as m is what is stored, with answers that were not stored;
\* once its time is over a page may have started anew.
Agrees(m) ==
  \/ m = None /\ stored = None
  \/ /\ m # None /\ stored # None
     /\ m.session = stored.session /\ m.timer = stored.timer
     /\ stored.answers \subseteq m.answers \/ Over(stored)

\* While there was never more than one tab, and localStorage took what is more
\* than answers, it is behind that tab in answers only.
Mirrored ==
  ~shared => \A t \in Tab : Opened(t) =>
               /\ ~unsaved => Agrees(tab[t].mem)
               /\ \A u \in Tab : Opened(u) => u = t

\* Assessment a takes the place of m, which may be lost once its time is over.
Continues(m, a) ==
  m # None /\ ~Over(m) /\ a.session = m.session =>
    /\ m.answers \subseteq a.answers
    /\ m.timer # None => a.timer = m.timer

\* What a step does: either nothing is known of the one tab any more, or ...
KeepStep == Mirrored' /\ (~shared' /\ ~unsaved' => Continues(stored, stored'))

LEMMA SameContinues == \A m : Continues(m, m)
BY DEF Continues

\* The stored assessment stays, and so does what the page has of it.
LEMMA AgreesStays ==
  ASSUME Typed, NEW m, Agrees(m), UNCHANGED stored, now' \in {now, now + 1}
  PROVE  /\ m = None /\ stored' = None
         \/ /\ m # None /\ stored' # None
            /\ m.session = stored'.session /\ m.timer = stored'.timer
            /\ stored'.answers \subseteq m.answers \/ Over(stored)'
<1>1. stored # None /\ Over(stored) => Over(stored)'
  BY AppAssumption DEF Typed, StoreOK, RestOK, Assessment, Over
<1>2. QED  BY <1>1 DEF Agrees

\* An open tab's row changes on a page that stays, and localStorage does not.
LEMMA MirrorStays ==
  ASSUME Typed, Mirrored, NEW t \in Tab, Opened(t), \A u \in Tab \ {t} : tab'[u] = tab[u],
         tab'[t].mem = tab[t].mem, UNCHANGED <<now, stored, unsaved, shared>>
  PROVE  KeepStep
<1>1. Mirrored'
  BY DEF Mirrored, Opened, Shown, Agrees, Over
<1>2. QED  BY <1>1, SameContinues DEF KeepStep

\* A tab's page goes on with an assessment, which localStorage takes or not.
LEMMA PersistKeeps ==
  ASSUME Typed, Mirrored, NEW t \in Tab, Opened(t), NEW a \in Assessment,
         tab'[t].mem = a, \A u \in Tab \ {t} : tab'[u] = tab[u],
         Continues(tab[t].mem, a), Persists(a), UNCHANGED <<now, shared>>
  PROVE  KeepStep
<1>1. a # None
  BY NoneApart
<1>2. ~shared /\ ~unsaved => Agrees(tab[t].mem)
  BY DEF Mirrored
<1>3. CASE stored' = a /\ UNCHANGED unsaved
  <2>1. Mirrored'
    BY <1>1, <1>3 DEF Mirrored, Opened, Shown, Agrees
  <2>2. ~shared /\ ~unsaved => Continues(stored, a)
    BY <1>2 DEF Agrees, Continues, Over
  <2>3. QED  BY <1>3, <2>1, <2>2 DEF KeepStep
<1>4. CASE /\ UNCHANGED stored
           /\ unsaved' = (unsaved \/ stored = None \/ stored.session # a.session
                                   \/ stored.timer # a.timer)
  <2>1. ~shared /\ ~unsaved' =>
          /\ stored # None /\ a.session = stored.session /\ a.timer = stored.timer
          /\ stored.answers \subseteq a.answers \/ Over(stored)
    BY <1>2, <1>4 DEF Typed, StoreOK, Agrees, Continues, Over
  <2>2. Over(stored) = Over(stored)'
    BY <1>4 DEF Over
  <2>3. Mirrored'
    BY <1>1, <1>4, <2>1, <2>2 DEF Mirrored, Opened, Shown, Agrees
  <2>4. QED  BY <1>4, <2>3, SameContinues DEF KeepStep
<1>5. QED  BY <1>3, <1>4 DEF Persists

\* Initialising, and starting the clock, continues what there is.
LEMMA InitialisedContinues ==
  ASSUME NEW m \in Assessment \cup {None}, NEW s \in Session
  PROVE  /\ Initialised(m, s) \in Assessment
         /\ Continues(m, Initialised(m, s))
         /\ \A time \in Nat : /\ Timed(Initialised(m, s), time) \in Assessment
                              /\ Continues(m, Timed(Initialised(m, s), time))
<1> DEFINE a == Initialised(m, s)
<1>1. /\ a \in Assessment /\ a.session = s
      /\ m # None /\ m.session = s /\ ~Over(m) => a = m
  BY InitialisedOK
<1> HIDE DEF a
<1>2. Continues(m, a)
  BY <1>1 DEF Continues
<1>3. ASSUME NEW time \in Nat
      PROVE  Timed(a, time) \in Assessment /\ Continues(m, Timed(a, time))
  BY <1>1, TimedOK DEF Continues
<1>4. QED  BY <1>1, <1>2, <1>3 DEF a

LEMMA StayKeep ==
  ASSUME Typed, Mirrored, UNCHANGED <<tab, stored, unsaved, shared>>, now' \in {now, now + 1}
  PROVE  KeepStep
<1>1. \A t \in Tab : Agrees(tab[t].mem) => Agrees(tab[t].mem)'
  BY AgreesStays DEF Agrees
<1>2. Mirrored'
  BY <1>1 DEF Mirrored, Opened, Shown
<1>3. QED  BY <1>2, SameContinues DEF KeepStep

LEMMA ResolvedKeeps ==
  ASSUME Typed, Mirrored, NEW w \in Work, Resolved(w)
  PROVE  KeepStep
<1> DEFINE t == work[w].tab
           s == work[w].session
           b == Initialised(tab[t].mem, s)
           a == Timed(b, work[w].started)
<1>1. /\ t \in Tab /\ Opened(t) /\ tab[t] \in TabRow /\ work[w] \in WorkRow
      /\ UNCHANGED <<now, shared>>
  BY ReplyFacts DEF Resolved
<1>2. CASE /\ tab' = [tab EXCEPT ![t].screen = Legal(t, "resolving", "expired")]
           /\ UNCHANGED <<stored, unsaved>>
  <2>1. tab'[t].mem = tab[t].mem /\ \A u \in Tab \ {t} : tab'[u] = tab[u]
    BY <1>1, <1>2 DEF Typed, TabsOK, TabRow
  <2>2. QED  BY <1>1, <1>2, <2>1, MirrorStays
<1>3. ASSUME NEW scr, NEW x \in Assessment, Continues(tab[t].mem, x), Keeps(t, scr, x)
      PROVE  KeepStep
  <2>1. tab'[t].mem = x /\ \A u \in Tab \ {t} : tab'[u] = tab[u]
    BY <1>1, <1>3 DEF Keeps, Typed, TabsOK, TabRow
  <2>2. Persists(x)
    BY <1>3 DEF Keeps
  <2>3. QED  BY <1>1, <1>3, <2>1, <2>2, PersistKeeps
<1>4. CASE s # None /\ work[w].started = None /\ Keeps(t, Legal(t, "resolving", "preparing"), b)
  <2>1. s \in Session /\ tab[t].mem \in Assessment \cup {None}
    BY <1>1, <1>4 DEF WorkRow, TabRow
  <2>2. QED  BY <1>3, <1>4, <2>1, InitialisedContinues
<1>5. CASE s # None /\ work[w].started # None /\ Keeps(t, "assessment", a)
  <2>1. s \in Session /\ tab[t].mem \in Assessment \cup {None} /\ work[w].started \in Nat
    BY <1>1, <1>5 DEF WorkRow, TabRow
  <2>2. QED  BY <1>3, <1>5, <2>1, InitialisedContinues
<1>6. QED  BY <1>2, <1>4, <1>5 DEF Resolved

LEMMA CreatedKeeps ==
  ASSUME Typed, Mirrored, NEW w \in Work, Created(w)
  PROVE  KeepStep
<1> DEFINE t == work[w].tab
           s == IF work[w].session = None THEN tab[t].mem.session ELSE work[w].session
           a == Initialised(tab[t].mem, s)
<1>1. /\ t \in Tab /\ Opened(t) /\ tab[t] \in TabRow /\ work[w] \in WorkRow
      /\ tab[t].mem # None
  BY ReplyFacts DEF Created
<1>2. PICK due \in (now + 1) .. (now + Briefing) :
        /\ tab' = [tab EXCEPT
                     ![t].screen = Legal(t, "preparing", "waiting-room"),
                     ![t].mem = a,
                     ![t].due = IF Shown(t) = "preparing" THEN due ELSE @]
        /\ Persists(a)
  BY Zenon DEF Created
<1>3. UNCHANGED <<now, shared>>
  BY Zenon DEF Created
<1>4. s \in Session /\ tab[t].mem \in Assessment \cup {None}
  BY <1>1 DEF WorkRow, TabRow, Assessment
<1>5. a \in Assessment /\ Continues(tab[t].mem, a)
  BY <1>4, InitialisedContinues
<1> HIDE DEF t, s, a
<1>6. /\ tab'[t].mem = a
      /\ \A u \in Tab \ {t} : tab'[u] = tab[u]
  BY <1>1, <1>2 DEF Typed, TabsOK, TabRow
<1>7. QED  BY <1>1, <1>2, <1>3, <1>5, <1>6, PersistKeeps

LEMMA LaunchKeeps ==
  ASSUME Typed, Mirrored, NEW t \in Tab, Launch(t)
  PROVE  KeepStep
<1> DEFINE a == Timed(Initialised(tab[t].mem, tab[t].mem.session), now)
<1>1. /\ Opened(t) /\ tab[t] \in TabRow /\ tab[t].mem \in Assessment /\ now \in Nat
      /\ UNCHANGED <<now, shared>>
  BY AtScreen DEF Launch, WithAssessment, Typed, RestOK
<1>2. tab' = [tab EXCEPT ![t].screen = "assessment", ![t].mem = a] /\ Persists(a)
  BY DEF Launch, Keeps
<1>3. a \in Assessment /\ Continues(tab[t].mem, a)
  <2>1. tab[t].mem.session \in Session
    BY <1>1 DEF Assessment
  <2>2. QED  BY <1>1, <2>1, InitialisedContinues
<1> HIDE DEF a
<1>4. /\ tab'[t].mem = a
      /\ \A u \in Tab \ {t} : tab'[u] = tab[u]
  BY <1>1, <1>2 DEF Typed, TabsOK, TabRow
<1>5. QED  BY <1>1, <1>2, <1>3, <1>4, PersistKeeps

LEMMA AnswerKeeps ==
  ASSUME Typed, Mirrored, NEW t \in Tab, NEW q \in Question, Answer(t, q)
  PROVE  KeepStep
<1> DEFINE a == [tab[t].mem EXCEPT !.answers = @ \cup {q}]
<1>1. /\ Opened(t) /\ tab[t] \in TabRow /\ tab[t].mem \in Assessment /\ UNCHANGED <<now, shared>>
  BY AtScreen DEF Answer, WithAssessment
<1>2. tab' = [tab EXCEPT ![t].screen = "assessment", ![t].mem = a] /\ Persists(a)
  BY DEF Answer, Keeps
<1>3. a \in Assessment /\ Continues(tab[t].mem, a)
  BY <1>1 DEF Continues, Assessment
<1> HIDE DEF a
<1>4. /\ tab'[t].mem = a
      /\ \A u \in Tab \ {t} : tab'[u] = tab[u]
  BY <1>1, <1>2 DEF Typed, TabsOK, TabRow
<1>5. QED  BY <1>1, <1>2, <1>3, <1>4, PersistKeeps

LEMMA EntersKeeps ==
  ASSUME Typed, Mirrored, NEW t \in Tab, Opened(t), tab[t].mem # None, Enters(t, tab[t].mem),
         UNCHANGED <<now, shared>>
  PROVE  KeepStep
<1> DEFINE a == Timed(tab[t].mem, now)
<1>1. tab[t] \in TabRow /\ tab[t].mem \in Assessment /\ now \in Nat
  BY DEF Typed, TabsOK, TabRow, RestOK
<1>2. /\ a \in Assessment
      /\ a.session = tab[t].mem.session /\ a.answers = tab[t].mem.answers
      /\ tab[t].mem.timer # None => a = tab[t].mem
  BY <1>1, TimedOK
<1>3. /\ tab' = [tab EXCEPT ![t].screen = "assessment", ![t].mem = a]
      /\ IF tab[t].mem.timer = None THEN Persists(a) ELSE UNCHANGED <<stored, unsaved>>
  BY DEF Enters
<1> HIDE DEF a
<1>4. Continues(tab[t].mem, a)
  BY <1>2 DEF Continues
<1>5. /\ tab'[t].mem = a
      /\ \A u \in Tab \ {t} : tab'[u] = tab[u]
  BY <1>1, <1>3 DEF Typed, TabsOK, TabRow
<1>6. CASE tab[t].mem.timer = None
  BY <1>2, <1>3, <1>4, <1>5, <1>6, PersistKeeps
<1>7. CASE tab[t].mem.timer # None
  BY <1>2, <1>3, <1>5, <1>7, MirrorStays
<1>8. QED  BY <1>6, <1>7

\* A tab goes to another screen with the assessment it has.
LEMMA ScreenKeeps ==
  ASSUME Typed, Mirrored, NEW t \in Tab, Opened(t), NEW scr,
         tab' = [tab EXCEPT ![t].screen = scr], UNCHANGED <<now, stored, unsaved, shared>>
  PROVE  KeepStep
<1>1. /\ tab'[t].mem = tab[t].mem
      /\ \A u \in Tab \ {t} : tab'[u] = tab[u]
  BY DEF Typed, TabsOK, TabRow
<1>2. QED  BY <1>1, MirrorStays

LEMMA SyncsKeeps ==
  ASSUME Typed, Mirrored, NEW t \in Tab, NEW w \in Work, Submit(t, w) \/ Expire(t, w)
  PROVE  KeepStep
<1>1. Opened(t)
  BY DEF Submit, Expire, Opened
<1>2. tab' = [tab EXCEPT ![t].screen = "syncing"] /\ UNCHANGED <<now, stored, unsaved, shared>>
  BY DEF Submit, Expire, Syncs
<1>3. QED  BY <1>1, <1>2, ScreenKeeps

LEMMA SyncedKeeps ==
  ASSUME Typed, Mirrored, NEW w \in Work, Synced(w)
  PROVE  KeepStep
<1> DEFINE t == work[w].tab
<1>1. t \in Tab /\ Opened(t) /\ UNCHANGED <<now, stored, unsaved, shared>>
      /\ tab' = [tab EXCEPT ![t].screen = Legal(t, "syncing", "done")]
  BY ReplyFacts DEF Synced
<1> HIDE DEF t
<1>2. QED  BY <1>1, ScreenKeeps

LEMMA HearKeeps ==
  ASSUME Typed, Mirrored, NEW t \in Tab, NEW m, Hear(t, m)
  PROVE  KeepStep
<1>1. Opened(t) /\ UNCHANGED <<now, stored, unsaved, shared>>
  BY DEF Hear
<1>2. tab' = [tab EXCEPT ![t].screen = "session-conflict"] \/ UNCHANGED tab
  BY DEF Hear
<1>3. QED  BY <1>1, <1>2, ScreenKeeps, StayKeep

LEMMA LoadsKeeps ==
  ASSUME Typed, Mirrored, NEW t \in Tab, NEW w \in Work, NEW said, Loads(t, w, said)
  PROVE  KeepStep
<1>1. /\ tab' = [tab EXCEPT ![t] = [screen |-> "resolving", mem |-> stored, due |-> 0,
                                    id |-> tab[t].id + 1]]
      /\ shared' = (shared \/ \E u \in Tab \ {t} : Opened(u)) /\ UNCHANGED stored
  BY DEF Loads
<1>2. tab'[t].mem = stored /\ \A u \in Tab \ {t} : tab'[u] = tab[u]
  BY <1>1 DEF Typed, TabsOK
<1>3. ~shared' => \A u \in Tab \ {t} : tab'[u].screen = "closed"
  BY <1>1, <1>2 DEF Opened, Shown
<1>4. Mirrored'
  BY <1>1, <1>2, <1>3 DEF Mirrored, Opened, Shown, Agrees
<1>5. QED  BY <1>1, <1>4, SameContinues DEF KeepStep

LEMMA ShutKeeps ==
  ASSUME Typed, Mirrored, NEW t \in Tab, Shut(t)
  PROVE  KeepStep
<1>1. tab' = [tab EXCEPT ![t].screen = "closed", ![t].mem = None, ![t].due = 0]
      /\ UNCHANGED <<now, stored, unsaved, shared>>
  BY DEF Shut
<1>2. tab'[t].screen = "closed" /\ \A u \in Tab \ {t} : tab'[u] = tab[u]
  BY <1>1 DEF Typed, TabsOK, TabRow
<1>3. UNCHANGED <<now, stored, unsaved, shared>>
  BY <1>1
<1>4. Mirrored'
  BY <1>2, <1>3 DEF Mirrored, Opened, Shown, Agrees, Over
<1>5. QED  BY <1>3, <1>4, SameContinues DEF KeepStep

LEMMA NextKeeps == Typed /\ Mirrored /\ [Next]_vars => KeepStep
<1> SUFFICES ASSUME Typed, Mirrored, [Next]_vars PROVE KeepStep
  OBVIOUS
<1>1. ASSUME UNCHANGED <<tab, stored, unsaved, shared>>, now' \in {now, now + 1}
      PROVE  KeepStep
  BY <1>1, StayKeep
<1>2. ASSUME NEW t \in Tab, Candidate(t)
      PROVE  KeepStep
  <2>1. ASSUME NEW w \in Work, Load(t, w) \/ ClaimAnew(t, w)
        PROVE  KeepStep
    BY <2>1, LoadsKeeps DEF Load, ClaimAnew
  <2>2. ASSUME NEW w \in Work, Proceed(t, w)
        PROVE  KeepStep
    BY <1>1, <2>2 DEF Proceed
  <2>3. ASSUME NEW q \in Question, Run(t, q)
        PROVE  KeepStep
    BY <1>1, <2>3 DEF Run
  <2>4. CASE Review(t)
    BY <2>4, ScreenKeeps DEF Review, Opened
  <2>5. CASE Back(t)
    <3>1. tab[t].mem # None /\ Opened(t)
      BY <2>5 DEF Back, Typed, TabsOK, WithAssessment, Opened
    <3>2. QED  BY <2>5, <3>1, EntersKeeps DEF Back
  <2>6. CASE Claim(t)
    BY <2>6, EntersKeeps DEF Claim, Opened
  <2>7. QED  BY <1>2, <2>1, <2>2, <2>3, <2>4, <2>5, <2>6, ShutKeeps, LaunchKeeps, AnswerKeeps,
                SyncsKeeps DEF Candidate
<1>3. ASSUME NEW w \in Work, Function(w) \/ CallFails(w)
      PROVE  KeepStep
  <2>1. CASE Calling(w)
    BY <1>1, <2>1, CallSettles
  <2>2. QED  BY <1>3, <2>1, ResolvedKeeps, CreatedKeeps, SyncedKeeps DEF Function, Calling
<1>4. ASSUME NEW s \in Session, NEW d \in Decision, Scan(s) \/ AutoSubmit(s) \/ LateWrite(s, d)
      PROVE  KeepStep
  BY <1>1, <1>4 DEF Scan, AutoSubmit, LateWrite
<1>5. CASE Tick
  BY <1>1, <1>5 DEF Tick
<1>6. CASE UNCHANGED vars
  BY <1>1, <1>6 DEF vars
<1>7. "start" \in Decision
  BY DEF Decision
<1>8. QED  BY <1>2, <1>3, <1>4, <1>5, <1>6, <1>7, SyncsKeeps, HearKeeps DEF Next

\* With one tab at a time a reload, at whatever moment, costs no stored answer and
\* does not restart the clock while there is time, though localStorage may refuse
\* answers.
THEOREM WorkIsKept == Spec => WorkKept
<1>1. Init => Mirrored
  BY DEF Init, Mirrored, Opened, Shown
<1>2. Typed /\ Mirrored /\ [Next]_vars => Mirrored'
  BY NextKeeps DEF KeepStep
<1>3. Typed /\ Mirrored /\ [Next]_vars =>
        [~shared' /\ ~unsaved' /\ stored # None /\ ~Over(stored)
           /\ stored'.session = stored.session =>
           /\ stored.answers \subseteq stored'.answers
           /\ stored.timer # None => stored'.timer = stored.timer]_vars
  BY NextKeeps DEF KeepStep, Continues
<1>4. QED  BY <1>1, <1>2, <1>3, InitTyped, NextTyped, PTL DEF Spec, WorkKept

=============================================================================
