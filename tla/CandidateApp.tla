----------------------------- MODULE CandidateApp -----------------------------
(***************************************************************************)
(* The candidate's browser: the tabs an invite link is opened in, the      *)
(* screens each of them shows, the answers and the clock they share in     *)
(* localStorage, and the messages by which they fight over the session.    *)
(* Underneath, as far as the app can tell, the server's sessions.          *)
(*                                                                         *)
(* The app has one store per tab, loaded from localStorage with the page   *)
(* and written back as a whole.  Its asynchronous functions go on when the *)
(* screen that called them is gone, and move the tab to a screen if the    *)
(* transition is legal from where the tab is by then; some force it.  Tabs *)
(* talk over a BroadcastChannel.  A tab can be opened, reloaded and closed *)
(* at any time.                                                            *)
(*                                                                         *)
(* Abstracted: system check, consent and tutorial are one screen; a        *)
(* question is answered or not.  A handler of the server that writes a     *)
(* status has read the session before, and what it decided then is written *)
(* over whatever the session has become; two handlers with the same        *)
(* decision count as one.  All else a handler does is one step (the steps  *)
(* are in SessionLifecycle, InviteRedemption and Grading): an answer is    *)
(* checked and stored at once, and what its row says by the end of the     *)
(* session is Grading's.  Recruiters do nothing here, and the monitor's    *)
(* limit of disconnects is not counted.  A call that is lost is lost       *)
(* before it has an effect.  Code typed into the coding editor, which the  *)
(* store does not hold, is left out.                                       *)
(***************************************************************************)
EXTENDS Naturals, FiniteSets

CONSTANTS
  Tab,       \* places for a tab
  Work,      \* slots for asynchronous functions of the tabs
  Session,   \* sessions the candidate may get
  Question,  \* what can be answered
  Sent,      \* the questions whose answers are sent when all is submitted: not
             \* those of a simulation, nor what the list of questions does not have
  Checked,   \* of these the ones (coding, SQL) whose submission looks at the status
  Duration,  \* time for the assessment
  Briefing,  \* longest stay in the waiting room
  Silence,   \* age of a heartbeat that is stale
  Grace,     \* from a disconnect to the automatic submission
  DriveOpen, \* the drive goes on after the session's deadline
  Scans,     \* the heartbeat monitor runs
  Faults,    \* calls fail
  Full,      \* localStorage is full at times
  MaxTime,   \* bound on the clock
  MaxLoads,  \* bound on the pages a tab loads
  None

Screen == {"closed", "resolving", "expired", "preparing", "waiting-room",
           "assessment", "pre-submit-review", "syncing", "done", "session-conflict"}
Status == {"UNBORN", "NOT_STARTED", "IN_PROGRESS", "DISCONNECTED",
           "AUTO_SUBMITTED", "SUBMITTED"}

\* The assessment, in a tab or in localStorage; a session; a message; what an
\* asynchronous function has to go on with; what a tab has announced as sent.
Assessment == [session : Session, answers : SUBSET Question, timer : Nat \cup {None}]
SessionRow == [status : Status, started : Nat \cup {None}, begun : BOOLEAN,
               deadline : Nat, since : Nat \cup {None}, answers : SUBSET Question]
Message    == [kind : {"tab-opened", "invalidate", "continue-here"},
               tab : Tab \cup {None}, id : Nat]
TabRow     == [screen : Screen, mem : Assessment \cup {None}, due : Nat, id : Nat]
WorkRow    == [kind : {"idle", "resolve", "create", "sync"}, tab : Tab \cup {None},
               step : {"start", "begin", "begun", "answers", "close", "closing", "reply"},
               session : Session \cup {None}, started : Nat \cup {None},
               left : SUBSET Question, all : SUBSET Question,
               auto : BOOLEAN, clean : BOOLEAN]
\* What a handler that has read a session is going to do about it.
Decision   == {"start", "revive", "disconnect", "auto-submit"}
Report     == [session : Session, answers : SUBSET Question, auto : BOOLEAN, clean : BOOLEAN]

ASSUME AppAssumption ==
  /\ Checked \subseteq Sent /\ Sent \subseteq Question
  /\ Duration \in Nat /\ Briefing \in Nat \ {0} /\ Silence \in Nat /\ Grace \in Nat
  /\ MaxTime \in Nat /\ MaxLoads \in Nat
  /\ DriveOpen \in BOOLEAN /\ Scans \in BOOLEAN /\ Faults \in BOOLEAN
  /\ Full \in BOOLEAN
  /\ None \notin Nat \cup Tab \cup Session \cup Assessment

VARIABLES
  now,      \* the time, which the app takes from the server
  tab,      \* the tabs
  inbox,    \* messages on their way to a tab's channel
  stored,   \* the assessment in localStorage
  work,     \* asynchronous functions under way
  sess,     \* the server's sessions
  pending,  \* what its handlers have decided about them and not yet written
  \* history
  report,   \* what a tab has shown as submitted
  shared,   \* two tabs have been open at once
  forced,   \* a tab in conflict was forced back by a function under way
  unsaved,  \* localStorage did not take an assessment or its clock from the page
  overtaken \* sessions that were SUBMITTED until an earlier decision was written

vars == <<now, tab, inbox, stored, work, sess, pending, report, shared, forced,
          unsaved, overtaken>>

NoWork == [kind |-> "idle", tab |-> None, step |-> "reply", session |-> None,
           started |-> None, left |-> {}, all |-> {}, auto |-> FALSE, clean |-> TRUE]

Unborn == [status |-> "UNBORN", started |-> None, begun |-> FALSE,
           deadline |-> MaxTime, since |-> None, answers |-> {}]

Init ==
  /\ now    = 0
  /\ tab    = [t \in Tab |-> [screen |-> "closed", mem |-> None, due |-> 0, id |-> 0]]
  /\ inbox  = [t \in Tab |-> {}]
  /\ stored = None
  /\ work   = [w \in Work |-> NoWork]
  /\ sess   = [s \in Session |-> Unborn]
  /\ pending   = [s \in Session |-> {}]
  /\ report    = [t \in Tab |-> None]
  /\ shared    = FALSE
  /\ forced    = FALSE
  /\ unsaved   = FALSE
  /\ overtaken = {}

Shown(t)  == tab[t].screen
Opened(t) == Shown(t) # "closed"

-----------------------------------------------------------------------------
(* The store *)

Over(a) == a.timer # None /\ now >= a.timer + Duration

Fresh(s) == [session |-> s, answers |-> {}, timer |-> None]

\* Mutant of Initialised: what is there is not looked at.
InitialisedAnew(a, s) == Fresh(s)

\* initAssessment: the same session's assessment is kept until its time is over.
Initialised(a, s) ==
  IF a # None /\ a.session = s /\ ~Over(a) THEN a ELSE Fresh(s)

\* setTimerStart: never set again.
Timed(a, time) == IF a.timer = None THEN [a EXCEPT !.timer = time] ELSE a

\* Assessment a is stored; when localStorage is full the app goes on without.
Persists(a) ==
  \/ stored' = a /\ UNCHANGED unsaved
  \/ /\ Full
     /\ unsaved' = (unsaved \/ stored = None \/ stored.session # a.session
                             \/ stored.timer # a.timer)
     /\ UNCHANGED stored

\* Tab t has a as its assessment, and stores it.
Keeps(t, scr, a) ==
  /\ tab' = [tab EXCEPT ![t].screen = scr, ![t].mem = a]
  /\ Persists(a)

\* A transition to another screen that is legal from one only.
Legal(t, from, to) == IF Shown(t) = from THEN to ELSE Shown(t)

\* The assessment screen starts the clock when it appears; nothing is stored if
\* it is running.
Enters(t, a) ==
  /\ tab' = [tab EXCEPT ![t].screen = "assessment", ![t].mem = Timed(a, now)]
  /\ IF a.timer = None THEN Persists(Timed(a, now)) ELSE UNCHANGED <<stored, unsaved>>

-----------------------------------------------------------------------------
(* Pages *)

\* The functions under way in t's page.
Calls(t) == {w \in Work : work[w].tab = t}

Idle(w) == work[w].kind = "idle"

\* Mutant of Leave: the functions do not notice.
LeaveRunning(t, w, started) == work' = [v \in Work |-> IF v = w THEN started ELSE work[v]]

\* Asynchronous functions of t end with its page; the calls they have made may
\* still arrive.  Function w is what the new page starts, if any.
Leave(t, w, started) ==
  \E kept \in SUBSET {v \in Calls(t) : work[v].step # "reply"} :
    work' = [v \in Work |-> CASE v = w -> started
                              [] v \in kept -> [work[v] EXCEPT !.tab = None]
                              [] v \in Calls(t) \ kept -> NoWork
                              [] OTHER -> work[v]]

Said(kind, t, id) == [kind |-> kind, tab |-> t, id |-> id]

\* Mutant of Others: nobody is told.
Nobody(t) == {}

\* Who hears what t says: every other tab.
Others(t) == {u \in Tab \ {t} : Opened(u)}

\* The link is opened in a new tab, or a tab is reloaded: the store is what
\* localStorage has, the other tabs are told (and heard what was said before),
\* the server is asked.
Loads(t, w, said) ==
  LET id == tab[t].id + 1
  IN  /\ id <= MaxLoads
      /\ Idle(w)
      /\ tab' = [tab EXCEPT ![t] =
                   [screen |-> "resolving", mem |-> stored, due |-> 0, id |-> id]]
      /\ inbox' = [u \in Tab |->
                     CASE u = t -> {}
                       [] u \in Others(t) -> inbox[u] \cup said \cup {Said("tab-opened", t, id)}
                       [] OTHER -> inbox[u]]
      /\ Leave(t, w, [NoWork EXCEPT !.kind = "resolve", !.tab = t, !.step = "start"])
      /\ shared' = (shared \/ \E u \in Tab \ {t} : Opened(u))
      /\ unsaved' = FALSE
      /\ UNCHANGED <<now, stored, sess, pending, overtaken, report, forced>>

Load(t, w) == Loads(t, w, {})

Shut(t) ==
  /\ Opened(t)
  /\ tab' = [tab EXCEPT ![t].screen = "closed", ![t].mem = None, ![t].due = 0]
  /\ inbox' = [inbox EXCEPT ![t] = {}]
  /\ Leave(t, None, NoWork)
  /\ UNCHANGED <<now, stored, unsaved, sess, pending, overtaken, report, shared, forced>>

-----------------------------------------------------------------------------
(* The server *)

Active  == {"NOT_STARTED", "IN_PROGRESS", "DISCONNECTED"}
Working == {"IN_PROGRESS", "DISCONNECTED"}

\* Function w goes on with its answer; nobody waits for it if the page is gone.
Goes(w, next) ==
  work' = [work EXCEPT ![w] = IF @.tab = None THEN NoWork ELSE next]

\* POST /sessions/start: the candidate's session that is active, or a new one.
StartRequest(w) ==
  /\ work[w].step = "start"
  /\ \E s \in Session :
       /\ \/ sess[s].status \in Active
          \/ /\ sess[s].status = "UNBORN"
             /\ \A v \in Session : sess[v].status \notin Active
       /\ sess' = [sess EXCEPT ![s].status = IF @ = "UNBORN" THEN "NOT_STARTED" ELSE @]
       /\ Goes(w, [work[w] EXCEPT
                     !.session = s, !.started = sess[s].started,
                     !.step = IF work[w].kind = "create" THEN "begin" ELSE "reply"])
  /\ UNCHANGED <<now, tab, inbox, stored, unsaved, pending, overtaken, report, shared, forced>>

\* The owner guard: after the deadline, only while the drive goes on, to the end
\* of which the deadline is then moved; nothing but submissions once submitted.
Admits(s, submission) ==
  /\ submission \/ sess[s].status # "SUBMITTED"
  /\ now <= sess[s].deadline \/ DriveOpen

Extended(s) == [sess[s] EXCEPT !.deadline = IF now > @ THEN MaxTime ELSE @]

\* The guard, and the handler that leaves the row as it is given.
Handled(s, submission, row) ==
  IF Admits(s, submission) THEN [sess EXCEPT ![s] = row] ELSE sess

\* A handler that has gone on with session s only to find out what to do.
Looked(s, submission) == sess' = Handled(s, submission, Extended(s))

\* The row is written, whatever it has become since the handler read it.
Writes(s, row) ==
  /\ sess' = [sess EXCEPT ![s] = row]
  /\ overtaken' = IF sess[s].status = "SUBMITTED" /\ row.status # "SUBMITTED"
                    THEN overtaken \cup {s} ELSE overtaken

Decides(s, d) == pending' = [pending EXCEPT ![s] = @ \cup {d}]

\* What was decided is written, and dated by the write.
LateWrite(s, d) ==
  /\ d \in pending[s]
  /\ Writes(s, [sess[s] EXCEPT
                  !.status  = CASE d = "disconnect"  -> "DISCONNECTED"
                                [] d = "auto-submit" -> "AUTO_SUBMITTED"
                                [] OTHER             -> "IN_PROGRESS",
                  !.started = IF d = "start" THEN now ELSE @,
                  !.since   = IF d = "disconnect" THEN now ELSE @])
  /\ pending' = [pending EXCEPT ![s] = @ \ {d}]
  /\ UNCHANGED <<now, tab, inbox, stored, unsaved, work, report, shared, forced>>

\* POST /sessions/:id/begin.  An answer that is not there yet is worked on even
\* if the page has gone.
BeginRequest(w) ==
  /\ work[w].step = "begin"
  /\ LET s == work[w].session
     IN  /\ Looked(s, FALSE)
         /\ IF Admits(s, FALSE) /\ sess[s].status = "NOT_STARTED"
              THEN work' = [work EXCEPT ![w].step = "begun"]
              ELSE Goes(w, [work[w] EXCEPT !.step = "reply"])
  /\ UNCHANGED <<now, tab, inbox, stored, unsaved, pending, overtaken, report, shared, forced>>

BeginWrite(w) ==
  /\ work[w].step = "begun"
  /\ LET s == work[w].session
     IN  Writes(s, [sess[s] EXCEPT !.status = "IN_PROGRESS", !.started = now,
                                   !.begun = TRUE, !.deadline = now + Duration])
  /\ Goes(w, [work[w] EXCEPT !.step = "reply"])
  /\ UNCHANGED <<now, tab, inbox, stored, unsaved, pending, report, shared, forced>>

\* A run starts a session, and again one that was submitted automatically.
Run(t, q) ==
  /\ Shown(t) = "assessment"
  /\ q \in Checked
  /\ LET s == tab[t].mem.session
     IN  /\ Looked(s, FALSE)
         /\ CASE Admits(s, FALSE) /\ sess[s].status = "NOT_STARTED" -> Decides(s, "start")
              [] Admits(s, FALSE) /\ sess[s].status = "AUTO_SUBMITTED" -> Decides(s, "revive")
              [] OTHER -> UNCHANGED pending
  /\ UNCHANGED <<now, tab, inbox, stored, unsaved, work, overtaken, report, shared, forced>>

\* A coding or SQL submission starts a session first that has not begun, and is
\* refused by one that is over; the others do not look at the status.
Starts(s, q)  == q \in Checked /\ sess[s].status = "NOT_STARTED"
Accepts(s, q) == Admits(s, TRUE) /\ (q \in Checked => sess[s].status \in Working)

StartFirst(w) ==
  /\ work[w].step = "answers"
  /\ LET s == work[w].session
     IN  /\ \E q \in work[w].left : Starts(s, q)
         /\ Admits(s, TRUE)
         /\ "start" \notin pending[s]
         /\ Looked(s, TRUE)
         /\ Decides(s, "start")
  /\ UNCHANGED <<now, tab, inbox, stored, unsaved, work, overtaken, report, shared, forced>>

\* An answer arrives, one of those that were sent together.
Post(w) ==
  /\ work[w].step = "answers"
  /\ \E q \in work[w].left :
       LET s == work[w].session
       IN  /\ ~(Starts(s, q) /\ Admits(s, TRUE))
           /\ sess' = Handled(s, TRUE,
                        IF Accepts(s, q) THEN [Extended(s) EXCEPT !.answers = @ \cup {q}]
                                         ELSE Extended(s))
           /\ work' = [work EXCEPT ![w].left = @ \ {q}, ![w].clean = @ /\ Accepts(s, q)]
  /\ UNCHANGED <<now, tab, inbox, stored, unsaved, pending, overtaken, report, shared, forced>>

\* Mutant of Posted: the answers are not waited for.
PostedEarly(w) ==
  /\ work[w].step = "answers"
  /\ Goes(w, [work[w] EXCEPT !.step = "close", !.left = {}])
  /\ UNCHANGED <<now, tab, inbox, stored, unsaved, sess, pending, overtaken, report, shared, forced>>

\* Every answer has come to something; the session is to be closed.
Posted(w) ==
  /\ work[w].step = "answers"
  /\ work[w].left = {}
  /\ Goes(w, [work[w] EXCEPT !.step = "close"])
  /\ UNCHANGED <<now, tab, inbox, stored, unsaved, sess, pending, overtaken, report, shared, forced>>

\* POST /sessions/:id/close.
CloseRequest(w) ==
  /\ work[w].step = "close"
  /\ LET s == work[w].session
     IN  /\ Looked(s, FALSE)
         /\ IF Admits(s, FALSE) /\ sess[s].status \in Working
              THEN work' = [work EXCEPT ![w].step = "closing"]
              ELSE Goes(w, [work[w] EXCEPT !.step = "reply", !.clean = FALSE])
  /\ UNCHANGED <<now, tab, inbox, stored, unsaved, pending, overtaken, report, shared, forced>>

CloseWrite(w) ==
  /\ work[w].step = "closing"
  /\ LET s == work[w].session
     IN  Writes(s, [sess[s] EXCEPT !.status = "SUBMITTED"])
  /\ Goes(w, [work[w] EXCEPT !.step = "reply"])
  /\ UNCHANGED <<now, tab, inbox, stored, unsaved, pending, report, shared, forced>>

\* A call is lost on its way, or its handler fails.
CallFails(w) ==
  /\ Faults
  /\ \/ /\ work[w].step \in {"start", "begin", "begun", "close", "closing"}
        /\ Goes(w, [work[w] EXCEPT !.step = "reply", !.clean = FALSE])
     \/ /\ work[w].step = "answers"
        /\ \E q \in work[w].left :
             work' = [work EXCEPT ![w].left = @ \ {q}, ![w].clean = FALSE]
  /\ UNCHANGED <<now, tab, inbox, stored, unsaved, sess, pending, overtaken, report, shared, forced>>

\* The heartbeat monitor.  The app sends no heartbeat: the last is what /begin
\* wrote.  At the limit of disconnects the session is submitted at once.
Scan(s) ==
  /\ Scans
  /\ sess[s].status = "IN_PROGRESS"
  /\ sess[s].begun => now > sess[s].started + Silence
  /\ \/ Decides(s, "disconnect")
     \/ sess[s].since # None /\ Decides(s, "auto-submit")
  /\ UNCHANGED <<now, tab, inbox, stored, unsaved, work, sess, overtaken, report, shared, forced>>

AutoSubmit(s) ==
  /\ sess[s].status = "DISCONNECTED"
  /\ now >= sess[s].since + Grace
  /\ Decides(s, "auto-submit")
  /\ UNCHANGED <<now, tab, inbox, stored, unsaved, work, sess, overtaken, report, shared, forced>>

-----------------------------------------------------------------------------
(* Screens, and what comes back to them *)

\* InviteResolver: the answer counts whatever the tab shows by now.  A session
\* that has begun takes the tab to the assessment by force.
Resolved(w) ==
  /\ work[w].kind = "resolve" /\ work[w].step = "reply"
  /\ LET t == work[w].tab
         s == work[w].session
     IN  \/ /\ s = None
            /\ tab' = [tab EXCEPT ![t].screen = Legal(t, "resolving", "expired")]
            /\ UNCHANGED <<stored, unsaved, forced>>
         \/ /\ s # None /\ work[w].started = None
            /\ Keeps(t, Legal(t, "resolving", "preparing"), Initialised(tab[t].mem, s))
            /\ UNCHANGED forced
         \/ /\ s # None /\ work[w].started # None
            /\ Keeps(t, "assessment", Timed(Initialised(tab[t].mem, s), work[w].started))
            /\ forced' = (forced \/ Shown(t) = "session-conflict")
  /\ work' = [work EXCEPT ![w] = NoWork]
  /\ UNCHANGED <<now, inbox, sess, pending, overtaken, report, shared>>

\* The last step of the tutorial: the session is created and begun, as often as
\* the button is clicked.
Proceed(t, w) ==
  /\ Shown(t) = "preparing"
  /\ Idle(w)
  /\ work' = [work EXCEPT ![w] =
                [NoWork EXCEPT !.kind = "create", !.tab = t, !.step = "start"]]
  /\ UNCHANGED <<now, tab, inbox, stored, unsaved, sess, pending, overtaken, report, shared, forced>>

\* A failure is passed over; the waiting room has a time to wait in any case.
Created(w) ==
  /\ work[w].kind = "create" /\ work[w].step = "reply"
  /\ LET t == work[w].tab
         s == IF work[w].session = None THEN tab[t].mem.session ELSE work[w].session
         a == Initialised(tab[t].mem, s)
     IN  \E due \in (now + 1) .. (now + Briefing) :
           /\ tab' = [tab EXCEPT
                        ![t].screen = Legal(t, "preparing", "waiting-room"),
                        ![t].mem = a,
                        ![t].due = IF Shown(t) = "preparing" THEN due ELSE @]
           /\ Persists(a)
  /\ work' = [work EXCEPT ![w] = NoWork]
  /\ UNCHANGED <<now, inbox, sess, pending, overtaken, report, shared, forced>>

\* The waiting room's countdown is over.
Launch(t) ==
  /\ Shown(t) = "waiting-room"
  /\ now >= tab[t].due
  /\ LET a == Initialised(tab[t].mem, tab[t].mem.session)
     IN  Keeps(t, "assessment", Timed(a, now))
  /\ UNCHANGED <<now, inbox, work, sess, pending, overtaken, report, shared, forced>>

Answer(t, q) ==
  /\ Shown(t) = "assessment"
  /\ Keeps(t, "assessment", [tab[t].mem EXCEPT !.answers = @ \cup {q}])
  /\ UNCHANGED <<now, inbox, work, sess, pending, overtaken, report, shared, forced>>

Review(t) ==
  /\ Shown(t) = "assessment"
  /\ tab' = [tab EXCEPT ![t].screen = "pre-submit-review"]
  /\ UNCHANGED <<now, inbox, stored, unsaved, work, sess, pending, overtaken, report, shared, forced>>

Back(t) ==
  /\ Shown(t) = "pre-submit-review"
  /\ Enters(t, tab[t].mem)
  /\ UNCHANGED <<now, inbox, work, sess, pending, overtaken, report, shared, forced>>

\* The syncing screen sends what the assessment is when it appears, except the
\* answers that count as sent without a call.
Syncs(t, w, auto) ==
  LET a == tab[t].mem
  IN  /\ Idle(w)
      /\ tab' = [tab EXCEPT ![t].screen = "syncing"]
      /\ work' = [work EXCEPT ![w] =
                    [NoWork EXCEPT !.kind = "sync", !.tab = t, !.step = "answers",
                                   !.session = a.session, !.left = a.answers \cap Sent,
                                   !.all = a.answers, !.auto = auto]]
      /\ UNCHANGED <<now, inbox, stored, unsaved, sess, pending, overtaken, report, shared, forced>>

Submit(t, w) == Shown(t) = "pre-submit-review" /\ Syncs(t, w, FALSE)

\* The timer looks at the assessment screen only.
Expire(t, w) ==
  /\ Shown(t) = "assessment"
  /\ Over(tab[t].mem)
  /\ Syncs(t, w, TRUE)

\* Mutant of Synced: a submission that was refused is not reported.
SyncedIfClean(w) ==
  /\ work[w].kind = "sync" /\ work[w].step = "reply" /\ work[w].clean
  /\ LET t == work[w].tab
     IN  tab' = [tab EXCEPT ![t].screen = Legal(t, "syncing", "done")]
  /\ work' = [work EXCEPT ![w] = NoWork]
  /\ UNCHANGED <<now, inbox, stored, unsaved, sess, pending, overtaken, report, shared, forced>>

\* However it went, the tab says that the assessment was submitted.
Synced(w) ==
  /\ work[w].kind = "sync" /\ work[w].step = "reply"
  /\ LET t == work[w].tab
     IN  /\ tab' = [tab EXCEPT ![t].screen = Legal(t, "syncing", "done")]
         /\ report' = IF Shown(t) = "syncing"
                        THEN [report EXCEPT ![t] =
                                [session |-> work[w].session, answers |-> work[w].all,
                                 auto |-> work[w].auto, clean |-> work[w].clean]]
                        ELSE report
  /\ work' = [work EXCEPT ![w] = NoWork]
  /\ UNCHANGED <<now, inbox, stored, unsaved, sess, pending, overtaken, shared, forced>>

-----------------------------------------------------------------------------
(* Who has the session *)

\* Tab t hears m: it objects to a tab opened after it, and steps aside when
\* another objects to its page or claims the session.
Hear(t, m) ==
  /\ Opened(t) /\ m \in inbox[t]
  /\ LET objects == m.kind = "tab-opened" /\ Opened(m.tab)
         aside   == m.kind = "continue-here" \/ (m.kind = "invalidate" /\ m.id = tab[t].id)
         rest    == [inbox EXCEPT ![t] = @ \ {m}]
     IN  /\ inbox' = IF objects
                       THEN [rest EXCEPT ![m.tab] = @ \cup {Said("invalidate", t, m.id)}]
                       ELSE rest
         /\ tab' = IF aside THEN [tab EXCEPT ![t].screen = "session-conflict"] ELSE tab
  /\ UNCHANGED <<now, stored, unsaved, work, sess, pending, overtaken, report, shared, forced>>

\* "Continue Session in This Tab", with an assessment to show or, if there is
\* none yet, on a new page.  The claim is heard by the tab itself, whose channel
\* is not the one it is sent on.
Claim(t) ==
  /\ Shown(t) = "session-conflict"
  /\ tab[t].mem # None
  /\ Enters(t, tab[t].mem)
  /\ inbox' = [u \in Tab |-> IF Opened(u)
                               THEN inbox[u] \cup {Said("continue-here", t, 0)} ELSE inbox[u]]
  /\ UNCHANGED <<now, work, sess, pending, overtaken, report, shared, forced>>

ClaimAnew(t, w) ==
  /\ Shown(t) = "session-conflict"
  /\ tab[t].mem = None
  /\ Loads(t, w, {Said("continue-here", t, 0)})

Tick ==
  /\ now < MaxTime
  /\ now' = now + 1
  /\ UNCHANGED <<tab, inbox, stored, unsaved, work, sess, pending, overtaken, report, shared, forced>>

-----------------------------------------------------------------------------
Candidate(t) ==
  \/ Shut(t)
  \/ Launch(t)
  \/ \E q \in Question : Answer(t, q) \/ Run(t, q)
  \/ Review(t)
  \/ Back(t)
  \/ Claim(t)
  \/ \E w \in Work : Load(t, w) \/ ClaimAnew(t, w) \/ Proceed(t, w) \/ Submit(t, w)

Function(w) ==
  \/ StartRequest(w)
  \/ BeginRequest(w)
  \/ BeginWrite(w)
  \/ StartFirst(w)
  \/ Post(w)
  \/ Posted(w)
  \/ CloseRequest(w)
  \/ CloseWrite(w)
  \/ Resolved(w)
  \/ Created(w)
  \/ Synced(w)

Next ==
  \/ \E t \in Tab : Candidate(t)
  \/ \E t \in Tab, w \in Work : Expire(t, w)
  \/ \E t \in Tab, m \in UNION {inbox[u] : u \in Tab} : Hear(t, m)
  \/ \E w \in Work : Function(w) \/ CallFails(w)
  \/ \E s \in Session : Scan(s) \/ AutoSubmit(s) \/ \E d \in Decision : LateWrite(s, d)
  \/ Tick

Spec == Init /\ [][Next]_vars

\* Calls are answered, for which a session has to be started, and the interval of
\* the timer fires.  Nobody has to type, to click or to come back; a call may fail.
Fairness ==
  /\ \A w \in Work : WF_vars(Function(w))
  /\ \A s \in Session : WF_vars(LateWrite(s, "start"))
  /\ \A t \in Tab : WF_vars(\E w \in Work : Expire(t, w))

FairSpec == Spec /\ Fairness

-----------------------------------------------------------------------------
(* Properties *)

\* Every variable has its type; the assessment that a tab works on is there, and
\* what a tab does is begun by a page that is open.
TypeOK ==
  /\ now \in 0 .. MaxTime
  /\ tab \in [Tab -> TabRow]
  /\ inbox \in [Tab -> SUBSET Message]
  /\ stored \in Assessment \cup {None}
  /\ work \in [Work -> WorkRow]
  /\ sess \in [Session -> SessionRow]
  /\ report \in [Tab -> Report \cup {None}]
  /\ pending \in [Session -> SUBSET Decision]
  /\ shared \in BOOLEAN /\ forced \in BOOLEAN /\ unsaved \in BOOLEAN
  /\ overtaken \subseteq Session
  /\ \A t \in Tab :
       Shown(t) \in {"preparing", "waiting-room", "assessment", "pre-submit-review",
                     "syncing", "done"} => tab[t].mem # None
  /\ \A w \in Work : work[w].tab # None => Opened(work[w].tab)

AtWork(t) == Opened(t) /\ Shown(t) # "session-conflict"

\* Unless a function under way has forced a tab back, the tabs settle the
\* conflict: once they have heard each other at most one is still at work.
OneTabWorks ==
  (~forced /\ \A t \in Tab : inbox[t] = {}) =>
    \A t, u \in Tab : AtWork(t) /\ AtWork(u) => t = u

\* A tab that shows "submitted" after no call was refused or lost tells the
\* truth: the session has every answer that is sent at all, and is submitted,
\* unless a handler that had read it before has since put it back.
DoneIsDelivered ==
  \A t \in Tab :
    report[t] # None /\ report[t].clean =>
      LET s == report[t].session
      IN  /\ report[t].answers \cap Sent \subseteq sess[s].answers
          /\ sess[s].status = "SUBMITTED" \/ s \in overtaken

\* With one tab at a time, an assessment whose time is not over loses no answer
\* and keeps its clock, however often the page is reloaded and whatever answers
\* localStorage would not take, unless it did not take the assessment or its clock.
WorkKept ==
  [][~shared' /\ ~unsaved' /\ stored # None /\ ~Over(stored)
       /\ stored'.session = stored.session =>
          /\ stored.answers \subseteq stored'.answers
          /\ stored.timer # None => stored'.timer = stored.timer]_vars

\* When the time is over on the assessment screen the tab does not stay there,
\* nor with the submission that follows, unless a creation that the tutorial has
\* left under way gives it an assessment with time.
ExpiryEnds ==
  \A t \in Tab :
    (Shown(t) = "assessment" /\ Over(tab[t].mem)) ~>
      (Shown(t) \notin {"assessment", "syncing"} \/ ~Over(tab[t].mem))

-----------------------------------------------------------------------------
(* Claimed, and violated *)

\* The screen at the end says after the time limit that the last-saved answers
\* were submitted automatically: the session has those that were sent.
SubmittedAsTold ==
  \A t \in Tab :
    report[t] # None /\ report[t].auto =>
      report[t].answers \cap Sent \subseteq sess[report[t].session].answers
=============================================================================
