------------------------------ MODULE Simulation ------------------------------
(***************************************************************************)
(* The workplace simulation of one session: what the candidate says, edits *)
(* and replies, and the manager's email that the first edit sets off.      *)
(*                                                                         *)
(* The service keeps the session's state and telemetry in the memory of    *)
(* the process, reads them from the snapshot in the session's row when it  *)
(* has none, and writes the whole snapshot after nearly every request.     *)
(* One ModuleResponse row holds, in turn, the log of the simulation, the   *)
(* initial say, the reply and the evaluated submission; each of them       *)
(* reads or replaces the payload as a whole.  Requests interleave at every *)
(* await, calls to the database fail, some of them silently, and the       *)
(* process restarts.                                                       *)
(*                                                                         *)
(* Abstracted: a text is there or not; telemetry and labels are of an edit *)
(* or of anything else (a test run counts as an edit); the inbox follows   *)
(* from the email and the reply.  The score a submission writes is in      *)
(* Grading.  The session's drive has one simulation question.              *)
(***************************************************************************)
EXTENDS FiniteSets

CONSTANTS
  Caller,   \* slots for requests in flight
  Obj,      \* objects in memory that may hold the session's state
  None

Label == {"edit", "other"}
Kind  == {"say", "reply", "edit", "open", "read", "command", "submit"}

\* The state in memory, the snapshot and the payload of the row.
StateRow   == [say : BOOLEAN, reply : BOOLEAN, mailed : BOOLEAN]
SnapRow    == [say : BOOLEAN, reply : BOOLEAN, mailed : BOOLEAN,
               raw : SUBSET Label, actions : SUBSET Label]
PayloadRow == [log : BOOLEAN, say : BOOLEAN, reply : BOOLEAN, result : BOOLEAN]

ASSUME SimulationAssumption == None \notin Caller \cup Obj \cup Kind \cup PayloadRow

VARIABLES
  cur,     \* the object sessionStates has for the session
  heap,    \* the objects
  events,  \* telemetry in memory
  snap,    \* simulationSnapshot
  resp,    \* ModuleResponse row: what its payload holds
  req,     \* requests in flight
  \* history
  told,    \* what the candidate was told is kept
  lapses   \* what has gone wrong that no caller was told of

vars == <<cur, heap, events, snap, resp, req, told, lapses>>

Fresh     == [say |-> FALSE, reply |-> FALSE, mailed |-> FALSE]
NoSnap    == [say |-> FALSE, reply |-> FALSE, mailed |-> FALSE, raw |-> {}, actions |-> {}]
EmptyLog  == [log |-> TRUE, say |-> FALSE, reply |-> FALSE, result |-> FALSE]
NoPayload == [log |-> FALSE, say |-> FALSE, reply |-> FALSE, result |-> FALSE]

NoReq == [step |-> "idle", kind |-> None, obj |-> None, held |-> NoPayload,
          snap |-> NoSnap, older |-> {}, late |-> FALSE]

Init ==
  /\ cur    = None
  /\ heap   = [o \in Obj |-> Fresh]
  /\ events = {}
  /\ snap   = NoSnap
  /\ resp   = None
  /\ req    = [r \in Caller |-> NoReq]
  /\ told   = {}
  /\ lapses = {}

-----------------------------------------------------------------------------
(* The beginning of a request, and the state it works on *)

\* Request r goes on as x.
Goes(r, x) == req' = [req EXCEPT ![r] = x]

LabelOf(k) == IF k = "edit" THEN "edit" ELSE "other"

\* Telemetry and commands are recorded on arrival.  After an edit whatever is
\* recorded counts as one.
Start(r, k) ==
  /\ req[r].step = "idle"
  /\ events' = IF k \in {"edit", "open", "command"} THEN events \cup {LabelOf(k)} ELSE events
  /\ Goes(r, [NoReq EXCEPT !.step = IF k = "command" THEN "log" ELSE "state",
                            !.kind = IF k = "open" /\ "edit" \in events THEN "edit" ELSE k])
  /\ UNCHANGED <<cur, heap, snap, resp, told, lapses>>

\* The object holds nothing of the session yet: its columns are read.  A read
\* that fails is taken for an empty snapshot.
ReadState(r) ==
  /\ req[r].step = "state" /\ cur = None
  /\ \/ /\ Goes(r, [req[r] EXCEPT !.step = "hydrate", !.snap = snap])
        /\ UNCHANGED lapses
     \/ /\ Goes(r, [req[r] EXCEPT !.step = "hydrate"])
        /\ lapses' = lapses \cup {"swallowed"}
  /\ UNCHANGED <<cur, heap, events, snap, resp, told>>

\* Mutant of Restored: the email is forgotten.
RestoredUnmailed(s) == [say |-> s.say, reply |-> s.reply, mailed |-> FALSE]

\* Mutant of Restored: the reply is forgotten.
RestoredUnreplied(s) == [say |-> s.say, reply |-> FALSE, mailed |-> s.mailed]

Restored(s) == [say |-> s.say, reply |-> s.reply, mailed |-> s.mailed]

\* Telemetry comes back from the snapshot only if there is none in memory.
Telemetry == IF events = {} THEN snap.raw ELSE events

\* What request r does at once with the state s in object o.
Work(r, o, s) ==
  LET k == req[r].kind
      mails == k = "edit" /\ ~s.mailed
  IN  /\ heap' = [heap EXCEPT ![o] =
           [say    |-> s.say \/ k = "say",
            reply  |-> s.reply \/ k = "reply",
            mailed |-> s.mailed \/ mails]]
      /\ events' = CASE k \in {"say", "reply"}          -> events \cup {"other"}
                     [] k = "submit"                    -> Telemetry
                     [] k \in {"edit", "open", "read"}  -> events
      /\ Goes(r, [req[r] EXCEPT !.obj = o, !.snap = NoSnap,
                                !.step = IF k \in {"say", "reply", "submit"} \/ mails
                                           THEN "log" ELSE "persist"])

UseState(r) ==
  /\ req[r].step = "state" /\ cur # None
  /\ Work(r, cur, heap[cur])
  /\ UNCHANGED <<cur, snap, resp, told, lapses>>

\* The new object takes the place of one that another request has made since.
Hydrate(r) ==
  /\ req[r].step = "hydrate"
  /\ \E o \in Obj \ ({cur} \cup {req[q].obj : q \in Caller}) :
       /\ cur' = o
       /\ Work(r, o, Restored(req[r].snap))
  /\ lapses' = IF cur = None THEN lapses ELSE lapses \cup {"split"}
  /\ UNCHANGED <<snap, resp, told>>

-----------------------------------------------------------------------------
(* SessionLogService.logAction *)

\* Mutant of LogRead: the payload is taken for a log whatever it holds.
LogReadAny(r) ==
  /\ req[r].step = "log"
  /\ Goes(r, [req[r] EXCEPT !.step = IF resp = None THEN "init" ELSE "append",
                            !.held = IF resp = None THEN EmptyLog ELSE resp])
  /\ UNCHANGED <<cur, heap, events, snap, resp, told, lapses>>

\* With no row a log is begun; with a payload that is none the request throws.
LogRead(r) ==
  /\ req[r].step = "log"
  /\ \/ resp = None /\ Goes(r, [req[r] EXCEPT !.step = "init", !.held = EmptyLog])
     \/ resp # None /\ resp.log /\ Goes(r, [req[r] EXCEPT !.step = "append", !.held = resp])
     \/ resp # None /\ ~resp.log /\ Goes(r, NoReq)
  /\ UNCHANGED <<cur, heap, events, snap, resp, told, lapses>>

LogInit(r) ==
  /\ req[r].step = "init"
  /\ resp' = EmptyLog
  /\ Goes(r, [req[r] EXCEPT !.step = "append"])
  /\ UNCHANGED <<cur, heap, events, snap, told, lapses>>

AfterLog(k) == CASE k = "edit"              -> "persist"
                 [] k \in {"say", "submit"} -> "save"
                 [] k = "reply"             -> "read"

\* The payload goes back as it was read, with one more entry.
LogAppend(r) ==
  /\ req[r].step = "append"
  /\ resp' = req[r].held
  /\ \/ req[r].kind = "command" /\ Goes(r, NoReq)
     \/ /\ req[r].kind # "command"
        /\ Goes(r, [req[r] EXCEPT !.step = AfterLog(req[r].kind), !.held = NoPayload])
  /\ UNCHANGED <<cur, heap, events, snap, told, lapses>>

\* A call of logAction that fails ends the request.
LogFails(r) ==
  /\ req[r].step \in {"log", "init", "append"}
  /\ Goes(r, NoReq)
  /\ UNCHANGED <<cur, heap, events, snap, resp, told, lapses>>

-----------------------------------------------------------------------------
(* The answer of a say, a reply or a submission *)

ReadAnswer(r) ==
  /\ req[r].step = "read"
  /\ Goes(r, [req[r] EXCEPT !.step = "save",
                            !.held = IF resp = None THEN NoPayload ELSE resp])
  /\ UNCHANGED <<cur, heap, events, snap, resp, told, lapses>>

\* Mutant of Payload: the evaluation leaves the reply out.
PayloadUnreplied(r) ==
  CASE req[r].kind = "say"    -> [NoPayload EXCEPT !.say = TRUE]
    [] req[r].kind = "reply"  ->
         [req[r].held EXCEPT !.reply = TRUE, !.say = heap[req[r].obj].say \/ req[r].held.say]
    [] req[r].kind = "submit" ->
         [log |-> FALSE, say |-> heap[req[r].obj].say, reply |-> FALSE, result |-> TRUE]

\* A say and an evaluation replace the payload, a reply is merged into the one
\* that was read.
Payload(r) ==
  CASE req[r].kind = "say"    -> [NoPayload EXCEPT !.say = TRUE]
    [] req[r].kind = "reply"  ->
         [req[r].held EXCEPT !.reply = TRUE, !.say = heap[req[r].obj].say \/ req[r].held.say]
    [] req[r].kind = "submit" ->
         [log |-> FALSE, say |-> heap[req[r].obj].say, reply |-> heap[req[r].obj].reply,
          result |-> TRUE]

\* Mutant of Save: the answer to the candidate does not wait for the snapshot.
SaveAndTell(r) ==
  /\ req[r].step = "save"
  /\ resp' = Payload(r)
  /\ Goes(r, [req[r] EXCEPT !.step = "persist", !.held = NoPayload])
  /\ told' = told \cup ({req[r].kind} \cap {"say", "reply"})
  /\ UNCHANGED <<cur, heap, events, snap, lapses>>

Save(r) ==
  /\ req[r].step = "save"
  /\ resp' = Payload(r)
  /\ Goes(r, [req[r] EXCEPT !.step = "persist", !.held = NoPayload])
  /\ UNCHANGED <<cur, heap, events, snap, told, lapses>>

SaveFails(r) ==
  /\ req[r].step \in {"read", "save"}
  /\ Goes(r, [req[r] EXCEPT !.step = "persist", !.held = NoPayload])
  /\ lapses' = lapses \cup {"swallowed"}
  /\ UNCHANGED <<cur, heap, events, snap, resp, told>>

-----------------------------------------------------------------------------
(* persistSessionSnapshot *)

\* Mutant of Composed: only the actions in memory.
ComposedInMemory(seen) ==
  [say |-> heap[cur].say, reply |-> heap[cur].reply, mailed |-> heap[cur].mailed,
   raw |-> Telemetry, actions |-> Telemetry]

\* The snapshot as a whole: the state sessionStates has by now, the telemetry,
\* and its actions with those that the last snapshot had.
Composed(seen) ==
  [say |-> heap[cur].say, reply |-> heap[cur].reply, mailed |-> heap[cur].mailed,
   raw |-> Telemetry, actions |-> seen \cup Telemetry]

Writing == {q \in Caller : req[q].step = "write"}

\* The last snapshot's actions are read, or that fails, and the new one is made.
Compose(r) ==
  /\ req[r].step = "persist"
  /\ \/ /\ Goes(r, [req[r] EXCEPT !.step = "write", !.snap = Composed(snap.actions),
                                  !.older = Writing])
        /\ UNCHANGED lapses
     \/ /\ Goes(r, [req[r] EXCEPT !.step = "write", !.snap = Composed({}),
                                  !.older = Writing])
        /\ lapses' = lapses \cup {"swallowed"}
  /\ events' = Telemetry
  /\ UNCHANGED <<cur, heap, snap, resp, told>>

\* The request is answered.
Done(r) ==
  told' = told \cup ({req[r].kind} \cap {"say", "reply"})
               \cup (IF req[r].kind = "edit" /\ req[r].snap.mailed THEN {"mail"} ELSE {})

\* The updates of two requests may overtake each other: those made before this
\* one are late now.
Write(r) ==
  /\ req[r].step = "write"
  /\ snap' = req[r].snap
  /\ req' = [q \in Caller |->
       IF q = r THEN NoReq
                ELSE [req[q] EXCEPT !.older = @ \ {r}, !.late = @ \/ q \in req[r].older]]
  /\ lapses' = IF req[r].late THEN lapses \cup {"late"} ELSE lapses
  /\ Done(r)
  /\ UNCHANGED <<cur, heap, events, resp>>

WriteFails(r) ==
  /\ req[r].step = "write"
  /\ req' = [q \in Caller |-> IF q = r THEN NoReq
                                       ELSE [req[q] EXCEPT !.older = @ \ {r}]]
  /\ lapses' = lapses \cup {"swallowed"}
  /\ Done(r)
  /\ UNCHANGED <<cur, heap, events, snap, resp>>

Restart ==
  /\ cur' = None
  /\ events' = {}
  /\ req' = [r \in Caller |-> NoReq]
  /\ UNCHANGED <<heap, snap, resp, told, lapses>>

-----------------------------------------------------------------------------
Next ==
  \/ \E r \in Caller, k \in Kind : Start(r, k)
  \/ \E r \in Caller :
       \/ ReadState(r) \/ UseState(r) \/ Hydrate(r)
       \/ LogRead(r) \/ LogInit(r) \/ LogAppend(r) \/ LogFails(r)
       \/ ReadAnswer(r) \/ Save(r) \/ SaveFails(r)
       \/ Compose(r) \/ Write(r) \/ WriteFails(r)
  \/ Restart

Spec == Init /\ [][Next]_vars

-----------------------------------------------------------------------------
(* Properties *)

\* Every variable has its type; a request past its state holds an object, and
\* what it appends to is a log.
TypeOK ==
  /\ cur \in Obj \cup {None}
  /\ heap \in [Obj -> StateRow]
  /\ events \subseteq Label
  /\ snap \in SnapRow
  /\ resp \in PayloadRow \cup {None}
  /\ req \in [Caller ->
       [step : {"idle", "state", "hydrate", "log", "init", "append", "read", "save",
                "persist", "write"},
        kind : Kind \cup {None}, obj : Obj \cup {None}, held : PayloadRow,
        snap : SnapRow, older : SUBSET Caller, late : BOOLEAN]]
  /\ \A r \in Caller :
       /\ req[r].step # "idle" => req[r].kind \in Kind
       /\ req[r].step \in {"read", "save", "persist", "write"} =>
            req[r].obj # None /\ cur # None
       /\ req[r].step \in {"init", "append"} => req[r].held.log
  /\ told \subseteq {"say", "reply", "mail"}
  /\ lapses \subseteq {"swallowed", "split", "late"}

\* What a request was answered for is in the snapshot, and after a restart it
\* comes back from there: unless a failure was swallowed, two requests read the
\* state in at once or two snapshots were written in the wrong order.
\* (simulation.service.ts saveInitialSay, saveEmailReply, recordTelemetry)
ToldIsKept ==
  lapses = {} =>
    /\ "say" \in told => snap.say
    /\ "reply" \in told => snap.reply
    /\ "mail" \in told => snap.mailed

\* A stored evaluation holds every text the candidate was told is saved, with
\* the same exceptions, whichever requests it overlapped and after restarts.
\* (simulation.service.ts submitSimulation)
ResultIsComplete ==
  resp # None /\ resp.result /\ lapses = {} =>
    /\ "say" \in told => resp.say
    /\ "reply" \in told => resp.reply

\* The actions a recruiter sees are never fewer than before, over restarts too,
\* with the same exceptions.  (simulation.service.ts getCandidateActions)
ActionsKept == [][lapses' = {} => snap.actions \subseteq snap'.actions]_vars

\* Once a snapshot says that the manager's email was sent it is not sent again,
\* by whatever request comes first after a restart.
\* (simulation.service.ts recordTelemetry, getOrCreateSessionState)
MailedOnce ==
  [][\A r \in Caller :
       /\ req[r].kind = "edit" /\ req[r].step \in {"state", "hydrate"}
       /\ req'[r].step = "log"
       => ~snap.mailed \/ lapses' # {}]_vars

-----------------------------------------------------------------------------
(* Refinement: with its cache, its snapshots and its shared row the service *)
(* is a notebook                                                           *)

Texts == {"say", "reply"}
Facts == Texts \cup {"mail"} \cup Label

\* What a snapshot holds, and the evaluations, one or none, that a row holds.
TextsOf(s)   == {t \in Texts : s[t]}
OnFile(s)    == TextsOf(s) \cup {f \in {"mail"} : s.mailed} \cup s.actions
Evaluated(p) == IF p # None /\ p.result THEN {TextsOf(p)} ELSE {}

\* Until the first failure that is swallowed, state that is loaded twice or
\* snapshot that is overtaken, no overlap of requests and no restart shows: what
\* is stored only grows, the texts, the email and the actions together, and the
\* candidate and the recruiter see nothing that is not stored.
\* (simulation.service.ts persistSessionSnapshot, getOrCreateSessionState)
Stored == INSTANCE Notebook
            WITH Fact <- Facts, Text <- Texts, noted <- OnFile(snap),
                 evaluation <- Evaluated(resp), lapsed <- lapses # {}
ImplementsNotebook == Stored!Spec
=============================================================================
