# CD-Recruit: formal models and proofs

TLA+ specifications of the assessment platform in `src/backend/api` and of the
candidate's app in `src/frontend/candidate-web`, the TLC configurations that model-check them, and theorems about them that the TLAPS
proof system checks. Source paths below are relative to
`src/backend/api/src` unless they start with `src/`; those of the candidate's app
(`routes/`, `store/`, `components/`, `services/`, `hooks/`) to
`src/frontend/candidate-web/src`.

1. [The system](#1-the-system)
2. [Modules](#2-modules)
3. [How the models correspond to the code](#3-how-the-models-correspond-to-the-code)
4. [Runs](#4-runs)
5. [Bounds and fairness](#5-bounds-and-fairness)
6. [Proofs](#6-proofs)
7. [Findings](#7-findings)
8. [Not modelled, and the plan](#8-not-modelled-and-the-plan)

## 1. The system

A candidate opens an invite link, gets a *session*, works through MCQ, coding,
SQL, AI-prompting and simulation questions in the browser, and submits. A NestJS
API keeps everything in PostgreSQL through Prisma. A heartbeat monitor notices
browsers that went silent, a delayed job submits sessions whose candidate does
not come back, a scoring service turns answers into a Score row, and a recruiter
records a decision. Staff organise invites into *drives*.

Nearly every handler has the same shape: read a row, await, then update it *by
id*, with no transaction and no condition on what was read. That is what makes
the code hard: any other handler can run between the read and the write. Only
`removeCandidateFromDrive`, drive deletion, and `listInvites` check and write in
one statement or in one transaction, and the first two read what they act on before it.

| Component (files) | State | Operations | Talks to | Hard behaviour | Correct when |
|---|---|---|---|---|---|
| Session lifecycle (`session/session.service.ts`) | Session row: status, disconnectCount, disconnectedAt, lastHeartbeatAt, activeTabId, deadlineAt | start, begin, heartbeat, resume, close, markDisconnected, autoSubmit | invites, queue, scoring, sandbox | every status write is by id, after an await | a status is written only by a handler that read one it may leave; disconnects are counted once each and never forgotten; a disconnected session can be resumed |
| Owner guard (`common/guards/session-owner.guard.ts`) | deadlineAt | `canActivate` in front of the candidate routes | drives | moves an expired deadline to the drive's end with a second write | a session past its deadline in a drive that is over is not kept alive |
| Heartbeat monitor (`queue/heartbeat.service.ts`, `queue.scheduler.ts`) | none | `scanAndMarkStale` every 10 s, `cleanupExpiredBiometrics` every 60 s | session lifecycle, proctoring rows, object store | scan result is stale when used | every silent session is noticed |
| Grace-window queue (`queue/bullmq-queue.provider.ts`, `local-fake-queue.provider.ts`, `grace-window.processor.ts`) | waiting, active, failed jobs in Redis, or timers in memory | enqueueDelayed, process | autoSubmit | fixed job id; failed and stalled jobs; restart loses in-memory timers | a disconnect arms exactly one timer of full length |
| Invites and start (`admin/invite.service.ts`, `session.service.ts` startSession, `auth`, `candidate`) | Invite row: status, token, expiresAt, session, drive, candidate | create, list, revoke, extend, re-issue, delete, bulk forms; redeem in startSession | sessions, drives | startSession is five calls without a transaction; extend writes back the status it read | a REDEEMED invite refers to the right session; one active session per candidate |
| Drives (`drive/drive.service.ts`) | Drive row, its questions and snapshots | create, from template, update, duplicate, close early, delete, add candidates, generate links, remove candidate, unlock | invites, sessions, questions | lists read before the transaction that uses them | nothing refers to a deleted drive's sessions |
| Coding, SQL (`coding/`, `sql/`) | execution rows, drafts, module responses | run, submit, save draft | Judge0, session status | the status is checked minutes before the write it protects | answers count only until submission |
| MCQ, AI prompting (`mcq/`, `ai-prompting/`) | module responses | upsert of an answer; count of rejected prompts | LLM provider | no status check; a rejection writes back the answer it read | the score is that of the answers it was computed from |
| Simulation (`simulation/`) | in-memory state and telemetry, JSON snapshot in the session, one answer row, sandbox directory | say, telemetry, inbox, reply, terminal, submit, reap | LLM, file system, Score row | memory, snapshot and answer written one after the other, as wholes; restarts | what the candidate was told is kept; the manager's email is sent once; no workspace outlives its session |
| Scoring (`session/session-scoring.service.ts`) | Score row | computeSessionScores | all answers | concurrent with late answers, simulation submissions and recordDecision; failures swallowed | the score is that of the answers it read; full marks were earned; "reviewed" has a reason |
| Recruiter (`admin/admin.service.ts`) | Decision, Score, audit rows | recordDecision, read-only lists | session status | the transaction goes by what was read before it | the decision is the audited one |
| Proctoring (`proctoring/proctoring.service.ts`, and in the browser `evidence-upload.service.ts`, `proctoring-event.service.ts`) | events, flags, clip records, evidence objects; the browser's two queues | createEvent, uploadEvidence, evaluateEvent, retries, retention cleanup | object store | cooldown is a check before an insert; two stores; lost replies; a reset under a loop that awaits | an event in its cooldown is not repeated; what the browser is done with is recorded; the queue drains |
| Candidate's app (`store/sessionMachine.ts`, `routes/`, `components/Timer.tsx`, `services/session-api/real.ts`) | per tab a screen and an assessment (answers, start of the clock); a copy in localStorage; functions under way; messages between tabs | resolve, create, launch, answer, review, submit, expire, conflict messages, claim; load, reload, close | session, guard, coding, MCQ routes; BroadcastChannel | functions outlive the screen that called them; whole-state writes to localStorage, which may be full; failed calls swallowed; two clocks; handlers that write what they decided before | one tab works; work is kept; "submitted" is true; time that is over ends the assessment |
| Judge0 (`integrations/judge0/`) | none | runTests, batch polling | external | time-outs against late answers | a verdict is that of the submission |
| Idempotency interceptor (`common/interceptors/`) | stored responses | intercept | all POSTs | check before insert | one key, one effect |
| Questions, role templates | rows with a version | CRUD | drives' snapshots | version by read-modify-write | versions distinguish contents |
| Partner API, settings, dashboards, admin web app | – | – | API | mostly read-only or rendering | – |

`SessionStateMachine` and `SessionLifecycleService` (`session/`) look like the
centre of the system but are injected and never called; no handler consults the
transition table. `CLOSED` is never written to a session, and `scheduledTime` of
an invite is written only as null, so startSession's cutoff on it never applies.

The hazards these behaviours expose the code to, each at its line and with the
properties that would catch it, are listed in `PROJECT.json`.

## 2. Modules

| Module | What it is |
|---|---|
| `SessionLifecycle` | one Session row and every handler that writes its status, one step per database call |
| `StatusProtocol` | abstract specification: a handler *decides* a status the current one allows and *applies* it later, or never |
| `SessionStages` | the stages of a session and how one may become another: what `InviteRedemption` assumes of the handlers and `SessionLifecycle` guarantees |
| `InviteRedemption` | invites, sessions and drives as tables; startSession and the staff's operations, one step per database call |
| `Grading` | the answers of one session, the executions behind them, closings and gradings, the Score row, the recruiter's decision |
| `Evidence` | the browser's upload and event queues, the server's proctoring handlers, the object store and the retention cleanup |
| `Simulation` | the simulation's state in memory, its snapshot, its log and its answer row, over restarts |
| `UploadQueue` | abstract specification of `Evidence`: an at-least-once queue, with one worker until it is cut off |
| `Notebook` | abstract specification of `Simulation`: notes that stay, over restarts |
| `CandidateApp` | the candidate's tabs, their store and its copy in localStorage, their messages, and the server as far as they can tell |
| `MCSessionLifecycle`, `MCInviteRedemption`, `MCGrading`, `MCEvidence`, `MCSimulation`, `MCCandidateApp` | model values, bounds and symmetry for TLC |
| `StatusProtocolProofs` | what follows from the protocol alone: stages, and what settles |
| `SessionLifecycleProofs` | type correctness, the disconnect bookkeeping, and who keeps the grace job |
| `SessionProtocolProofs` | `SessionLifecycle` implements `StatusProtocol`, and inherits its theorems |
| `InviteRedemptionProofs` | type correctness, links, one active session |
| `GradingProofs` | type correctness and every property of `Grading` |
| `EvidenceProofs` | type correctness and the two safety properties of `Evidence`, and that it implements `UploadQueue` |
| `SimulationProofs` | type correctness and the four properties of `Simulation`, and that it implements `Notebook` |
| `CandidateAppProofs` | type correctness and the three safety properties of `CandidateApp` |

`SessionLifecycle` looks at one row in full detail, because no handler relates
two sessions. `InviteRedemption` relates many rows and keeps of a session only
its stage, drive and candidate; its `Progress` and `Revive` stand for all
the handlers of `SessionLifecycle`. That they do is proved, not asserted: both
modules speak of stages as `SessionStages` defines them, `InviteRedemption` moves a
session only as it says, and `LifecycleFollowsStages` shows that every step of
`SessionLifecycle` does (section 6). `Grading` in turn keeps of the status only
whether the session is active or how it is over: its `Close`, `Finish`,
`SubmitAtLimit` and `Remove` stand for the ways `SessionLifecycle` ends a session and
`Reopen` for the late writes that set it going again. `Simulation` details what `Grading` calls
`LogSimulation` and `SubmitSimulation`. `CandidateApp` is the other end of
`SessionLifecycle`, `InviteRedemption` and `Grading`: there a request comes at any
time, here it comes from a screen and its answer goes to one. Of the handlers it calls
it keeps the one thing that matters to a tab: a handler that writes a status decided on it
earlier. All else that happens inside them is in the other modules.

## 3. How the models correspond to the code

`PROJECT.json`'s `map` names the source lines of every definition. In outline:

**SessionLifecycle.** An *actor* is a slot in which a handler runs: requests,
monitor scans and the single queue worker (BullMQ's default concurrency of 1).
`task` is the handler, `pc` its next awaited call, and `since`, `seen`, `tab`
are its local variables: the clock it sampled, the disconnect count it read, the
tab of the request.

- `Guard`/`Extend`: the owner guard. A refused request changes nothing and is
  not a step. `deadlineAt` is unset, ahead, moved to the drive's end, or past.
- `BeginRead/Write/Workspace`, `HeartbeatRead/Write`, `ResumeRead/Write`,
  `CloseRead/Write` then `Score`, `Reap`: the four candidate routes.
- `ExecuteRead/Write`: the coding and SQL endpoints' own status write: *run* and
  *submit* start a session that has not begun; *run* also revives an
  AUTO_SUBMITTED one. `TerminalRun` provisions the workspace again.
- `DecisionRead/Write`: recordDecision. `RemoveCandidate`: the conditional
  `updateMany`.
- `Scan`, `MarkRead`, `MarkLimit`/`MarkLimitLog`, `MarkWrite`/`MarkLog`/
  `MarkEnqueue`: the monitor, per session found stale.
- `Fire`, `AutoRead`, `AutoWrite`, `Score`, `Reap`, `AutoFinish`: autoSubmit.
  `EnqueueGrace` and `JobHandled` are the two queue providers: BullMQ ignores an
  add whose job id is taken and hands every job to its processor; the in-process
  queue has no ids and looks the handler up by job name.
- `Fail`: an awaited call outside a `try` rejects. `Restart`: the process goes
  and comes back; Redis jobs survive, timers do not.

Times are ages in ticks, saturated just above the largest threshold.
Dropped because nothing decides on them: submittedAt, startedAt, lastActivityAt,
and the EventLog inserts other than markDisconnected's (those are counted).

**InviteRedemption.** `req[r]` is a startSession request with what it has read,
`call[a]` a staff call between its read and its write. Invite and session ids are
used once: a row is *unborn*, has a status, or is *deleted*.

- `StartVerify`, `StartFind`, `StartLookup`, `StartCreate`, `StartRedeem`: the
  five calls. The foreign key on the drive rejects the insert, and an update of a
  deleted row is rejected.
- `RevokeRead/Write`, `ExtendRead/Write`, `RemoveRead/Write`, `DriveRead/Write`:
  staff calls that read before they write. `CreateInvite`, `ListInvites`,
  `Regenerate`, `GenerateLink`, `DeleteInvites`: single statements. Bulk forms
  are sequences of these.
- `DriveWrite` also does what the database does: `ON DELETE SET NULL` on invites
  that were not on the list.

No request creates a session but startSession. The guard, MCQ and proctoring try to
create one for an id they do not know, but with a `cvMode` of "FACE_ONLY"
(`common/guards/session-owner.guard.ts:60`), which the schema's enum CvMode does not
have: the insert is always rejected, and the request ends as not found.

Dropped: tokens (a link resolves to *some* existing invite: the one that holds it,
or the newest), role templates, audit rows. A drive created later behaves as one
that was there unused, so all drives exist at the start. The candidate of a deleted invite is kept, for the
calls that read it before.

**Grading.** `req[r]` is a request of the candidate with what it holds, `grade[g]`
a closing, `call[a]` a decision.

- `Accept`, `AcceptDraft`, `AcceptChoice`: the status checks of coding and SQL,
  and their absence in MCQ, where only the owner guard looks, and lets every URL
  with `/submit` pass. `CreateExecution`, `Judge`/`JudgeFails`: the execution row
  around Judge0's run; `ExecuteSql`: the sandbox comes first and the row after.
  `SaveAnswer`: the upsert of the answer.
- `SubmitPrompt`, `RejectPrompt`, `CountRejection`: AI prompting. A *run* saves
  something only when the guardrails reject its prompt.
- `SubmitSimulation`, then `SaveAnswer` and `ScoreSimulation`: submitSimulation
  writes the answer and the Score row itself.
- `Close`/`Finish`, `Load`, `SaveScore`: closeSession and autoSubmit with
  computeSessionScores. `MarksOf` is what each evaluator may return: for code the
  last of *all* executions of the question in the order the database gives them
  (none is asked for), so a run, or a row still PENDING, may count; for SQL and
  prompts always a value that only depends on the text, since no answer has the
  `executionResult` or `overallScore` they look for.
- `Reopen`, `SubmitAtLimit`, `Remove`: what the rest of `SessionLifecycle` does to
  the status, the last disconnect and the removal from the drive included.
- `ReadDecision`, `SubmitForDecision`, `Commit`: recordDecision. The unique key on
  the session refuses a second row.

Marks are *full*, *part* or *fallback*; `Confident` is the threshold of
automatic publishing, which an answer and an execution together reach with the
default settings. `upToDate`, `drained` and `failed` are history variables.

**Evidence.** One session and one event type with a cooldown and a flag category.
`client[i]` follows an incident through EvidenceUploadService: first upload, queue,
`Retry` (the upload, then the event with the URL it got), `reporting` after the
last try. `outbox` is ProctoringEventService's queue in localStorage.

- `Begin`, `End`: a loop of processQueue, begun by the timer or by flush, from its look
  at `isProcessing` to the assignment of what it has to try again. `live` is the loop for
  which `isProcessing` is set; `client[i].loop` says which loop's list a clip is in.
- `Stop`: stop() calls flush and then reset. Without a loop, flush goes through the queue
  and the reset follows (in `End`); with one, flush returns at once and reset takes the
  queue from it. That loop goes on: beside the next one it works at a clip of its own, and
  when it ends it replaces the queue and clears `isProcessing` for the other.
- `FindForUpload`, `Put`, `Upsert`: uploadEvidenceAndCreateEvent; the object is
  stored first, an older one is deleted, the row comes last.
- `FindForEvent`, then `KeepEvent`, `UpdateEvent` or `CreateEvent`, then
  `RecordClip`: createEvent, and evaluateEvent which goes on after the reply.
- `ConnectionLost`: the client counts a failure while the server works on.
  `HandlerFails`: the server's call fails, or its process stops.
- `Expire`, `CleanObject`, `CleanRow`, `CleanFails`: cleanupExpiredBiometrics.

`KeyOf` and `Bucket` model what the names are made of, since collisions decide
the outcome: the object's name has the second of the incident and eight
characters of the row's id, which are the session's for every uploaded event;
the row's id has the cooldown bucket. A reference in a clip column is either an
object's key or a presigned URL of it. The browser only ever has URLs, so the records
the cleanup works on hold URLs, and `CleanObject` finds no object of that name.

**Simulation.** `cur` is the entry of `sessionStates`, `heap` the objects it may
refer to (a request goes on with the object it got, also after another request
has replaced it), `events` the telemetry in memory, `snap` the column
`simulationSnapshot`, `resp` the ModuleResponse row.

- `Start`, then `UseState` or `ReadState`/`Hydrate`: getOrCreateSessionState and
  what the handler does before its next await (`Work`).
- `LogRead`, `LogInit`, `LogAppend`: logAction and getSession. `ReadAnswer`,
  `Save`: the answer. `Compose`, `Write`: persistSessionSnapshot, which reads the
  old actions and writes everything.
- `SaveFails`, `WriteFails`, and one disjunct of `ReadState` and `Compose`: the
  failures the code catches and logs. `LogFails` ends the request. `Restart`.

`told` is what the candidate has been answered; `lapses` records the three things
after which the code promises nothing: a swallowed failure, two requests that
hydrate at once, two snapshot updates that overtake each other. Each does lose
data (leaving it out of a property makes TLC find the trace).

**CandidateApp.** `tab[t]` is a tab: its screen, its assessment (`mem`), when its
waiting room ends, and the number of its page, which stands for the id that page
makes up. `stored` is localStorage's copy. `work[w]` is an asynchronous function
of a page between two of its awaits: *resolve* (InviteResolver), *create*
(TutorialScreen) or *sync* (SyncingScreen).

- `Load`, `ClaimAnew`: a page begins: store from localStorage, channel opened,
  `/sessions/start` called. `Leave`: the functions of the page before it end, but
  calls they have made may still arrive (`tab` of the function is then None).
- `StartRequest`, `BeginRequest`/`BeginWrite`, `StartFirst` and `Post`,
  `CloseRequest`/`CloseWrite`, `Run`: the server's side of the calls, each behind
  `Admits`, the owner guard. `CallFails`: a call is lost, or its handler fails between
  its read and its write.
- `pending[s]` is what handlers that have read session s are about to write:
  a mark (`Scan`), the grace job (`AutoSubmit`), the start or revival by a run or by a
  submission (`Run`, `StartFirst`). `LateWrite` writes it over whatever the session is by
  then; the history variable `overtaken` has the sessions that were SUBMITTED until then.
- `Sent`: the questions whose answers lead to a call. For a simulation, for debugging and
  for an id that is not in the list of questions `submitModuleResponse` makes none and
  resolves (`services/session-api/real.ts:200`); `Syncs` leaves them out of what it sends.
- `Persists`: persistAssessment, which catches the error of a localStorage that is
  full and goes on with the store in memory (`Full`).
- `Proceed`: the last button of the tutorial, which can be clicked while a creation is
  under way, so several may be.
- `Resolved`, `Created`, `Synced`: what the function does with the answer. `Legal`
  is `transitionTo`, which ignores a transition that is not legal from where the
  tab is by then; the others are `devForceJump`. Failures are passed over as in
  the code.
- `Initialised`, `Timed`, `Keeps`: the store. `Launch`, `Answer`, `Review`, `Back`,
  `Submit`, `Expire`: the screens. `Hear`, `Claim`: the conflict protocol.
- `Scan`, `AutoSubmit`: the monitor, as it meets an app that sends no heartbeat.

An inbox is a set: messages of one channel may be heard in any order, which is
more than a BroadcastChannel does, and a message said twice is heard once. The screens
from system check to tutorial are one, *preparing*. Scheduled invites are left out
because no invite has a time (section 1). `report`, `shared`, `forced`, `unsaved` and
`overtaken` are history variables.

## 4. Runs

| Run | Asks | Answer |
|---|---|---|
| `lifecycle_safety` | With rejected calls and restarts: does the row's bookkeeping hold (`TypeOK`, `DisconnectedIsResumable`, `DisconnectsAccounted`, `CountNeverDrops`), does the status follow `StatusProtocol` (`ImplementsProtocol`), does a session that is over and left alone stay over (`SettledIsFinal`), and does a disconnected session keep its grace job (`GraceStaysArmed`)? | yes, 548,938 states |
| `lifecycle_liveness` | Is a silent session noticed (`StaleIsDetected`), an armed timer resolved (`ArmedTimerResolves`), an expired session swept (`ExpiredIsSwept`)? | yes, 102,382 states |
| `invite_safety` | Two invites of one candidate in two drives: do links stay right (`RedeemedIsLinked`, `LinkedSessionMatches`), and without overlapping starts does a candidate have one active session (`OneActiveSession`) that keeps its invite (`ActiveLinkKept`)? | yes, 1,310,168 states |
| `grading` | However answers, executions, closings, simulation submissions and decisions overlap and fail: was every submitted answer run (`SubmittedAnswerRan`), full marks earned (`FullMarkEarned`), a review flag earned (`ReviewedIsEarned`), the score that of the answers when nothing came after (`ScoreIsCurrent`), the decision audited (`DecisionAudited`), finished answers left alone (`AnswersSealed`), each closing graded or failed (`ClosingEndsInScore`)? | yes, 320,435 states |
| `evidence` | With lost replies, failures, flushes, resets and cleanup: is the cooldown kept but for requests that overlap (`CooldownKept`), is what the browser has done with recorded (`DoneIsRecorded`), does its queue drain, also with two loops at it (`QueueDrains`), and do browser and server together work as an upload queue (`ImplementsUploadQueue`)? | yes, 239,173 states |
| `simulation` | With overlapping requests and restarts, until a lapse: is what was told kept (`ToldIsKept`), an evaluation complete (`ResultIsComplete`), no action lost (`ActionsKept`), the email sent once (`MailedOnce`), and is all of it a notebook (`ImplementsNotebook`)? | yes, 524,509 states |
| `candidate_app` | A link opened in tabs that are reloaded, closed and claimed, with lost calls, creations clicked twice, a full localStorage, a deadline, and a monitor, a grace job and runs that write what they decided earlier: does at most one tab stay at work (`OneTabWorks`), is a clean "submitted" true (`DoneIsDelivered`), is work kept (`WorkKept`), does time that is over on the assessment screen end it (`ExpiryEnds`)? | yes, 478,461 states |
| `stale_job` | Does every disconnect get its full grace window? | no (finding 1) |
| `finished` | Is a finished session scored and its workspace gone? | no (finding 2) |
| `invite_fork` | Does a second redemption attach to the existing session? | no (finding 3) |
| `retention` | Is an expired clip's object gone when its record is? | no (finding 4) |
| `auto_submitted` | Has a session the answers that the tab says were submitted automatically? | no (finding 5) |

Every property of a passing run has a mutant in `PROJECT.json`: a plausible slip
in one action (the count written back unchanged, the limit off by one, NULL
heartbeats not selected, the foreign key missing, the status written without the
session, a failed run saved as an answer, executions of another question graded,
the reply before the row, tries that are not counted, …) under which TLC finds that property violated.

`DisconnectedIsResumable` deserves a word. resumeSession has a branch for a
missing disconnectedAt ("should not happen") and a 410 for the disconnect limit.
The run and the theorem show both unreachable: whatever overlaps, a DISCONNECTED
row has a time and a count strictly between zero and the limit, so only the window
itself can refuse a resume.

`ImplementsProtocol` is the most that is true of the status column. It does not
say that a status is left only by legal transitions, which is false: a mark that read
IN_PROGRESS puts SUBMITTED back to DISCONNECTED. It says that every write was *decided* when the row allowed it. Two things
follow. `SettledIsFinal` says when a finished session can be trusted: not when it says
SUBMITTED, but when it does and no handler that read it earlier is still about to
write. Recruiters, scores and exports that read the row have no way to know.

`GraceStaysArmed` says, of BullMQ, what can go wrong with the automatic submission
of a session that is disconnected: the handler that carries it fails or its process
dies, or the add is ignored because the job id is held. It does not excuse the
old job: as long as that is still to read or write the row, it *carries* the submission
too, and the property holds because it will.

`ImplementsUploadQueue` and `ImplementsNotebook` leave out what `Evidence` and
`Simulation` are about inside: requests, replies, rows, objects, memory, restarts. The
first says that what is done with is recorded and what was not seen is not, and, until
stop() has taken the queue from a loop or clips from the queue, that one incident is worked
at a time and is given up only after a first try, its retries and a report. What a
cut-off does is part of it: an item that waits may be lost, one that is worked at may not,
and two may be worked at. The second says that nobody is
told of what is not on file, that what is on file stays, and that an evaluation has
every text told before, whatever was lost from memory in between.

## 5. Bounds and fairness

**SessionLifecycle.** One request slot, one monitor, one worker, one tab. A second
concurrent request adds no status that the one slot, interleaved with the
monitor and the worker, does not produce; the theorems of section 6 hold for any number.
`MaxDisconnectCount` is 3 as in `config/configuration.ts` (2 for liveness), the
windows 1 tick (3 where the window's length is the question), so that both sides
of each comparison occur. `RestartBound` is a bound on the model: a *run* revives
an AUTO_SUBMITTED session only below this disconnect count, which keeps
`disconnectCount` finite. Each cfg limits `Routes` and `DriveStates` to those its
question involves; between them the passing runs take every action.

`MCSafety` has one monitor, since the scan is one BullMQ job at concurrency 1.
In local mode a scan longer than its interval can overlap the next one;
`CountNeverDrops` and `DisconnectsAccounted` assume `SingleMonitor` and say so.
`DisconnectedIsResumable` and `ImplementsProtocol` do not, and are proved without it.

**InviteRedemption.** Two invites, two sessions, two drives, one candidate, one
start request, one staff call; ids are interchangeable (symmetry). There is no state
constraint. With two start slots the single-session promise fails at once (`invite_fork`).

**Grading.** One question of each module (one text, which is right), two
executions, two slots each for requests, gradings and decisions; slots and ids
are interchangeable. `Bounded` keeps two calls in flight at a time: every race of
two is followed, with every state a third may have left behind. It also limits
the questions and executions a state may combine (`MCGrading` lists how); two
executions of one question, and a second coding or SQL question beside it, are
reached before a score and one of them after.

**Evidence.** Two incidents in one cooldown and two buckets: the only place where
the cooldown and the row's id disagree. Two tries, two server slots, two loops, two
fresh row ids. `Bounded` limits what is left behind in a state: a request nobody waits
for or a post kept in localStorage, and one clip record; once the queue has been cut off
just one of these, such a request only while both loops are at work. There are two failed
tries in all, and cleanups while the server has no request (they touch no row and no object).
`QueueDrains` speaks of the behaviours within these limits. A client that has
used all its tries really stops, so deadlock is not checked. `MCRetention` is the same
instance.

**Simulation.** Two requests, three state objects. A state after a lapse is not
followed: every property but `TypeOK` holds there by its condition.
Say and reply are not repeated once told, and the requests that overlap are of
different kinds, out of say, reply, edit and submit, or one of those with a
minor one. `Seen` is the state without objects nothing refers to.

In these modules every disjunct of every action occurs (TLC's coverage shows
no expression of them unevaluated).

**CandidateApp.** The clock runs to `MaxTime`, a tab loads `MaxLoads` pages, and
there are as many functions under way as slots. Two tabs with two pages each: a
reload meets the messages of the page before. Two slots: a call of the page
before is still under way while the next page starts. One question whose
submission looks at the status, a second session for when the first is finished,
and a clock that reaches past the deadline, the grace window and the tab's own
time, which starts after the waiting room.

`Bounded` follows what two tabs do to each other only at the first instant, with one
function under way and three pages in all, before anything is answered, sent, lost or
scanned, and until a late answer forces a tab back, where `OneTabWorks` says
nothing (`Calm`). The rest is followed with one tab, two functions and two pages, and there
four complications one at a time (`Troubles`): handlers that write what they decided
earlier, a full localStorage, a second session, and an answer that is not sent; with a
complication one function is under way, or two on the first page for the late writes.
One decision about a session is on its way at a time. More tabs, questions, functions,
decisions and complications together are left to the proofs. Pages and time are bounded, so
the run ends and deadlock is not checked. `WorkKept` compares the store with itself for
one session only: a lost call of an earlier page together with a run that revives a
session can leave two active sessions, between which the app then changes.
`MCAutoSubmitted` has one tab, one session and one question, no monitor and no lost calls:
what it shows needs none of them.

**Fairness in CandidateApp** (`ExpiryEnds`): a call is answered, a
function goes on with the answer, a submission that has to start its session does so
(`LateWrite` of a start), and the timer's interval fires while its page is open. The clock need not run, nobody needs to type, click or return, and any call may be lost.

**Fairness in Evidence** (`QueueDrains`): weak fairness of the browser's two
workers, which re-arm their timers for as long as the page is open (`Begin` by the timer,
`Retry` and `End` of each loop, `Resend`), of sending, and of every step of a request on the server, a failure included: an HTTP request
ends. Nothing is assumed of the network, which may fail every time; the number of
tries is what ends the queue, and that is what the property is about.

**Fairness in SessionLifecycle** (`FairSpec`, `lifecycle_liveness` only): weak
fairness of each request's own steps (the server finishes what it received), of
each monitor (the scheduler repeats the scan every 10 s), of the worker, and of
time. Nothing is assumed of candidates or staff. A drive may close, a deadline
may pass; neither is forced. Under faults there is nothing to prove: if the
enqueue after a disconnect fails, or a failed job keeps the job id
(`removeOnFail: false`), no timer exists and nothing in the code looks for such a
session again, so the liveness run has `Faults = FALSE`.

## 6. Proofs

All for every value of the constants, from the assumptions that the modules
name (`LifecycleAssumption`, `RedemptionAssumption`, `GradingAssumption`,
`EvidenceAssumption`, `SimulationAssumption`, `AppAssumption`: None is not a value of any other
kind; slots are disjoint; limits are naturals and the disconnect limit is not
zero), which TLC evaluates in the passing runs. The theorems have no state
constraint: what `Bounded` leaves out of a run, they cover.

| Theorem | States | Inductive invariant |
|---|---|---|
| `TypeCorrect` | `[]TypeOK` | itself |
| `DisconnectedStaysResumable`, `DisconnectsAreAccounted`, `DisconnectsNeverForgotten` | the three bookkeeping properties | `TypeOK /\ DisconnectInv` |
| `LifecycleImplementsProtocol` | `SessionLifecycle` implements `StatusProtocol` | `TypeOK`, as a step lemma per handler |
| `ProtocolTyped`, `ProtocolStages`, `ProtocolSettles` | of `StatusProtocol`: `[]TypeOK`, `StagesFollow`, `SettledIsFinal` | its `TypeOK` |
| `LifecycleFollowsStages`, `LifecycleSettles` | `FollowsStages`, `SettledIsFinal` of `SessionLifecycle` | by the refinement, from the two above |
| `GraceJobIsKept` | `GraceStaysArmed` | `TypeOK`; the argument is per handler |
| `InvitesTypeCorrect` | `[]TypeOK` | `Typed` |
| `RedeemedStaysLinked`, `LinksStayRight` | `[]RedeemedIsLinked`, `[]LinkedSessionMatches` | `Typed /\ Linked` |
| `StaysSingle`, `ActiveLinksSurvive` | `[]OneActiveSession`, `ActiveLinkKept` | `Typed /\ Linked /\ OneActiveSession /\ Alone` |
| `GradingTypeCorrect`, `ClosingsEndInScore` | `[]TypeOK`, `ClosingEndsInScore` | `Typed` |
| `DecisionIsAudited` | `[]DecisionAudited` | itself |
| `DrainedAnswersSealed` | `AnswersSealed` | `Typed /\ Drained` |
| `ReviewsAreEarned` | `[]ReviewedIsEarned` | `Typed /\ LoadsConfident /\ ReviewedIsEarned` |
| `ScoresAreCurrent` | `[]ScoreIsCurrent` | `Typed /\ Current` |
| `SubmittedAnswersRan`, `FullMarksEarned` | `[]SubmittedAnswerRan`, `[]FullMarkEarned` | `Typed /\ Kept` |
| `EvidenceTypeCorrect`, `DoneIsKept` | `[]TypeOK`, `[]DoneIsRecorded` | `Inv` |
| `CooldownHolds` | `[]CooldownKept` | `Inv`, and `Spread` until disturbed |
| `EvidenceImplementsQueue` | `Evidence` implements `UploadQueue` | `Inv /\ Seen /\ WorkersOK` |
| `SimulationTypeCorrect` | `[]TypeOK` | `Typed` |
| `ToldStaysKept`, `ResultsAreComplete`, `ActionsStayKept`, `MailStaysSingle` | `[]ToldIsKept`, `[]ResultIsComplete`, `ActionsKept`, `MailedOnce` | `QuietInv` |
| `SimulationImplementsNotebook` | `Simulation` implements `Notebook` | `QuietInv` |
| `TypeInvariant` | `[]TypeOK` of `CandidateApp` | `Typed` |
| `OneTab` | `[]OneTabWorks` | `Typed /\ Settling` |
| `DoneDelivered` | `[]DoneIsDelivered` | `Typed /\ Delivery` |
| `WorkIsKept` | `WorkKept` | `Typed /\ Mirrored` |

*Disconnects.* The row alone is not inductive: markDisconnected writes
`seen[m] + 1` and `since[m]`, so what an in-flight scan holds must be known
(`MarkDecided`: it has sampled the clock and, with one monitor, the count it read is still the row's). Every
other handler is *quiet*: it leaves the counters and monitors alone and does not
disconnect, and one lemma (`QuietSafe`) covers them all.

*Refinement.* `Intent` maps a handler at its write to the status it will store.
A read step maps to Decide or a stutter, a write to Apply, a failure or restart
to Withdraw, a removal to Remove.

*Composition.* `StatusProtocol` is small enough to prove things of directly. Two lemmas say all
that one of its steps does, to the status (`StatusMoves`) and to what each handler is about to
write (`IntentMoves`), and the theorems are read off them. Its theorems
hold of `SessionLifecycle` because that implements it: `SessionProtocolProofs`
instantiates `StatusProtocolProofs` with the refinement mapping and cites its theorems.
`LifecycleFollowsStages` closes the circle: the stage moves that `InviteRedemption`
leaves to the other handlers, and its theorems therefore allow for, are all the moves
there are. Stating it showed that they were not: a handler that read an active session
may write after the candidate was removed, so an ABANDONED session goes on, which
`Revive` now includes.

*The grace job.* A handler *carries* the job from the disconnect it wrote to the add,
or, as the job, from its start to its write. The proof goes by handlers: what is not a
monitor's mark or the worker neither disconnects nor takes a job (`RequestArmed`), a
mark that disconnects carries on (`MarkArmed`), the worker lets go only when it has written
or finds the session no longer disconnected (`AutoSubmitArmed`).

*Links.* What makes `LinkedSessionMatches` hold is what each request has read and
how much of it can still have changed. `ReqFollowsInvite`: the drive a request
read is the invite's, or is deleted (the foreign key then refuses the insert).
`ReqOwnsSession`: the session about to be linked is known to no invite and is on
no deletion list. `CallFits`: an extend that read REDEEMED read it of an invite
that is linked, or whose drive is gone (`Settled`), and stays so. Deleting a
drive is the hard case, since its lists are older than the transaction.

*One session.* `Alone`: past its search a request knows that its candidate has no
active session but the one it has just created. It holds only when starts do not overlap and no session that was over
has gone on, which is what `Undisturbed` says.

*Full marks.* A mark is earned several steps before it is saved. `Kept` follows
it: an execution under way belongs to one request (`Owned`), a request that is
to save an answer holds one that ran (`Routed`, `FullDone`, `SavesRan`), and the
marks a grading has loaded were earned when it loaded them (`LoadsEarned`); what
a question's executions show only grows.

*Sealed answers.* `drained` is set once the session is finished and the requests
that passed a status check before are answered. `Drained` says that this lasts
until the session is reopened: a later request of a checked kind is refused. The
property exempts the kinds that have no check.

*Upload queue.* The phase of an item is a function of the incident's step. Two things take
an argument. A request on the server can record an incident only if the browser had
submitted it: `Seen` says so of every request and every kept post, also those whose
browser has long given up on them; and a request for which a browser waits is about the
incident it waits for (`LinksOK`), so a reply says what it seems to. And one
item is worked at a time: `WorkersOK` says that the clip of a loop is the only one it works
at, and that until the queue is cut off every loop under way is the one that holds
`isProcessing`. Of two loops each still works at one clip, but nothing more is true.

*Kept simulation.* `QuietInv` holds until a lapse. The memory covers the stored
snapshot and every snapshot being written (`Covered`); of two being written the
later has all of the earlier (`Ordered`), and one that is not late adds to the
stored one (`Ahead`). Restarts then lose nothing that was told, since what is
told is already `Recorded`. For the refinement this is all there is to say: the notes
are those of the stored snapshot (`FileGrows`), a restart changes none of them, and an
answer is given only for what is there (`AnswerNotes`).

*One tab.* Of any two tabs at work one is `Doomed`: a message that will make it
step aside is in its inbox, or another tab has yet to hear that it was opened and
will object (`Announced`). `Settling` says this of every pair while no tab was forced; when
every inbox is empty no tab is doomed, so no two are at work. The objection names
a page, not a tab, which is why a reload is safe: the new page announces itself again.

*Delivery.* A sync function whose calls all succeeded so far has every answer that is sent,
but those it has yet to send, at the server; once it has closed, the session is SUBMITTED or
overtaken (`Sound`). `Grows` says what the others do to that: no step of the server takes
an answer away, and a write over SUBMITTED makes the session overtaken. Each handler has a
lemma that it grows and that its function stays sound (`StepDelivers` is their common part).
That `overtaken` names no more than the sessions a late write took back is the action
`Writes`, which is all that adds to it.

*Kept work.* `Mirrored`: as long as no two tabs were open at once, and localStorage has
taken the assessment and its clock, what is stored has the session and the clock of the open
tab and no answer that the tab does not have; of the answers the tab may have more, which
localStorage refused. So what a tab writes is what was there, or more.

Every invariant, action property and refinement of a passing run is proved. Only
model-checked: the liveness properties `StaleIsDetected`, `ArmedTimerResolves`,
`ExpiredIsSwept`, `QueueDrains` and `ExpiryEnds` (fairness and ENABLED are outside
the prover's reach), and the counterexamples.

## 7. Findings

Each is a `violation` run whose property is a sentence of the repository's own
documents, comments or tables; the quotation is in `PROJECT.json`.

1. **The second disconnect can get a short grace window.** The job id is per session and
   a resume leaves the first job waiting, so the next disconnect's add is ignored.
2. **A session submitted at the disconnect limit is neither scored nor reaped.**
3. **Two overlapping starts with one link create two active sessions.**
4. **Retention keeps the objects.** A clip's record refers to its object by a presigned
   URL, which is the name of no object: `deleteObject` reports success, the record goes and
   the object stays. The proctoring plan has the retention job remove both
   (`src/docs/references/Proctoring_Completion_and_Audio_Detection_Implementation_Plan (1).md:156`).
5. **An automatic submission that the server refuses is reported as made.** The server's
   deadline runs from `/begin` (`session/session.service.ts:363`), the tab's clock from
   the end of the waiting room. When the tab's time is over, and the drive is too, every
   answer and the close are refused, which `services/session-api/real.ts:214` and
   `routes/SyncingScreen.tsx:54` swallow. `routes/DoneScreen.tsx:74` says "your
   last-saved answers were submitted automatically"; `DoneIsDelivered` holds only
   for reports that are `clean`.

Met while modelling. No run is kept for these; the models contain the behaviour,
and TLC finds the trace when the condition named is dropped or the claim stated.

In the candidate's app:

- *Claiming the session loses it again.* The conflict screen promises that claiming
  "will resume your state safely" (`routes/SessionConflictScreen.tsx:54`). The claim is
  posted on a channel object of its own with an id of its own (lines 7, 12), so the
  claiming page hears it as another tab's and steps aside (`Claim`, `Hear`).
- *A late answer makes a second tab active.* "Only one session tab can be active at a
  time" (line 45), but `resolve()` forces the screen whatever is shown by then
  (`routes/InviteResolver.tsx:81`). `OneTabWorks` holds only without `forced`.
- *A second tab overwrites the answers of the first* in localStorage with the copy it
  was loaded with (`store/sessionMachine.ts:117`), and a page loaded after the time is
  over empties the assessment it should submit (line 168), though progress is
  "continuously autosaved". `WorkKept` holds only without `shared` and before `Over`.
- *Answers that are never sent count as sent.* Those of a simulation, of debugging and of
  questions that the list does not have resolve without a call
  (`services/session-api/real.ts:200`), so that a report may be `clean` without them (`Sent`).
- *A creation clicked twice starts the assessment anew.* The tutorial's button can be
  clicked while the first call is under way; an answer that comes when the time of the
  assessment is over, or with another session, replaces it by an empty one with a clock that
  has yet to start (`routes/TutorialScreen.tsx:122`). `ExpiryEnds` names this case.
- *Time that runs out on the review screen submits nothing* (`components/Timer.tsx:85`),
  though "your work will be auto-submitted when the timer reaches zero" (line 110).
  `ExpiryEnds` is about the assessment screen.
- *A link opened after its session was submitted gives a new session*
  (`session/session.service.ts:222` looks for active ones only), so the app's "lock
  access" (`routes/InviteResolver.tsx:31`) is never reached.
- *Candidates at work are taken for disconnected.* The app sends no heartbeat, though
  `src/docs/partner-integration/COMPLETE_API_ENDPOINTS_CATALOG.md:67` has it sent every
  15 s: `Scan` and `AutoSubmit` need no absence.

In the server:

- *Local mode never auto-submits.* The bootstrap registers the handler as
  `disconnect-grace-window` (`queue/local-fake-queue-handlers.bootstrap.ts:18`), the job is
  enqueued as `auto-submit`, and the in-process queue looks handlers up by name, though
  "grace-window auto-submission" is to run there too (`src/docs/architecture/INFRA_MODE.md:6`).
  With `Bullmq = FALSE`, `JobHandled` drops the job.
- *SUBMITTED is not final.* markDisconnected, autoSubmit and runs update by id after an
  await (`session/session.service.ts:704`); a close in between is overwritten, though the
  table of `session/session-state-machine.ts:16` has SUBMITTED lead to CLOSED only.
  `SettledIsFinal` and the `overtaken` of `DoneIsDelivered` name this case.
- *A disconnected session may be left without a timer, also when nothing fails.* A
  candidate resumes while the first grace job is at its read; the job reads IN_PROGRESS and
  is about to end, but its id is taken until it has. If the monitor disconnects the session
  again in that moment, its add is ignored (`AddIgnored`) and the session stays
  DISCONNECTED. The same follows from a failed job, which keeps its id
  (`removeOnFail: false`), from a crash or from a rejected add
  (`session/session.service.ts:726`). `GraceStaysArmed` says that there is no other way.
- *A removed candidate's session may go on.* Removing a candidate from a drive sets
  ABANDONED; a begin, resume, run or mark that read the session before writes its own
  status over it.
- *A simulation that began with a say cannot be submitted.* The say replaces the payload
  that held the log (`simulation/simulation.service.ts:241`); the submission's log entry
  then throws after the evaluation (`LogFails`), and neither answer nor score is written.
- A clip that is uploaded in a retry is posted with its presigned URL, which replaces
  the object's key in the row and cannot be signed again (finding 4 is what becomes of it).
- Clips uploaded at the first try never get an IntegrityFlag, since only posted
  events are evaluated.
- `flush` at the end of an assessment tries the queue once, or not at all beside a loop, and
  `reset` then empties it, without the FAILED event the class comment speaks of
  (`src/frontend/candidate-web/src/proctoring/evidence-upload.service.ts:42`); a loop that was
  awaiting goes on beside the next one and replaces its queue. `ImplementsUploadQueue` allows
  just that once the queue is `cut`.
- A rejected prompt can take back a submission that came in between.

## 8. Not modelled, and the plan

Not modelled:

- Drives' own fields, question sets and snapshots, questions and role templates:
  CRUD of administrators; candidates see snapshots.
- Judge0's polling: its result and its failure are inputs of `Grading`. It keeps no state
  beyond the call.
- The evaluators' arithmetic (weights, rounding, say-do heuristics): functions
  of the marks, with no interaction. The guardrails and language models of AI
  prompting and simulation: inputs.
- Correlation rules of evaluateEvent (counts of other events that raise flags).
- The idempotency interceptor: only the partner's candidate routes use it, and
  those are not modelled; neither are partner authentication, settings, dashboards
  and health, which are key-value or read-only.
- Consent, selfie upload and its deletion: one write each.
- Of the candidate web app the editors, the computer vision, the scheduled invites and
  the rendering, and the admin web app: rendering and form state. About a third of the repository's lines are such components, and
  another third is MediaPipe's compiled runtime under `public/mediapipe`.

Hazards known and not listed in `PROJECT.json`, for the next to look at. Those the models
contain, and no property speaks of: a heartbeat that lands between the scan's query and its mark
(`queue/heartbeat.service.ts:61`); two requests that look for an event within one cooldown and
both write one (`proctoring/proctoring.service.ts:118`); a rejected prompt that writes back the
answer it read (`ai-prompting/ai-prompting.service.ts:259`); a payload without a log, after which
every log entry throws (`simulation/session-log.service.ts:217`); two decisions of which the later
goes by what it read before the first (`admin/admin.service.ts:653`). Those they do not: the
simulation log loses entries of overlapping requests (`simulation/session-log.service.ts:110`);
`removeOnFail: false` keeps a failed job under its id
(`queue/bullmq-queue.provider.ts:39`); revokeInvite writes by id after its check
(`admin/invite.service.ts:172`); generateLinks starts its updates before the transaction
(`drive/drive.service.ts:968`); two requests with one idempotency key both run
(`common/interceptors/idempotency.interceptor.ts:20`).

Left to do: nothing among the safety properties is unproved. What remains is to
model more of the components above; to show that the status moves of `Grading` and
`CandidateApp` too are those of `SessionLifecycle`, as `SessionStages` does for
`InviteRedemption`; and an abstract specification of grading, in which a session's score is
one that its answers had.
