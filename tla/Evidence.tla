------------------------------ MODULE Evidence ------------------------------
(***************************************************************************)
(* Proctoring evidence, from the candidate's browser to its deletion.      *)
(*                                                                         *)
(* The browser uploads the clip of an incident; an upload that fails waits *)
(* in a queue and is tried again, and a retry that succeeds also posts the *)
(* event.  The server looks for an event of the same kind within the       *)
(* cooldown, puts the clip into the object store and then writes the row,  *)
(* with other requests in between; a posted event leads to an integrity    *)
(* flag and a record of the clip, which a cleanup removes, with the        *)
(* object, once it has expired.  A reply may be lost while the request     *)
(* goes on, so the server may do the same work twice.                      *)
(*                                                                         *)
(* One session and one kind of event, with a cooldown and a flag category  *)
(* as PHONE_DETECTED has: the others lack one or the other.  Time is in    *)
(* ticks no longer than a second, the resolution of an object's key.  The  *)
(* session exists and is not abandoned; the page is not left.  Signing a   *)
(* reference that is a URL already gives a URL.                            *)
(***************************************************************************)
EXTENDS Integers, FiniteSets

CONSTANTS
  Incident,    \* what the detection engine saw
  At,          \* when: Incident -> Nat
  Cooldown,    \* ticks
  MaxTries,    \* MAX_RETRY_ATTEMPTS, and MAX_ATTEMPTS of the event queue
  Handler,     \* slots for requests on the server
  Loop,        \* slots for loops of the browser's queue worker
  Uuid,        \* ids of rows that are created without one
  None

Near(a, b) == a - b < Cooldown /\ b - a < Cooldown

\* The id evt_<session>_<type>_<bucket> of an uploaded event, as its bucket.
Bucket(i) == At[i] \div Cooldown

\* The name of an object ends with the second and with the start of the row's
\* id, which is the same for all ids that are made from the session's.
Key     == [at : {At[i] : i \in Incident}, of : Uuid \cup {None}]
KeyOf(i, r) == [at |-> At[i], of |-> IF r \in Uuid THEN r ELSE None]
RowId   == {Bucket(i) : i \in Incident} \cup Uuid

\* What stands in a clip column: the key of an object, or a presigned URL.
Ref       == [key : Key, signed : BOOLEAN]
Object(k) == [key |-> k, signed |-> FALSE]
Url(k)    == [key |-> k, signed |-> TRUE]
RefOrNone == Ref \cup {None}

\* The rows of the tables, and a post that is kept.
Status   == {"UPLOADED", "FAILED"}
EventRow == [at : {At[i] : i \in Incident}, clip : RefOrNone, status : Status]
Clip     == [ref : Ref, expired : BOOLEAN]
Post     == [i : Incident, clip : RefOrNone, status : Status, tries : 1..MaxTries]

ASSUME EvidenceAssumption ==
  /\ At \in [Incident -> Nat]
  /\ Cooldown \in Nat \ {0}
  /\ MaxTries \in Nat \ {0}
  /\ None \notin Incident \cup Handler \cup Loop \cup Uuid \cup Int
  /\ None \notin Ref /\ None \notin EventRow /\ None \notin Clip

VARIABLES
  client,    \* of each incident: where its clip is, tries, the url it got, the
             \* request it waits for and the loop that has it
  worker,    \* the loops of processQueue: idle, begun by the timer or by flush
  live,      \* the loop that goes through retryQueue: isProcessing, if not None
  outbox,    \* posts that failed, kept in localStorage
  handler,   \* requests on the server, with what they have read
  row,       \* ProctoringEvent rows
  stored,    \* keys of the objects in the store
  clips,     \* EvidenceClip rows (equal rows are one)
  cleaner,   \* the clip record that is being cleaned up
  \* history
  cut,       \* reset emptied the queue under a loop, or of clips it still had
  heldBy,    \* the row each incident was last recorded in
  disturbed  \* writers within one cooldown overlapped, or a row was moved

queue     == <<worker, live, cut>>
retention == <<clips, cleaner>>
vars == <<client, queue, outbox, handler, row, stored, retention, heldBy, disturbed>>

NoHandler == [step |-> "idle", task |-> None, i |-> None, clip |-> None,
              status |-> None, dup |-> None, tries |-> 0]

Init ==
  /\ client  = [i \in Incident |->
                 [step |-> "unseen", tries |-> 0, clip |-> None, on |-> None,
                  loop |-> None]]
  /\ worker  = [l \in Loop |-> "idle"]
  /\ live    = None
  /\ cut     = FALSE
  /\ outbox  = {}
  /\ handler = [h \in Handler |-> NoHandler]
  /\ row     = [r \in RowId |-> None]
  /\ stored  = {}
  /\ clips   = {}
  /\ cleaner = None
  /\ heldBy  = [i \in Incident |-> None]
  /\ disturbed = FALSE

-----------------------------------------------------------------------------
(* The browser: EvidenceUploadService and ProctoringEventService *)

\* A loop of the queue worker is at a clip; it takes one after the other.
Working == {"retrying", "posting", "reporting"}

Capture(i) ==
  /\ client[i].step = "unseen"
  /\ client' = [client EXCEPT ![i].step = "sending"]
  /\ UNCHANGED <<queue, outbox, handler, row, stored, retention, heldBy>>

\* Clips in retryQueue that no loop goes through.
Unclaimed == {i \in Incident : client[i].step = "queued" /\ client[i].loop = None}

\* processQueue, of the timer or of flush: nothing without clips or beside a
\* loop that goes through the queue, else a loop through what is in it and what
\* is pushed to it meanwhile.
Begin(l, by) ==
  /\ live = None /\ Unclaimed # {} /\ worker[l] = "idle"
  /\ client' = [i \in Incident |-> IF i \in Unclaimed THEN [client[i] EXCEPT !.loop = l]
                                                    ELSE client[i]]
  /\ worker' = [worker EXCEPT ![l] = by]
  /\ live'   = l
  /\ UNCHANGED <<cut, outbox, handler, row, stored, retention, heldBy>>

\* Mutant of Retry: all clips are tried at once.
RetryBeside(i) ==
  /\ client[i].step = "queued" /\ client[i].loop # None
  /\ client' = [client EXCEPT ![i].step = "retrying"]
  /\ UNCHANGED <<queue, outbox, handler, row, stored, retention, heldBy>>

Retry(i) ==
  /\ client[i].step = "queued" /\ client[i].loop # None
  /\ \A j \in Incident : client[j].loop = client[i].loop => client[j].step \notin Working
  /\ client' = [client EXCEPT ![i].step = "retrying"]
  /\ UNCHANGED <<queue, outbox, handler, row, stored, retention, heldBy>>

\* A loop has been through.  What is to be tried again becomes the queue, in
\* place of what was pushed since a reset; flush is followed by another reset.
End(l) ==
  /\ worker[l] # "idle"
  /\ \A i \in Incident : client[i].loop = l => client[i].step = "tried"
  /\ LET again == {i \in Incident : client[i].loop = l}
         lost  == Unclaimed \cup (IF worker[l] = "flush" THEN again ELSE {})
     IN  /\ client' = [i \in Incident |->
              IF i \in again \cup lost
                THEN [client[i] EXCEPT !.step = IF i \in lost THEN "dropped" ELSE "queued",
                                       !.loop = None]
                ELSE client[i]]
         /\ cut' = (cut \/ lost # {})
  /\ worker' = [worker EXCEPT ![l] = "idle"]
  /\ live'   = None
  /\ UNCHANGED <<outbox, handler, row, stored, retention, heldBy>>

\* stop(), with the assessment or a start that fails, calls flush and then
\* reset.  A loop through the queue makes flush return at once; reset takes the
\* queue from that loop, which goes on with the clips it has.
Stop ==
  \/ \E l \in Loop : Begin(l, "flush")
  \/ /\ live # None
     /\ live' = None /\ cut' = TRUE
     /\ UNCHANGED <<client, worker, outbox, handler, row, stored, retention, heldBy>>

\* What the client sends: the clip, or an event with the url it was given, or
\* the event alone when it gives the clip up.
Request(i) ==
  [NoHandler EXCEPT
    !.step   = "find",
    !.task   = IF client[i].step \in {"sending", "retrying"} THEN "upload" ELSE "event",
    !.i      = i,
    !.clip   = IF client[i].step = "posting" THEN client[i].clip ELSE None,
    !.status = IF client[i].step = "reporting" THEN "FAILED" ELSE "UPLOADED"]

Send(i, h) ==
  /\ client[i].step \in Working \cup {"sending"} /\ client[i].on = None
  /\ handler[h].step = "idle"
  /\ client'  = [client EXCEPT ![i].on = h]
  /\ handler' = [handler EXCEPT ![h] = Request(i)]
  /\ UNCHANGED <<queue, outbox, row, stored, retention, heldBy>>

\* What becomes of an incident when its request succeeds ...
Succeeded(c, url) ==
  IF c.step = "retrying"
    THEN [c EXCEPT !.step = "posting", !.clip = url, !.on = None]
    ELSE [c EXCEPT !.step = "done", !.on = None, !.loop = None]

\* The first upload fails: its clip goes to the queue, and to the loop that goes
\* through it.
Queued(c) == [c EXCEPT !.step = "queued", !.tries = 1, !.on = None, !.loop = live]

GivenUp(c) == [c EXCEPT !.step = "dropped", !.on = None, !.loop = None]

\* Mutant of Failed: the tries are not counted.
FailedUncounted(c) ==
  CASE c.step = "sending"   -> Queued(c)
    [] c.step = "reporting" -> GivenUp(c)
    [] OTHER -> [c EXCEPT !.step = IF c.tries = MaxTries THEN "reporting" ELSE "tried",
                          !.on   = None]

\* Mutant of Failed: one try too many.
FailedOnceMore(c) ==
  CASE c.step = "sending"   -> Queued(c)
    [] c.step = "reporting" -> GivenUp(c)
    [] OTHER ->
         [c EXCEPT !.step  = IF c.tries > MaxTries THEN "reporting" ELSE "tried",
                   !.tries = IF c.tries > MaxTries THEN c.tries ELSE c.tries + 1,
                   !.on    = None]

\* ... and when it fails: after the last try the event is reported without the
\* clip, and no more is done if that fails.
Failed(c) ==
  CASE c.step = "sending"   -> Queued(c)
    [] c.step = "reporting" -> GivenUp(c)
    [] OTHER ->
         [c EXCEPT !.step  = IF c.tries = MaxTries THEN "reporting" ELSE "tried",
                   !.tries = IF c.tries = MaxTries THEN c.tries ELSE c.tries + 1,
                   !.on    = None]

\* The reply of request h to the client that waits for it, if one does.
Replied(h, url) ==
  [i \in Incident |-> IF client[i].on = h THEN Succeeded(client[i], url) ELSE client[i]]
Refused(h) ==
  [i \in Incident |-> IF client[i].on = h THEN Failed(client[i]) ELSE client[i]]

\* A post that fails on the way is also kept for later.
Kept(i) ==
  IF client[i].step \in {"posting", "reporting"}
    THEN {[i |-> i, clip |-> Request(i).clip, status |-> Request(i).status, tries |-> 1]}
    ELSE {}

\* The connection breaks: the client counts a failure, the request goes on.
ConnectionLost(i) ==
  /\ client[i].on # None
  /\ client' = [client EXCEPT ![i] = Failed(client[i])]
  /\ outbox' = outbox \cup Kept(i)
  /\ UNCHANGED <<queue, handler, row, stored, retention, heldBy>>

\* What is kept of a post in localStorage when it has failed once more.
Again(p) == IF p.tries < MaxTries THEN {[p EXCEPT !.tries = p.tries + 1]} ELSE {}

\* One kept post after the other.  If the reply will be lost the post is as
\* good as failed.
Resend(p, h) ==
  /\ p \in outbox
  /\ \A g \in Handler : handler[g].tries = 0
  /\ handler[h].step = "idle"
  /\ \E lost \in BOOLEAN :
       /\ outbox'  = (outbox \ {p}) \cup (IF lost THEN Again(p) ELSE {})
       /\ handler' = [handler EXCEPT ![h] =
            [step |-> "find", task |-> "event", i |-> p.i, clip |-> p.clip,
             status |-> p.status, dup |-> None, tries |-> IF lost THEN 0 ELSE p.tries]]
  /\ UNCHANGED <<client, queue, row, stored, retention, heldBy>>

-----------------------------------------------------------------------------
(* The server: uploadEvidenceAndCreateEvent, createEvent, evaluateEvent *)

\* Mutant of Duplicates: an event that came after it in time does not count.
EarlierDuplicates(i) ==
  {r \in RowId : row[r] # None /\ row[r].at <= At[i] /\ Near(row[r].at, At[i])}

\* findRecentDuplicateEvent returns one of these.
Duplicates(i) == {r \in RowId : row[r] # None /\ Near(row[r].at, At[i])}

\* The duplicate that request h may have found: None if there is none.
Found(h) == LET D == Duplicates(handler[h].i) IN IF D = {} THEN {None} ELSE D

\* An event that has its clip already is returned as it is.
FindForUpload(h) ==
  /\ handler[h].step = "find" /\ handler[h].task = "upload"
  /\ \E d \in Found(h) :
       IF d # None /\ row[d].clip # None /\ row[d].status = "UPLOADED"
         THEN /\ handler' = [handler EXCEPT ![h] = NoHandler]
              /\ client' = Replied(h, Url(row[d].clip.key))
              /\ heldBy' = [heldBy EXCEPT ![handler[h].i] = d]
         ELSE /\ handler' = [handler EXCEPT ![h].step = "put", ![h].dup = d,
                               ![h].clip = IF d = None THEN None ELSE row[d].clip]
              /\ UNCHANGED <<client, heldBy>>
  /\ UNCHANGED <<queue, outbox, row, stored, retention>>

Target(h) == IF handler[h].dup = None THEN Bucket(handler[h].i) ELSE handler[h].dup

\* The object of request h.
KeyAt(h) == KeyOf(handler[h].i, Target(h))

\* Mutant of Put: the reply does not wait for the row.
PutAndReply(h) ==
  /\ handler[h].step = "put"
  /\ stored'  = stored \cup {KeyAt(h)}
  /\ handler' = [handler EXCEPT ![h].step = "upsert"]
  /\ client'  = Replied(h, Url(KeyAt(h)))
  /\ UNCHANGED <<queue, outbox, row, retention, heldBy>>

\* Two incidents of one second may share an object.
Put(h) ==
  /\ handler[h].step = "put"
  /\ stored'  = stored \cup {KeyAt(h)}
  /\ handler' = [handler EXCEPT ![h].step = "upsert"]
  /\ UNCHANGED <<client, queue, outbox, row, retention, heldBy>>

\* The object that the duplicate named when it was found, if it named another,
\* is deleted.  The row that was found takes the clip and the time; without
\* one, the row of the bucket, if it has come to be since, or a new one.
Upsert(h) ==
  /\ handler[h].step = "upsert"
  /\ stored' = stored \ {k \in Key : handler[h].clip = Object(k) /\ k # KeyAt(h)}
  /\ row' = [row EXCEPT ![Target(h)] =
       [at |-> At[handler[h].i], clip |-> Object(KeyAt(h)), status |-> "UPLOADED"]]
  /\ heldBy'  = [heldBy EXCEPT ![handler[h].i] = Target(h)]
  /\ client'  = Replied(h, Url(KeyAt(h)))
  /\ handler' = [handler EXCEPT ![h] = NoHandler]
  /\ UNCHANGED <<queue, outbox, retention>>

FindForEvent(h) ==
  /\ handler[h].step = "find" /\ handler[h].task = "event"
  /\ \E d \in Found(h) :
       handler' = [handler EXCEPT ![h].dup = d,
                     ![h].step = CASE d = None -> "create"
                                   [] d # None /\ handler[h].clip # None -> "update"
                                   [] d # None /\ handler[h].clip = None -> "keep"]
  /\ UNCHANGED <<client, queue, outbox, row, stored, retention, heldBy>>

\* createEvent answers; what it found or wrote stands for the incident.  The
\* evaluation that follows raises a flag, and for a clip goes on after the reply.
Answered(h, r) ==
  /\ heldBy' = [heldBy EXCEPT ![handler[h].i] = r]
  /\ client' = Replied(h, None)
  /\ handler' = [handler EXCEPT ![h] = IF handler[h].clip = None
                                         THEN NoHandler
                                         ELSE [handler[h] EXCEPT !.step = "clip"]]
  /\ UNCHANGED <<queue, outbox, stored, retention>>

KeepEvent(h) ==
  /\ handler[h].step = "keep"
  /\ UNCHANGED row
  /\ Answered(h, handler[h].dup)

\* The posted reference replaces the one in the row.
UpdateEvent(h) ==
  /\ handler[h].step = "update"
  /\ row' = [row EXCEPT ![handler[h].dup].clip = handler[h].clip,
                        ![handler[h].dup].status = "UPLOADED"]
  /\ Answered(h, handler[h].dup)

CreateEvent(h) ==
  /\ handler[h].step = "create"
  /\ \E u \in Uuid :
       /\ row[u] = None
       /\ row' = [row EXCEPT ![u] = [at |-> At[handler[h].i], clip |-> handler[h].clip,
                                     status |-> handler[h].status]]
       /\ Answered(h, u)

\* The record of the clip hangs on the flag.
RecordClip(h) ==
  /\ handler[h].step = "clip"
  /\ clips' = clips \cup {[ref |-> handler[h].clip, expired |-> FALSE]}
  /\ handler' = [handler EXCEPT ![h] = NoHandler]
  /\ UNCHANGED <<client, queue, outbox, row, stored, cleaner, heldBy>>

\* What is kept when request h fails: by the clients that wait for it, and of a
\* post that came from localStorage while it has tries left.
KeptBy(h) == UNION {Kept(i) : i \in {j \in Incident : client[j].on = h}}
KeptAgain(h) ==
  IF handler[h].tries > 0 /\ handler[h].step # "clip"
    THEN Again([i |-> handler[h].i, clip |-> handler[h].clip,
                status |-> handler[h].status, tries |-> handler[h].tries])
    ELSE {}

\* A call to the store or the database fails, or the process stops.
HandlerFails(h) ==
  /\ handler[h].step # "idle"
  /\ client' = Refused(h)
  /\ outbox' = outbox \cup KeptBy(h) \cup KeptAgain(h)
  /\ handler' = [handler EXCEPT ![h] = NoHandler]
  /\ UNCHANGED <<queue, row, stored, retention, heldBy>>

-----------------------------------------------------------------------------
(* HeartbeatService.cleanupExpiredBiometrics *)

Expire(c) ==
  /\ ~c.expired
  /\ clips' = (clips \ {c}) \cup {[c EXCEPT !.expired = TRUE]}
  /\ UNCHANGED <<client, queue, outbox, handler, row, stored, cleaner, heldBy>>

\* Deletes the object that has the reference for its key, if there is one;
\* whether that succeeds is not looked at.
CleanObject(c) ==
  /\ cleaner = None /\ c.expired
  /\ cleaner' = c
  /\ stored' \in {stored, stored \ {k \in Key : c.ref = Object(k)}}
  /\ UNCHANGED <<client, queue, outbox, handler, row, clips, heldBy>>

CleanRow ==
  /\ cleaner # None
  /\ clips' = clips \ {cleaner}
  /\ cleaner' = None
  /\ UNCHANGED <<client, queue, outbox, handler, row, stored, heldBy>>

CleanFails ==
  /\ cleaner # None
  /\ cleaner' = None
  /\ UNCHANGED <<client, queue, outbox, handler, row, stored, clips, heldBy>>

-----------------------------------------------------------------------------
Serve(h) ==
  \/ FindForUpload(h) \/ Put(h) \/ Upsert(h)
  \/ FindForEvent(h) \/ KeepEvent(h) \/ UpdateEvent(h) \/ CreateEvent(h)
  \/ RecordClip(h) \/ HandlerFails(h)

Step ==
  \/ \E i \in Incident : Capture(i) \/ Retry(i) \/ ConnectionLost(i)
  \/ \E i \in Incident, h \in Handler : Send(i, h)
  \/ \E l \in Loop : Begin(l, "tick") \/ End(l)
  \/ Stop
  \/ \E p \in outbox, h \in Handler : Resend(p, h)
  \/ \E h \in Handler : Serve(h)
  \/ \E c \in clips : Expire(c) \/ CleanObject(c)
  \/ CleanRow \/ CleanFails

\* Requests g and h found no event and will each add a row, and not the same.
Adding(h) == handler[h].dup = None /\ handler[h].step \in {"put", "upsert", "create"}
Overlap(g, h) ==
  /\ g # h /\ Adding(g) /\ Adding(h)
  /\ Near(At[handler[g].i], At[handler[h].i])
  /\ handler[g].task = "upload" /\ handler[h].task = "upload" =>
       Bucket(handler[g].i) # Bucket(handler[h].i)

Moved(r) == row[r] # None /\ row'[r].at # row[r].at

\* The history variable disturbed follows whatever the step does.
Watch == disturbed' = (\/ disturbed
                       \/ \E g, h \in Handler : Overlap(g, h)
                       \/ \E r \in RowId : Moved(r))

Next == Step /\ Watch

\* Both workers of the client go on, and every request ends.
Fairness ==
  /\ WF_vars((\E l \in Loop : Begin(l, "tick")) /\ Watch)
  /\ \A l \in Loop : WF_vars(End(l) /\ Watch)
  /\ \A i \in Incident :
       WF_vars(Retry(i) /\ Watch) /\ WF_vars((\E h \in Handler : Send(i, h)) /\ Watch)
  /\ WF_vars((\E p \in outbox, h \in Handler : Resend(p, h)) /\ Watch)
  /\ \A h \in Handler : WF_vars(Serve(h) /\ Watch)

Spec == Init /\ [][Next]_vars /\ Fairness

-----------------------------------------------------------------------------
(* Properties *)

\* Every variable has its type; a request that is under way names its incident
\* and what it has found.
TypeOK ==
  /\ client \in [Incident ->
       [step : {"unseen", "sending", "queued", "tried", "done", "dropped"} \cup Working,
        tries : 0..MaxTries, clip : RefOrNone, on : Handler \cup {None},
        loop : Loop \cup {None}]]
  /\ worker \in [Loop -> {"idle", "tick", "flush"}]
  /\ live \in Loop \cup {None} /\ cut \in BOOLEAN
  /\ outbox \subseteq Post
  /\ handler \in [Handler ->
       [step : {"idle", "find", "put", "upsert", "keep", "update", "create", "clip"},
        task : {"upload", "event", None}, i : Incident \cup {None}, clip : RefOrNone,
        status : Status \cup {None}, dup : RowId \cup {None}, tries : 0..MaxTries]]
  /\ \A h \in Handler :
       handler[h].step # "idle" =>
         /\ handler[h].i \in Incident /\ handler[h].status \in Status
         /\ handler[h].dup # None => row[handler[h].dup] # None
         /\ handler[h].step \in {"keep", "update"} => handler[h].dup # None
         /\ handler[h].step \in {"update", "clip"} => handler[h].clip # None
  /\ row \in [RowId -> EventRow \cup {None}]
  /\ stored \subseteq Key
  /\ clips \subseteq Clip
  /\ cleaner \in Clip \cup {None}
  /\ heldBy \in [Incident -> RowId \cup {None}]
  /\ disturbed \in BOOLEAN

\* No two events are nearer than the cooldown, unless two requests that found
\* none overlapped or an event was moved to a later incident's time.  An upload
\* that the server does twice because the reply was lost adds one row.
\* (proctoring.service.ts findRecentDuplicateEvent, uploadEvidenceAndCreateEvent)
CooldownKept ==
  ~disturbed =>
    \A r, s \in RowId :
      r # s /\ row[r] # None /\ row[s] # None => ~Near(row[r].at, row[s].at)

\* An incident the browser is done with is recorded in a row.
\* (evidence-upload.service.ts processQueue, proctoring.service.ts)
DoneIsRecorded ==
  \A i \in Incident :
    client[i].step = "done" => heldBy[i] # None /\ row[heldBy[i]] # None

\* Every clip that is queued for another try is settled: there are only so many
\* tries, and each of them ends.  (evidence-upload.service.ts processQueue)
QueueDrains ==
  \A i \in Incident :
    client[i].step = "queued" ~> client[i].step \in {"done", "dropped"}

-----------------------------------------------------------------------------
(* Refinement: browser and server together are an upload queue *)

PhaseOf(step) ==
  CASE step = "unseen"                  -> "new"
    [] step = "sending"                 -> "first"
    [] step \in {"queued", "tried"}     -> "waiting"
    [] step \in {"retrying", "posting"} -> "again"
    [] step = "reporting"               -> "last"
    [] OTHER                            -> step

\* However replies are lost, requests overlap or fail, posts are sent again and
\* stops come, each incident goes through the queue once: an item is done with
\* only if it is recorded, and nothing is recorded that was not seen; until a
\* stop takes the queue from a loop or clips from the queue, one item is worked
\* at a time and is given up only after its tries and a report.
\* (evidence-upload.service.ts processQueue, flush, reset; proctoring.service.ts)
Queue == INSTANCE UploadQueue
           WITH Item <- Incident,
                phase <- [i \in Incident |-> PhaseOf(client[i].step)],
                tries <- [i \in Incident |-> client[i].tries],
                recorded <- {i \in Incident : heldBy[i] # None}
ImplementsUploadQueue == Queue!Spec

-----------------------------------------------------------------------------
(* What the repository promises and the code does not keep *)

\* Proctoring plan: the retention job removes the object and the row.  When the
\* record of an expired clip goes, its object is gone.
\* (heartbeat.service.ts cleanupExpiredBiometrics)
ExpiredIsRemoved ==
  [][\A c \in clips \ clips' : c.expired => c.ref.key \notin stored']_vars
=============================================================================
