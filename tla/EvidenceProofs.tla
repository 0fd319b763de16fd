---------------------------- MODULE EvidenceProofs ----------------------------
(***************************************************************************)
(* Proofs about Evidence, for any incidents at any times, any cooldown,    *)
(* number of tries and requests in flight.  Fairness plays no part.        *)
(***************************************************************************)
EXTENDS Evidence, TLAPS

\* The browser and the clip records only ever hold signed URLs, which are the
\* key of no object.
SignedRef    == [key : Key, signed : {TRUE}]
SignedOrNone == SignedRef \cup {None}
SignedClip   == [ref : SignedRef, expired : BOOLEAN]

ClientRow ==
  [step : {"unseen", "sending", "queued", "tried", "done", "dropped"} \cup Working,
   tries : 0..MaxTries, clip : SignedOrNone, on : Handler \cup {None},
   loop : Loop \cup {None}]

ClientOK(c) ==
  /\ c \in ClientRow
  /\ c.step = "posting" => c.clip # None
  /\ c.on # None => c.step \in Working \cup {"sending"}

HandlerRow ==
  [step : {"idle", "find", "put", "upsert", "keep", "update", "create", "clip"},
   task : {"upload", "event", None}, i : Incident \cup {None}, clip : SignedOrNone,
   status : Status \cup {None}, dup : RowId \cup {None}, tries : 0..MaxTries]

\* An upload holds no clip of an earlier row, for a row that has one needs no
\* upload; an event has a clip just when it says so.
HandlerOK(x) ==
  /\ x \in HandlerRow
  /\ x.step # "idle" =>
       x.i \in Incident /\ x.status \in Status /\ x.task \in {"upload", "event"}
  /\ x.step \in {"put", "upsert"} => x.task = "upload"
  /\ x.step \in {"keep", "update", "create", "clip"} => x.task = "event"
  /\ x.task = "upload" => x.clip = None
  /\ x.task = "event" => (x.status = "UPLOADED" <=> x.clip # None)
  /\ x.step \in {"keep", "update"} => x.dup # None
  /\ x.step = "create" => x.dup = None
  /\ x.step \in {"update", "clip"} => x.clip # None
  /\ x.tries # 0 => x.task = "event"

RowOK(x)  == x \in EventRow /\ (x.status = "UPLOADED" <=> x.clip # None)
PostOK(p) == p \in Post /\ p.clip \in SignedOrNone /\ (p.status = "UPLOADED" <=> p.clip # None)

ClientsOK  == client \in [Incident -> ClientRow] /\ \A i \in Incident : ClientOK(client[i])
OutboxOK   == \A p \in outbox : PostOK(p)
HandlersOK == handler \in [Handler -> HandlerRow] /\ \A h \in Handler : HandlerOK(handler[h])
RowsOK     == row \in [RowId -> EventRow \cup {None}]
              /\ \A r \in RowId : row[r] # None => RowOK(row[r])
ClipsOK    == clips \subseteq SignedClip /\ cleaner \in SignedClip \cup {None}

\* The row a request has found is there.
DupsThere == \A h \in Handler : handler[h].dup # None => row[handler[h].dup] # None

\* The request a client waits for is about its incident, and has yet to answer.
LinksOK ==
  \A i \in Incident, h \in Handler :
    client[i].on = h =>
      /\ handler[h].i = i /\ handler[h].step \notin {"idle", "clip"}
      /\ handler[h].task = "upload" <=> client[i].step \in {"sending", "retrying"}

\* An incident is held by a row that is there; one that is done with is held.
HeldOK ==
  /\ heldBy \in [Incident -> RowId \cup {None}]
  /\ \A i \in Incident : heldBy[i] # None => row[heldBy[i]] # None
  /\ \A i \in Incident : client[i].step = "done" => heldBy[i] # None

StoredOK == stored \subseteq Key

QueueOK == worker \in [Loop -> {"idle", "tick", "flush"}] /\ live \in Loop \cup {None}
           /\ cut \in BOOLEAN

Inv ==
  /\ ClientsOK /\ OutboxOK /\ HandlersOK /\ RowsOK /\ ClipsOK
  /\ DupsThere /\ LinksOK /\ HeldOK /\ StoredOK /\ QueueOK

-----------------------------------------------------------------------------
(* Helpers *)

\* Signed references are references, and None is none of them.
LEMMA Signed ==
  /\ SignedRef \subseteq Ref /\ None \notin SignedRef
  /\ None \notin RowId
  /\ \A k \in Key : Url(k) \in SignedRef /\ Object(k) \in Ref /\ Object(k) \notin SignedRef
  /\ \A x \in Ref : x.key \in Key
<1>1. SignedRef \subseteq Ref
  BY DEF SignedRef, Ref
<1>2. None \notin SignedRef
  BY <1>1, EvidenceAssumption
<1>3. \A i \in Incident : Bucket(i) \in Int
  BY EvidenceAssumption DEF Bucket
<1>4. None \notin RowId
  BY <1>3, EvidenceAssumption DEF RowId
<1>5. \A k \in Key : Url(k) \in SignedRef /\ Object(k) \in Ref /\ Object(k) \notin SignedRef
  BY DEF SignedRef, Ref, Url, Object
<1>6. \A x \in Ref : x.key \in Key
  BY DEF Ref
<1>7. QED  BY <1>1, <1>2, <1>4, <1>5, <1>6

\* What nothing is written to keeps its part of the invariant.
LEMMA Stays ==
  ASSUME Inv
  PROVE  /\ UNCHANGED client => ClientsOK'
         /\ UNCHANGED outbox => OutboxOK'
         /\ UNCHANGED handler => HandlersOK'
         /\ UNCHANGED row => RowsOK'
         /\ UNCHANGED <<clips, cleaner>> => ClipsOK'
         /\ UNCHANGED <<handler, row>> => DupsThere'
         /\ UNCHANGED <<client, handler>> => LinksOK'
         /\ UNCHANGED <<client, row, heldBy>> => HeldOK'
         /\ UNCHANGED stored => StoredOK'
         /\ UNCHANGED queue => QueueOK'
BY DEF Inv, ClientsOK, OutboxOK, HandlersOK, RowsOK, ClipsOK, DupsThere, LinksOK, HeldOK,
       StoredOK, QueueOK, queue

\* A slot that moves to a good record leaves all of them good.
LEMMA ClientMoves ==
  ASSUME ClientsOK, NEW i \in Incident, NEW c, ClientOK(c), client' = [client EXCEPT ![i] = c]
  PROVE  ClientsOK'
BY DEF ClientsOK, ClientOK

\* The same of a request.
LEMMA HandlerMoves ==
  ASSUME HandlersOK, NEW h \in Handler, NEW x, HandlerOK(x),
         handler' = [handler EXCEPT ![h] = x]
  PROVE  HandlersOK'
BY DEF HandlersOK, HandlerOK

\* A request that ends leaves an idle slot.
LEMMA IdleOK == HandlerOK(NoHandler) /\ NoHandler.dup = None /\ NoHandler.step = "idle"
BY EvidenceAssumption DEF HandlerOK, HandlerRow, NoHandler, SignedOrNone

\* What a request asks for follows from where the client is.
LEMMA RequestOK ==
  ASSUME Inv, NEW i \in Incident, client[i].step \in Working \cup {"sending"}
  PROVE  /\ HandlerOK(Request(i))
         /\ Request(i).i = i /\ Request(i).step = "find" /\ Request(i).dup = None
         /\ Request(i).task = "upload" <=> client[i].step \in {"sending", "retrying"}
         /\ client[i].step \in {"posting", "reporting"} =>
              PostOK([i |-> i, clip |-> Request(i).clip, status |-> Request(i).status,
                      tries |-> 1])
<1>1. client[i] \in ClientRow /\ (client[i].step = "posting" => client[i].clip # None)
  BY DEF Inv, ClientsOK, ClientOK
<1>2. DEFINE task == IF client[i].step \in {"sending", "retrying"} THEN "upload" ELSE "event"
             clip == IF client[i].step = "posting" THEN client[i].clip ELSE None
             stat == IF client[i].step = "reporting" THEN "FAILED" ELSE "UPLOADED"
<1>3. /\ Request(i) = [NoHandler EXCEPT !.step = "find", !.task = task, !.i = i,
                                        !.clip = clip, !.status = stat]
  BY Zenon DEF Request
<1>4. clip \in SignedOrNone /\ stat \in Status /\ task \in {"upload", "event"}
  BY <1>1 DEF ClientRow, SignedOrNone, Status
<1>5. task = "upload" => clip = None
  OBVIOUS
<1>6. task = "event" => (stat = "UPLOADED" <=> clip # None)
  BY <1>1 DEF Working
<1>7. task = "upload" <=> client[i].step \in {"sending", "retrying"}
  OBVIOUS
<1> HIDE DEF task, clip, stat
<1>8. HandlerOK(Request(i))
  <2>1. 0 \in 0..MaxTries
    BY EvidenceAssumption
  <2>2. Request(i) \in HandlerRow
    BY <1>3, <1>4, <2>1 DEF HandlerRow, NoHandler
  <2>3. /\ Request(i).step = "find" /\ Request(i).task = task /\ Request(i).i = i
        /\ Request(i).clip = clip /\ Request(i).status = stat /\ Request(i).tries = 0
    BY <1>3 DEF NoHandler
  <2>4. QED  BY <1>4, <1>5, <1>6, <2>2, <2>3 DEF HandlerOK
<1>9. client[i].step \in {"posting", "reporting"} =>
        PostOK([i |-> i, clip |-> Request(i).clip, status |-> Request(i).status, tries |-> 1])
  <2>1. 1 \in 1..MaxTries
    BY EvidenceAssumption
  <2>2. Request(i).clip = clip /\ Request(i).status = stat
    BY <1>3 DEF NoHandler
  <2>3. clip \in RefOrNone
    BY <1>4, Signed DEF SignedOrNone, RefOrNone
  <2>4. QED  BY <1>4, <1>6, <1>7, <2>1, <2>2, <2>3 DEF PostOK, Post
<1>10. QED  BY <1>3, <1>7, <1>8, <1>9 DEF NoHandler

\* How a client goes on from a request that succeeds, and from one that fails.
LEMMA SucceededOK ==
  ASSUME NEW c, ClientOK(c), c.step \in Working \cup {"sending"}, NEW url \in SignedOrNone,
         c.step = "retrying" => url # None
  PROVE  ClientOK(Succeeded(c, url)) /\ Succeeded(c, url).on = None
BY DEF Succeeded, ClientOK, ClientRow, Working

\* A client that waits no longer, and is not done.
LEMMA FailedOK ==
  ASSUME QueueOK, NEW c, ClientOK(c), c.step \in Working \cup {"sending"}
  PROVE  /\ ClientOK(Failed(c)) /\ Failed(c).on = None
         /\ Failed(c).step # "done"
<1>1. CASE c.step = "sending"
  <2>1. 1 \in 0..MaxTries
    BY EvidenceAssumption
  <2>2. Failed(c) = [c EXCEPT !.step = "queued", !.tries = 1, !.on = None, !.loop = live]
    BY <1>1 DEF Failed, Queued
  <2>3. QED  BY <2>1, <2>2 DEF ClientOK, ClientRow, Working, QueueOK
<1>2. CASE c.step = "reporting"
  BY <1>2, EvidenceAssumption DEF Failed, GivenUp, ClientOK, ClientRow, Working
<1>3. CASE c.step \in {"retrying", "posting"}
  <2>1. c.tries \in 0..MaxTries /\ (c.tries # MaxTries => c.tries + 1 \in 0..MaxTries)
    BY EvidenceAssumption DEF ClientOK, ClientRow
  <2>2. Failed(c) = [c EXCEPT !.step  = IF c.tries = MaxTries THEN "reporting" ELSE "tried",
                              !.tries = IF c.tries = MaxTries THEN c.tries ELSE c.tries + 1,
                              !.on    = None]
    BY <1>3 DEF Failed
  <2>3. QED  BY <2>1, <2>2 DEF ClientOK, ClientRow, Working
<1>4. QED  BY <1>1, <1>2, <1>3 DEF Working

-----------------------------------------------------------------------------
(* The browser *)

\* A client that moves while it waits for nothing disturbs no other.
LEMMA ClientStep ==
  ASSUME Inv, ClientsOK', QueueOK', UNCHANGED <<handler, row, stored, clips, cleaner, heldBy>>,
         \A i \in Incident :
           client'[i] = client[i] \/ (client'[i].on = None /\ client'[i].step # "done"),
         OutboxOK'
  PROVE  Inv'
<1>1. LinksOK'
  BY EvidenceAssumption DEF Inv, LinksOK
<1>2. HeldOK'
  BY DEF Inv, HeldOK
<1>3. QED  BY <1>1, <1>2, Stays DEF Inv

\* The browser takes up a clip.
LEMMA CaptureOK ==
  ASSUME Inv, NEW i \in Incident, Capture(i) \/ Retry(i)
  PROVE  Inv'
<1>1. ClientOK(client[i]) /\ client[i].on = None
  BY DEF Inv, ClientsOK, ClientOK, Capture, Retry, Working
<1>2. PICK s \in {"sending", "retrying"} : client' = [client EXCEPT ![i].step = s]
  BY DEF Capture, Retry
<1>3. ClientOK([client[i] EXCEPT !.step = s])
  BY <1>1 DEF ClientOK, ClientRow, Working
<1>4. client' = [client EXCEPT ![i] = [client[i] EXCEPT !.step = s]]
  BY <1>2 DEF Inv, ClientsOK, ClientRow
<1>5. ClientsOK'
  BY <1>3, <1>4, ClientMoves DEF Inv
<1>6. client'[i].on = None /\ client'[i].step # "done"
  BY <1>1, <1>4 DEF Inv, ClientsOK, ClientOK, ClientRow
<1>7. \A j \in Incident \ {i} : client'[j] = client[j]
  BY <1>4 DEF Inv, ClientsOK
<1>8. UNCHANGED <<queue, outbox, handler, row, stored, clips, cleaner, heldBy>>
  BY DEF Capture, Retry, retention
<1>9. QED  BY <1>5, <1>6, <1>7, <1>8, ClientStep, Stays

\* What is kept of a post that fails is a good post.
LEMMA KeptOK ==
  ASSUME Inv, NEW i \in Incident, NEW p \in Kept(i)
  PROVE  PostOK(p)
BY RequestOK DEF Kept, Working

\* A broken connection costs the client a try, and the request nothing.
LEMMA ConnectionLostOK ==
  ASSUME Inv, NEW i \in Incident, ConnectionLost(i)
  PROVE  Inv'
<1>1. ClientOK(client[i]) /\ client[i].step \in Working \cup {"sending"}
  BY DEF Inv, ClientsOK, ClientOK, ConnectionLost
<1>2. ClientOK(Failed(client[i])) /\ Failed(client[i]).on = None
        /\ Failed(client[i]).step # "done"
  BY <1>1, FailedOK DEF Inv
<1>3. client' = [client EXCEPT ![i] = Failed(client[i])]
  BY DEF ConnectionLost
<1>4. ClientsOK'
  BY <1>2, <1>3, ClientMoves DEF Inv
<1>5. \A j \in Incident :
        client'[j] = client[j] \/ (client'[j].on = None /\ client'[j].step # "done")
  BY <1>2, <1>3 DEF Inv, ClientsOK
<1>6. OutboxOK'
  BY KeptOK DEF ConnectionLost, Inv, OutboxOK
<1>7. UNCHANGED <<queue, handler, row, stored, clips, cleaner, heldBy>>
  BY DEF ConnectionLost, retention
<1>8. QED  BY <1>4, <1>5, <1>6, <1>7, ClientStep, Stays

\* The clips a loop leaves in the queue, or that go with it, were in the queue or
\* are to be tried again.
LEMMA EndsWith ==
  ASSUME NEW l \in Loop, End(l)
  PROVE  \E gone, lost \in SUBSET Incident :
           /\ lost \subseteq gone
           /\ \A i \in gone : client[i].step \in {"queued", "tried"}
           /\ client' = [i \in Incident |->
                IF i \in gone
                  THEN [client[i] EXCEPT !.step = IF i \in lost THEN "dropped" ELSE "queued",
                                         !.loop = None]
                  ELSE client[i]]
           /\ \A i \in Incident : client[i].loop = l => i \in gone
           /\ cut' = (cut \/ lost # {})
<1> DEFINE again == {i \in Incident : client[i].loop = l}
           lost  == Unclaimed \cup (IF worker[l] = "flush" THEN again ELSE {})
           gone  == again \cup lost
<1>1. lost \in SUBSET Incident /\ gone \in SUBSET Incident /\ lost \subseteq gone
  BY DEF Unclaimed
<1>2. \A i \in gone : client[i].step \in {"queued", "tried"}
  BY DEF End, Unclaimed
<1>3. /\ client' = [i \in Incident |->
           IF i \in gone
             THEN [client[i] EXCEPT !.step = IF i \in lost THEN "dropped" ELSE "queued",
                                    !.loop = None]
             ELSE client[i]]
      /\ cut' = (cut \/ lost # {})
  BY DEF End
<1>4. \A i \in Incident : client[i].loop = l => i \in gone
  OBVIOUS
<1> HIDE DEF again, lost, gone
<1>5. QED  BY <1>1, <1>2, <1>3, <1>4

\* Loops begin and end, and a stop takes the queue from one: what a client sent
\* and is waiting for is not touched.
LEMMA LoopOK ==
  ASSUME Inv, (\E l \in Loop : Begin(l, "tick") \/ End(l)) \/ Stop
  PROVE  Inv'
<1>1. UNCHANGED <<outbox, handler, row, stored, clips, cleaner, heldBy>>
  BY DEF Begin, End, Stop, retention
<1>2. QueueOK'
  BY DEF Begin, End, Stop, Inv, QueueOK
<1>3. CASE UNCHANGED client
  BY <1>1, <1>2, <1>3, Stays, ClientStep
<1>4. ASSUME NEW l \in Loop, NEW by, Begin(l, by) PROVE Inv'
  <2>1. ASSUME NEW i \in Unclaimed
        PROVE  /\ ClientOK([client[i] EXCEPT !.loop = l])
               /\ [client[i] EXCEPT !.loop = l].on = None
               /\ [client[i] EXCEPT !.loop = l].step # "done"
    BY <2>1 DEF Unclaimed, Inv, ClientsOK, ClientOK, ClientRow, Working
  <2>2. client' = [i \in Incident |-> IF i \in Unclaimed THEN [client[i] EXCEPT !.loop = l]
                                                         ELSE client[i]]
    BY <1>4 DEF Begin
  <2>3. \A i \in Incident :
          ClientOK(client'[i])
          /\ (client'[i] = client[i] \/ (client'[i].on = None /\ client'[i].step # "done"))
    BY <2>1, <2>2 DEF Inv, ClientsOK
  <2>4. ClientsOK'
    BY <2>2, <2>3 DEF ClientsOK, ClientOK
  <2>5. QED  BY <1>1, <1>2, <2>3, <2>4, ClientStep, Stays
<1>5. ASSUME NEW l \in Loop, End(l) PROVE Inv'
  <2>1. PICK gone, lost \in SUBSET Incident :
          /\ \A i \in gone : client[i].step \in {"queued", "tried"}
          /\ client' = [i \in Incident |->
               IF i \in gone
                 THEN [client[i] EXCEPT !.step = IF i \in lost THEN "dropped" ELSE "queued",
                                        !.loop = None]
                 ELSE client[i]]
    BY <1>5, EndsWith
  <2>2. ASSUME NEW i \in Incident, i \in gone, NEW st \in {"dropped", "queued"}
        PROVE  /\ ClientOK([client[i] EXCEPT !.step = st, !.loop = None])
               /\ [client[i] EXCEPT !.step = st, !.loop = None].on = None
               /\ [client[i] EXCEPT !.step = st, !.loop = None].step # "done"
    BY <2>1, <2>2 DEF Inv, ClientsOK, ClientOK, ClientRow, Working
  <2>3. \A i \in Incident :
          ClientOK(client'[i])
          /\ (client'[i] = client[i] \/ (client'[i].on = None /\ client'[i].step # "done"))
    BY <2>1, <2>2 DEF Inv, ClientsOK
  <2>4. ClientsOK'
    BY <2>1, <2>3 DEF ClientsOK, ClientOK
  <2>5. QED  BY <1>1, <1>2, <2>3, <2>4, ClientStep, Stays
<1>6. QED  BY <1>3, <1>4, <1>5 DEF Stop

\* A request that begins has found nothing yet.
LEMMA HandlerBegins ==
  ASSUME Inv, NEW h \in Handler, NEW x, HandlerOK(x), x.dup = None, x.step = "find",
         handler' = [handler EXCEPT ![h] = x], UNCHANGED row
  PROVE  HandlersOK' /\ DupsThere'
<1>1. HandlersOK'
  BY HandlerMoves DEF Inv
<1>2. /\ handler'[h] = x
      /\ \A g \in Handler \ {h} : handler'[g] = handler[g]
  BY DEF Inv, HandlersOK
<1>3. DupsThere'
  BY <1>2 DEF Inv, DupsThere
<1>4. QED  BY <1>1, <1>3

\* A request that is sent is about the incident of its client.
LEMMA SendOK ==
  ASSUME Inv, NEW i \in Incident, NEW h \in Handler, Send(i, h)
  PROVE  Inv'
<1>1. client[i] \in ClientRow /\ ClientOK(client[i])
  BY DEF Inv, ClientsOK
<1>2. client' = [client EXCEPT ![i] = [client[i] EXCEPT !.on = h]]
  BY <1>1 DEF Send, Inv, ClientsOK, ClientRow
<1>3. ClientOK([client[i] EXCEPT !.on = h]) /\ [client[i] EXCEPT !.on = h].step = client[i].step
        /\ [client[i] EXCEPT !.on = h].on = h
  BY <1>1 DEF Send, ClientOK, ClientRow
<1>4. ClientsOK'
  BY <1>2, <1>3, ClientMoves DEF Inv
<1>5. /\ handler' = [handler EXCEPT ![h] = Request(i)]
      /\ client[i].step \in Working \cup {"sending"} /\ handler[h].step = "idle"
      /\ UNCHANGED <<queue, outbox, row, stored, clips, cleaner, heldBy>>
  BY DEF Send, retention
<1>6. /\ HandlerOK(Request(i))
      /\ Request(i).i = i /\ Request(i).step = "find" /\ Request(i).dup = None
      /\ Request(i).task = "upload" <=> client[i].step \in {"sending", "retrying"}
  BY <1>5, RequestOK
<1>7. HandlersOK' /\ DupsThere'
  BY <1>5, <1>6, HandlerBegins
<1>8. /\ handler'[h] = Request(i) /\ client'[i] = [client[i] EXCEPT !.on = h]
      /\ \A g \in Handler \ {h} : handler'[g] = handler[g]
      /\ \A j \in Incident \ {i} : client'[j] = client[j]
  BY <1>2, <1>5 DEF Inv, HandlersOK, ClientsOK
<1>9. \A j \in Incident : client[j].on # h
  BY <1>5 DEF Inv, LinksOK
<1>10. LinksOK'
  <2>1. SUFFICES ASSUME NEW j \in Incident, NEW g \in Handler, client'[j].on = g
                 PROVE  /\ handler'[g].i = j /\ handler'[g].step \notin {"idle", "clip"}
                        /\ handler'[g].task = "upload"
                             <=> client'[j].step \in {"sending", "retrying"}
    BY DEF LinksOK
  <2>2. CASE j = i
    BY <1>3, <1>6, <1>8, <2>1, <2>2
  <2>3. CASE j # i
    BY <1>8, <1>9, <2>1, <2>3 DEF Inv, LinksOK
  <2>4. QED  BY <2>2, <2>3
<1>11. HeldOK'
  BY <1>3, <1>5, <1>8 DEF Inv, HeldOK, Working
<1>12. QED  BY <1>4, <1>5, <1>7, <1>10, <1>11, Stays DEF Inv

\* What is kept once more is a good post.
LEMMA AgainOK ==
  ASSUME NEW p, PostOK(p), NEW p2 \in Again(p)
  PROVE  PostOK(p2)
<1>1. p.tries \in 1..MaxTries /\ p.tries < MaxTries /\ p2 = [p EXCEPT !.tries = p.tries + 1]
  BY DEF Again, PostOK, Post
<1>2. p.tries + 1 \in 1..MaxTries
  BY <1>1, EvidenceAssumption
<1>3. QED  BY <1>1, <1>2 DEF PostOK, Post

\* A kept post that is sent again has nobody waiting for it.
LEMMA ResendOK ==
  ASSUME Inv, NEW p \in outbox, NEW h \in Handler, Resend(p, h)
  PROVE  Inv'
<1>1. PICK lost \in BOOLEAN :
        /\ outbox' = (outbox \ {p}) \cup (IF lost THEN Again(p) ELSE {})
        /\ handler' = [handler EXCEPT ![h] =
             [step |-> "find", task |-> "event", i |-> p.i, clip |-> p.clip,
              status |-> p.status, dup |-> None, tries |-> IF lost THEN 0 ELSE p.tries]]
  BY DEF Resend
<1>2. PostOK(p)
  BY DEF Inv, OutboxOK
<1>3. OutboxOK'
  BY <1>1, <1>2, AgainOK DEF Inv, OutboxOK
<1>4. HandlerOK([step |-> "find", task |-> "event", i |-> p.i, clip |-> p.clip,
                 status |-> p.status, dup |-> None, tries |-> IF lost THEN 0 ELSE p.tries])
  <2>1. (IF lost THEN 0 ELSE p.tries) \in 0..MaxTries
    BY <1>2, EvidenceAssumption DEF PostOK, Post
  <2>2. QED  BY <1>2, <2>1 DEF HandlerOK, HandlerRow, PostOK, Post
<1>5. UNCHANGED <<client, queue, row, stored, clips, cleaner, heldBy>> /\ handler[h].step = "idle"
  BY DEF Resend, retention
<1>6. HandlersOK' /\ DupsThere'
  BY <1>1, <1>4, <1>5, HandlerBegins
<1>7. LinksOK'
  BY <1>1, <1>5 DEF Inv, LinksOK, HandlersOK
<1>8. QED  BY <1>3, <1>5, <1>6, <1>7, Stays DEF Inv

-----------------------------------------------------------------------------
(* The server *)

\* Only the clients of request h hear of its end.
LEMMA ReplyOK ==
  ASSUME Inv, NEW h \in Handler,
         \/ client' = Refused(h)
         \/ \E url \in SignedOrNone :
              client' = Replied(h, url) /\ (handler[h].task = "upload" => url # None)
  PROVE  /\ ClientsOK'
         /\ \A i \in Incident :
              /\ client[i].on = h => handler[h].i = i /\ client'[i].on = None
              /\ client[i].on # h => client'[i] = client[i]
<1>1. ASSUME NEW i \in Incident, client[i].on = h
      PROVE  ClientOK(client'[i]) /\ client'[i].on = None /\ handler[h].i = i
  <2>1. ClientOK(client[i]) /\ client[i].step \in Working \cup {"sending"}
    BY <1>1, EvidenceAssumption DEF Inv, ClientsOK, ClientOK
  <2>2. handler[h].i = i /\ (client[i].step = "retrying" => handler[h].task = "upload")
    BY <1>1 DEF Inv, LinksOK
  <2>3. CASE client' = Refused(h)
    BY <1>1, <2>1, <2>2, <2>3, FailedOK DEF Refused, Inv
  <2>4. ASSUME NEW url \in SignedOrNone, client' = Replied(h, url),
               handler[h].task = "upload" => url # None
        PROVE  ClientOK(client'[i]) /\ client'[i].on = None
    BY <1>1, <2>1, <2>2, <2>4, SucceededOK DEF Replied
  <2>5. QED  BY <2>2, <2>3, <2>4
<1>2. ASSUME NEW i \in Incident, client[i].on # h PROVE client'[i] = client[i]
  BY <1>2 DEF Refused, Replied
<1>3. client' \in [Incident -> ClientRow]
  <2>1. \A i \in Incident : client'[i] \in ClientRow
    BY <1>1, <1>2 DEF Inv, ClientsOK, ClientOK
  <2>2. client' = [i \in Incident |-> client'[i]]
    BY DEF Refused, Replied
  <2>3. QED  BY <2>1, <2>2
<1>4. ClientsOK'
  BY <1>1, <1>2, <1>3 DEF Inv, ClientsOK
<1>5. QED  BY <1>1, <1>2, <1>4

\* Other requests keep their clients.
LEMMA LinksKept ==
  ASSUME Inv, NEW h \in Handler,
         \A g \in Handler \ {h} : handler'[g] = handler[g],
         \A i \in Incident :
           /\ client[i].on = h => client'[i].on = None
           /\ client[i].on # h => client'[i] = client[i]
  PROVE  LinksOK'
BY EvidenceAssumption DEF Inv, LinksOK

\* The incident of a request that is answered is held by row d.
LEMMA HeldKept ==
  ASSUME Inv, NEW h \in Handler, handler[h].i \in Incident, NEW d \in RowId, row'[d] # None,
         \A r \in RowId : row[r] # None => row'[r] # None,
         heldBy' = [heldBy EXCEPT ![handler[h].i] = d],
         \A i \in Incident :
           /\ client[i].on = h => handler[h].i = i
           /\ client[i].on # h => client'[i] = client[i]
  PROVE  HeldOK'
<1>1. d # None
  BY Signed
<1>2. heldBy' \in [Incident -> RowId \cup {None}]
  BY DEF Inv, HeldOK
<1>3. ASSUME NEW i \in Incident, heldBy'[i] # None PROVE row'[heldBy'[i]] # None
  <2>1. CASE i = handler[h].i
    BY <2>1 DEF Inv, HeldOK
  <2>2. CASE i # handler[h].i
    <3>1. heldBy'[i] = heldBy[i] /\ heldBy[i] \in RowId /\ row[heldBy[i]] # None
      BY <1>3, <2>2 DEF Inv, HeldOK
    <3>2. QED  BY <3>1
  <2>3. QED  BY <2>1, <2>2
<1>4. ASSUME NEW i \in Incident, client'[i].step = "done" PROVE heldBy'[i] # None
  <2>1. CASE i = handler[h].i
    BY <1>1, <2>1 DEF Inv, HeldOK
  <2>2. CASE i # handler[h].i
    BY <1>4, <2>2 DEF Inv, HeldOK
  <2>3. QED  BY <2>1, <2>2
<1>5. QED  BY <1>2, <1>3, <1>4 DEF HeldOK

\* A request that goes on keeps a row it has found.
LEMMA HandlerGoes ==
  ASSUME Inv, NEW h \in Handler, NEW x, HandlerOK(x), handler' = [handler EXCEPT ![h] = x],
         x.dup # None => row[x.dup] # None,
         \A r \in RowId : row[r] # None => row'[r] # None
  PROVE  HandlersOK' /\ DupsThere' /\ handler'[h] = x
         /\ \A g \in Handler \ {h} : handler'[g] = handler[g]
<1>1. HandlersOK'
  BY HandlerMoves DEF Inv
<1>2. handler'[h] = x /\ \A g \in Handler \ {h} : handler'[g] = handler[g]
  BY DEF Inv, HandlersOK
<1>3. ASSUME NEW g \in Handler PROVE handler[g].dup \in RowId \cup {None}
  BY DEF Inv, HandlersOK, HandlerRow
<1>4. x.dup \in RowId \cup {None}
  BY DEF HandlerOK, HandlerRow
<1>5. DupsThere'
  BY <1>2, <1>3, <1>4 DEF Inv, DupsThere
<1>6. QED  BY <1>1, <1>2, <1>5

\* A request that fails leaves its rows as they are.
LEMMA FailsOK ==
  ASSUME Inv, NEW h \in Handler, HandlerFails(h)
  PROVE  Inv'
<1>1. /\ client' = Refused(h) /\ handler' = [handler EXCEPT ![h] = NoHandler]
      /\ UNCHANGED <<queue, row, stored, clips, cleaner, heldBy>>
  BY DEF HandlerFails, retention
<1>2. /\ ClientsOK'
      /\ \A i \in Incident :
           /\ client[i].on = h => handler[h].i = i /\ client'[i].on = None
           /\ client[i].on # h => client'[i] = client[i]
  BY <1>1, ReplyOK
<1>3. HandlersOK' /\ DupsThere' /\ handler'[h] = NoHandler
         /\ \A g \in Handler \ {h} : handler'[g] = handler[g]
  BY <1>1, IdleOK, HandlerGoes
<1>4. LinksOK'
  BY <1>2, <1>3, LinksKept
<1>5. HeldOK'
  <2>1. ASSUME NEW i \in Incident, client'[i].step = "done" PROVE client[i].step = "done"
    <3>1. CASE client[i].on = h
      <4>1. ClientOK(client[i]) /\ client[i].step \in Working \cup {"sending"}
        BY <3>1, EvidenceAssumption DEF Inv, ClientsOK, ClientOK
      <4>2. QED  BY <1>1, <2>1, <3>1, <4>1, FailedOK DEF Refused, Inv
    <3>2. CASE client[i].on # h
      BY <1>2, <2>1, <3>2
    <3>3. QED  BY <3>1, <3>2
  <2>2. QED  BY <1>1, <2>1 DEF Inv, HeldOK
<1>6. OutboxOK'
  <2>1. ASSUME NEW p \in outbox' PROVE PostOK(p)
    <3>1. CASE p \in outbox
      BY <3>1 DEF Inv, OutboxOK
    <3>2. CASE p \in KeptAgain(h)
      <4>1. handler[h].tries \in 0..MaxTries /\ HandlerOK(handler[h])
              /\ handler[h].step # "idle"
        BY DEF Inv, HandlersOK, HandlerRow, HandlerFails
      <4>2. handler[h].tries \in 1..MaxTries /\ handler[h].tries # 0
        BY <3>2, <4>1, EvidenceAssumption DEF KeptAgain
      <4>3. handler[h].task = "event"
        BY <4>1, <4>2 DEF HandlerOK
      <4>4. handler[h].clip \in SignedOrNone /\ handler[h].clip \in RefOrNone
        BY <4>1, Signed DEF HandlerOK, HandlerRow, SignedOrNone, RefOrNone
      <4>5. PostOK([i |-> handler[h].i, clip |-> handler[h].clip,
                    status |-> handler[h].status, tries |-> handler[h].tries])
        BY <4>1, <4>2, <4>3, <4>4 DEF HandlerOK, PostOK, Post
      <4>6. QED  BY <3>2, <4>2, <4>5, AgainOK DEF KeptAgain
    <3>3. CASE p \in KeptBy(h)
      <4>1. PICK K \in {Kept(i) : i \in {j \in Incident : client[j].on = h}} : p \in K
        BY <3>3 DEF KeptBy
      <4>2. PICK i \in Incident : K = Kept(i)
        BY <4>1
      <4>3. QED  BY <4>1, <4>2, KeptOK
    <3>4. QED  BY <3>1, <3>2, <3>3 DEF HandlerFails
  <2>2. QED  BY <2>1 DEF OutboxOK
<1>7. QED  BY <1>1, <1>2, <1>3, <1>4, <1>5, <1>6, Stays DEF Inv

-----------------------------------------------------------------------------
(* The steps of a request *)

\* A request that moves on in its own slot, and keeps what it is about.
LEMMA MovesOn ==
  ASSUME Inv, NEW h \in Handler, NEW x, HandlerOK(x), handler' = [handler EXCEPT ![h] = x],
         handler[h].step # "idle", x.step \notin {"idle", "clip"},
         x.i = handler[h].i, x.task = handler[h].task,
         x.dup # None => row[x.dup] # None,
         UNCHANGED <<client, queue, outbox, row, clips, cleaner, heldBy>>, StoredOK'
  PROVE  Inv'
<1>1. HandlersOK' /\ DupsThere' /\ handler'[h] = x
        /\ \A g \in Handler \ {h} : handler'[g] = handler[g]
  BY HandlerGoes
<1>2. LinksOK'
  BY <1>1 DEF Inv, LinksOK
<1>3. QED  BY <1>1, <1>2, Stays DEF Inv

\* An upload that finds the event with its clip answers with the clip, and one
\* that finds another remembers it; such a one has no clip.
LEMMA FindForUploadOK ==
  ASSUME Inv, NEW h \in Handler, FindForUpload(h)
  PROVE  Inv'
<1>1. PICK d \in Found(h) :
       IF d # None /\ row[d].clip # None /\ row[d].status = "UPLOADED"
         THEN /\ handler' = [handler EXCEPT ![h] = NoHandler]
              /\ client' = Replied(h, Url(row[d].clip.key))
              /\ heldBy' = [heldBy EXCEPT ![handler[h].i] = d]
         ELSE /\ handler' = [handler EXCEPT ![h].step = "put", ![h].dup = d,
                               ![h].clip = IF d = None THEN None ELSE row[d].clip]
              /\ UNCHANGED <<client, heldBy>>
  BY DEF FindForUpload
<1>2. UNCHANGED <<queue, outbox, row, stored, clips, cleaner>> /\ handler[h].step = "find"
        /\ handler[h].task = "upload"
  BY DEF FindForUpload, retention
<1>3. d # None => d \in RowId /\ row[d] # None /\ RowOK(row[d])
  BY DEF Found, Duplicates, Inv, RowsOK
<1>4. handler[h].i \in Incident /\ handler[h] \in HandlerRow /\ HandlerOK(handler[h])
  BY <1>2 DEF Inv, HandlersOK, HandlerOK
<1>5. CASE d # None /\ row[d].clip # None /\ row[d].status = "UPLOADED"
  <2>1. Url(row[d].clip.key) \in SignedOrNone /\ Url(row[d].clip.key) # None
    BY <1>3, <1>5, Signed DEF RowOK, EventRow, RefOrNone, SignedOrNone
  <2>2. /\ client' = Replied(h, Url(row[d].clip.key))
        /\ handler' = [handler EXCEPT ![h] = NoHandler]
        /\ heldBy' = [heldBy EXCEPT ![handler[h].i] = d]
    BY <1>1, <1>5
  <2>3. /\ ClientsOK'
        /\ \A i \in Incident :
             /\ client[i].on = h => handler[h].i = i /\ client'[i].on = None
             /\ client[i].on # h => client'[i] = client[i]
    BY <2>1, <2>2, ReplyOK
  <2>4. HandlersOK' /\ DupsThere' /\ handler'[h] = NoHandler
          /\ \A g \in Handler \ {h} : handler'[g] = handler[g]
    BY <1>2, <2>2, IdleOK, HandlerGoes
  <2>5. LinksOK'
    BY <2>3, <2>4, LinksKept
  <2>6. HeldOK'
    BY <1>2, <1>3, <1>4, <1>5, <2>2, <2>3, HeldKept
  <2>7. QED  BY <1>2, <2>3, <2>4, <2>5, <2>6, Stays DEF Inv
<1>6. CASE ~(d # None /\ row[d].clip # None /\ row[d].status = "UPLOADED")
  <2>1. UNCHANGED <<client, heldBy>>
    BY <1>1, <1>6
  <2>2. (IF d = None THEN None ELSE row[d].clip) = None
    BY <1>3, <1>6 DEF RowOK
  <2>3. handler' = [handler EXCEPT ![h].step = "put", ![h].dup = d, ![h].clip = None]
    BY <1>1, <1>6, <2>2
  <2>4. handler' = [handler EXCEPT ![h] =
                      [handler[h] EXCEPT !.step = "put", !.dup = d, !.clip = None]]
    BY <1>4, <2>3 DEF Inv, HandlersOK
  <2>5. HandlerOK([handler[h] EXCEPT !.step = "put", !.dup = d, !.clip = None])
    <3>1. d \in RowId \cup {None}
      BY <1>3
    <3>2. QED  BY <1>2, <1>4, <3>1 DEF HandlerOK, HandlerRow, SignedOrNone
  <2>6. /\ [handler[h] EXCEPT !.step = "put", !.dup = d, !.clip = None].dup = d
        /\ [handler[h] EXCEPT !.step = "put", !.dup = d, !.clip = None].step = "put"
        /\ [handler[h] EXCEPT !.step = "put", !.dup = d, !.clip = None].i = handler[h].i
        /\ [handler[h] EXCEPT !.step = "put", !.dup = d, !.clip = None].task = "upload"
    BY <1>2, <1>4 DEF HandlerRow
  <2>7. QED  BY <1>2, <1>3, <2>1, <2>4, <2>5, <2>6, MovesOn, Stays
<1>7. QED  BY <1>5, <1>6

\* The row and the object that a request is about.
LEMMA TargetOK ==
  ASSUME Inv, NEW h \in Handler, handler[h].step # "idle"
  PROVE  Target(h) \in RowId /\ KeyAt(h) \in Key /\ handler[h].i \in Incident
<1>1. handler[h].i \in Incident /\ handler[h].dup \in RowId \cup {None}
  BY DEF Inv, HandlersOK, HandlerOK, HandlerRow
<1>2. Target(h) \in RowId
  BY <1>1 DEF Target, RowId
<1>3. KeyAt(h) \in Key
  BY <1>1 DEF KeyAt, KeyOf, Key
<1>4. QED  BY <1>1, <1>2, <1>3

\* An upload stores an object.
LEMMA PutOK ==
  ASSUME Inv, NEW h \in Handler, Put(h)
  PROVE  Inv'
<1>1. /\ handler[h].step = "put" /\ stored' = stored \cup {KeyAt(h)}
      /\ UNCHANGED <<client, queue, outbox, row, clips, cleaner, heldBy>>
  BY DEF Put, retention
<1>2. handler[h] \in HandlerRow /\ HandlerOK(handler[h])
  BY DEF Inv, HandlersOK
<1>3. handler' = [handler EXCEPT ![h] = [handler[h] EXCEPT !.step = "upsert"]]
  BY <1>2 DEF Put, Inv, HandlersOK
<1>4. /\ HandlerOK([handler[h] EXCEPT !.step = "upsert"])
      /\ [handler[h] EXCEPT !.step = "upsert"].step = "upsert"
      /\ [handler[h] EXCEPT !.step = "upsert"].i = handler[h].i
      /\ [handler[h] EXCEPT !.step = "upsert"].task = handler[h].task
      /\ [handler[h] EXCEPT !.step = "upsert"].dup = handler[h].dup
  BY <1>1, <1>2 DEF HandlerOK, HandlerRow
<1>5. handler[h].dup # None => row[handler[h].dup] # None
  BY DEF Inv, DupsThere
<1>6. StoredOK'
  BY <1>1, TargetOK DEF Inv, StoredOK
<1>7. QED  BY <1>1, <1>3, <1>4, <1>5, <1>6, MovesOn

\* A row that is written leaves the others as they are.
LEMMA RowWritten ==
  ASSUME Inv, NEW r \in RowId, NEW x, RowOK(x), row' = [row EXCEPT ![r] = x]
  PROVE  /\ RowsOK' /\ row'[r] = x /\ x # None
         /\ \A s \in RowId \ {r} : row'[s] = row[s]
         /\ \A s \in RowId : row[s] # None => row'[s] # None
BY EvidenceAssumption DEF Inv, RowsOK, RowOK

\* A request that is answered by row r.
LEMMA AnsweredOK ==
  ASSUME Inv, NEW h \in Handler, handler[h].step # "idle",
         NEW url \in SignedOrNone, client' = Replied(h, url),
         handler[h].task = "upload" => url # None,
         NEW r \in RowId, row'[r] # None, RowsOK',
         \A s \in RowId : row[s] # None => row'[s] # None,
         heldBy' = [heldBy EXCEPT ![handler[h].i] = r],
         NEW x, HandlerOK(x), x.dup # None => row[x.dup] # None,
         handler' = [handler EXCEPT ![h] = x], StoredOK',
         UNCHANGED <<queue, outbox, clips, cleaner>>
  PROVE  Inv'
<1>1. /\ ClientsOK'
      /\ \A i \in Incident :
           /\ client[i].on = h => handler[h].i = i /\ client'[i].on = None
           /\ client[i].on # h => client'[i] = client[i]
  BY ReplyOK
<1>2. HandlersOK' /\ DupsThere' /\ handler'[h] = x
        /\ \A g \in Handler \ {h} : handler'[g] = handler[g]
  BY HandlerGoes
<1>3. LinksOK'
  BY <1>1, <1>2, LinksKept
<1>4. HeldOK'
  BY <1>1, TargetOK, HeldKept
<1>5. QED  BY <1>1, <1>2, <1>3, <1>4, Stays DEF Inv

\* The row of an upload names its object.
LEMMA UpsertOK ==
  ASSUME Inv, NEW h \in Handler, Upsert(h)
  PROVE  Inv'
<1> DEFINE x == [at |-> At[handler[h].i], clip |-> Object(KeyAt(h)), status |-> "UPLOADED"]
<1>1. /\ handler[h].step = "upsert"
      /\ stored' = stored \ {k \in Key : handler[h].clip = Object(k) /\ k # KeyAt(h)}
      /\ row' = [row EXCEPT ![Target(h)] = x]
      /\ heldBy' = [heldBy EXCEPT ![handler[h].i] = Target(h)]
      /\ client' = Replied(h, Url(KeyAt(h)))
      /\ handler' = [handler EXCEPT ![h] = NoHandler]
      /\ UNCHANGED <<queue, outbox, clips, cleaner>>
  BY DEF Upsert, retention
<1>2. Target(h) \in RowId /\ KeyAt(h) \in Key /\ handler[h].i \in Incident
  BY <1>1, TargetOK
<1>3. \A k \in Key : Object(k) # None
  BY Signed, EvidenceAssumption
<1>4. StoredOK'
  BY <1>1 DEF Inv, StoredOK
<1>5. RowOK(x)
  BY <1>2, <1>3, Signed DEF RowOK, EventRow, Status, RefOrNone
<1>6. /\ RowsOK' /\ row'[Target(h)] = x /\ x # None
      /\ \A s \in RowId : row[s] # None => row'[s] # None
  BY <1>1, <1>2, <1>5, RowWritten
<1>7. Url(KeyAt(h)) \in SignedOrNone /\ Url(KeyAt(h)) # None
  BY <1>2, Signed DEF SignedOrNone
<1> HIDE DEF x
<1>8. QED  BY <1>1, <1>2, <1>4, <1>6, <1>7, IdleOK, AnsweredOK

\* A posted event with its clip updates the row it finds, one without leaves it.
LEMMA FindForEventOK ==
  ASSUME Inv, NEW h \in Handler, FindForEvent(h)
  PROVE  Inv'
<1>1. /\ handler[h].step = "find" /\ handler[h].task = "event"
      /\ UNCHANGED <<client, queue, outbox, row, stored, clips, cleaner, heldBy>>
  BY DEF FindForEvent, retention
<1>2. handler[h] \in HandlerRow /\ HandlerOK(handler[h])
  BY DEF Inv, HandlersOK
<1>3. PICK d \in Found(h) :
        handler' = [handler EXCEPT ![h].dup = d,
                      ![h].step = CASE d = None -> "create"
                                    [] d # None /\ handler[h].clip # None -> "update"
                                    [] d # None /\ handler[h].clip = None -> "keep"]
  BY DEF FindForEvent
<1>4. PICK s \in {"create", "update", "keep"} :
        /\ handler' = [handler EXCEPT ![h].dup = d, ![h].step = s]
        /\ s = "create" <=> d = None
        /\ s = "update" => handler[h].clip # None
  BY <1>3
<1>5. handler' = [handler EXCEPT ![h] = [handler[h] EXCEPT !.dup = d, !.step = s]]
  BY <1>2, <1>4 DEF Inv, HandlersOK
<1>6. d # None => d \in RowId /\ row[d] # None
  BY DEF Found, Duplicates
<1>7. /\ [handler[h] EXCEPT !.dup = d, !.step = s].dup = d
      /\ [handler[h] EXCEPT !.dup = d, !.step = s].step = s
      /\ [handler[h] EXCEPT !.dup = d, !.step = s].i = handler[h].i
      /\ [handler[h] EXCEPT !.dup = d, !.step = s].task = handler[h].task
  BY <1>2 DEF HandlerRow
<1>8. HandlerOK([handler[h] EXCEPT !.dup = d, !.step = s])
  <2>1. d \in RowId \cup {None}
    BY <1>6
  <2>2. QED  BY <1>1, <1>2, <1>4, <2>1 DEF HandlerOK, HandlerRow
<1>9. QED  BY <1>1, <1>4, <1>5, <1>6, <1>7, <1>8, MovesOn, Stays

\* An event that is answered, with its row written or left.
LEMMA EventAnswered ==
  ASSUME Inv, NEW h \in Handler, NEW r \in RowId, Answered(h, r),
         handler[h].step \in {"keep", "update", "create"},
         \/ UNCHANGED row /\ row[r] # None
         \/ \E x : RowOK(x) /\ row' = [row EXCEPT ![r] = x]
  PROVE  Inv'
<1>1. /\ heldBy' = [heldBy EXCEPT ![handler[h].i] = r]
      /\ client' = Replied(h, None)
      /\ UNCHANGED <<queue, outbox, stored, clips, cleaner>>
  BY DEF Answered, retention
<1>2. handler[h] \in HandlerRow /\ HandlerOK(handler[h]) /\ handler[h].task = "event"
  BY DEF Inv, HandlersOK, HandlerOK
<1>3. PICK y : /\ handler' = [handler EXCEPT ![h] = y]
               /\ \/ y = NoHandler
                  \/ y = [handler[h] EXCEPT !.step = "clip"] /\ handler[h].clip # None
  <2>1. CASE handler[h].clip = None
    BY <2>1, Zenon DEF Answered
  <2>2. CASE handler[h].clip # None
    <3>1. handler' = [handler EXCEPT ![h] = [handler[h] EXCEPT !.step = "clip"]]
      BY <2>2, Zenon DEF Answered
    <3>2. QED  BY <2>2, <3>1, Zenon
  <2>3. QED  BY <2>1, <2>2
<1>4. HandlerOK(y) /\ (y.dup # None => row[y.dup] # None)
  <2>1. CASE y = NoHandler
    BY <2>1, IdleOK
  <2>2. CASE y # NoHandler
    <3>1. y = [handler[h] EXCEPT !.step = "clip"] /\ handler[h].clip # None
      BY <1>3, <2>2
    <3>2. HandlerOK(y) /\ y.step = "clip" /\ y.dup = handler[h].dup
      BY <1>2, <3>1 DEF HandlerOK, HandlerRow
    <3>3. QED  BY <3>2 DEF Inv, DupsThere
  <2>3. QED  BY <2>1, <2>2
<1>5. /\ RowsOK' /\ row'[r] # None
      /\ \A s \in RowId : row[s] # None => row'[s] # None
  BY RowWritten DEF Inv, RowsOK
<1>6. None \in SignedOrNone /\ handler[h].step # "idle" /\ handler[h].task # "upload"
  BY <1>2 DEF SignedOrNone
<1>7. QED  BY <1>1, <1>3, <1>4, <1>5, <1>6, AnsweredOK, Stays

\* The three ways an event is answered.
LEMMA EventOK ==
  ASSUME Inv, NEW h \in Handler, KeepEvent(h) \/ UpdateEvent(h) \/ CreateEvent(h)
  PROVE  Inv'
<1>1. handler[h] \in HandlerRow /\ HandlerOK(handler[h])
  BY DEF Inv, HandlersOK
<1>2. handler[h].dup # None => handler[h].dup \in RowId /\ row[handler[h].dup] # None
  BY <1>1 DEF Inv, DupsThere, HandlerRow
<1>3. CASE KeepEvent(h)
  <2>1. handler[h].step = "keep" /\ UNCHANGED row /\ Answered(h, handler[h].dup)
    BY <1>3 DEF KeepEvent
  <2>2. handler[h].dup # None
    BY <1>1, <2>1 DEF HandlerOK
  <2>3. QED  BY <1>2, <2>1, <2>2, EventAnswered
<1>4. CASE UpdateEvent(h)
  <2> DEFINE x == [row[handler[h].dup] EXCEPT !.clip = handler[h].clip, !.status = "UPLOADED"]
  <2>1. /\ handler[h].step = "update" /\ Answered(h, handler[h].dup)
        /\ row' = [row EXCEPT ![handler[h].dup].clip = handler[h].clip,
                               ![handler[h].dup].status = "UPLOADED"]
    BY <1>4 DEF UpdateEvent
  <2>2. handler[h].dup # None /\ handler[h].clip # None
    BY <1>1, <2>1 DEF HandlerOK
  <2>3. row' = [row EXCEPT ![handler[h].dup] = x]
    BY <1>2, <2>1, <2>2 DEF Inv, RowsOK
  <2>4. RowOK(row[handler[h].dup])
    BY <1>2, <2>2 DEF Inv, RowsOK
  <2>5. handler[h].clip \in SignedOrNone /\ handler[h].clip \in RefOrNone
    BY <1>1, Signed DEF HandlerRow, SignedOrNone, RefOrNone
  <2>6. RowOK(x) /\ x.clip = handler[h].clip
    BY <2>2, <2>4, <2>5 DEF RowOK, EventRow, Status
  <2> HIDE DEF x
  <2>7. QED  BY <1>2, <2>1, <2>2, <2>3, <2>5, <2>6, EventAnswered
<1>5. CASE CreateEvent(h)
  <2> DEFINE x == [at |-> At[handler[h].i], clip |-> handler[h].clip,
                   status |-> handler[h].status]
  <2>1. PICK u \in Uuid : row' = [row EXCEPT ![u] = x] /\ Answered(h, u)
    BY <1>5 DEF CreateEvent
  <2>2. handler[h].step = "create" /\ u \in RowId
    BY <1>5 DEF CreateEvent, RowId
  <2>3. /\ handler[h].i \in Incident /\ handler[h].status \in Status
        /\ handler[h].status = "UPLOADED" <=> handler[h].clip # None
    BY <1>1, <2>2 DEF HandlerOK
  <2>4. handler[h].clip \in SignedOrNone /\ handler[h].clip \in RefOrNone
    BY <1>1, Signed DEF HandlerRow, SignedOrNone, RefOrNone
  <2>5. RowOK(x) /\ x.clip = handler[h].clip
    BY <2>3, <2>4 DEF RowOK, EventRow
  <2> HIDE DEF x
  <2>6. QED  BY <2>1, <2>2, <2>4, <2>5, EventAnswered
<1>6. QED  BY <1>3, <1>4, <1>5

\* The record of a posted clip holds the URL that was posted.
LEMMA RecordClipOK ==
  ASSUME Inv, NEW h \in Handler, RecordClip(h)
  PROVE  Inv'
<1>1. /\ handler[h].step = "clip"
      /\ clips' = clips \cup {[ref |-> handler[h].clip, expired |-> FALSE]}
      /\ handler' = [handler EXCEPT ![h] = NoHandler]
      /\ UNCHANGED <<client, queue, outbox, row, stored, cleaner, heldBy>>
  BY DEF RecordClip
<1>2. handler[h].clip \in SignedRef
  BY <1>1 DEF Inv, HandlersOK, HandlerOK, HandlerRow, SignedOrNone
<1>3. [ref |-> handler[h].clip, expired |-> FALSE] \in SignedClip
  BY <1>2 DEF SignedClip
<1>4. ClipsOK'
  BY <1>1, <1>3 DEF Inv, ClipsOK
<1>5. HandlersOK' /\ DupsThere' /\ handler'[h] = NoHandler
        /\ \A g \in Handler \ {h} : handler'[g] = handler[g]
  BY <1>1, IdleOK, HandlerGoes
<1>6. \A i \in Incident : client[i].on # h
  BY <1>1 DEF Inv, LinksOK
<1>7. LinksOK'
  BY <1>1, <1>5, <1>6 DEF Inv, LinksOK
<1>8. QED  BY <1>1, <1>4, <1>5, <1>7, Stays DEF Inv

-----------------------------------------------------------------------------
(* The cleanup *)

\* A clip that has expired still names what it named.
LEMMA ExpireOK ==
  ASSUME Inv, NEW c \in clips, Expire(c)
  PROVE  Inv'
<1>1. [c EXCEPT !.expired = TRUE] \in SignedClip
  BY DEF Inv, ClipsOK, SignedClip
<1>2. ClipsOK'
  BY <1>1 DEF Inv, ClipsOK, Expire
<1>3. UNCHANGED <<client, queue, outbox, handler, row, stored, cleaner, heldBy>>
  BY DEF Expire
<1>4. QED  BY <1>2, <1>3, Stays DEF Inv

\* The cleanup touches the store and its records.
LEMMA CleanOK ==
  ASSUME Inv, (\E c \in clips : CleanObject(c)) \/ CleanRow \/ CleanFails
  PROVE  Inv'
<1>1. UNCHANGED <<client, queue, outbox, handler, row, heldBy>>
  BY DEF CleanObject, CleanRow, CleanFails
<1>2. StoredOK' /\ ClipsOK'
  BY DEF Inv, StoredOK, ClipsOK, CleanObject, CleanRow, CleanFails
<1>3. QED  BY <1>1, <1>2, Stays DEF Inv

-----------------------------------------------------------------------------
(* The invariant and what follows from it *)

\* There is nothing yet to be wrong.
LEMMA InitInv == Init => Inv
<1>1. SUFFICES ASSUME Init PROVE Inv
  OBVIOUS
<1>2. [step |-> "unseen", tries |-> 0, clip |-> None, on |-> None, loop |-> None] \in ClientRow
  BY EvidenceAssumption DEF ClientRow, SignedOrNone
<1>3. ClientsOK
  BY <1>1, <1>2 DEF Init, ClientsOK, ClientOK, Working
<1>4. HandlersOK /\ DupsThere
  BY <1>1, IdleOK DEF Init, HandlersOK, HandlerOK, DupsThere
<1>5. LinksOK
  BY <1>1, EvidenceAssumption DEF Init, LinksOK
<1>6. StoredOK
  BY <1>1 DEF Init, StoredOK
<1>7. QED  BY <1>1, <1>3, <1>4, <1>5, <1>6
           DEF Init, Inv, OutboxOK, RowsOK, ClipsOK, HeldOK, QueueOK

\* Every step keeps the invariant.
LEMMA NextInv == Inv /\ [Next]_vars => Inv'
<1> SUFFICES ASSUME Inv, [Next]_vars PROVE Inv'
  OBVIOUS
<1>1. CASE \E i \in Incident : Capture(i) \/ Retry(i) \/ ConnectionLost(i)
  BY <1>1, CaptureOK, ConnectionLostOK
<1>2. CASE \E i \in Incident, h \in Handler : Send(i, h)
  BY <1>2, SendOK
<1>3. CASE (\E l \in Loop : Begin(l, "tick") \/ End(l)) \/ Stop
  BY <1>3, LoopOK
<1>4. CASE \E p \in outbox, h \in Handler : Resend(p, h)
  BY <1>4, ResendOK
<1>5. CASE \E h \in Handler : Serve(h)
  BY <1>5, FindForUploadOK, PutOK, UpsertOK, FindForEventOK, EventOK, RecordClipOK, FailsOK
     DEF Serve
<1>6. CASE \E c \in clips : Expire(c) \/ CleanObject(c)
  BY <1>6, ExpireOK, CleanOK
<1>7. CASE CleanRow \/ CleanFails
  BY <1>7, CleanOK
<1>8. CASE UNCHANGED vars
  BY <1>8, Stays DEF vars, retention, Inv
<1>9. QED  BY <1>1, <1>2, <1>3, <1>4, <1>5, <1>6, <1>7, <1>8 DEF Next, Step

\* What the invariant says of the types.
LEMMA InvTypes ==
  ASSUME Inv, disturbed \in BOOLEAN
  PROVE  TypeOK
<1>1. SignedOrNone \subseteq RefOrNone /\ SignedClip \subseteq Clip
  BY Signed DEF SignedOrNone, RefOrNone, SignedClip, Clip
<1>2. client \in [Incident ->
       [step : {"unseen", "sending", "queued", "tried", "done", "dropped"} \cup Working,
        tries : 0..MaxTries, clip : RefOrNone, on : Handler \cup {None},
        loop : Loop \cup {None}]]
  BY <1>1 DEF Inv, ClientsOK, ClientRow
<1>3. handler \in [Handler ->
       [step : {"idle", "find", "put", "upsert", "keep", "update", "create", "clip"},
        task : {"upload", "event", None}, i : Incident \cup {None}, clip : RefOrNone,
        status : Status \cup {None}, dup : RowId \cup {None}, tries : 0..MaxTries]]
  BY <1>1 DEF Inv, HandlersOK, HandlerRow
<1>4. \A h \in Handler :
       handler[h].step # "idle" =>
         /\ handler[h].i \in Incident /\ handler[h].status \in Status
         /\ handler[h].dup # None => row[handler[h].dup] # None
         /\ handler[h].step \in {"keep", "update"} => handler[h].dup # None
         /\ handler[h].step \in {"update", "clip"} => handler[h].clip # None
  BY DEF Inv, HandlersOK, HandlerOK, DupsThere
<1>5. outbox \subseteq Post
  BY DEF Inv, OutboxOK, PostOK, Post
<1>6. clips \subseteq Clip /\ cleaner \in Clip \cup {None}
  BY <1>1 DEF Inv, ClipsOK
<1>7. row \in [RowId -> EventRow \cup {None}] /\ stored \subseteq Key
        /\ heldBy \in [Incident -> RowId \cup {None}]
  BY DEF Inv, RowsOK, StoredOK, HeldOK
<1>8. /\ worker \in [Loop -> {"idle", "tick", "flush"}]
      /\ live \in Loop \cup {None} /\ cut \in BOOLEAN
  BY DEF Inv, QueueOK
<1>9. QED  BY <1>2, <1>3, <1>4, <1>5, <1>6, <1>7, <1>8 DEF TypeOK

\* The invariant holds in every behaviour.
LEMMA AlwaysInv == Spec => [](Inv /\ disturbed \in BOOLEAN)
<1>1. Init => disturbed \in BOOLEAN
  BY DEF Init
<1>2. disturbed \in BOOLEAN /\ [Next]_vars => (disturbed \in BOOLEAN)'
  <2>1. ASSUME disturbed \in BOOLEAN, Next PROVE (disturbed \in BOOLEAN)'
    BY <2>1 DEF Next, Watch
  <2>2. ASSUME disturbed \in BOOLEAN, UNCHANGED vars PROVE (disturbed \in BOOLEAN)'
    BY <2>2 DEF vars
  <2>3. QED  BY <2>1, <2>2
<1>3. QED  BY <1>1, <1>2, InitInv, NextInv, PTL DEF Spec

\* Every variable has its type, and a request under way names its incident and
\* what it has found.  (proctoring.service.ts)
THEOREM EvidenceTypeCorrect == Spec => []TypeOK
BY AlwaysInv, InvTypes, PTL

\* An incident the browser is done with is recorded in a row that is there.
\* (evidence-upload.service.ts, proctoring.service.ts)
THEOREM DoneIsKept == Spec => []DoneIsRecorded
<1>1. Inv => DoneIsRecorded
  BY DEF Inv, HeldOK, DoneIsRecorded
<1>2. QED  BY <1>1, AlwaysInv, PTL

-----------------------------------------------------------------------------
(* The cooldown *)

\* No two rows are near each other, and the only row near one that is about to
\* be added is the row an upload is about to write.
Spread ==
  /\ \A r, s \in RowId :
       r # s /\ row[r] # None /\ row[s] # None => ~Near(row[r].at, row[s].at)
  /\ \A h \in Handler, r \in RowId :
       Adding(h) /\ row[r] # None /\ Near(row[r].at, At[handler[h].i]) =>
         handler[h].task = "upload" /\ r = Bucket(handler[h].i)

\* Nobody overlaps, and the step moves no row.
Calm == /\ \A g, h \in Handler : ~Overlap(g, h)
        /\ \A r \in RowId : ~Moved(r)

\* Near is symmetric.
LEMMA NearSymmetric == ASSUME NEW a, NEW b PROVE Near(a, b) <=> Near(b, a)
BY DEF Near

\* Rows that stay where they are stay apart, while no request begins to add.
LEMMA SpreadStays ==
  ASSUME Spread, NEW h \in Handler,
         \A g \in Handler \ {h} : handler'[g] = handler[g],
         Adding(h)' => /\ Adding(h) /\ handler'[h].i = handler[h].i
                       /\ handler'[h].task = handler[h].task,
         \A r \in RowId : row'[r] # None => row[r] # None /\ row'[r].at = row[r].at
  PROVE  Spread'
BY DEF Spread, Adding

\* The same, of a step that no request takes.
LEMMA SpreadFrame ==
  ASSUME Spread, UNCHANGED <<handler, row>>
  PROVE  Spread'
BY DEF Spread, Adding

\* A request that finds no event near its own may add one.
LEMMA SpreadFound ==
  ASSUME Spread, NEW h \in Handler, UNCHANGED row,
         \A g \in Handler \ {h} : handler'[g] = handler[g],
         handler'[h].i = handler[h].i,
         \/ handler'[h].dup # None
         \/ \A r \in RowId : row[r] # None => ~Near(row[r].at, At[handler[h].i])
  PROVE  Spread'
BY DEF Spread, Adding

\* A row that is added where there is none keeps its distance.
LEMMA SpreadAdded ==
  ASSUME Spread, Calm, NEW h \in Handler, Adding(h), handler[h].i \in Incident,
         handler[h].task \in {"upload", "event"},
         NEW r \in RowId, row[r] = None, row'[r] # None, row'[r].at = At[handler[h].i],
         \A s \in RowId \ {r} : row'[s] = row[s],
         handler[h].task = "upload" => r = Bucket(handler[h].i),
         \A g \in Handler \ {h} : handler'[g] = handler[g],
         ~Adding(h)'
  PROVE  Spread'
<1>1. ASSUME NEW s \in RowId, s # r, row[s] # None PROVE ~Near(row[s].at, row'[r].at)
  BY <1>1 DEF Spread
<1>2. ASSUME NEW s \in RowId, NEW t \in RowId, s # t, row'[s] # None, row'[t] # None
      PROVE  ~Near(row'[s].at, row'[t].at)
  <2>1. CASE t = r
    BY <1>1, <1>2, <2>1
  <2>2. CASE s = r
    BY <1>1, <1>2, <2>2, NearSymmetric
  <2>3. CASE s # r /\ t # r
    BY <1>2, <2>3 DEF Spread
  <2>4. QED  BY <2>1, <2>2, <2>3
<1>3. ASSUME NEW g \in Handler, NEW s \in RowId, Adding(g)', row'[s] # None,
             Near(row'[s].at, At[handler'[g].i])
      PROVE  handler'[g].task = "upload" /\ s = Bucket(handler'[g].i)
  <2>1. g # h /\ handler'[g] = handler[g] /\ Adding(g)
    BY <1>3 DEF Adding
  <2>2. CASE s # r
    BY <1>3, <2>1, <2>2 DEF Spread
  <2>3. CASE s = r
    <3>1. Near(At[handler[g].i], At[handler[h].i])
      BY <1>3, <2>1, <2>3, NearSymmetric
    <3>2. /\ handler[g].task = "upload" /\ handler[h].task = "upload"
          /\ Bucket(handler[g].i) = Bucket(handler[h].i)
      BY <2>1, <3>1 DEF Calm, Overlap
    <3>3. QED  BY <2>1, <2>3, <3>2
  <2>4. QED  BY <2>2, <2>3
<1>4. QED  BY <1>2, <1>3 DEF Spread

\* The steps of the browser and of the cleanup add no row.
LEMMA OthersSpread ==
  ASSUME Inv, Spread,
         \/ \E i \in Incident : Capture(i) \/ Retry(i) \/ ConnectionLost(i)
         \/ \E i \in Incident, h \in Handler : Send(i, h)
         \/ (\E l \in Loop : Begin(l, "tick") \/ End(l)) \/ Stop
         \/ \E p \in outbox, h \in Handler : Resend(p, h)
         \/ \E c \in clips : Expire(c) \/ CleanObject(c)
         \/ CleanRow \/ CleanFails
         \/ UNCHANGED vars
  PROVE  Spread'
<1>1. ASSUME NEW i \in Incident, NEW h \in Handler, Send(i, h) PROVE Spread'
  <2>1. handler' = [handler EXCEPT ![h] = Request(i)] /\ UNCHANGED row
    BY <1>1 DEF Send
  <2>2. Request(i).step = "find"
    BY <1>1, RequestOK DEF Send
  <2>3. handler'[h].step = "find" /\ \A g \in Handler \ {h} : handler'[g] = handler[g]
    BY <2>1, <2>2 DEF Inv, HandlersOK
  <2>4. ~Adding(h)'
    BY <2>3 DEF Adding
  <2>5. QED  BY <2>1, <2>3, <2>4, SpreadStays
<1>2. ASSUME NEW p \in outbox, NEW h \in Handler, Resend(p, h) PROVE Spread'
  <2>1. UNCHANGED row /\ handler'[h].step = "find"
          /\ \A g \in Handler \ {h} : handler'[g] = handler[g]
    BY <1>2 DEF Resend, Inv, HandlersOK
  <2>2. ~Adding(h)'
    BY <2>1 DEF Adding
  <2>3. QED  BY <2>1, <2>2, SpreadStays
<1>3. CASE UNCHANGED <<handler, row>>
  BY <1>3, SpreadFrame
<1>4. QED
  BY <1>1, <1>2, <1>3
     DEF Capture, Retry, ConnectionLost, Begin, End, Stop, Expire, CleanObject, CleanRow,
         CleanFails, vars

\* A request touches its own slot only, and one that ends adds nothing.
LEMMA SlotMoves ==
  ASSUME Inv, NEW h \in Handler, NEW x, handler' = [handler EXCEPT ![h] = x]
  PROVE  /\ handler'[h] = x /\ \A g \in Handler \ {h} : handler'[g] = handler[g]
         /\ x.step \notin {"put", "upsert", "create"} => ~Adding(h)'
BY DEF Inv, HandlersOK, Adding

\* The searches.
LEMMA FindSpread ==
  ASSUME Inv, Spread, NEW h \in Handler, FindForUpload(h) \/ FindForEvent(h)
  PROVE  Spread'
<1>1. handler[h] \in HandlerRow /\ UNCHANGED row
  BY DEF Inv, HandlersOK, FindForUpload, FindForEvent
<1>2. CASE handler' = [handler EXCEPT ![h] = NoHandler]
  BY <1>1, <1>2, IdleOK, SlotMoves, SpreadStays
<1>3. CASE handler' # [handler EXCEPT ![h] = NoHandler]
  <2>1. PICK d \in Found(h) :
          /\ \A g \in Handler \ {h} : handler'[g] = handler[g]
          /\ handler'[h].i = handler[h].i /\ handler'[h].dup = d
    <3>1. CASE FindForUpload(h)
      <4>1. PICK d \in Found(h) :
              handler' = [handler EXCEPT ![h].step = "put", ![h].dup = d,
                            ![h].clip = IF d = None THEN None ELSE row[d].clip]
        BY <1>3, <3>1 DEF FindForUpload
      <4>2. PICK c : handler' = [handler EXCEPT ![h].step = "put", ![h].dup = d, ![h].clip = c]
        BY <4>1
      <4>3. QED  BY <1>1, <4>2 DEF Inv, HandlersOK, HandlerRow
    <3>2. CASE FindForEvent(h)
      <4>1. PICK d \in Found(h) : \E s : handler' = [handler EXCEPT ![h].dup = d, ![h].step = s]
        BY <3>2 DEF FindForEvent
      <4>2. PICK s : handler' = [handler EXCEPT ![h].dup = d, ![h].step = s]
        BY <4>1
      <4>3. QED  BY <1>1, <4>2 DEF Inv, HandlersOK, HandlerRow
    <3>3. QED  BY <3>1, <3>2
  <2>2. d # None \/ \A r \in RowId : row[r] # None => ~Near(row[r].at, At[handler[h].i])
    <3>1. CASE Duplicates(handler[h].i) = {}
      BY <3>1 DEF Duplicates
    <3>2. CASE Duplicates(handler[h].i) # {}
      <4>1. d \in Duplicates(handler[h].i)
        BY <3>2 DEF Found
      <4>2. QED  BY <4>1, Signed DEF Duplicates
    <3>3. QED  BY <3>1, <3>2
  <2>3. QED  BY <1>1, <2>1, <2>2, SpreadFound
<1>4. QED  BY <1>2, <1>3

\* Storing the object adds no row yet.
LEMMA PutSpread ==
  ASSUME Inv, Spread, NEW h \in Handler, Put(h)
  PROVE  Spread'
<1>1. handler[h] \in HandlerRow /\ UNCHANGED row /\ handler[h].step = "put"
  BY DEF Inv, HandlersOK, Put
<1>2. /\ \A g \in Handler \ {h} : handler'[g] = handler[g]
      /\ handler'[h].i = handler[h].i /\ handler'[h].task = handler[h].task
      /\ handler'[h].dup = handler[h].dup
  BY <1>1 DEF Inv, HandlersOK, HandlerRow, Put
<1>3. Adding(h)' => Adding(h)
  BY <1>1, <1>2 DEF Adding
<1>4. QED  BY <1>1, <1>2, <1>3, SpreadStays

\* An upload writes the row it found, the row of its bucket, or a new one.
LEMMA UpsertSpread ==
  ASSUME Inv, Spread, Calm, NEW h \in Handler, Upsert(h)
  PROVE  Spread'
<1> DEFINE x == [at |-> At[handler[h].i], clip |-> Object(KeyAt(h)), status |-> "UPLOADED"]
<1>1. /\ handler[h].step = "upsert" /\ row' = [row EXCEPT ![Target(h)] = x]
      /\ handler' = [handler EXCEPT ![h] = NoHandler]
  BY DEF Upsert
<1>2. Target(h) \in RowId /\ handler[h].i \in Incident
  BY <1>1, TargetOK
<1>3. HandlerOK(handler[h]) /\ handler[h].task = "upload"
  BY <1>1 DEF Inv, HandlersOK, HandlerOK
<1>4. /\ row'[Target(h)] = x /\ \A s \in RowId \ {Target(h)} : row'[s] = row[s]
  BY <1>1, <1>2 DEF Inv, RowsOK
<1>5. /\ \A g \in Handler \ {h} : handler'[g] = handler[g]
      /\ ~Adding(h)'
  BY <1>1, IdleOK, SlotMoves
<1>6. CASE row[Target(h)] # None
  <2>1. row'[Target(h)].at = row[Target(h)].at
    BY <1>2, <1>6 DEF Calm, Moved
  <2>2. \A r \in RowId : row'[r] # None => row[r] # None /\ row'[r].at = row[r].at
    BY <1>4, <1>6, <2>1
  <2>3. QED  BY <1>5, <2>2, SpreadStays
<1>7. CASE row[Target(h)] = None
  <2>1. handler[h].dup = None /\ Target(h) = Bucket(handler[h].i)
    BY <1>7 DEF Target, Inv, DupsThere
  <2>2. Adding(h)
    BY <1>1, <2>1 DEF Adding
  <2>3. x # None /\ x.at = At[handler[h].i]
    <3>1. RowOK(x)
      <4>1. KeyAt(h) \in Key
        BY <1>1, TargetOK
      <4>2. Object(KeyAt(h)) \in Ref /\ Object(KeyAt(h)) # None
        BY <4>1, Signed, EvidenceAssumption
      <4>3. QED  BY <1>2, <4>2 DEF RowOK, EventRow, Status, RefOrNone
    <3>2. QED  BY <3>1, EvidenceAssumption DEF RowOK
  <2> HIDE DEF x
  <2>4. QED  BY <1>2, <1>3, <1>4, <1>5, <1>7, <2>1, <2>2, <2>3, SpreadAdded
<1>8. QED  BY <1>6, <1>7

\* A posted event keeps, updates or adds a row.
LEMMA EventSpread ==
  ASSUME Inv, Spread, Calm, NEW h \in Handler, KeepEvent(h) \/ UpdateEvent(h) \/ CreateEvent(h)
  PROVE  Spread'
<1>1. HandlerOK(handler[h]) /\ handler[h] \in HandlerRow
  BY DEF Inv, HandlersOK
<1>2. PICK r : Answered(h, r)
  BY DEF KeepEvent, UpdateEvent, CreateEvent
<1>3. /\ \A g \in Handler \ {h} : handler'[g] = handler[g]
      /\ ~Adding(h)'
  <2>1. CASE handler[h].clip = None
    <3>1. handler' = [handler EXCEPT ![h] = NoHandler]
      BY <1>2, <2>1, Zenon DEF Answered
    <3>2. QED  BY <3>1, IdleOK, SlotMoves
  <2>2. CASE handler[h].clip # None
    <3>1. handler' = [handler EXCEPT ![h] = [handler[h] EXCEPT !.step = "clip"]]
      BY <1>2, <2>2, Zenon DEF Answered
    <3>2. [handler[h] EXCEPT !.step = "clip"].step = "clip"
      BY <1>1 DEF HandlerRow
    <3>3. QED  BY <3>1, <3>2, SlotMoves
  <2>3. QED  BY <2>1, <2>2
<1>4. CASE KeepEvent(h)
  BY <1>3, <1>4, SpreadStays DEF KeepEvent
<1>5. CASE UpdateEvent(h)
  <2>1. handler[h].dup # None
    BY <1>1, <1>5 DEF HandlerOK, UpdateEvent
  <2>2. handler[h].dup \in RowId /\ row[handler[h].dup] # None
    BY <1>1, <2>1 DEF HandlerRow, Inv, DupsThere
  <2>3. \A s \in RowId \ {handler[h].dup} : row'[s] = row[s]
    BY <1>5 DEF UpdateEvent, Inv, RowsOK
  <2>4. row'[handler[h].dup].at = row[handler[h].dup].at
    BY <2>2 DEF Calm, Moved
  <2>5. QED  BY <1>3, <2>2, <2>3, <2>4, SpreadStays
<1>6. CASE CreateEvent(h)
  <2> DEFINE x == [at |-> At[handler[h].i], clip |-> handler[h].clip,
                   status |-> handler[h].status]
  <2>1. PICK u \in Uuid : row[u] = None /\ row' = [row EXCEPT ![u] = x]
    BY <1>6 DEF CreateEvent
  <2>2. handler[h].step = "create" /\ u \in RowId
    BY <1>6 DEF CreateEvent, RowId
  <2>3. /\ handler[h].i \in Incident /\ handler[h].task = "event" /\ Adding(h)
        /\ handler[h].status \in Status
    BY <1>1, <2>2 DEF HandlerOK, Adding
  <2>4. row'[u] = x /\ \A s \in RowId \ {u} : row'[s] = row[s]
    BY <2>1, <2>2 DEF Inv, RowsOK
  <2>5. x # None /\ x.at = At[handler[h].i]
    <3>1. handler[h].clip \in RefOrNone
      BY <1>1, Signed DEF HandlerRow, SignedOrNone, RefOrNone
    <3>2. x \in EventRow
      BY <2>3, <3>1 DEF EventRow
    <3>3. QED  BY <3>2, EvidenceAssumption
  <2> HIDE DEF x
  <2>6. QED  BY <1>3, <2>1, <2>2, <2>3, <2>4, <2>5, SpreadAdded
<1>7. QED  BY <1>4, <1>5, <1>6

\* A request that ends adds nothing.
LEMMA EndSpread ==
  ASSUME Inv, Spread, NEW h \in Handler, RecordClip(h) \/ HandlerFails(h)
  PROVE  Spread'
<1>1. handler' = [handler EXCEPT ![h] = NoHandler] /\ UNCHANGED row
  BY DEF RecordClip, HandlerFails
<1>2. QED  BY <1>1, IdleOK, SlotMoves, SpreadStays

\* No two events are nearer than the cooldown unless two requests that found
\* none overlapped or a row was moved: a lost reply, a retry or a resent post
\* adds no second row.  (proctoring.service.ts findRecentDuplicateEvent)
THEOREM CooldownHolds == Spec => []CooldownKept
<1>1. Init => (~disturbed => Spread)
  BY IdleOK DEF Init, Spread, Adding
<1>2. Inv /\ disturbed \in BOOLEAN /\ (~disturbed => Spread) /\ [Next]_vars
        => (~disturbed => Spread)'
  <2> SUFFICES ASSUME Inv, disturbed \in BOOLEAN, ~disturbed => Spread, [Next]_vars, ~disturbed'
               PROVE  Spread'
    OBVIOUS
  <2>1. CASE UNCHANGED vars
    <3>1. ~disturbed
      BY <2>1 DEF vars
    <3>2. QED  BY <2>1, <3>1, OthersSpread
  <2>2. CASE Next
    <3>1. ~disturbed /\ Calm
      BY <2>2 DEF Next, Watch, Calm
    <3>2. CASE \E h \in Handler : Serve(h)
      BY <3>1, <3>2, FindSpread, PutSpread, UpsertSpread, EventSpread, EndSpread DEF Serve
    <3>3. CASE ~\E h \in Handler : Serve(h)
      BY <2>2, <3>1, <3>3, OthersSpread DEF Next, Step
    <3>4. QED  BY <3>2, <3>3
  <2>3. QED  BY <2>1, <2>2
<1>3. (~disturbed => Spread) => CooldownKept
  BY DEF Spread, CooldownKept
<1>4. QED  BY <1>1, <1>2, <1>3, AlwaysInv, PTL DEF Spec

-----------------------------------------------------------------------------
(* Browser and server are an upload queue *)

\* The abstract state.
Phases   == [i \in Incident |-> PhaseOf(client[i].step)]
Tries    == [i \in Incident |-> client[i].tries]
Recorded == {i \in Incident : heldBy[i] # None}
qvars    == <<Phases, Tries, Recorded, cut>>

\* A clip that is worked at is in a loop, the only one of that loop; loops with
\* clips and the loop through the queue are under way, and until the queue is cut
\* off there is no other.
WorkersOK ==
  /\ live # None => worker[live] # "idle"
  /\ ~cut => \A l \in Loop : worker[l] # "idle" => l = live
  /\ \A i \in Incident :
       /\ client[i].loop # None => worker[client[i].loop] # "idle"
       /\ client[i].step \in Working => client[i].loop # None
  /\ \A i, j \in Incident :
       client[i].step \in Working /\ client[j].step \in Working
         /\ client[i].loop = client[j].loop => i = j

\* What is under way or kept is about an incident that was seen.
Seen ==
  /\ \A h \in Handler : handler[h].step # "idle" => client[handler[h].i].step # "unseen"
  /\ \A p \in outbox : client[p.i].step # "unseen"

\* A client that waits is at its first try, at another or at its report.
LEMMA WaitsAt ==
  ASSUME Inv, NEW i \in Incident, client[i].on # None
  PROVE  ClientOK(client[i]) /\ client[i].step \in Working \cup {"sending"}
BY DEF Inv, ClientsOK, ClientOK

\* The ways a try fails.
LEMMA FailedPhase ==
  ASSUME NEW c, ClientOK(c), c.step \in Working \cup {"sending"}
  PROVE  \/ c.step = "sending" /\ Failed(c).step = "queued" /\ Failed(c).tries = 1
         \/ /\ c.step \in {"retrying", "posting"} /\ c.tries < MaxTries
            /\ Failed(c).step = "tried" /\ Failed(c).tries = c.tries + 1
         \/ /\ c.step \in {"retrying", "posting"} /\ c.tries = MaxTries
            /\ Failed(c).step = "reporting" /\ Failed(c).tries = c.tries
         \/ c.step = "reporting" /\ Failed(c).step = "dropped" /\ Failed(c).tries = c.tries
<1>1. CASE c.step = "sending"
  BY <1>1 DEF Failed, Queued, ClientOK, ClientRow
<1>2. CASE c.step = "reporting"
  BY <1>2 DEF Failed, GivenUp, ClientOK, ClientRow
<1>3. CASE c.step \in {"retrying", "posting"}
  <2>1. c.tries \in 0..MaxTries
    BY DEF ClientOK, ClientRow
  <2>2. Failed(c) = [c EXCEPT !.step  = IF c.tries = MaxTries THEN "reporting" ELSE "tried",
                              !.tries = IF c.tries = MaxTries THEN c.tries ELSE c.tries + 1,
                              !.on    = None]
    BY <1>3 DEF Failed
  <2>3. QED  BY <1>3, <2>1, <2>2, EvidenceAssumption DEF ClientOK, ClientRow
<1>4. QED  BY <1>1, <1>2, <1>3 DEF Working

\* The ways a try succeeds.
LEMMA SucceededPhase ==
  ASSUME NEW c, ClientOK(c), c.step \in Working \cup {"sending"}, NEW url
  PROVE  /\ Succeeded(c, url).tries = c.tries
         /\ \/ c.step = "retrying" /\ Succeeded(c, url).step = "posting"
            \/ c.step # "retrying" /\ Succeeded(c, url).step = "done"
BY DEF Succeeded, ClientOK, ClientRow, Working

\* A client that goes on from a request stays at work in its loop, or enters the
\* loop through the queue, or is in no loop.
LoopKept(c, d) ==
  \/ d.loop = c.loop /\ (d.step \in Working => c.step \in Working)
  \/ d.loop = live /\ d.step \notin Working
  \/ d.loop = None /\ d.step \notin Working

LEMMA GoesOn ==
  ASSUME NEW c, ClientOK(c), c.step \in Working \cup {"sending"}, NEW url
  PROVE  LoopKept(c, Failed(c)) /\ LoopKept(c, Succeeded(c, url))
<1>1. LoopKept(c, Failed(c))
  <2>1. CASE c.step = "sending"
    BY <2>1 DEF LoopKept, Failed, Queued, ClientOK, ClientRow, Working
  <2>2. CASE c.step = "reporting"
    BY <2>2 DEF LoopKept, Failed, GivenUp, ClientOK, ClientRow, Working
  <2>3. CASE c.step \in {"retrying", "posting"}
    <3>1. Failed(c) = [c EXCEPT !.step  = IF c.tries = MaxTries THEN "reporting" ELSE "tried",
                                !.tries = IF c.tries = MaxTries THEN c.tries ELSE c.tries + 1,
                                !.on    = None]
      BY <2>3 DEF Failed
    <3>2. Failed(c).loop = c.loop
      BY <3>1 DEF ClientOK, ClientRow
    <3>3. QED  BY <2>3, <3>2 DEF LoopKept, Working
  <2>4. QED  BY <2>1, <2>2, <2>3 DEF Working
<1>2. LoopKept(c, Succeeded(c, url))
  BY DEF LoopKept, Succeeded, ClientOK, ClientRow, Working
<1>3. QED  BY <1>1, <1>2

\* Such clients leave the loops in order.
LEMMA CalmLoops ==
  ASSUME Inv, WorkersOK, UNCHANGED queue,
         \A i \in Incident : LoopKept(client[i], client'[i])
  PROVE  WorkersOK'
<1>1. UNCHANGED <<worker, live, cut>>
  BY DEF queue
<1>2. QED  BY <1>1 DEF WorkersOK, LoopKept

\* Every step leaves the loops in order.
LEMMA WorkersKept ==
  ASSUME Inv, WorkersOK, [Next]_vars
  PROVE  WorkersOK'
<1>0. \A i \in Incident : client[i] \in ClientRow /\ LoopKept(client[i], client[i])
  BY DEF Inv, ClientsOK, LoopKept
<1>1. CASE UNCHANGED <<client, queue>>
  BY <1>0, <1>1, CalmLoops
<1>2. ASSUME NEW i \in Incident, Capture(i) PROVE WorkersOK'
  <2>1. UNCHANGED queue /\ client' = [client EXCEPT ![i].step = "sending"]
    BY <1>2 DEF Capture
  <2>2. \A j \in Incident : client'[j].loop = client[j].loop
                            /\ (client'[j].step \in Working => client[j].step \in Working)
    BY <1>0, <2>1 DEF Inv, ClientsOK, ClientRow, Working
  <2>3. QED  BY <2>1, <2>2, CalmLoops DEF LoopKept
<1>3. ASSUME NEW i \in Incident, NEW h \in Handler, Send(i, h) PROVE WorkersOK'
  <2>1. UNCHANGED queue /\ client' = [client EXCEPT ![i].on = h]
    BY <1>3 DEF Send
  <2>2. \A j \in Incident : client'[j].loop = client[j].loop /\ client'[j].step = client[j].step
    BY <1>0, <2>1 DEF Inv, ClientsOK, ClientRow
  <2>3. QED  BY <2>1, <2>2, CalmLoops DEF LoopKept
<1>4. ASSUME NEW i \in Incident, Retry(i) PROVE WorkersOK'
  <2>1. /\ UNCHANGED <<worker, live, cut>> /\ client[i].loop # None
        /\ \A j \in Incident : client[j].loop = client[i].loop => client[j].step \notin Working
        /\ client' = [client EXCEPT ![i].step = "retrying"]
    BY <1>4 DEF Retry, queue
  <2>2. /\ \A j \in Incident : client'[j].loop = client[j].loop
        /\ \A j \in Incident \ {i} : client'[j].step = client[j].step
    BY <1>0, <2>1 DEF Inv, ClientsOK, ClientRow
  <2>3. QED  BY <2>1, <2>2 DEF WorkersOK
<1>5. ASSUME NEW i \in Incident, ConnectionLost(i) PROVE WorkersOK'
  <2>1. UNCHANGED queue /\ client' = [client EXCEPT ![i] = Failed(client[i])]
    BY <1>5 DEF ConnectionLost
  <2>2. LoopKept(client[i], Failed(client[i]))
    BY <1>5, WaitsAt, GoesOn DEF ConnectionLost
  <2>3. \A j \in Incident : LoopKept(client[j], client'[j])
    BY <1>0, <2>1, <2>2 DEF Inv, ClientsOK
  <2>4. QED  BY <2>1, <2>3, CalmLoops
<1>6. ASSUME NEW h \in Handler, Serve(h) PROVE WorkersOK'
  <2>1. /\ UNCHANGED queue
        /\ UNCHANGED client \/ client' = Refused(h) \/ \E url : client' = Replied(h, url)
    BY <1>6 DEF Serve, FindForUpload, Put, Upsert, FindForEvent, KeepEvent, UpdateEvent,
                CreateEvent, Answered, RecordClip, HandlerFails
  <2>2. ASSUME NEW i \in Incident, NEW url, client[i].on = h
        PROVE  LoopKept(client[i], Failed(client[i])) /\ LoopKept(client[i], Succeeded(client[i], url))
    BY <2>2, WaitsAt, GoesOn, EvidenceAssumption
  <2>3. \A i \in Incident : LoopKept(client[i], client'[i])
    BY <1>0, <2>1, <2>2 DEF Refused, Replied
  <2>4. QED  BY <2>1, <2>3, CalmLoops
<1>7. ASSUME NEW l \in Loop, NEW by \in {"tick", "flush"}, Begin(l, by) PROVE WorkersOK'
  <2>1. /\ live = None /\ live' = l /\ UNCHANGED cut /\ worker[l] = "idle"
        /\ worker' = [worker EXCEPT ![l] = by]
        /\ client' = [i \in Incident |-> IF i \in Unclaimed THEN [client[i] EXCEPT !.loop = l]
                                                            ELSE client[i]]
    BY <1>7 DEF Begin
  <2>2. /\ worker'[l] # "idle" /\ l # None
        /\ \A m \in Loop \ {l} : worker'[m] = worker[m]
    BY <2>1, EvidenceAssumption DEF Inv, QueueOK
  <2>3. ASSUME NEW i \in Incident
        PROVE  /\ client'[i].step = client[i].step
               /\ i \in Unclaimed => client'[i].loop = l /\ client[i].step = "queued"
               /\ i \notin Unclaimed => client'[i].loop = client[i].loop
               /\ client[i].loop \in Loop \cup {None}
    BY <1>0, <2>1 DEF Unclaimed, ClientRow
  <2>4. QED  BY <2>1, <2>2, <2>3, EvidenceAssumption DEF WorkersOK, Working
<1>8. ASSUME NEW l \in Loop, End(l) PROVE WorkersOK'
  <2>1. PICK gone, lost \in SUBSET Incident :
          /\ client' = [i \in Incident |->
               IF i \in gone
                 THEN [client[i] EXCEPT !.step = IF i \in lost THEN "dropped" ELSE "queued",
                                        !.loop = None]
                 ELSE client[i]]
          /\ \A i \in Incident : client[i].loop = l => i \in gone
          /\ cut' = (cut \/ lost # {})
    BY <1>8, EndsWith
  <2>2. live' = None /\ worker' = [worker EXCEPT ![l] = "idle"]
    BY <1>8 DEF End
  <2>3. worker'[l] = "idle" /\ \A m \in Loop \ {l} : worker'[m] = worker[m]
    BY <2>2 DEF Inv, QueueOK
  <2>4. ASSUME NEW i \in Incident
        PROVE  /\ i \in gone => client'[i].loop = None /\ client'[i].step \notin Working
               /\ i \notin gone => /\ client'[i] = client[i] /\ client[i].loop # l
                                  /\ client[i].loop \in Loop \cup {None}
    BY <1>0, <2>1 DEF ClientRow, Working
  <2>5. \A m \in Loop : ~cut' /\ worker'[m] # "idle" => m = live'
    <3>1. SUFFICES ASSUME NEW m \in Loop, ~cut', worker'[m] # "idle" PROVE FALSE
      OBVIOUS
    <3>2. ~cut /\ m # l /\ worker[m] # "idle" /\ worker[l] # "idle"
      BY <1>8, <2>1, <2>3, <3>1 DEF End
    <3>3. QED  BY <3>2 DEF WorkersOK
  <2>6. QED  BY <2>2, <2>3, <2>4, <2>5 DEF WorkersOK
<1>9. CASE live' = None /\ cut' = TRUE /\ UNCHANGED <<client, worker>>
  BY <1>9 DEF WorkersOK
<1>10. CASE Step
  BY <1>1, <1>2, <1>3, <1>4, <1>5, <1>6, <1>7, <1>8, <1>9, <1>10
     DEF Step, Stop, Resend, Expire, CleanObject, CleanRow, CleanFails
<1>11. QED  BY <1>1, <1>10 DEF Next, vars

\* One client moves, and nothing else does.
LEMMA OneMoves ==
  ASSUME Inv, NEW i \in Incident, NEW c, client' = [client EXCEPT ![i] = c]
  PROVE  /\ Phases' = [Phases EXCEPT ![i] = PhaseOf(c.step)]
         /\ Tries' = [Tries EXCEPT ![i] = c.tries]
<1>1. client'[i] = c /\ \A j \in Incident \ {i} : client'[j] = client[j]
  BY DEF Inv, ClientsOK
<1>2. Phases' = [j \in Incident |-> IF j = i THEN PhaseOf(c.step) ELSE Phases[j]]
  BY <1>1 DEF Phases, PhaseOf
<1>3. Tries' = [j \in Incident |-> IF j = i THEN c.tries ELSE Tries[j]]
  BY <1>1 DEF Tries
<1>4. Phases = [j \in Incident |-> Phases[j]] /\ Tries = [j \in Incident |-> Tries[j]]
  BY DEF Phases, Tries
<1>5. QED  BY <1>2, <1>3, <1>4

\* A try that fails, by whatever end of the connection.
LEMMA FailStep ==
  ASSUME Inv, NEW i \in Incident, client[i].on # None, UNCHANGED <<heldBy, queue>>,
         client' = [client EXCEPT ![i] = Failed(client[i])]
  PROVE  Queue!Fail(i)
<1>1. ClientOK(client[i]) /\ client[i].step \in Working \cup {"sending"}
  BY WaitsAt
<1>2. /\ Phases' = [Phases EXCEPT ![i] = PhaseOf(Failed(client[i]).step)]
      /\ Tries' = [Tries EXCEPT ![i] = Failed(client[i]).tries]
      /\ UNCHANGED <<Recorded, cut>>
  BY OneMoves DEF Recorded, queue
<1>3. Phases[i] = PhaseOf(client[i].step) /\ Tries[i] = client[i].tries
  BY DEF Phases, Tries
<1>4. Tries = [Tries EXCEPT ![i] = Tries[i]]
  BY DEF Tries
<1>5. \/ /\ Phases[i] = "first" /\ PhaseOf(Failed(client[i]).step) = "waiting"
         /\ Failed(client[i]).tries = 1
      \/ /\ Phases[i] = "again" /\ Tries[i] < MaxTries
         /\ PhaseOf(Failed(client[i]).step) = "waiting"
         /\ Failed(client[i]).tries = Tries[i] + 1
      \/ /\ Phases[i] = "again" /\ Tries[i] = MaxTries
         /\ PhaseOf(Failed(client[i]).step) = "last" /\ Failed(client[i]).tries = Tries[i]
      \/ /\ Phases[i] = "last" /\ PhaseOf(Failed(client[i]).step) = "dropped"
         /\ Failed(client[i]).tries = Tries[i]
  BY <1>1, <1>3, FailedPhase DEF PhaseOf
<1>6. QED  BY <1>2, <1>4, <1>5 DEF Queue!Fail, Phases, Tries, Recorded

\* The incident of a request is held by a row from now on.
LEMMA HeldFrom ==
  ASSUME Inv, NEW i \in Incident, NEW r \in RowId, heldBy' = [heldBy EXCEPT ![i] = r]
  PROVE  Recorded' = Recorded \cup {i}
BY Signed DEF Inv, HeldOK, Recorded

\* A request that is answered: whoever waits for it is done, or has its url, and
\* the incident is recorded though nobody waits.
LEMMA AnswerStep ==
  ASSUME Inv, Seen, NEW h \in Handler, handler[h].step # "idle",
         NEW url, client' = Replied(h, url), UNCHANGED queue,
         NEW r \in RowId, heldBy' = [heldBy EXCEPT ![handler[h].i] = r]
  PROVE  Queue!Next
<1>0. UNCHANGED cut /\ \E i \in Incident : i = handler[h].i
  BY DEF queue, Inv, HandlersOK, HandlerOK
<1>i. PICK i \in Incident : i = handler[h].i
  BY <1>0
<1>1. i \in Incident /\ client[i].step # "unseen"
  BY <1>i DEF Seen
<1>2. Recorded' = Recorded \cup {i}
  BY <1>i, HeldFrom
<1>3. \A j \in Incident : client[j].on = h => j = i
  BY <1>i DEF Inv, LinksOK
<1>4. client' = [j \in Incident |-> IF j = i /\ client[i].on = h
                                      THEN Succeeded(client[i], url) ELSE client[j]]
  BY <1>3 DEF Replied
<1>5. CASE client[i].on # h
  <2>1. UNCHANGED client
    BY <1>4, <1>5 DEF Inv, ClientsOK
  <2>2. Phases[i] # "new"
    BY <1>1 DEF Phases, PhaseOf, Inv, ClientsOK, ClientRow, Working
  <2>3. Queue!Record(i)
    BY <1>0, <1>2, <2>1, <2>2 DEF Queue!Record, Phases, Tries, Recorded
  <2>4. QED  BY <1>1, <2>3 DEF Queue!Next
<1>6. CASE client[i].on = h
  <2>1. client' = [client EXCEPT ![i] = Succeeded(client[i], url)]
    BY <1>1, <1>4, <1>6 DEF Inv, ClientsOK
  <2>2. ClientOK(client[i]) /\ client[i].step \in Working \cup {"sending"}
    BY <1>1, <1>6, WaitsAt, EvidenceAssumption
  <2>3. /\ Phases' = [Phases EXCEPT ![i] = PhaseOf(Succeeded(client[i], url).step)]
        /\ Tries' = [Tries EXCEPT ![i] = Succeeded(client[i], url).tries]
    BY <1>1, <2>1, OneMoves
  <2>4. Phases[i] = PhaseOf(client[i].step) /\ Tries = [Tries EXCEPT ![i] = client[i].tries]
        /\ Phases = [Phases EXCEPT ![i] = Phases[i]]
    BY <1>1 DEF Phases, Tries
  <2>5. UNCHANGED Tries
    BY <2>2, <2>3, <2>4, SucceededPhase
  <2>6. CASE client[i].step = "retrying"
    <3>1. PhaseOf(Succeeded(client[i], url).step) = "again" /\ Phases[i] = "again"
      BY <2>2, <2>4, <2>6, SucceededPhase DEF PhaseOf
    <3>2. UNCHANGED Phases
      BY <2>3, <2>4, <3>1
    <3>3. Queue!Record(i)
      BY <1>0, <1>2, <2>5, <3>1, <3>2 DEF Queue!Record, Phases, Tries, Recorded
    <3>4. QED  BY <1>1, <3>3 DEF Queue!Next
  <2>7. CASE client[i].step # "retrying"
    <3>1. PhaseOf(Succeeded(client[i], url).step) = "done"
      BY <2>2, <2>7, SucceededPhase DEF PhaseOf
    <3>2. Phases[i] \in {"first", "again", "last"}
      BY <2>2, <2>4 DEF PhaseOf, Working
    <3>3. Queue!Complete(i)
      BY <1>0, <1>2, <2>3, <2>5, <3>1, <3>2 DEF Queue!Complete, Phases, Tries, Recorded
    <3>4. QED  BY <1>1, <3>3 DEF Queue!Next
  <2>8. QED  BY <2>6, <2>7
<1>7. QED  BY <1>5, <1>6

\* What happens in the browser alone.
LEMMA BrowserStep ==
  ASSUME Inv, WorkersOK, NEW i \in Incident,
         Capture(i) \/ Retry(i) \/ ConnectionLost(i) \/ (\E h \in Handler : Send(i, h))
  PROVE  [Queue!Next]_qvars
<1>0. client[i] \in ClientRow /\ Phases[i] = PhaseOf(client[i].step)
  BY DEF Inv, ClientsOK, Phases
<1>1. CASE Capture(i)
  <2>0. PICK c : c = [client[i] EXCEPT !.step = "sending"]
    OBVIOUS
  <2>1. client' = [client EXCEPT ![i] = c]
    BY <1>1, <2>0 DEF Capture, Inv, ClientsOK
  <2>2. c.step = "sending" /\ c.tries = client[i].tries /\ PhaseOf(c.step) = "first"
    BY <1>0, <2>0 DEF ClientRow, PhaseOf
  <2>3. Phases' = [Phases EXCEPT ![i] = "first"] /\ Tries' = [Tries EXCEPT ![i] = client[i].tries]
    <3>1. /\ Phases' = [Phases EXCEPT ![i] = PhaseOf(c.step)]
          /\ Tries' = [Tries EXCEPT ![i] = c.tries]
      BY <2>1, OneMoves
    <3>2. QED  BY <3>1, <2>2
  <2>4. UNCHANGED <<Tries, Recorded, cut>> /\ Phases[i] = "new"
    BY <1>0, <1>1, <2>3 DEF Capture, Tries, Recorded, PhaseOf, queue
  <2>5. Queue!Submit(i)
    BY <2>3, <2>4 DEF Queue!Submit, Phases, Tries, Recorded
  <2>6. QED  BY <2>5 DEF Queue!Next
<1>2. CASE Retry(i)
  <2>0. PICK c : c = [client[i] EXCEPT !.step = "retrying"]
    OBVIOUS
  <2>1. client' = [client EXCEPT ![i] = c]
    BY <1>2, <2>0 DEF Retry, Inv, ClientsOK
  <2>2. c.step = "retrying" /\ c.tries = client[i].tries /\ PhaseOf(c.step) = "again"
    BY <1>0, <2>0 DEF ClientRow, PhaseOf
  <2>3. Phases' = [Phases EXCEPT ![i] = "again"] /\ Tries' = [Tries EXCEPT ![i] = client[i].tries]
    <3>1. /\ Phases' = [Phases EXCEPT ![i] = PhaseOf(c.step)]
          /\ Tries' = [Tries EXCEPT ![i] = c.tries]
      BY <2>1, OneMoves
    <3>2. QED  BY <3>1, <2>2
  <2>4. UNCHANGED <<Tries, Recorded, cut>> /\ Phases[i] = "waiting"
    BY <1>0, <1>2, <2>3 DEF Retry, Tries, Recorded, PhaseOf, queue
  <2>5. cut \/ \A j \in Incident : Phases[j] \notin {"again", "last"}
    <3>1. SUFFICES ASSUME ~cut, NEW j \in Incident PROVE Phases[j] \notin {"again", "last"}
      OBVIOUS
    <3>2. client[i].loop # None /\ client[i].loop \in Loop /\ client[j].loop \in Loop \cup {None}
      BY <1>2 DEF Retry, Inv, ClientsOK, ClientRow
    <3>3. client[j].step \in Working => client[j].loop = client[i].loop
      BY <3>1, <3>2 DEF WorkersOK
    <3>4. client[j].step \notin Working
      BY <1>2, <3>3 DEF Retry
    <3>5. QED  BY <3>4 DEF Phases, PhaseOf, Working, Inv, ClientsOK, ClientRow
  <2>6. Queue!Take(i)
    BY <2>3, <2>4, <2>5 DEF Queue!Take, Phases, Tries, Recorded
  <2>7. QED  BY <2>6 DEF Queue!Next
<1>3. CASE ConnectionLost(i)
  BY <1>3, FailStep DEF ConnectionLost, Queue!Next
<1>4. ASSUME NEW h \in Handler, Send(i, h) PROVE UNCHANGED qvars
  <2>0. PICK c : c = [client[i] EXCEPT !.on = h]
    OBVIOUS
  <2>1. client' = [client EXCEPT ![i] = c]
    BY <1>4, <2>0 DEF Send, Inv, ClientsOK
  <2>2. c.step = client[i].step /\ c.tries = client[i].tries
    BY <1>0, <2>0 DEF ClientRow
  <2>3. /\ Phases' = [Phases EXCEPT ![i] = PhaseOf(client[i].step)]
        /\ Tries' = [Tries EXCEPT ![i] = client[i].tries]
    <3>1. /\ Phases' = [Phases EXCEPT ![i] = PhaseOf(c.step)]
          /\ Tries' = [Tries EXCEPT ![i] = c.tries]
      BY <2>1, OneMoves
    <3>2. QED  BY <3>1, <2>2
  <2>4. /\ Phases = [Phases EXCEPT ![i] = PhaseOf(client[i].step)]
        /\ Tries = [Tries EXCEPT ![i] = client[i].tries]
    BY DEF Phases, Tries
  <2>5. UNCHANGED <<Recorded, cut>>
    BY <1>4 DEF Send, Recorded, queue
  <2>6. QED  BY <2>3, <2>4, <2>5 DEF qvars
<1>5. QED  BY <1>1, <1>2, <1>3, <1>4

\* A loop that begins is not seen; one that ends without loss is not either, and
\* one that ends with loss, or a stop that finds a loop, cuts the queue off.
LEMMA LoopStep ==
  ASSUME Inv, (\E l \in Loop : Begin(l, "tick") \/ End(l)) \/ Stop
  PROVE  [Queue!Next]_qvars
<1>0. \A i \in Incident : client[i] \in ClientRow
  BY DEF Inv, ClientsOK
<1>1. UNCHANGED Recorded
  BY DEF Begin, End, Stop, Recorded
<1>2. ASSUME NEW l \in Loop, NEW by, Begin(l, by) PROVE UNCHANGED qvars
  <2>1. UNCHANGED cut /\ client' = [i \in Incident |->
          IF i \in Unclaimed THEN [client[i] EXCEPT !.loop = l] ELSE client[i]]
    BY <1>2 DEF Begin
  <2>2. \A i \in Incident : client'[i].step = client[i].step /\ client'[i].tries = client[i].tries
    BY <1>0, <2>1 DEF ClientRow
  <2>3. QED  BY <1>1, <2>1, <2>2 DEF qvars, Phases, Tries
<1>3. ASSUME NEW l \in Loop, End(l) PROVE [Queue!Next]_qvars
  <2>1. PICK gone, lost \in SUBSET Incident :
          /\ lost \subseteq gone
          /\ \A i \in gone : client[i].step \in {"queued", "tried"}
          /\ client' = [i \in Incident |->
               IF i \in gone
                 THEN [client[i] EXCEPT !.step = IF i \in lost THEN "dropped" ELSE "queued",
                                        !.loop = None]
                 ELSE client[i]]
          /\ cut' = (cut \/ lost # {})
    BY <1>3, EndsWith
  <2>2. \A i \in Incident :
          /\ client'[i].tries = client[i].tries
          /\ i \in lost => client'[i].step = "dropped"
          /\ i \in gone \ lost => client'[i].step = "queued"
          /\ i \notin gone => client'[i].step = client[i].step
    BY <1>0, <2>1 DEF ClientRow
  <2>3. \A i \in gone : Phases[i] = "waiting"
    BY <2>1 DEF Phases, PhaseOf
  <2>4. Phases' = [i \in Incident |-> IF i \in lost THEN "dropped" ELSE Phases[i]]
    <3>1. ASSUME NEW i \in Incident
          PROVE  PhaseOf(client'[i].step) = IF i \in lost THEN "dropped" ELSE PhaseOf(client[i].step)
      <4>1. CASE i \in gone
        BY <2>1, <2>2, <4>1 DEF PhaseOf
      <4>2. CASE i \notin gone
        BY <2>1, <2>2, <4>2
      <4>3. QED  BY <4>1, <4>2
    <3>2. QED  BY <3>1, Zenon DEF Phases
  <2>5. UNCHANGED Tries
    BY <2>2 DEF Tries
  <2>6. CASE lost = {}
    <3>1. Phases' = Phases
      BY <2>4, <2>6 DEF Phases
    <3>2. cut' = cut
      BY <2>1, <2>6 DEF Inv, QueueOK
    <3>3. QED  BY <1>1, <2>5, <3>1, <3>2 DEF qvars
  <2>7. CASE lost # {}
    <3>1. Queue!CutOff(lost)
      BY <1>1, <2>1, <2>3, <2>4, <2>5, <2>7 DEF Queue!CutOff, Phases, Tries, Recorded
    <3>2. QED  BY <3>1 DEF Queue!Next
  <2>8. QED  BY <2>6, <2>7
<1>4. CASE cut' = TRUE /\ UNCHANGED client
  <2>1. Queue!CutOff({})
    BY <1>1, <1>4 DEF Queue!CutOff, Phases, Tries, Recorded
  <2>2. QED  BY <2>1 DEF Queue!Next
<1>5. QED  BY <1>2, <1>3, <1>4 DEF Stop

\* What the server does for a request.
LEMMA ServeStep ==
  ASSUME Inv, Seen, NEW h \in Handler, Serve(h)
  PROVE  [Queue!Next]_qvars
<1>0. HandlerOK(handler[h]) /\ handler[h].dup \in RowId \cup {None}
  BY DEF Inv, HandlersOK, HandlerRow
<1>q. UNCHANGED queue /\ UNCHANGED cut
  BY DEF Serve, FindForUpload, Put, Upsert, FindForEvent, KeepEvent, UpdateEvent, CreateEvent,
         Answered, RecordClip, HandlerFails, queue
<1>1. CASE FindForUpload(h)
  <2>1. PICK d \in Found(h) :
         IF d # None /\ row[d].clip # None /\ row[d].status = "UPLOADED"
           THEN /\ client' = Replied(h, Url(row[d].clip.key))
                /\ heldBy' = [heldBy EXCEPT ![handler[h].i] = d]
           ELSE UNCHANGED <<client, heldBy>>
    BY <1>1 DEF FindForUpload
  <2>2. d # None => d \in RowId
    BY DEF Found, Duplicates
  <2>3. CASE UNCHANGED <<client, heldBy>>
    BY <1>q, <2>3 DEF qvars, Phases, Tries, Recorded
  <2>4. CASE ~UNCHANGED <<client, heldBy>>
    BY <1>1, <1>q, <2>1, <2>2, <2>4, AnswerStep DEF FindForUpload
  <2>5. QED  BY <2>3, <2>4
<1>2. CASE Upsert(h)
  BY <1>2, <1>q, TargetOK, AnswerStep DEF Upsert
<1>3. CASE KeepEvent(h) \/ UpdateEvent(h) \/ CreateEvent(h)
  <2>1. PICK r \in RowId : Answered(h, r)
    BY <1>0, <1>3 DEF KeepEvent, UpdateEvent, CreateEvent, HandlerOK, RowId
  <2>2. handler[h].step # "idle"
    BY <1>3 DEF KeepEvent, UpdateEvent, CreateEvent
  <2>3. QED  BY <1>q, <2>1, <2>2, AnswerStep DEF Answered
<1>4. CASE HandlerFails(h)
  <2>0. PICK i \in Incident : i = handler[h].i
    BY <1>4 DEF HandlerFails, Inv, HandlersOK, HandlerOK
  <2>1. i \in Incident /\ \A j \in Incident : client[j].on = h => j = i
    BY <2>0 DEF Inv, LinksOK
  <2>2. client' = [j \in Incident |-> IF j = i /\ client[i].on = h
                                        THEN Failed(client[i]) ELSE client[j]]
    BY <1>4, <2>1 DEF HandlerFails, Refused
  <2>3. CASE client[i].on # h
    BY <1>4, <1>q, <2>2, <2>3 DEF HandlerFails, Inv, ClientsOK, qvars, Phases, Tries, Recorded
  <2>4. CASE client[i].on = h
    <3>1. client' = [client EXCEPT ![i] = Failed(client[i])]
      BY <2>1, <2>2, <2>4 DEF Inv, ClientsOK
    <3>2. Queue!Fail(i)
      BY <1>4, <1>q, <2>1, <2>4, <3>1, FailStep, EvidenceAssumption DEF HandlerFails
    <3>3. QED  BY <2>1, <3>2 DEF Queue!Next
  <2>5. QED  BY <2>3, <2>4
<1>5. CASE Put(h) \/ FindForEvent(h) \/ RecordClip(h)
  BY <1>5, <1>q DEF Put, FindForEvent, RecordClip, qvars, Phases, Tries, Recorded
<1>6. QED  BY <1>1, <1>2, <1>3, <1>4, <1>5 DEF Serve

\* Every step is a step of the queue, or none.
LEMMA QueueStep ==
  ASSUME Inv, WorkersOK, Seen, [Next]_vars
  PROVE  [Queue!Next]_qvars
<1>1. CASE \E i \in Incident :
             Capture(i) \/ Retry(i) \/ ConnectionLost(i) \/ (\E h \in Handler : Send(i, h))
  BY <1>1, BrowserStep
<1>2. CASE (\E l \in Loop : Begin(l, "tick") \/ End(l)) \/ Stop
  BY <1>2, LoopStep
<1>3. CASE \E h \in Handler : Serve(h)
  BY <1>3, ServeStep
<1>4. CASE UNCHANGED <<client, queue, heldBy>>
  BY <1>4 DEF qvars, Phases, Tries, Recorded, queue
<1>5. QED
  BY <1>1, <1>2, <1>3, <1>4
     DEF Next, Step, Resend, Expire, CleanObject, CleanRow, CleanFails, vars

\* An incident that was seen is not unseen again.
LEMMA Onward ==
  ASSUME Inv, WorkersOK, Seen, [Next]_vars, NEW i \in Incident, client[i].step # "unseen"
  PROVE  client'[i].step # "unseen"
<1>1. Phases[i] # "new"
  BY DEF Phases, PhaseOf, Inv, ClientsOK, ClientRow, Working
<1>2. Phases'[i] # "new"
  BY <1>1, QueueStep
     DEF qvars, Queue!Next, Queue!Submit, Queue!Take, Queue!Fail, Queue!Record,
         Queue!Complete, Queue!CutOff, Phases
<1>3. QED  BY <1>2 DEF Phases, PhaseOf

\* A request is about an incident that was seen before it was sent.
LEMMA AtWork ==
  ASSUME Inv, Seen, [Next]_vars, NEW h \in Handler, handler'[h].step # "idle"
  PROVE  handler'[h].i \in Incident /\ client[handler'[h].i].step # "unseen"
<1>0. /\ handler \in [Handler -> HandlerRow]
      /\ handler[h].step # "idle" =>
           handler[h].i \in Incident /\ client[handler[h].i].step # "unseen"
  BY DEF Inv, HandlersOK, HandlerOK, Seen
<1>1. CASE handler[h].step # "idle" /\ handler'[h].i = handler[h].i
  BY <1>0, <1>1
<1>2. ASSUME NEW i \in Incident, NEW g \in Handler, Send(i, g)
      PROVE  \/ handler'[h] = handler[h]
             \/ handler'[h].i = i /\ client[i].step # "unseen"
  <2>1. Request(i).i = i
    BY DEF Request, NoHandler
  <2>2. client[i].step # "unseen"
    BY <1>2 DEF Send, Working
  <2>3. handler'[h] = handler[h] \/ handler'[h] = Request(i)
    BY <1>0, <1>2 DEF Send
  <2>4. QED  BY <2>1, <2>2, <2>3
<1>3. ASSUME NEW p \in outbox, NEW g \in Handler, Resend(p, g)
      PROVE  \/ handler'[h] = handler[h]
             \/ /\ handler'[h].i = p.i /\ p.i \in Incident
                /\ client[p.i].step # "unseen"
  <2>1. p.i \in Incident /\ client[p.i].step # "unseen"
    BY DEF Seen, Inv, OutboxOK, PostOK, Post
  <2>2. PICK x : x.i = p.i /\ handler' = [handler EXCEPT ![g] = x]
    BY <1>3 DEF Resend
  <2>3. QED  BY <1>0, <2>1, <2>2
<1>4. ASSUME NEW g \in Handler, Serve(g)
      PROVE  \/ handler'[h] = handler[h]
             \/ handler[h].step # "idle" /\ handler'[h].i = handler[h].i
  <2>1. handler[g] \in HandlerRow
    BY <1>0
  <2>2. PICK x : (x = NoHandler \/ x.i = handler[g].i) /\ handler' = [handler EXCEPT ![g] = x]
    <3>0. CASE Put(g) \/ Upsert(g)
      BY <2>1, <3>0 DEF Put, Upsert, HandlerRow
    <3>1. CASE FindForUpload(g)
      <4>1. PICK d \in Found(g) :
              \/ handler' = [handler EXCEPT ![g] = NoHandler]
              \/ handler' = [handler EXCEPT ![g].step = "put", ![g].dup = d,
                               ![g].clip = IF d = None THEN None ELSE row[d].clip]
        BY <3>1 DEF FindForUpload
      <4>2. PICK x : x = [handler[g] EXCEPT !.step = "put", !.dup = d,
                                            !.clip = IF d = None THEN None ELSE row[d].clip]
        OBVIOUS
      <4>3. x.i = handler[g].i
        BY <2>1, <4>2 DEF HandlerRow
      <4>4. \/ handler' = [handler EXCEPT ![g] = NoHandler]
            \/ handler' = [handler EXCEPT ![g] = x]
        BY <1>0, <4>1, <4>2
      <4>5. QED  BY <4>3, <4>4
    <3>2. CASE FindForEvent(g)
      BY <2>1, <3>2 DEF FindForEvent, HandlerRow
    <3>3. CASE KeepEvent(g) \/ UpdateEvent(g) \/ CreateEvent(g)
      BY <2>1, <3>3 DEF KeepEvent, UpdateEvent, CreateEvent, Answered, HandlerRow
    <3>4. CASE RecordClip(g) \/ HandlerFails(g)
      BY <3>4 DEF RecordClip, HandlerFails
    <3>5. QED  BY <1>4, <3>0, <3>1, <3>2, <3>3, <3>4 DEF Serve
  <2>3. handler[g].step # "idle"
    BY <1>4 DEF Serve, FindForUpload, Put, Upsert, FindForEvent, KeepEvent, UpdateEvent,
                CreateEvent, RecordClip, HandlerFails
  <2>4. NoHandler.step = "idle"
    BY DEF NoHandler
  <2>5. CASE h = g
    BY <1>0, <2>2, <2>3, <2>4, <2>5
  <2>6. CASE h # g
    BY <1>0, <2>2, <2>6
  <2>7. QED  BY <2>5, <2>6
<1>5. CASE UNCHANGED handler
  BY <1>0, <1>5
<1>6. QED
  BY <1>0, <1>1, <1>2, <1>3, <1>4, <1>5
     DEF Next, Step, Capture, Retry, ConnectionLost, Begin, End, Stop, Expire, CleanObject,
         CleanRow, CleanFails, vars

\* A post that is kept is about an incident that was seen.
LEMMA OnFile ==
  ASSUME Inv, Seen, [Next]_vars, NEW p \in outbox'
  PROVE  p.i \in Incident /\ client[p.i].step # "unseen"
<1>1. CASE p \in outbox
  BY <1>1 DEF Seen, Inv, OutboxOK, PostOK, Post
<1>2. ASSUME NEW i \in Incident, p \in Kept(i)
      PROVE  p.i \in Incident /\ client[p.i].step # "unseen"
  BY <1>2 DEF Kept
<1>3. ASSUME NEW q \in Post, p \in Again(q), client[q.i].step # "unseen"
      PROVE  p.i \in Incident /\ client[p.i].step # "unseen"
  BY <1>3 DEF Again, Post
<1>4. CASE \E i \in Incident : ConnectionLost(i)
  BY <1>1, <1>2, <1>4 DEF ConnectionLost
<1>5. CASE \E q \in outbox, h \in Handler : Resend(q, h)
  BY <1>1, <1>3, <1>5 DEF Resend, Seen, Inv, OutboxOK, PostOK, Post
<1>6. CASE \E h \in Handler : HandlerFails(h)
  <2>1. PICK h \in Handler : HandlerFails(h)
    BY <1>6
  <2>2. p \in outbox \/ (\E i \in Incident : p \in Kept(i)) \/ p \in KeptAgain(h)
    BY <2>1 DEF HandlerFails, KeptBy
  <2>3. CASE p \in KeptAgain(h)
    <3> DEFINE q == [i |-> handler[h].i, clip |-> handler[h].clip,
                     status |-> handler[h].status, tries |-> handler[h].tries]
    <3>1. handler[h].i \in Incident /\ client[handler[h].i].step # "unseen"
      BY <2>1 DEF HandlerFails, Seen, Inv, HandlersOK, HandlerOK
    <3>2. p \in Again(q)
      BY <2>3 DEF KeptAgain
    <3>3. p.i = handler[h].i
      BY <3>2 DEF Again
    <3>4. QED  BY <3>1, <3>3
  <2>4. QED  BY <1>1, <1>2, <2>2, <2>3
<1>7. CASE UNCHANGED outbox
  BY <1>1, <1>7
<1>8. QED
  BY <1>4, <1>5, <1>6, <1>7
     DEF Next, Step, Capture, Retry, Send, Begin, End, Stop, Serve, FindForUpload, Put, Upsert,
         FindForEvent, KeepEvent, UpdateEvent, CreateEvent, Answered, RecordClip,
         Expire, CleanObject, CleanRow, CleanFails, vars

\* Nor is anything sent or kept about one that is unseen.
LEMMA SeenKept ==
  ASSUME Inv, WorkersOK, Seen, [Next]_vars
  PROVE  Seen'
<1>1. ASSUME NEW h \in Handler, handler'[h].step # "idle"
      PROVE  handler'[h].i \in Incident /\ client[handler'[h].i].step # "unseen"
  BY <1>1, AtWork
<1>2. ASSUME NEW p \in outbox'
      PROVE  p.i \in Incident /\ client[p.i].step # "unseen"
  BY <1>2, OnFile
<1>3. QED  BY <1>1, <1>2, Onward DEF Seen

\* Whatever is lost, overlaps, fails, is sent again or stopped, each incident goes
\* through the queue once: it is done with only if it is recorded, and until a stop
\* takes the queue from a loop or clips from the queue there is one worker and
\* nothing is given up before its tries and its report.
\* (evidence-upload.service.ts processQueue, flush, reset)
THEOREM EvidenceImplementsQueue == Spec => ImplementsUploadQueue
<1>1. Init => Queue!Init /\ Seen /\ WorkersOK
  BY IdleOK DEF Init, Seen, WorkersOK, Working, Queue!Init, PhaseOf
<1>2. Inv /\ WorkersOK /\ Seen /\ [Next]_vars => WorkersOK' /\ Seen' /\ [Queue!Next]_qvars
  BY WorkersKept, SeenKept, QueueStep
<1>3. QED
  BY <1>1, <1>2, AlwaysInv, PTL
     DEF Spec, ImplementsUploadQueue, Queue!Spec, Queue!vars, qvars, Phases, Tries, Recorded
=============================================================================
