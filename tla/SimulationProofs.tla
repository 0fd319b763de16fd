--------------------------- MODULE SimulationProofs ---------------------------
(***************************************************************************)
(* Proofs about Simulation, for any number of requests in flight.          *)
(***************************************************************************)
EXTENDS Simulation, TLAPS

ReqRow ==
  [step : {"idle", "state", "hydrate", "log", "init", "append", "read", "save",
           "persist", "write"},
   kind : Kind \cup {None}, obj : Obj \cup {None}, held : PayloadRow,
   snap : SnapRow, older : SUBSET Caller, late : BOOLEAN]

\* A request has its kind, and its object from the time it has worked on one; a
\* payload that is a log holds no evaluation.
ReqOK(x) ==
  /\ x \in ReqRow
  /\ x.step # "idle" => x.kind \in Kind
  /\ x.step \in {"state", "hydrate", "persist", "write"} => x.kind # "command"
  /\ x.step \in {"log", "init", "append"} => x.kind \notin {"open", "read"}
  /\ x.step = "read" => x.kind = "reply"
  /\ x.step = "save" => x.kind \in {"say", "reply", "submit"}
  /\ x.obj = None <=> x.step \in {"idle", "state", "hydrate"} \/ x.kind = "command"
  /\ x.step \in {"init", "append"} => x.held.log
  /\ ~(x.held.log /\ x.held.result)

RespOK == resp \in PayloadRow \cup {None} /\ (resp # None => ~(resp.log /\ resp.result))
ReqsOK == req \in [Caller -> ReqRow] /\ \A r \in Caller : ReqOK(req[r])

\* A request holds an object only while the service has one.
HeldOK == cur = None => \A r \in Caller : req[r].obj = None

DataOK ==
  /\ cur \in Obj \cup {None}
  /\ heap \in [Obj -> StateRow]
  /\ events \subseteq Label
  /\ snap \in SnapRow

HistoryOK == told \subseteq {"say", "reply", "mail"} /\ lapses \subseteq {"swallowed", "split", "late"}

Typed == DataOK /\ RespOK /\ ReqsOK /\ HeldOK /\ HistoryOK

-----------------------------------------------------------------------------
(* Types *)

\* What is idle, empty or fresh has its type.
LEMMA NoneOK ==
  /\ ReqOK(NoReq) /\ NoReq \in ReqRow /\ NoReq.step = "idle" /\ NoReq.obj = None
  /\ EmptyLog \in PayloadRow /\ EmptyLog.log /\ ~EmptyLog.result
  /\ NoPayload \in PayloadRow /\ ~NoPayload.log /\ ~NoPayload.result
  /\ NoSnap \in SnapRow /\ Fresh \in StateRow
  /\ None \notin Kind /\ None \notin Obj /\ None \notin PayloadRow
<1>1. EmptyLog \in PayloadRow /\ EmptyLog.log /\ ~EmptyLog.result
  BY DEF EmptyLog, PayloadRow
<1>2. NoPayload \in PayloadRow /\ ~NoPayload.log /\ ~NoPayload.result
  BY DEF NoPayload, PayloadRow
<1>3. NoSnap \in SnapRow /\ Fresh \in StateRow
  BY DEF NoSnap, SnapRow, Fresh, StateRow
<1>4. NoReq \in ReqRow
  BY <1>2, <1>3 DEF NoReq, ReqRow
<1>5. /\ NoReq.step = "idle" /\ NoReq.kind = None /\ NoReq.obj = None
      /\ NoReq.held = NoPayload
  BY DEF NoReq
<1>6. None \notin Kind /\ None \notin Obj /\ None \notin PayloadRow
  BY SimulationAssumption
<1>7. QED  BY <1>1, <1>2, <1>3, <1>4, <1>5, <1>6 DEF ReqOK

\* A slot that moves to a good record leaves all of them good.
LEMMA ReqMoves ==
  ASSUME Typed, NEW r \in Caller, NEW x, ReqOK(x), Goes(r, x),
         cur' # None \/ (x.obj = None /\ UNCHANGED cur)
  PROVE  ReqsOK' /\ HeldOK' /\ req'[r] = x /\ \A q \in Caller \ {r} : req'[q] = req[q]
BY DEF Typed, ReqsOK, ReqOK, HeldOK, Goes

\* What nothing is written to keeps its type.
LEMMA TypesStay ==
  ASSUME Typed
  PROVE  /\ UNCHANGED <<cur, heap, events, snap>> => DataOK'
         /\ UNCHANGED resp => RespOK'
         /\ UNCHANGED req => ReqsOK'
         /\ UNCHANGED <<cur, req>> => HeldOK'
         /\ UNCHANGED <<told, lapses>> => HistoryOK'
BY DEF Typed, DataOK, RespOK, ReqsOK, HeldOK, HistoryOK

\* A request that begins.
LEMMA StartTyped ==
  ASSUME Typed, NEW r \in Caller, NEW k \in Kind, Start(r, k)
  PROVE  /\ Typed'
         /\ req'[r].step \in {"state", "log"} /\ req'[r].obj = None
         /\ req'[r].step = "log" => req'[r].kind = "command"
         /\ events \subseteq events' /\ UNCHANGED <<cur, heap, snap, resp, told, lapses>>
         /\ \A q \in Caller \ {r} : req'[q] = req[q]
<1>1. PICK st, kd : /\ Goes(r, [NoReq EXCEPT !.step = st, !.kind = kd])
                    /\ \/ st = "log" /\ kd = "command"
                       \/ st = "state" /\ kd \in Kind /\ kd # "command"
  <2>1. Goes(r, [NoReq EXCEPT
          !.step = IF k = "command" THEN "log" ELSE "state",
          !.kind = IF k = "open" /\ "edit" \in events THEN "edit" ELSE k])
    BY Zenon DEF Start
  <2>2. CASE k = "command"
    BY <2>1, <2>2
  <2>3. CASE k # "command"
    <3>1. (IF k = "open" /\ "edit" \in events THEN "edit" ELSE k) \in Kind \ {"command"}
      BY <2>3 DEF Kind
    <3>2. QED  BY <2>1, <2>3, <3>1
  <2>4. QED  BY <2>2, <2>3
<1> DEFINE x == [NoReq EXCEPT !.step = st, !.kind = kd]
<1>2. /\ x.step = st /\ x.kind = kd /\ x.obj = None /\ x.held = NoPayload
  BY DEF NoReq
<1>3. x \in ReqRow
  BY <1>1, NoneOK DEF ReqRow, Kind
<1>4. ReqOK(x)
  BY <1>1, <1>2, <1>3, NoneOK DEF ReqOK, Kind
<1>5. UNCHANGED <<cur, heap, snap, resp, told, lapses>>
  BY DEF Start
<1>6. events \subseteq events' /\ DataOK'
  BY <1>5 DEF Start, LabelOf, Label, Typed, DataOK
<1> HIDE DEF x
<1>7. Goes(r, x)
  BY <1>1 DEF x
<1>8. ReqsOK' /\ HeldOK' /\ req'[r] = x /\ \A q \in Caller \ {r} : req'[q] = req[q]
  BY <1>2, <1>4, <1>5, <1>7, ReqMoves
<1>9. QED  BY <1>1, <1>2, <1>5, <1>6, <1>8, TypesStay DEF Typed

\* A read of the snapshot.
LEMMA ReadStateTyped ==
  ASSUME Typed, NEW r \in Caller, ReadState(r)
  PROVE  /\ Typed'
         /\ req'[r].step = "hydrate" /\ req'[r].obj = None /\ req[r].step = "state"
         /\ lapses' = {} => req'[r].snap = snap
         /\ lapses \subseteq lapses' /\ UNCHANGED <<cur, heap, events, snap, resp, told>>
         /\ \A q \in Caller \ {r} : req'[q] = req[q]
<1>1. PICK x : /\ Goes(r, x)
               /\ \/ x = [req[r] EXCEPT !.step = "hydrate", !.snap = snap]
                  \/ x = [req[r] EXCEPT !.step = "hydrate"] /\ lapses' # {}
  BY DEF ReadState
<1>2. ReqOK(req[r]) /\ req[r].step = "state" /\ snap \in SnapRow
  BY DEF Typed, ReqsOK, ReadState, DataOK
<1>3. /\ ReqOK(x) /\ x.step = "hydrate" /\ x.obj = None
      /\ x.snap = snap \/ lapses' # {}
  BY <1>1, <1>2 DEF ReqOK, ReqRow
<1>4. UNCHANGED <<cur, heap, events, snap, resp, told>>
  BY DEF ReadState
<1>5. lapses \subseteq lapses' /\ HistoryOK'
  BY <1>4 DEF ReadState, Typed, HistoryOK
<1>6. ReqsOK' /\ HeldOK' /\ req'[r] = x /\ \A q \in Caller \ {r} : req'[q] = req[q]
  BY <1>1, <1>3, <1>4, ReqMoves
<1>7. QED  BY <1>2, <1>3, <1>4, <1>5, <1>6, TypesStay DEF Typed

\* What a request does at once with the state s in object o, field by field.
LEMMA WorkTyped ==
  ASSUME Typed, NEW r \in Caller, NEW o \in Obj, NEW s \in StateRow, Work(r, o, s),
         cur' = o, req[r].step \in {"state", "hydrate"},
         UNCHANGED <<snap, resp>>, HistoryOK'
  PROVE  /\ Typed'
         /\ heap'[o] = [say    |-> s.say \/ req[r].kind = "say",
                        reply  |-> s.reply \/ req[r].kind = "reply",
                        mailed |-> s.mailed \/ (req[r].kind = "edit" /\ ~s.mailed)]
         /\ events \subseteq events'
         /\ req'[r].obj = o /\ req'[r].kind = req[r].kind
         /\ req'[r].step \in {"log", "persist"}
         /\ req'[r].step = "persist" => req[r].kind \in {"edit", "open", "read"}
         /\ req'[r].step = "log" /\ req[r].kind = "edit" => ~s.mailed
         /\ \A q \in Caller \ {r} : req'[q] = req[q]
<1> DEFINE k == req[r].kind
           mails == k = "edit" /\ ~s.mailed
           st == IF k \in {"say", "reply", "submit"} \/ mails THEN "log" ELSE "persist"
           h == [say    |-> s.say \/ k = "say",
                 reply  |-> s.reply \/ k = "reply",
                 mailed |-> s.mailed \/ mails]
<1>1. /\ heap' = [heap EXCEPT ![o] = h]
      /\ Goes(r, [req[r] EXCEPT !.obj = o, !.snap = NoSnap, !.step = st])
      /\ events' = CASE k \in {"say", "reply"}          -> events \cup {"other"}
                     [] k = "submit"                    -> Telemetry
                     [] k \in {"edit", "open", "read"}  -> events
  BY DEF Work
<1>2. ReqOK(req[r]) /\ req[r] \in ReqRow /\ k \in Kind /\ k # "command"
  BY DEF Typed, ReqsOK, ReqOK
<1>3. h \in StateRow
  BY DEF StateRow
<1>4. events \subseteq events' /\ events' \subseteq Label
  <2>1. events \subseteq Telemetry /\ Telemetry \subseteq Label
    BY DEF Telemetry, Typed, DataOK, SnapRow
  <2>2. k \in {"say", "reply"} \/ k = "submit" \/ k \in {"edit", "open", "read"}
    BY <1>2 DEF Kind
  <2>3. events' \in {events \cup {"other"}, Telemetry, events}
    BY <1>1, <2>2
  <2>4. QED  BY <2>1, <2>3 DEF Typed, DataOK, Label
<1>5. /\ st \in {"log", "persist"}
      /\ st = "persist" => k \in {"edit", "open", "read"}
      /\ st = "log" => k \in {"say", "reply", "submit", "edit"}
      /\ st = "log" /\ k = "edit" => ~s.mailed
  BY <1>2 DEF Kind
<1>6. /\ heap'[o] = h /\ heap' \in [Obj -> StateRow]
  BY <1>1, <1>3 DEF Typed, DataOK
<1> HIDE DEF st, h
<1> DEFINE x == [req[r] EXCEPT !.obj = o, !.snap = NoSnap, !.step = st]
<1>7. x.obj = o /\ x.kind = k /\ x.step = st /\ x.held = req[r].held
  BY <1>2 DEF ReqRow
<1>8. x \in ReqRow
  BY <1>2, <1>5, NoneOK DEF ReqRow
<1>9. ReqOK(x)
  BY <1>2, <1>5, <1>7, <1>8, NoneOK DEF ReqOK
<1>10. cur' # None
  BY NoneOK
<1> HIDE DEF x
<1>11. Goes(r, x)
  BY <1>1 DEF x
<1>12. ReqsOK' /\ HeldOK' /\ req'[r] = x /\ \A q \in Caller \ {r} : req'[q] = req[q]
  BY <1>9, <1>10, <1>11, ReqMoves
<1>13. DataOK'
  BY <1>4, <1>6 DEF Typed, DataOK
<1>14. Typed'
  BY <1>12, <1>13, TypesStay DEF Typed
<1>15. heap'[o] = [say    |-> s.say \/ req[r].kind = "say",
                  reply  |-> s.reply \/ req[r].kind = "reply",
                  mailed |-> s.mailed \/ (req[r].kind = "edit" /\ ~s.mailed)]
  BY <1>6 DEF h
<1>16. QED  BY <1>4, <1>5, <1>7, <1>12, <1>14, <1>15

\* A request that uses the state the service has.
LEMMA UseStateTyped ==
  ASSUME Typed, NEW r \in Caller, UseState(r)
  PROVE  cur \in Obj /\ heap[cur] \in StateRow /\ Typed'
<1>1. /\ cur \in Obj /\ heap[cur] \in StateRow
      /\ req[r].step = "state" /\ Work(r, cur, heap[cur])
      /\ UNCHANGED <<cur, snap, resp, told, lapses>>
  BY DEF UseState, Typed, DataOK
<1>2. HistoryOK'
  BY <1>1, TypesStay
<1>3. QED  BY <1>1, <1>2, WorkTyped

\* A request that puts a state from the snapshot in its place.
LEMMA HydrateTyped ==
  ASSUME Typed, NEW r \in Caller, Hydrate(r)
  PROVE  /\ Typed' /\ Restored(req[r].snap) \in StateRow
         /\ lapses \subseteq lapses' /\ (lapses' = {} => cur = None)
<1>1. PICK o \in Obj : cur' = o /\ Work(r, o, Restored(req[r].snap))
  BY DEF Hydrate
<1>2. /\ req[r].step = "hydrate" /\ UNCHANGED <<snap, resp, told>>
      /\ lapses' = IF cur = None THEN lapses ELSE lapses \cup {"split"}
  BY DEF Hydrate
<1>3. Restored(req[r].snap) \in StateRow
  <2>1. req[r].snap \in SnapRow
    BY DEF Typed, ReqsOK, ReqRow
  <2>2. QED  BY <2>1 DEF Restored, SnapRow, StateRow
<1>4. HistoryOK' /\ lapses \subseteq lapses' /\ (lapses' = {} => cur = None)
  BY <1>2 DEF Typed, HistoryOK
<1>5. QED  BY <1>1, <1>2, <1>3, <1>4, WorkTyped

\* What a save writes is a payload, and no log that holds an evaluation.
LEMMA PayloadOK ==
  ASSUME Typed, NEW r \in Caller, req[r].step = "save"
  PROVE  /\ req[r].obj \in Obj /\ Payload(r) \in PayloadRow
         /\ ~(Payload(r).log /\ Payload(r).result)
<1>1. ReqOK(req[r]) /\ req[r] \in ReqRow /\ req[r].held \in PayloadRow
  BY DEF Typed, ReqsOK, ReqRow
<1>2. req[r].obj \in Obj /\ heap[req[r].obj] \in StateRow
  BY <1>1 DEF ReqOK, ReqRow, Typed, DataOK
<1>3. req[r].kind \in {"say", "reply", "submit"} /\ ~(req[r].held.log /\ req[r].held.result)
  BY <1>1 DEF ReqOK
<1>4. CASE req[r].kind = "say"
  BY <1>2, <1>4 DEF Payload, NoPayload, PayloadRow
<1>5. CASE req[r].kind = "reply"
  BY <1>1, <1>2, <1>3, <1>5 DEF Payload, PayloadRow, StateRow
<1>6. CASE req[r].kind = "submit"
  BY <1>2, <1>6 DEF Payload, PayloadRow, StateRow
<1>7. QED  BY <1>2, <1>3, <1>4, <1>5, <1>6

\* Logging, reading the answer and saving it: the slot goes on with its object
\* and its kind, or ends.
LEMMA BookTyped ==
  ASSUME Typed, NEW r \in Caller,
         \/ LogRead(r) \/ LogInit(r) \/ LogAppend(r) \/ LogFails(r)
         \/ ReadAnswer(r) \/ Save(r) \/ SaveFails(r)
  PROVE  /\ Typed' /\ lapses \subseteq lapses'
         /\ UNCHANGED <<cur, heap, events, snap, told>>
         /\ req[r].step \notin {"idle", "state", "hydrate", "persist", "write"}
         /\ req'[r].step \notin {"state", "hydrate", "write"}
         /\ req'[r].obj = None \/ (req'[r].obj = req[r].obj /\ req'[r].kind = req[r].kind)
         /\ req'[r].step = "persist" /\ req'[r].kind \in {"say", "reply"} /\ lapses' = {} => Save(r)
         /\ \A q \in Caller \ {r} : req'[q] = req[q]
<1>1. ReqOK(req[r]) /\ req[r] \in ReqRow
  BY DEF Typed, ReqsOK
<1>2. UNCHANGED <<cur, heap, events, snap, told>> /\ DataOK'
  BY TypesStay DEF LogRead, LogInit, LogAppend, LogFails, ReadAnswer, Save, SaveFails
<1>3. lapses \subseteq lapses' /\ HistoryOK'
  BY <1>2 DEF LogRead, LogInit, LogAppend, LogFails, ReadAnswer, Save, SaveFails, Typed, HistoryOK
<1>4. req[r].step \notin {"idle", "state", "hydrate", "persist", "write"}
  BY DEF LogRead, LogInit, LogAppend, LogFails, ReadAnswer, Save, SaveFails
<1>5. resp # None => resp \in PayloadRow /\ ~(resp.log /\ resp.result)
  BY DEF Typed, RespOK
<1>6. PICK x : /\ Goes(r, x) /\ ReqOK(x) /\ x.step \notin {"state", "hydrate", "write"}
               /\ x.obj = None \/ (x.obj = req[r].obj /\ x.kind = req[r].kind)
               /\ x.step = "persist" /\ x.kind \in {"say", "reply"} /\ lapses' = {} => Save(r)
  <2>1. CASE Goes(r, NoReq)
    BY <2>1, NoneOK
  <2>2. ASSUME NEW st \in {"init", "append", "read", "save", "persist"}, NEW h \in PayloadRow,
               ~(h.log /\ h.result), st \in {"init", "append"} => h.log,
               st = "read" => req[r].kind = "reply",
               st = "save" => req[r].kind \in {"say", "reply", "submit"},
               st \in {"read", "save", "persist"} => req[r].kind # "command",
               st \in {"init", "append"} => req[r].kind \notin {"open", "read"},
               st = "persist" /\ req[r].kind \in {"say", "reply"} /\ lapses' = {} => Save(r),
               Goes(r, [req[r] EXCEPT !.step = st, !.held = h])
        PROVE  \E x : /\ Goes(r, x) /\ ReqOK(x) /\ x.step \notin {"state", "hydrate", "write"}
                      /\ x.obj = None \/ (x.obj = req[r].obj /\ x.kind = req[r].kind)
                      /\ x.step = "persist" /\ x.kind \in {"say", "reply"} /\ lapses' = {}
                           => Save(r)
    <3> DEFINE x == [req[r] EXCEPT !.step = st, !.held = h]
    <3>1. x \in ReqRow /\ x.step = st /\ x.held = h /\ x.kind = req[r].kind /\ x.obj = req[r].obj
      BY <1>1 DEF ReqRow
    <3> HIDE DEF x
    <3>2. ReqOK(x)
      BY <1>1, <1>4, <2>2, <3>1 DEF ReqOK
    <3>3. Goes(r, x)
      BY <2>2 DEF x
    <3>4. x.step \notin {"state", "hydrate", "write"}
      BY <2>2, <3>1
    <3>5. QED  BY <2>2, <3>1, <3>2, <3>3, <3>4
  <2>3. CASE LogRead(r)
    <3>1. req[r].kind \notin {"open", "read"}
      BY <1>1, <2>3 DEF LogRead, ReqOK
    <3>2. QED  BY <1>5, <2>1, <2>2, <2>3, <3>1, NoneOK DEF LogRead
  <2>4. CASE LogInit(r)
    <3>1. /\ req[r].held \in PayloadRow /\ req[r].held.log
          /\ ~(req[r].held.log /\ req[r].held.result) /\ req[r].kind \notin {"open", "read"}
      BY <1>1, <2>4 DEF LogInit, ReqOK, ReqRow
    <3>2. Goes(r, [req[r] EXCEPT !.step = "append", !.held = req[r].held])
      <4>1. [req[r] EXCEPT !.step = "append", !.held = req[r].held]
              = [req[r] EXCEPT !.step = "append"]
        BY <1>1 DEF ReqRow
      <4>2. QED  BY <2>4, <4>1, Zenon DEF LogInit
    <3>3. QED  BY <2>2, <3>1, <3>2
  <2>5. CASE LogAppend(r)
    <3>1. CASE req[r].kind = "command"
      BY <2>1, <2>5, <3>1 DEF LogAppend
    <3>2. CASE req[r].kind # "command"
      <4>1. req[r].kind \in {"edit", "say", "submit", "reply"}
        BY <1>1, <2>5, <3>2 DEF LogAppend, ReqOK, Kind
      <4>2. /\ AfterLog(req[r].kind) \in {"persist", "save", "read"}
            /\ AfterLog(req[r].kind) = "persist" => req[r].kind = "edit"
            /\ AfterLog(req[r].kind) = "read" => req[r].kind = "reply"
            /\ AfterLog(req[r].kind) = "save" => req[r].kind \in {"say", "submit"}
        BY <4>1 DEF AfterLog
      <4>3. Goes(r, [req[r] EXCEPT !.step = AfterLog(req[r].kind), !.held = NoPayload])
        BY <2>5, <3>2 DEF LogAppend
      <4>4. QED  BY <2>2, <3>2, <4>2, <4>3, NoneOK
    <3>3. QED  BY <3>1, <3>2
  <2>6. CASE LogFails(r)
    BY <2>1, <2>6 DEF LogFails
  <2>7. CASE ReadAnswer(r)
    <3>1. req[r].kind = "reply"
      BY <1>1, <2>7 DEF ReadAnswer, ReqOK
    <3>2. PICK h \in PayloadRow : /\ ~(h.log /\ h.result)
                                  /\ Goes(r, [req[r] EXCEPT !.step = "save", !.held = h])
      BY <1>5, <2>7, NoneOK DEF ReadAnswer
    <3>3. QED  BY <2>2, <3>1, <3>2
  <2>8. CASE Save(r) \/ SaveFails(r)
    <3>1. req[r].kind # "command"
      BY <1>1, <2>8 DEF Save, SaveFails, ReqOK
    <3>2. Goes(r, [req[r] EXCEPT !.step = "persist", !.held = NoPayload])
      BY <2>8 DEF Save, SaveFails
    <3>3. lapses' = {} => Save(r)
      BY <2>8 DEF SaveFails
    <3>4. QED  BY <2>2, <3>1, <3>2, <3>3, NoneOK
  <2>9. QED  BY <2>3, <2>4, <2>5, <2>6, <2>7, <2>8
<1>7. RespOK'
  <2>1. CASE Save(r)
    BY <2>1, PayloadOK, NoneOK DEF Save, RespOK
  <2>2. CASE LogInit(r)
    BY <2>2, NoneOK DEF LogInit, RespOK
  <2>3. CASE LogAppend(r)
    <3>1. req[r].held \in PayloadRow /\ ~(req[r].held.log /\ req[r].held.result)
      BY <1>1 DEF ReqOK, ReqRow
    <3>2. QED  BY <2>3, <3>1, NoneOK DEF LogAppend, RespOK
  <2>4. CASE UNCHANGED resp
    BY <2>4, TypesStay
  <2>5. QED  BY <2>1, <2>2, <2>3, <2>4 DEF LogRead, LogFails, ReadAnswer, SaveFails
<1>8. cur' # None \/ (x.obj = None /\ UNCHANGED cur)
  BY <1>1, <1>2, <1>6 DEF Typed, HeldOK
<1>9. ReqsOK' /\ HeldOK' /\ req'[r] = x /\ \A q \in Caller \ {r} : req'[q] = req[q]
  BY <1>6, <1>8, ReqMoves
<1>10. QED  BY <1>2, <1>3, <1>4, <1>6, <1>7, <1>9 DEF Typed

\* A snapshot that is made.
LEMMA ComposeTyped ==
  ASSUME Typed, NEW r \in Caller, Compose(r)
  PROVE  /\ Typed' /\ lapses \subseteq lapses' /\ cur \in Obj /\ req[r].step = "persist"
         /\ UNCHANGED <<cur, heap, snap, resp, told>>
         /\ events' = Telemetry /\ events \subseteq events'
         /\ req'[r].step = "write" /\ req'[r].kind = req[r].kind /\ req'[r].obj = req[r].obj
         /\ req'[r].older = Writing
         /\ lapses' = {} => req'[r].snap = Composed(snap.actions)
         /\ \A q \in Caller \ {r} : req'[q] = req[q]
<1>1. ReqOK(req[r]) /\ req[r] \in ReqRow /\ req[r].step = "persist"
  BY DEF Typed, ReqsOK, Compose
<1>2. cur \in Obj /\ heap[cur] \in StateRow
  BY <1>1 DEF ReqOK, Typed, HeldOK, DataOK
<1>3. events \subseteq Telemetry /\ Telemetry \subseteq Label
  BY DEF Telemetry, Typed, DataOK, SnapRow
<1>4. \A seen \in SUBSET Label : Composed(seen) \in SnapRow
  BY <1>2, <1>3 DEF Composed, SnapRow, StateRow
<1>5. Writing \subseteq Caller
  BY DEF Writing
<1>6. PICK c \in SnapRow :
        /\ Goes(r, [req[r] EXCEPT !.step = "write", !.snap = c, !.older = Writing])
        /\ lapses' = {} => c = Composed(snap.actions)
  <2>1. snap.actions \in SUBSET Label /\ {} \in SUBSET Label
    BY DEF Typed, DataOK, SnapRow
  <2>2. Composed(snap.actions) \in SnapRow /\ Composed({}) \in SnapRow
    BY <1>4, <2>1
  <2>3. \/ Goes(r, [req[r] EXCEPT !.step = "write", !.snap = Composed(snap.actions),
                                 !.older = Writing])
        \/ /\ Goes(r, [req[r] EXCEPT !.step = "write", !.snap = Composed({}), !.older = Writing])
           /\ lapses' = lapses \cup {"swallowed"}
    BY Zenon DEF Compose
  <2>4. QED  BY <2>2, <2>3
<1> DEFINE x == [req[r] EXCEPT !.step = "write", !.snap = c, !.older = Writing]
<1>7. /\ x \in ReqRow /\ x.step = "write" /\ x.snap = c /\ x.older = Writing
      /\ x.kind = req[r].kind /\ x.obj = req[r].obj /\ x.held = req[r].held
  BY <1>1, <1>5 DEF ReqRow
<1> HIDE DEF x
<1>8. ReqOK(x) /\ Goes(r, x)
  <2>1. ReqOK(x)
    BY <1>1, <1>7 DEF ReqOK
  <2>2. Goes(r, x)
    BY <1>6 DEF x
  <2>3. QED  BY <2>1, <2>2
<1>9. UNCHANGED <<cur, heap, snap, resp, told>> /\ events' = Telemetry
  BY DEF Compose
<1>10. lapses \subseteq lapses' /\ HistoryOK'
  BY <1>9 DEF Compose, Typed, HistoryOK
<1>11. DataOK'
  BY <1>3, <1>9 DEF Typed, DataOK
<1>12. cur' # None
  BY <1>2, <1>9, NoneOK
<1>13. ReqsOK' /\ HeldOK' /\ req'[r] = x /\ \A q \in Caller \ {r} : req'[q] = req[q]
  BY <1>8, <1>12, ReqMoves
<1>14. Typed'
  BY <1>9, <1>10, <1>11, <1>13, TypesStay DEF Typed
<1>15. QED  BY <1>1, <1>2, <1>3, <1>6, <1>7, <1>9, <1>10, <1>13, <1>14

\* What the other requests keep when one has written, or has failed to.
Overtaken(r, q, late) ==
  /\ req'[q].step = req[q].step /\ req'[q].kind = req[q].kind /\ req'[q].obj = req[q].obj
  /\ req'[q].held = req[q].held /\ req'[q].snap = req[q].snap
  /\ req'[q].older = req[q].older \ {r}
  /\ req'[q].late <=> req[q].late \/ late

\* A snapshot that is written.
LEMMA WriteTyped ==
  ASSUME Typed, NEW r \in Caller, Write(r)
  PROVE  /\ Typed' /\ lapses \subseteq lapses' /\ req[r].step = "write"
         /\ UNCHANGED <<cur, heap, events, resp>> /\ snap' = req[r].snap
         /\ lapses' = {} => ~req[r].late
         /\ req'[r] = NoReq
         /\ \A q \in Caller \ {r} : Overtaken(r, q, q \in req[r].older)
<1>1. req[r] \in ReqRow /\ req[r].step = "write" /\ snap' = req[r].snap
  BY DEF Typed, ReqsOK, Write
<1>2. UNCHANGED <<cur, heap, events, resp>>
  BY DEF Write
<1>3. DataOK'
  BY <1>1, <1>2 DEF Typed, DataOK, ReqRow
<1>4. lapses \subseteq lapses' /\ HistoryOK' /\ (lapses' = {} => ~req[r].late)
  BY DEF Write, Done, Typed, HistoryOK
<1>5. req'[r] = NoReq
  BY DEF Write
<1>6. ASSUME NEW q \in Caller \ {r}
      PROVE  Overtaken(r, q, q \in req[r].older) /\ ReqOK(req'[q])
  <2>1. req'[q] = [req[q] EXCEPT !.older = req[q].older \ {r},
                                 !.late = req[q].late \/ q \in req[r].older]
    BY DEF Write
  <2>2. ReqOK(req[q]) /\ req[q] \in ReqRow
    BY DEF Typed, ReqsOK
  <2>3. Overtaken(r, q, q \in req[r].older) /\ req'[q] \in ReqRow
    BY <2>1, <2>2 DEF ReqRow, Overtaken
  <2>4. QED  BY <2>2, <2>3 DEF ReqOK, Overtaken
<1>7. ReqsOK'
  <2>1. \A q \in Caller : ReqOK(req'[q])
    BY <1>5, <1>6, NoneOK
  <2>2. req' = [q \in Caller |-> req'[q]]
    BY DEF Write
  <2>3. QED  BY <2>1, <2>2 DEF ReqsOK, ReqOK
<1>8. HeldOK'
  BY <1>2, <1>5, <1>6, NoneOK DEF Typed, HeldOK, Overtaken
<1>9. Typed'
  BY <1>2, <1>3, <1>4, <1>7, <1>8, TypesStay DEF Typed
<1>10. QED  BY <1>1, <1>2, <1>4, <1>5, <1>6, <1>9

\* A snapshot that is not.
LEMMA WriteFailsTyped ==
  ASSUME Typed, NEW r \in Caller, WriteFails(r)
  PROVE  Typed' /\ lapses' # {} /\ \A q \in Caller : req'[q].step \in {req[q].step, "idle"}
<1>1. UNCHANGED <<cur, heap, events, snap, resp>> /\ lapses' # {}
  BY DEF WriteFails
<1>2. HistoryOK'
  BY DEF WriteFails, Done, Typed, HistoryOK
<1>3. req'[r] = NoReq
  BY DEF WriteFails
<1>4. ASSUME NEW q \in Caller \ {r}
      PROVE  ReqOK(req'[q]) /\ req'[q].obj = req[q].obj /\ req'[q].step = req[q].step
  <2>1. req'[q] = [req[q] EXCEPT !.older = req[q].older \ {r}]
    BY DEF WriteFails
  <2>2. ReqOK(req[q]) /\ req[q] \in ReqRow
    BY DEF Typed, ReqsOK
  <2>3. /\ req'[q] \in ReqRow
        /\ req'[q].step = req[q].step /\ req'[q].kind = req[q].kind /\ req'[q].obj = req[q].obj
        /\ req'[q].held = req[q].held
    BY <2>1, <2>2 DEF ReqRow
  <2>4. QED  BY <2>2, <2>3 DEF ReqOK
<1>5. ReqsOK'
  <2>1. \A q \in Caller : ReqOK(req'[q])
    BY <1>3, <1>4, NoneOK
  <2>2. req' = [q \in Caller |-> req'[q]]
    BY DEF WriteFails
  <2>3. QED  BY <2>1, <2>2 DEF ReqsOK, ReqOK
<1>6. HeldOK'
  BY <1>1, <1>3, <1>4, NoneOK DEF Typed, HeldOK
<1>7. QED  BY <1>1, <1>2, <1>3, <1>4, <1>5, <1>6, NoneOK, TypesStay DEF Typed

\* A restart forgets the requests, the state and the telemetry.
LEMMA RestartTyped ==
  ASSUME Typed, Restart
  PROVE  /\ Typed' /\ cur' = None /\ events' = {} /\ UNCHANGED <<heap, snap, resp, told, lapses>>
         /\ \A r \in Caller : req'[r] = NoReq
<1>1. /\ cur' = None /\ events' = {} /\ UNCHANGED <<heap, snap, resp, told, lapses>>
      /\ req' = [r \in Caller |-> NoReq]
  BY DEF Restart
<1>2. ReqsOK' /\ HeldOK'
  BY <1>1, NoneOK DEF ReqsOK, HeldOK
<1>3. DataOK'
  BY <1>1 DEF Typed, DataOK
<1>4. QED  BY <1>1, <1>2, <1>3, TypesStay DEF Typed

\* Every step keeps the types, and no lapse is forgotten.
LEMMA NextTyped == Typed /\ [Next]_vars => Typed' /\ lapses \subseteq lapses'
<1> SUFFICES ASSUME Typed, [Next]_vars PROVE Typed' /\ lapses \subseteq lapses'
  OBVIOUS
<1>1. CASE \E r \in Caller, k \in Kind : Start(r, k)
  BY <1>1, StartTyped
<1>2. ASSUME NEW r \in Caller,
             \/ ReadState(r) \/ UseState(r) \/ Hydrate(r)
             \/ LogRead(r) \/ LogInit(r) \/ LogAppend(r) \/ LogFails(r)
             \/ ReadAnswer(r) \/ Save(r) \/ SaveFails(r)
             \/ Compose(r) \/ Write(r) \/ WriteFails(r)
      PROVE  Typed' /\ lapses \subseteq lapses'
  <2>1. CASE UseState(r)
    BY <2>1, UseStateTyped DEF UseState
  <2>2. CASE WriteFails(r)
    BY <2>2, WriteFailsTyped DEF WriteFails
  <2>3. QED
    BY <1>2, <2>1, <2>2, ReadStateTyped, HydrateTyped, BookTyped, ComposeTyped, WriteTyped
<1>3. CASE Restart
  BY <1>3, RestartTyped
<1>4. CASE UNCHANGED vars
  BY <1>4, TypesStay DEF vars, Typed
<1>5. QED  BY <1>1, <1>2, <1>3, <1>4 DEF Next

\* There is nothing yet.
LEMMA InitTyped == Init => Typed
BY NoneOK DEF Init, Typed, DataOK, RespOK, ReqsOK, HeldOK, HistoryOK, SnapRow, NoSnap

\* Every variable has its type; a request past its state holds an object, and
\* what it appends to is a log.  (simulation.service.ts, session-log.service.ts)
THEOREM SimulationTypeCorrect == Spec => []TypeOK
<1>1. Typed => TypeOK
  <2> SUFFICES ASSUME Typed PROVE TypeOK
    OBVIOUS
  <2>1. /\ req \in [Caller ->
             [step : {"idle", "state", "hydrate", "log", "init", "append", "read", "save",
                      "persist", "write"},
              kind : Kind \cup {None}, obj : Obj \cup {None}, held : PayloadRow,
              snap : SnapRow, older : SUBSET Caller, late : BOOLEAN]]
    BY DEF Typed, ReqsOK, ReqRow
  <2>2. ASSUME NEW r \in Caller
        PROVE  /\ req[r].step # "idle" => req[r].kind \in Kind
               /\ req[r].step \in {"read", "save", "persist", "write"} =>
                    req[r].obj # None /\ cur # None
               /\ req[r].step \in {"init", "append"} => req[r].held.log
    BY DEF Typed, ReqsOK, ReqOK, HeldOK
  <2>3. QED  BY <2>1, <2>2 DEF Typed, DataOK, RespOK, HistoryOK, TypeOK
<1>2. QED  BY <1>1, InitTyped, NextTyped, PTL DEF Spec

-----------------------------------------------------------------------------
(* What holds as long as nothing has lapsed *)

\* All that s says, t says.
Below(s, t) == /\ s.say => t.say
               /\ s.reply => t.reply
               /\ s.mailed => t.mailed

\* Every request works on the object the service has.
Single == \A r \in Caller : req[r].obj # None => req[r].obj = cur

\* What a request has read is what the snapshot says, while nothing is loaded.
Fetched == cur = None => \A r \in Caller : req[r].step = "hydrate" => req[r].snap = snap

\* The state in memory has all that the snapshot has and will have.
Covered ==
  cur # None =>
    /\ Below(snap, heap[cur])
    /\ \A r \in Caller : req[r].step = "write" => Below(req[r].snap, heap[cur])

\* Of two snapshots under way one was made later, and has all the other has.
Ordered ==
  /\ \A a, b \in Caller :
       a # b /\ req[a].step = "write" /\ req[b].step = "write" =>
         a \in req[b].older \/ b \in req[a].older
  /\ \A a, b \in Caller :
       req[b].step = "write" /\ a \in req[b].older =>
         /\ req[a].step = "write"
         /\ Below(req[a].snap, req[b].snap)
         /\ req[a].snap.actions \subseteq req[b].snap.actions

\* A snapshot under way that is not late adds to the one that is stored.
Ahead ==
  \A r \in Caller :
    req[r].step = "write" /\ ~req[r].late =>
      Below(snap, req[r].snap) /\ snap.actions \subseteq req[r].snap.actions

\* Its actions are stored already or in memory.
Recorded ==
  \A r \in Caller :
    req[r].step = "write" => req[r].snap.actions \subseteq snap.actions \cup events

\* What a request is about is in the state, and in the snapshot it writes.
Said ==
  \A r \in Caller :
    req[r].obj # None =>
      /\ req[r].kind = "say" =>
           heap[cur].say /\ (req[r].step = "write" => req[r].snap.say)
      /\ req[r].kind = "reply" =>
           heap[cur].reply /\ (req[r].step = "write" => req[r].snap.reply)

Kept == /\ "say" \in told => snap.say
        /\ "reply" \in told => snap.reply
        /\ "mail" \in told => snap.mailed

\* Whoever was told, or is about to be.
Heard(k) ==
  k \in told \/ \E r \in Caller : req[r].kind = k /\ req[r].step \in {"persist", "write"}

Complete ==
  resp # None /\ resp.result =>
    /\ Heard("say") => resp.say
    /\ Heard("reply") => resp.reply

Quiet ==
  /\ Single /\ Fetched /\ Covered /\ Ordered /\ Ahead /\ Recorded /\ Said /\ Kept
  /\ Complete

\* A request that writes, or is about to, holds the object.
LEMMA WritersHold ==
  ASSUME Typed, NEW r \in Caller, req[r].step \in {"read", "save", "persist", "write"}
  PROVE  req[r].obj # None /\ cur # None /\ req[r].kind # "command"
BY DEF Typed, ReqsOK, ReqOK, HeldOK

\* A request that neither writes nor begins to, and leaves the state alone.
LEMMA QuietBook ==
  ASSUME Typed, Quiet, NEW r \in Caller, UNCHANGED <<cur, heap, snap, told>>,
         events \subseteq events', req[r].step # "write", req'[r].step # "write",
         req'[r].obj = None \/ (req'[r].obj = req[r].obj /\ req'[r].kind = req[r].kind),
         cur = None /\ req'[r].step = "hydrate" => req'[r].snap = snap,
         \A q \in Caller \ {r} : req'[q] = req[q],
         Complete'
  PROVE  Quiet'
<1>1. Single' /\ Fetched' /\ Covered'
  BY DEF Quiet, Single, Fetched, Covered
<1>2. Ordered'
  BY DEF Quiet, Ordered
<1>3. Ahead' /\ Recorded'
  BY DEF Quiet, Ahead, Recorded
<1>4. Said' /\ Kept'
  BY DEF Quiet, Said, Kept
<1>5. QED  BY <1>1, <1>2, <1>3, <1>4 DEF Quiet

\* A request that works on the state the service has, or on the snapshot's.
LEMMA QuietWork ==
  ASSUME Typed, Quiet, NEW r \in Caller, NEW o \in Obj, NEW s \in StateRow,
         Work(r, o, s), cur' = o, req[r].step \in {"state", "hydrate"},
         UNCHANGED <<snap, resp, told>>, HistoryOK',
         \/ o = cur /\ s = heap[cur]
         \/ cur = None /\ s = Restored(snap)
  PROVE  /\ Quiet'
         /\ req'[r].step = "log" /\ req[r].kind = "edit" => ~snap.mailed
<1> DEFINE k == req[r].kind
<1>1. /\ heap'[o].say    <=> s.say \/ k = "say"
      /\ heap'[o].reply  <=> s.reply \/ k = "reply"
      /\ s.mailed => heap'[o].mailed
      /\ events \subseteq events'
      /\ req'[r].obj = o /\ req'[r].kind = k /\ req'[r].step \in {"log", "persist"}
      /\ req'[r].step = "persist" => k \in {"edit", "open", "read"}
      /\ req'[r].step = "log" /\ k = "edit" => ~s.mailed
      /\ \A q \in Caller \ {r} : req'[q] = req[q]
  <2>1. UNCHANGED <<snap, resp>>
    OBVIOUS
  <2>2. /\ heap'[o] = [say    |-> s.say \/ req[r].kind = "say",
                       reply  |-> s.reply \/ req[r].kind = "reply",
                       mailed |-> s.mailed \/ (req[r].kind = "edit" /\ ~s.mailed)]
        /\ events \subseteq events'
        /\ req'[r].obj = o /\ req'[r].kind = req[r].kind
        /\ req'[r].step \in {"log", "persist"}
        /\ req'[r].step = "persist" => req[r].kind \in {"edit", "open", "read"}
        /\ req'[r].step = "log" /\ req[r].kind = "edit" => ~s.mailed
        /\ \A q \in Caller \ {r} : req'[q] = req[q]
    BY <2>1, WorkTyped
  <2>3. /\ heap'[o].say    = (s.say \/ k = "say")
        /\ heap'[o].reply  = (s.reply \/ k = "reply")
        /\ heap'[o].mailed = (s.mailed \/ (k = "edit" /\ ~s.mailed))
    BY <2>2
  <2>4. /\ heap'[o].say    <=> s.say \/ k = "say"
        /\ heap'[o].reply  <=> s.reply \/ k = "reply"
        /\ s.mailed => heap'[o].mailed
    BY <2>3
  <2>5. QED  BY <2>2, <2>4
<1>2. o # None
  BY NoneOK
<1>3. Below(snap, s)
  BY <1>2 DEF Quiet, Covered, Restored, Below
<1>4. ASSUME NEW q \in Caller, req[q].obj # None PROVE o = cur /\ s = heap[cur]
  BY <1>4 DEF Typed, HeldOK
<1>5. Below(s, heap'[o])
  BY <1>1 DEF Below
<1>6. Single' /\ Fetched'
  BY <1>1, <1>2, <1>4 DEF Quiet, Single, Fetched
<1>7. Covered'
  <2>1. Below(snap, heap'[o])
    BY <1>3, <1>5 DEF Below
  <2>2. ASSUME NEW q \in Caller, req'[q].step = "write"
        PROVE  Below(req'[q].snap, heap'[o])
    <3>1. q # r /\ req'[q] = req[q]
      BY <1>1, <2>2
    <3>2. Below(req[q].snap, heap[cur]) /\ s = heap[cur]
      BY <1>2, <1>4, <2>2, <3>1, WritersHold DEF Quiet, Covered
    <3>3. QED  BY <1>5, <3>1, <3>2 DEF Below
  <2>3. QED  BY <2>1, <2>2 DEF Covered
<1>8. Ordered' /\ Ahead' /\ Recorded'
  BY <1>1 DEF Quiet, Ordered, Ahead, Recorded
<1>9. Said'
  BY <1>1, <1>4 DEF Quiet, Said
<1>10. Kept'
  BY DEF Quiet, Kept
<1>11. Complete'
  BY <1>1 DEF Quiet, Complete, Heard
<1>12. ~s.mailed => ~snap.mailed
  BY <1>3 DEF Below
<1>13. QED  BY <1>1, <1>6, <1>7, <1>8, <1>9, <1>10, <1>11, <1>12 DEF Quiet

\* What was heard of is in the state in memory.
LEMMA HeardIsSaid ==
  ASSUME Typed, Quiet, cur # None
  PROVE  /\ Heard("say") => heap[cur].say
         /\ Heard("reply") => heap[cur].reply
<1>1. ASSUME NEW r \in Caller, req[r].step \in {"persist", "write"} PROVE req[r].obj # None
  BY <1>1, WritersHold
<1>2. Below(snap, heap[cur]) /\ Kept /\ Said
  BY DEF Quiet, Covered
<1>3. QED  BY <1>1, <1>2 DEF Heard, Below, Kept, Said

\* An evaluation that is stored holds every text, and a save that replaces it
\* holds its own.
LEMMA QuietSave ==
  ASSUME Typed, Quiet, NEW r \in Caller, Save(r)
  PROVE  Complete'
<1>1. /\ req[r].step = "save" /\ resp' = Payload(r) /\ told' = told
      /\ req'[r].step = "persist" /\ req'[r].kind = req[r].kind
      /\ \A q \in Caller \ {r} : req'[q] = req[q]
  <2>1. ReqOK(req[r]) /\ req[r] \in ReqRow
    BY DEF Typed, ReqsOK
  <2>2. Goes(r, [req[r] EXCEPT !.step = "persist", !.held = NoPayload])
    BY DEF Save
  <2>3. /\ [req[r] EXCEPT !.step = "persist", !.held = NoPayload].step = "persist"
        /\ [req[r] EXCEPT !.step = "persist", !.held = NoPayload].kind = req[r].kind
    BY <2>1 DEF ReqRow
  <2>4. /\ req'[r] = [req[r] EXCEPT !.step = "persist", !.held = NoPayload]
        /\ \A q \in Caller \ {r} : req'[q] = req[q]
    BY <2>2 DEF Goes, Typed, ReqsOK
  <2>5. QED  BY <2>3, <2>4 DEF Save
<1>2. req[r].obj = cur /\ cur # None /\ req[r].kind \in {"say", "reply", "submit"}
  BY <1>1, WritersHold DEF Quiet, Single, Typed, ReqsOK, ReqOK
<1>3. /\ Heard("say") => heap[cur].say
      /\ Heard("reply") => heap[cur].reply
      /\ req[r].kind = "say" => heap[cur].say
      /\ req[r].kind = "reply" => heap[cur].reply
  BY <1>2, HeardIsSaid DEF Quiet, Said
<1>4. /\ Heard("say")' => Heard("say") \/ req[r].kind = "say"
      /\ Heard("reply")' => Heard("reply") \/ req[r].kind = "reply"
  BY <1>1 DEF Heard
<1>5. req[r].held \in PayloadRow
  BY DEF Typed, ReqsOK, ReqRow
<1>6. CASE req[r].kind = "say"
  <2>1. ~Payload(r).result
    BY <1>6 DEF Payload, NoPayload
  <2>2. QED  BY <1>1, <2>1 DEF Complete
<1>7. CASE req[r].kind = "reply"
  <2>1. Payload(r).reply = TRUE /\ Payload(r).say = (heap[cur].say \/ req[r].held.say)
    BY <1>2, <1>5, <1>7 DEF Payload, PayloadRow
  <2>2. QED  BY <1>1, <1>3, <1>4, <1>7, <2>1 DEF Complete
<1>8. CASE req[r].kind = "submit"
  <2>1. Payload(r).say = heap[cur].say /\ Payload(r).reply = heap[cur].reply
    BY <1>2, <1>8 DEF Payload
  <2>2. QED  BY <1>1, <1>3, <1>4, <1>8, <2>1 DEF Complete
<1>9. QED  BY <1>2, <1>6, <1>7, <1>8

\* Logging and saving.
LEMMA QuietBooks ==
  ASSUME Typed, Quiet, lapses' = {}, NEW r \in Caller,
         \/ LogRead(r) \/ LogInit(r) \/ LogAppend(r) \/ LogFails(r)
         \/ ReadAnswer(r) \/ Save(r) \/ SaveFails(r)
  PROVE  Quiet' /\ UNCHANGED snap /\ req[r].step \notin {"state", "hydrate"}
         /\ \A q \in Caller \ {r} : req'[q] = req[q]
<1>1. /\ UNCHANGED <<cur, heap, events, snap, told>>
      /\ req[r].step \notin {"idle", "state", "hydrate", "persist", "write"}
      /\ req'[r].step \notin {"state", "hydrate", "write"}
      /\ req'[r].obj = None \/ (req'[r].obj = req[r].obj /\ req'[r].kind = req[r].kind)
      /\ req'[r].step = "persist" /\ req'[r].kind \in {"say", "reply"} => Save(r)
      /\ \A q \in Caller \ {r} : req'[q] = req[q]
  BY BookTyped
<1>2. Complete'
  <2>1. CASE Save(r)
    BY <2>1, QuietSave
  <2>2. CASE LogInit(r) \/ LogAppend(r)
    <3>1. ~EmptyLog.result /\ (req[r].step = "append" => ~req[r].held.result)
      BY NoneOK DEF Typed, ReqsOK, ReqOK
    <3>2. ~resp'.result
      BY <2>2, <3>1 DEF LogInit, LogAppend
    <3>3. QED  BY <3>2 DEF Complete
  <2>3. CASE UNCHANGED resp /\ ~Save(r)
    <3>1. /\ Heard("say")' => Heard("say")
          /\ Heard("reply")' => Heard("reply")
      BY <1>1, <2>3 DEF Heard
    <3>2. QED  BY <2>3, <3>1 DEF Quiet, Complete
  <2>4. QED  BY <2>1, <2>2, <2>3 DEF LogRead, LogFails, ReadAnswer, SaveFails
<1>3. events \subseteq events'
  BY <1>1
<1>4. Quiet'
  BY <1>1, <1>2, <1>3, QuietBook
<1>5. QED  BY <1>1, <1>4

\* A snapshot that is made has all that there is.
LEMMA QuietCompose ==
  ASSUME Typed, Quiet, lapses' = {}, NEW r \in Caller, Compose(r)
  PROVE  Quiet'
<1>1. /\ cur \in Obj /\ req[r].step = "persist"
      /\ UNCHANGED <<cur, heap, snap, resp, told>>
      /\ events' = Telemetry /\ events \subseteq events'
      /\ req'[r].step = "write" /\ req'[r].kind = req[r].kind /\ req'[r].obj = req[r].obj
      /\ req'[r].older = Writing
      /\ req'[r].snap = Composed(snap.actions)
      /\ \A q \in Caller \ {r} : req'[q] = req[q]
  BY ComposeTyped
<1>2. cur # None /\ req[r].obj # None
  BY <1>1, WritersHold
<1>3. /\ req'[r].snap.say = heap[cur].say /\ req'[r].snap.reply = heap[cur].reply
      /\ req'[r].snap.mailed = heap[cur].mailed
      /\ req'[r].snap.actions = snap.actions \cup Telemetry
  BY <1>1 DEF Composed
<1>4. \A s : Below(s, heap[cur]) <=> Below(s, req'[r].snap)
  BY <1>3 DEF Below
<1>5. Below(req'[r].snap, heap[cur])
  BY <1>3 DEF Below
<1>6. Single' /\ Fetched' /\ Covered'
  BY <1>1, <1>2, <1>5 DEF Quiet, Single, Fetched, Covered
<1>7. Ordered'
  <2>1. ASSUME NEW a \in Caller, NEW b \in Caller, a # b,
               req'[a].step = "write", req'[b].step = "write"
        PROVE  a \in req'[b].older \/ b \in req'[a].older
    <3>1. CASE a = r
      BY <1>1, <2>1, <3>1 DEF Writing
    <3>2. CASE b = r
      BY <1>1, <2>1, <3>2 DEF Writing
    <3>3. CASE a # r /\ b # r
      BY <1>1, <2>1, <3>3 DEF Quiet, Ordered
    <3>4. QED  BY <3>1, <3>2, <3>3
  <2>2. ASSUME NEW a \in Caller, NEW b \in Caller, req'[b].step = "write", a \in req'[b].older
        PROVE  /\ req'[a].step = "write" /\ Below(req'[a].snap, req'[b].snap)
               /\ req'[a].snap.actions \subseteq req'[b].snap.actions
    <3>1. CASE b = r
      <4>1. req[a].step = "write" /\ a # r /\ req'[a] = req[a]
        BY <1>1, <2>2, <3>1 DEF Writing
      <4>2. Below(req[a].snap, heap[cur]) /\ req[a].snap.actions \subseteq snap.actions \cup events
        BY <1>2, <4>1 DEF Quiet, Covered, Recorded
      <4>3. QED  BY <1>1, <1>3, <1>4, <3>1, <4>1, <4>2
    <3>2. CASE b # r
      <4>1. req[b].step = "write" /\ a \in req[b].older
        BY <1>1, <2>2, <3>2
      <4>2. req[a].step = "write" /\ a # r
        BY <1>1, <4>1 DEF Quiet, Ordered
      <4>3. QED  BY <1>1, <3>2, <4>1, <4>2 DEF Quiet, Ordered
    <3>3. QED  BY <3>1, <3>2
  <2>3. QED  BY <2>1, <2>2 DEF Ordered
<1>8. Ahead'
  <2>1. Below(snap, req'[r].snap) /\ snap.actions \subseteq req'[r].snap.actions
    BY <1>2, <1>3, <1>4 DEF Quiet, Covered
  <2>2. QED  BY <1>1, <2>1 DEF Quiet, Ahead
<1>9. Recorded'
  BY <1>1, <1>3 DEF Quiet, Recorded
<1>10. Said'
  BY <1>1, <1>2, <1>3 DEF Quiet, Said
<1>11. Kept'
  BY <1>1 DEF Quiet, Kept
<1>12. Complete'
  <2>1. /\ Heard("say")' => Heard("say")
        /\ Heard("reply")' => Heard("reply")
    BY <1>1 DEF Heard
  <2>2. QED  BY <1>1, <2>1 DEF Quiet, Complete
<1>13. QED  BY <1>6, <1>7, <1>8, <1>9, <1>10, <1>11, <1>12 DEF Quiet

\* A snapshot that is written in its turn takes nothing back.
LEMMA QuietWrite ==
  ASSUME Typed, Quiet, lapses' = {}, NEW r \in Caller, Write(r)
  PROVE  Quiet' /\ snap.actions \subseteq snap'.actions
<1>1. /\ req[r].step = "write" /\ ~req[r].late
      /\ UNCHANGED <<cur, heap, events, resp>> /\ snap' = req[r].snap
      /\ req'[r] = NoReq
      /\ \A q \in Caller \ {r} : Overtaken(r, q, q \in req[r].older)
  BY WriteTyped
<1>2. /\ req'[r].step = "idle" /\ req'[r].obj = None
      /\ \A q \in Caller \ {r} :
           /\ req'[q].step = req[q].step /\ req'[q].kind = req[q].kind /\ req'[q].obj = req[q].obj
           /\ req'[q].snap = req[q].snap /\ req'[q].older = req[q].older \ {r}
           /\ req'[q].late <=> req[q].late \/ q \in req[r].older
  BY <1>1, NoneOK DEF Overtaken
<1>3. cur # None /\ req[r].obj # None
  BY <1>1, WritersHold
<1>4. Below(snap, req[r].snap) /\ snap.actions \subseteq req[r].snap.actions
  BY <1>1 DEF Quiet, Ahead
<1>5. Single' /\ Fetched' /\ Covered'
  BY <1>1, <1>2, <1>3 DEF Quiet, Single, Fetched, Covered
<1>6. Ordered'
  <2>1. ASSUME NEW a \in Caller, NEW b \in Caller, a # b,
               req'[a].step = "write", req'[b].step = "write"
        PROVE  a \in req'[b].older \/ b \in req'[a].older
    <3>1. a # r /\ b # r
      BY <1>2, <2>1
    <3>2. QED  BY <1>2, <2>1, <3>1 DEF Quiet, Ordered
  <2>2. ASSUME NEW a \in Caller, NEW b \in Caller, req'[b].step = "write", a \in req'[b].older
        PROVE  /\ req'[a].step = "write" /\ Below(req'[a].snap, req'[b].snap)
               /\ req'[a].snap.actions \subseteq req'[b].snap.actions
    <3>1. b # r /\ a # r /\ a \in req[b].older /\ req[b].step = "write"
      BY <1>2, <2>2
    <3>2. QED  BY <1>2, <3>1 DEF Quiet, Ordered
  <2>3. QED  BY <2>1, <2>2 DEF Ordered
<1>7. Ahead'
  <2>1. ASSUME NEW q \in Caller, req'[q].step = "write", ~req'[q].late
        PROVE  Below(snap', req'[q].snap) /\ snap'.actions \subseteq req'[q].snap.actions
    <3>1. q # r /\ q \notin req[r].older /\ req[q].step = "write"
      BY <1>2, <2>1
    <3>2. r \in req[q].older
      BY <1>1, <3>1 DEF Quiet, Ordered
    <3>3. QED  BY <1>1, <1>2, <3>1, <3>2 DEF Quiet, Ordered
  <2>2. QED  BY <2>1 DEF Ahead
<1>8. Recorded'
  BY <1>1, <1>2, <1>4 DEF Quiet, Recorded
<1>9. Said'
  BY <1>1, <1>2 DEF Quiet, Said
<1>10. told' = told \cup ({req[r].kind} \cap {"say", "reply"})
               \cup (IF req[r].kind = "edit" /\ req[r].snap.mailed THEN {"mail"} ELSE {})
  BY DEF Write, Done
<1>11. /\ "say" \in told' => "say" \in told \/ req[r].kind = "say"
       /\ "reply" \in told' => "reply" \in told \/ req[r].kind = "reply"
       /\ "mail" \in told' => "mail" \in told \/ req[r].snap.mailed
  BY <1>10
<1>12. Kept'
  <2>1. /\ req[r].kind = "say" => req[r].snap.say
        /\ req[r].kind = "reply" => req[r].snap.reply
    BY <1>1, <1>3 DEF Quiet, Said
  <2>2. QED  BY <1>1, <1>4, <1>11, <2>1 DEF Quiet, Kept, Below
<1>13. Complete'
  <2>1. /\ Heard("say")' => Heard("say")
        /\ Heard("reply")' => Heard("reply")
    BY <1>1, <1>2, <1>11 DEF Heard
  <2>2. QED  BY <1>1, <2>1 DEF Quiet, Complete
<1>14. QED  BY <1>1, <1>4, <1>5, <1>6, <1>7, <1>8, <1>9, <1>12, <1>13 DEF Quiet

\* After a restart there is what was stored.
LEMMA QuietRestart ==
  ASSUME Typed, Quiet, Restart
  PROVE  Quiet'
<1>1. /\ cur' = None /\ UNCHANGED <<heap, snap, resp, told, lapses>>
      /\ \A r \in Caller : req'[r].obj = None /\ req'[r].step = "idle"
  BY RestartTyped, NoneOK
<1>2. /\ Heard("say")' => Heard("say")
      /\ Heard("reply")' => Heard("reply")
  BY <1>1 DEF Heard
<1>3. Complete'
  BY <1>1, <1>2 DEF Quiet, Complete
<1>4. QED
  BY <1>1, <1>3
     DEF Quiet, Single, Fetched, Covered, Ordered, Ahead, Recorded, Said, Kept

\* Every step that is no lapse keeps all of it, takes no action back from the
\* snapshot and mails only what the snapshot has not mailed.
LEMMA NextQuiet ==
  ASSUME Typed, Quiet, lapses' = {}, [Next]_vars
  PROVE  /\ Quiet' /\ snap.actions \subseteq snap'.actions
         /\ \A r \in Caller :
              /\ req[r].kind = "edit" /\ req[r].step \in {"state", "hydrate"}
              /\ req'[r].step = "log"
              => ~snap.mailed
<1> DEFINE Mails(q) == /\ req[q].kind = "edit" /\ req[q].step \in {"state", "hydrate"}
                       /\ req'[q].step = "log"
           Goal == /\ Quiet' /\ snap.actions \subseteq snap'.actions
                   /\ \A q \in Caller : Mails(q) => ~snap.mailed
<1>1. ASSUME NEW r \in Caller, NEW k \in Kind, Start(r, k) PROVE Goal
  <2>1. /\ req'[r].step \in {"state", "log"} /\ req'[r].obj = None
        /\ events \subseteq events' /\ UNCHANGED <<cur, heap, snap, resp, told, lapses>>
        /\ \A q \in Caller \ {r} : req'[q] = req[q]
    BY <1>1, StartTyped
  <2>2. req[r].step = "idle"
    BY <1>1 DEF Start
  <2>3. Complete'
    BY <2>1 DEF Quiet, Complete, Heard
  <2>4. Quiet'
    BY <2>1, <2>2, <2>3, QuietBook
  <2>5. QED  BY <2>1, <2>2, <2>4
<1>2. ASSUME NEW r \in Caller, ReadState(r) PROVE Goal
  <2>1. /\ req'[r].step = "hydrate" /\ req'[r].obj = None /\ req[r].step = "state"
        /\ req'[r].snap = snap /\ UNCHANGED <<cur, heap, events, snap, resp, told>>
        /\ \A q \in Caller \ {r} : req'[q] = req[q]
    BY <1>2, ReadStateTyped
  <2>2. Complete' /\ events \subseteq events'
    BY <2>1 DEF Quiet, Complete, Heard
  <2>3. Quiet'
    BY <2>1, <2>2, QuietBook
  <2>4. QED  BY <2>1, <2>3
<1>3. ASSUME NEW r \in Caller, UseState(r) \/ Hydrate(r) PROVE Goal
  <2>1. PICK o \in Obj, s \in StateRow :
          /\ Work(r, o, s) /\ cur' = o
          /\ \/ o = cur /\ s = heap[cur]
             \/ cur = None /\ s = Restored(snap)
    <3>1. CASE UseState(r)
      BY <3>1, UseStateTyped DEF UseState
    <3>2. CASE Hydrate(r)
      <4>1. cur = None /\ Restored(req[r].snap) \in StateRow
        BY <3>2, HydrateTyped
      <4>2. req[r].snap = snap
        BY <3>2, <4>1 DEF Hydrate, Quiet, Fetched
      <4>3. QED  BY <3>2, <4>1, <4>2 DEF Hydrate
    <3>3. QED  BY <1>3, <3>1, <3>2
  <2>2. req[r].step \in {"state", "hydrate"} /\ UNCHANGED <<snap, resp, told>>
    BY <1>3 DEF UseState, Hydrate
  <2>3. HistoryOK' /\ \A q \in Caller \ {r} : req'[q] = req[q]
    <3>1. HistoryOK'
      BY <1>3, UseStateTyped, HydrateTyped DEF Typed
    <3>2. UNCHANGED <<snap, resp>>
      BY <2>2
    <3>3. QED  BY <2>1, <2>2, <3>1, <3>2, WorkTyped
  <2>4. Quiet' /\ (req'[r].step = "log" /\ req[r].kind = "edit" => ~snap.mailed)
    BY <2>1, <2>2, <2>3, QuietWork
  <2>5. QED  BY <2>2, <2>3, <2>4
<1>4. ASSUME NEW r \in Caller,
             \/ LogRead(r) \/ LogInit(r) \/ LogAppend(r) \/ LogFails(r)
             \/ ReadAnswer(r) \/ Save(r) \/ SaveFails(r)
      PROVE  Goal
  BY <1>4, QuietBooks
<1>5. ASSUME NEW r \in Caller, Compose(r) PROVE Goal
  BY <1>5, QuietCompose, ComposeTyped
<1>6. ASSUME NEW r \in Caller, Write(r) PROVE Goal
  <2>1. Quiet' /\ snap.actions \subseteq snap'.actions
    BY <1>6, QuietWrite
  <2>2. \A q \in Caller : ~Mails(q)
    BY <1>6, WriteTyped, NoneOK DEF Overtaken
  <2>3. QED  BY <2>1, <2>2
<1>7. ASSUME NEW r \in Caller, WriteFails(r) PROVE Goal
  BY <1>7, WriteFailsTyped
<1>8. CASE Restart
  BY <1>8, QuietRestart, RestartTyped, NoneOK
<1>9. CASE UNCHANGED vars
  <2>1. Quiet'
    BY <1>9
       DEF vars, Quiet, Single, Fetched, Covered, Ordered, Ahead, Recorded, Said, Kept,
           Complete, Heard
  <2>2. QED  BY <1>9, <2>1 DEF vars
<1>10. QED
  BY <1>1, <1>2, <1>3, <1>4, <1>5, <1>6, <1>7, <1>8, <1>9 DEF Next

\* The invariant, up to the first lapse.
QuietInv == Typed /\ (lapses = {} => Quiet)

\* It holds in every behaviour.
LEMMA AlwaysQuiet == Spec => []QuietInv
<1>1. Init => QuietInv
  <2> SUFFICES ASSUME Init PROVE Quiet
    BY InitTyped DEF QuietInv
  <2>1. /\ cur = None /\ told = {} /\ resp = None
        /\ \A r \in Caller : req[r].obj = None /\ req[r].step = "idle"
    BY NoneOK DEF Init
  <2>2. QED
    BY <2>1
       DEF Quiet, Single, Fetched, Covered, Ordered, Ahead, Recorded, Said, Kept, Complete
<1>2. QuietInv /\ [Next]_vars => QuietInv'
  <2> SUFFICES ASSUME QuietInv, [Next]_vars PROVE QuietInv'
    OBVIOUS
  <2>1. Typed' /\ lapses \subseteq lapses'
    BY NextTyped DEF QuietInv
  <2>2. ASSUME lapses' = {} PROVE Quiet'
    BY <2>1, <2>2, NextQuiet DEF QuietInv
  <2>3. QED  BY <2>1, <2>2 DEF QuietInv
<1>3. QED  BY <1>1, <1>2, PTL DEF Spec

\* What a request was answered for is in the snapshot, and comes back from there
\* after a restart.  (simulation.service.ts persistSessionSnapshot)
THEOREM ToldStaysKept == Spec => []ToldIsKept
<1>1. QuietInv => ToldIsKept
  BY DEF QuietInv, Quiet, Kept, ToldIsKept
<1>2. QED  BY <1>1, AlwaysQuiet, PTL

\* A stored evaluation holds every text the candidate was told is saved.
\* (simulation.service.ts submitSimulation)
THEOREM ResultsAreComplete == Spec => []ResultIsComplete
<1>1. QuietInv => ResultIsComplete
  BY DEF QuietInv, Quiet, Complete, Heard, ResultIsComplete
<1>2. QED  BY <1>1, AlwaysQuiet, PTL

\* The actions a recruiter sees are never fewer than before.
\* (simulation.service.ts persistSessionSnapshot, getCandidateActions)
THEOREM ActionsStayKept == Spec => ActionsKept
<1>1. QuietInv /\ [Next]_vars => [lapses' = {} => snap.actions \subseteq snap'.actions]_vars
  <2> SUFFICES ASSUME QuietInv, [Next]_vars, lapses' = {}
               PROVE  snap.actions \subseteq snap'.actions
    OBVIOUS
  <2>1. lapses = {}
    BY NextTyped DEF QuietInv
  <2>2. QED  BY <2>1, NextQuiet DEF QuietInv
<1>2. QED  BY <1>1, AlwaysQuiet, PTL DEF Spec, ActionsKept

\* Once a snapshot says that the manager's email was sent it is not sent again.
\* (simulation.service.ts recordTelemetry, getOrCreateSessionState)
THEOREM MailStaysSingle == Spec => MailedOnce
<1> DEFINE Mails(r) == /\ req[r].kind = "edit" /\ req[r].step \in {"state", "hydrate"}
                       /\ req'[r].step = "log"
           A == \A r \in Caller : Mails(r) => ~snap.mailed \/ lapses' # {}
<1>1. QuietInv /\ [Next]_vars => [A]_vars
  <2> SUFFICES ASSUME QuietInv, [Next]_vars, lapses' = {}
               PROVE  \A r \in Caller : Mails(r) => ~snap.mailed
    OBVIOUS
  <2>1. lapses = {}
    BY NextTyped DEF QuietInv
  <2>2. QED  BY <2>1, NextQuiet DEF QuietInv
<1>2. QED  BY <1>1, AlwaysQuiet, PTL DEF Spec, MailedOnce

-----------------------------------------------------------------------------
(* The service is a notebook *)

\* What is on file is among the facts there are.
LEMMA FilesFacts == ASSUME NEW s \in SnapRow PROVE OnFile(s) \subseteq Facts
BY DEF SnapRow, Label, OnFile, TextsOf, Texts, Facts

\* A snapshot that has all the last one had takes nothing off the file.
LEMMA FileGrows ==
  ASSUME NEW s, NEW t, Below(s, t), s.actions \subseteq t.actions
  PROVE  OnFile(s) \subseteq OnFile(t)
BY DEF Below, OnFile, TextsOf, Texts

\* A row whose evaluation has both texts, as far as they were told.
LEMMA EvaluatedAll ==
  ASSUME NEW p, NEW t,
         p # None /\ p.result => ("say" \in t => p.say) /\ ("reply" \in t => p.reply)
  PROVE  \A e \in Evaluated(p) : e \subseteq Texts /\ t \cap Texts \subseteq e
BY DEF Evaluated, TextsOf, Texts

\* Only an answer and a lapse change the snapshot or what was told.
LEMMA OnlyAnswersTell ==
  ASSUME Typed, [Next]_vars, lapses' = {}
  PROVE  UNCHANGED <<snap, told>> \/ \E r \in Caller : Write(r)
<1>1. ASSUME NEW r \in Caller, WriteFails(r) PROVE FALSE
  BY <1>1 DEF WriteFails
<1>2. ASSUME NEW r \in Caller, UseState(r) \/ Hydrate(r) PROVE UNCHANGED <<snap, told>>
  BY <1>2 DEF UseState, Hydrate
<1>3. QED
  BY <1>1, <1>2
     DEF Next, Start, ReadState, LogRead, LogInit, LogAppend, LogFails, ReadAnswer, Save,
         SaveFails, Compose, Restart, vars

\* A request tells of one fact.
LEMMA TellsOne ==
  ASSUME NEW r \in Caller, Write(r)
  PROVE  told' = told \/ \E f : told' = told \cup {f}
<1>1. told' = told \cup ({req[r].kind} \cap {"say", "reply"})
                    \cup (IF req[r].kind = "edit" /\ req[r].snap.mailed THEN {"mail"} ELSE {})
  BY DEF Write, Done
<1>2. CASE req[r].kind \in {"say", "reply"}
  BY <1>1, <1>2
<1>3. CASE req[r].kind = "edit" /\ req[r].snap.mailed
  <2>1. told' = told \cup {"mail"}
    BY <1>1, <1>3
  <2>2. QED  BY <2>1
<1>4. CASE req[r].kind \notin {"say", "reply"} /\ ~(req[r].kind = "edit" /\ req[r].snap.mailed)
  BY <1>1, <1>4
<1>5. QED  BY <1>2, <1>3, <1>4

\* A stored evaluation has every text that was told, after a quiet step too.
LEMMA EvaluatedNext ==
  ASSUME Quiet'
  PROVE  \A e \in Evaluated(resp') : e \subseteq Texts /\ told' \cap Texts \subseteq e
<1>1. resp' # None /\ resp'.result =>
        ("say" \in told' => resp'.say) /\ ("reply" \in told' => resp'.reply)
  BY DEF Quiet, Complete, Heard
<1>2. QED  BY <1>1, EvaluatedAll

\* A request that is answered notes its facts.
LEMMA AnswerNotes ==
  ASSUME Typed, Typed', Quiet, Quiet', lapses = {}, lapses' = {}, NEW r \in Caller, Write(r)
  PROVE  Stored!Note
<1>1. Below(snap, snap') /\ snap.actions \subseteq snap'.actions /\ UNCHANGED resp
  <2>1. /\ req[r].step = "write" /\ ~req[r].late /\ UNCHANGED resp /\ snap' = req[r].snap
    BY WriteTyped
  <2>2. QED  BY <2>1 DEF Quiet, Ahead
<1>2. OnFile(snap) \subseteq OnFile(snap') /\ OnFile(snap') \subseteq Facts
  BY <1>1, FileGrows, FilesFacts DEF Typed, DataOK
<1>3. \E more \in SUBSET Facts : OnFile(snap)' = OnFile(snap) \cup more
  BY <1>2
<1>4. UNCHANGED Evaluated(resp)
  BY <1>1
<1>5. ASSUME told' # told
      PROVE  \E f \in OnFile(snap)' :
               told' = told \cup {f} /\ (f \in Texts => \A e \in Evaluated(resp) : f \in e)
  <2>1. PICK f : told' = told \cup {f}
    BY <1>5, TellsOne
  <2>2. f \in OnFile(snap')
    BY <2>1 DEF Typed, HistoryOK, Quiet, Kept, OnFile, TextsOf, Texts
  <2>3. \A e \in Evaluated(resp') : told' \cap Texts \subseteq e
    BY EvaluatedNext
  <2>4. QED  BY <1>1, <2>1, <2>2, <2>3
<1>6. QED  BY <1>3, <1>4, <1>5 DEF Stored!Note

\* Every other step is a new evaluation or is not seen at all.
LEMMA OthersEvaluate ==
  ASSUME Quiet', lapses = {}, lapses' = {}, UNCHANGED <<snap, told>>
  PROVE  Stored!Evaluate
<1>1. UNCHANGED OnFile(snap)
  OBVIOUS
<1>2. \A e \in Evaluated(resp') : e \subseteq Texts /\ told' \cap Texts \subseteq e
  BY EvaluatedNext
<1>3. CASE Evaluated(resp') = {}
  BY <1>1, <1>3 DEF Stored!Evaluate
<1>4. CASE Evaluated(resp') # {}
  <2>1. Evaluated(resp') = {TextsOf(resp')}
    BY <1>4 DEF Evaluated
  <2>2. /\ TextsOf(resp') \in SUBSET Texts
        /\ told \cap Texts \subseteq TextsOf(resp')
    BY <1>2, <2>1
  <2>3. QED  BY <1>1, <2>1, <2>2 DEF Stored!Evaluate
<1>5. QED  BY <1>3, <1>4

\* Until something lapses the cache, the snapshots, the overlap of requests and
\* restarts do not show: the service implements a notebook that only grows.
\* (simulation.service.ts persistSessionSnapshot, getOrCreateSessionState)
THEOREM SimulationImplementsNotebook == Spec => ImplementsNotebook
<1> DEFINE nvars == <<OnFile(snap), told, Evaluated(resp), lapses # {}>>
<1>1. Init => Stored!Init
  BY DEF Init, Stored!Init, NoSnap, OnFile, TextsOf, Texts, Evaluated
<1>2. QuietInv /\ [Next]_vars => [Stored!Next]_nvars
  <2> SUFFICES ASSUME QuietInv, [Next]_vars PROVE Stored!Next
    OBVIOUS
  <2>1. Typed' /\ lapses \subseteq lapses'
    BY NextTyped DEF QuietInv
  <2>2. CASE lapses' # {}
    BY <2>2 DEF Stored!Next, Stored!Lapse
  <2>3. CASE lapses' = {}
    <3>1. lapses = {} /\ Typed /\ Quiet
      BY <2>1, <2>3 DEF QuietInv
    <3>2. Quiet'
      BY <2>3, <3>1, NextQuiet
    <3>3. CASE UNCHANGED <<snap, told>>
      BY <2>3, <3>1, <3>2, <3>3, OthersEvaluate DEF Stored!Next
    <3>4. CASE \E r \in Caller : Write(r)
      BY <2>1, <2>3, <3>1, <3>2, <3>4, AnswerNotes DEF Stored!Next
    <3>5. QED  BY <2>3, <3>1, <3>3, <3>4, OnlyAnswersTell
  <2>4. QED  BY <2>2, <2>3
<1>3. QED
  BY <1>1, <1>2, AlwaysQuiet, PTL
     DEF Spec, ImplementsNotebook, Stored!Spec, Stored!vars
=============================================================================
