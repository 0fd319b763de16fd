------------------------- MODULE StatusProtocolProofs -------------------------
(***************************************************************************)
(* What follows from StatusProtocol, whatever the handlers are that keep   *)
(* to it.  Two lemmas say all that a step does: to the status, and to what *)
(* each handler is about to write.  The theorems are read off them.        *)
(***************************************************************************)
EXTENDS StatusProtocol, TLAPS

\* A status that changes is one that a handler had decided, or the candidate's
\* removal from a session that is active.
LEMMA StatusMoves ==
  ASSUME Next
  PROVE  \/ status' = status
         \/ \E a \in Actor : intent[a] # None /\ status' = intent[a]
         \/ status \in {"NOT_STARTED", "IN_PROGRESS", "DISCONNECTED"} /\ status' = "ABANDONED"
BY DEF Next, Decide, Apply, Withdraw, Remove

\* What a handler is about to write is what it was, or nothing any more, or a
\* status that the current one allows.
LEMMA IntentMoves ==
  ASSUME TypeOK, Next
  PROVE  /\ intent' = [a \in Actor |-> intent'[a]]
         /\ \A a \in Actor :
              \/ intent'[a] \in {intent[a], None}
              \/ intent'[a] \in DOMAIN Source /\ status \in Source[intent'[a]]
<1>1. CASE UNCHANGED intent
  BY <1>1 DEF TypeOK
<1>2. CASE \E b \in Actor, s \in DOMAIN Source \cup {None} :
             /\ s # None => s \in DOMAIN Source /\ status \in Source[s]
             /\ intent' = [intent EXCEPT ![b] = s]
  BY <1>2 DEF TypeOK
<1>3. CASE Withdraw
  BY <1>3 DEF Withdraw, TypeOK
<1>4. QED
  BY <1>1, <1>2, <1>3 DEF Next, Decide, Apply, Remove

\* A handler has decided one of the statuses that handlers write, or none.
\* (the status updates of session.service.ts and of the other writers)
THEOREM ProtocolTyped == Spec => []TypeOK
<1>1. ASSUME TypeOK, Next PROVE TypeOK'
  BY <1>1, StatusMoves, IntentMoves DEF TypeOK
<1>2. TypeOK /\ UNCHANGED vars => TypeOK'
  BY DEF TypeOK, vars
<1>3. ASSUME Init PROVE TypeOK
  BY <1>3 DEF Init, TypeOK, Source
<1>4. QED  BY <1>1, <1>2, <1>3, PTL DEF Spec

\* Every status a handler applies is one its stage may become: nothing returns
\* to NOT_STARTED, and only an active session is abandoned.
THEOREM ProtocolStages == Spec => StagesFollow
<1> DEFINE Allowed == Stage!MayBecome(Stage!StageOf(status), Stage!StageOf(status'))
<1>1. ASSUME TypeOK, Next PROVE Allowed
  <2>1. \/ status' \in {status, "SUBMITTED", "AUTO_SUBMITTED"}
        \/ status' \in {"IN_PROGRESS", "DISCONNECTED"}
        \/ status \in {"NOT_STARTED", "IN_PROGRESS", "DISCONNECTED"} /\ status' = "ABANDONED"
    BY <1>1, StatusMoves DEF TypeOK, Source
  <2>2. Stage!StageOf(status) \in Stage!SessionStatuses
    BY <1>1 DEF TypeOK, Source, Stage!StageOf, Stage!SessionStatuses
  <2>3. CASE Stage!StageOf(status') = "SUBMITTED"
    BY <2>3 DEF Stage!MayBecome, Stage!Proceeds
  <2>4. CASE Stage!StageOf(status') = "IN_PROGRESS"
    BY <2>2, <2>4
       DEF Stage!MayBecome, Stage!Proceeds, Stage!Revives, Stage!Active, Stage!SessionStatuses
  <2>5. CASE status' = "ABANDONED" /\ status' # status
    BY <2>1, <2>5 DEF Stage!MayBecome, Stage!Removes, Stage!StageOf, Stage!Active
  <2>6. CASE status' = status
    BY <2>6 DEF Stage!MayBecome
  <2>7. QED  BY <2>1, <2>3, <2>4, <2>5, <2>6 DEF Stage!StageOf
<1>2. QED  BY <1>1, ProtocolTyped, PTL DEF Spec, StagesFollow

\* A final status stays once no handler is about to write another: nothing may be
\* decided from it, and what was decided before is written or withdrawn.
THEOREM ProtocolSettles == Spec => SettledIsFinal
<1>1. ASSUME TypeOK, Next, Settled PROVE Settled' /\ status' = status
  <2>1. status' = status
    BY <1>1, StatusMoves DEF Settled, Final
  <2>2. \A s \in DOMAIN Source : status \notin Source[s]
    BY <1>1 DEF Settled, Final, Source
  <2>3. \A a \in Actor : intent'[a] = None
    BY <1>1, <2>2, IntentMoves DEF Settled
  <2>4. QED  BY <1>1, <2>1, <2>3 DEF Settled
<1>2. QED  BY <1>1, ProtocolTyped, PTL DEF Spec, SettledIsFinal
=============================================================================
