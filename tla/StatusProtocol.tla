--------------------------- MODULE StatusProtocol ---------------------------
(***************************************************************************)
(* What the handlers of a session promise together about its status: a     *)
(* handler decides a new status at a moment when the current one allows    *)
(* it, and writes it some time later, when the row may have moved on, or   *)
(* never.  Only removing a candidate checks and writes in one statement.   *)
(***************************************************************************)
CONSTANTS Actor, None

VARIABLES
  status,
  intent      \* the status each handler has decided and not yet written

\* The statuses a handler may have read when it decides each new status.
Source ==
  [IN_PROGRESS    |-> {"NOT_STARTED", "DISCONNECTED", "AUTO_SUBMITTED"},
   DISCONNECTED   |-> {"IN_PROGRESS"},
   AUTO_SUBMITTED |-> {"IN_PROGRESS", "DISCONNECTED"},
   SUBMITTED      |-> {"NOT_STARTED", "IN_PROGRESS", "DISCONNECTED"}]

Init ==
  /\ status \in {"NOT_STARTED", "IN_PROGRESS"}
  /\ intent = [a \in Actor |-> None]

Decide(a) ==
  /\ intent[a] = None
  /\ \E s \in DOMAIN Source :
       /\ status \in Source[s]
       /\ intent' = [intent EXCEPT ![a] = s]
  /\ UNCHANGED status

Apply(a) ==
  /\ intent[a] # None
  /\ status' = intent[a]
  /\ intent' = [intent EXCEPT ![a] = None]

\* Handlers fail, or the process restarts.
Withdraw ==
  /\ \E lost \in SUBSET Actor :
       intent' = [a \in Actor |-> IF a \in lost THEN None ELSE intent[a]]
  /\ UNCHANGED status

Remove ==
  /\ status \in {"NOT_STARTED", "IN_PROGRESS", "DISCONNECTED"}
  /\ status' = "ABANDONED"
  /\ UNCHANGED intent

Next ==
  \/ \E a \in Actor : Decide(a) \/ Apply(a)
  \/ Withdraw
  \/ Remove

vars == <<status, intent>>

Spec == Init /\ [][Next]_vars

-----------------------------------------------------------------------------
(* What follows from the protocol *)

TypeOK ==
  /\ status \in DOMAIN Source \cup {"NOT_STARTED", "ABANDONED"}
  /\ intent \in [Actor -> DOMAIN Source \cup {None}]

\* Seen from outside, a session moves as SessionStages says.
Stage == INSTANCE SessionStages

StagesFollow == [][Stage!MayBecome(Stage!StageOf(status), Stage!StageOf(status'))]_vars

\* No handler that reads one of these decides anything ...
Final == {"SUBMITTED", "ABANDONED"}

\* ... so once the handlers that had read an earlier status are through, nothing
\* will change it.
Settled == status \in Final /\ \A a \in Actor : intent[a] = None

SettledIsFinal == [][Settled => Settled' /\ status' = status]_vars
=============================================================================
