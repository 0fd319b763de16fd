----------------------- MODULE InviteRedemptionProofs -----------------------
(***************************************************************************)
(* Proofs about InviteRedemption, for any number of invites, sessions,     *)
(* drives, candidates, requests and staff calls.                           *)
(*                                                                         *)
(* RedeemedIsLinked and LinkedSessionMatches are not inductive: what makes *)
(* them hold is what requests and calls in flight have read, and how much  *)
(* of it may have changed since.  Linked collects those facts.  Alone adds *)
(* what a request knows of the candidate's sessions when no other request  *)
(* is in flight.                                                           *)
(***************************************************************************)
EXTENDS InviteRedemption, TLAPS

\* A request and a call in flight hold the values their next step uses.
ReqOK(q) ==
  /\ q \in Reqs
  /\ q.step \in {"find", "lookup", "redeem"} => q.invite # None
  /\ q.step = "redeem" => q.session # None

CallOK(c) == c \in Calls /\ (c.task = "extend" => c.status # None)

InFlightOK ==
  /\ req \in [Starter -> Reqs] /\ call \in [Staff -> Calls]
  /\ \A r \in Starter : ReqOK(req[r])
  /\ \A a \in Staff : CallOK(call[a])

RowsOK == InvitesOK /\ SessionsOK /\ drives \subseteq Drive /\ revived \in BOOLEAN

Typed == RowsOK /\ InFlightOK

\* Rows not yet or no longer there refer to nothing, the others to a candidate.
NoRowNoLink ==
  \A i \in Invite :
    /\ ~InviteExists(i) => inviteSession[i] = None /\ inviteDrive[i] = None
    /\ inviteStatus[i] # "unborn" => inviteCandidate[i] # None

\* A request works for the invite it verified and that invite's candidate.
ReqFollowsInvite(r) ==
  LET q == req[r]
  IN  /\ q.step # "idle" => q.candidate # None
      /\ q.step # "idle" /\ q.invite # None =>
           inviteStatus[q.invite] # "unborn" /\ q.candidate = inviteCandidate[q.invite]
      /\ q.step = "create" /\ q.invite # None /\ InviteExists(q.invite) =>
             q.drive = inviteDrive[q.invite] \/ q.drive \notin drives \cup {None}

\* The session a request is about to link was created by it for its invite,
\* and nothing else refers to it.
ReqOwnsSession(r) ==
  LET q == req[r]
  IN  q.step = "redeem" =>
        /\ sessionStatus[q.session] # "unborn"
        /\ \A i \in Invite : inviteSession[i] # q.session
        /\ \A a \in Staff : q.session \notin call[a].sessions
        /\ SessionExists(q.session) => sessionCandidate[q.session] = q.candidate
        /\ SessionExists(q.session) /\ InviteExists(q.invite) =>
             sessionDrive[q.session] = inviteDrive[q.invite]

\* Two requests never link one session.
ReqsApart ==
  \A q, r \in Starter :
    req[q].step = "redeem" /\ req[r].step = "redeem" /\ q # r
      => req[q].session # req[r].session

\* An invite that may be, or may become again, REDEEMED.
Settled(i) == inviteSession[i] # None \/ inviteDrive[i] = None

\* What a staff call has read and still counts on.
CallFits(a) ==
  /\ \A i \in call[a].invites : inviteStatus[i] # "unborn"
  /\ \A s \in call[a].sessions : sessionStatus[s] # "unborn"
  /\ call[a].task = "extend" /\ call[a].status = "REDEEMED" =>
       \A i \in call[a].invites : Settled(i)
  /\ \A i \in Invite : inviteSession[i] \in call[a].sessions => i \in call[a].invites

Linked ==
  /\ NoRowNoLink
  /\ RedeemedIsLinked
  /\ LinkedSessionMatches
  /\ \A r \in Starter : ReqFollowsInvite(r) /\ ReqOwnsSession(r)
  /\ ReqsApart
  /\ \A a \in Staff : CallFits(a)

\* What a request knows of the other sessions of its candidate.
ReqIsAlone(r) ==
  LET q == req[r]
  IN  /\ q.step \in {"lookup", "create"} => ~HasSession(q.candidate)
      /\ q.step = "redeem" =>
           \A s \in Session :
             IsActive(s) /\ sessionCandidate[s] = q.candidate => s = q.session

Alone == Undisturbed => \A r \in Starter : ReqIsAlone(r)

-----------------------------------------------------------------------------
(* Helpers *)

\* The records of idle requests and calls are typed.
LEMMA IdleTyped == ReqOK(NoReq) /\ CallOK(NoCall)
BY DEF ReqOK, CallOK, NoReq, Reqs, NoCall, Calls

\* A request that moves to a typed record leaves all requests and calls typed.
LEMMA ReqMoves ==
  ASSUME InFlightOK, NEW r \in Starter, NEW q, ReqOK(q),
         req' = [req EXCEPT ![r] = q], UNCHANGED call
  PROVE  InFlightOK'
BY DEF InFlightOK, ReqOK

\* So does a staff call that moves to a typed record.
LEMMA CallMoves ==
  ASSUME InFlightOK, NEW a \in Staff, NEW c, CallOK(c),
         call' = [call EXCEPT ![a] = c], UNCHANGED req
  PROVE  InFlightOK'
BY DEF InFlightOK, CallOK

\* So does a step that moves neither.
LEMMA NobodyMoves ==
  ASSUME InFlightOK, UNCHANGED <<req, call>>
  PROVE  InFlightOK'
BY DEF InFlightOK

-----------------------------------------------------------------------------
(* Type correctness *)

\* A step of startSession leaves the state typed.
LEMMA StartTyped ==
  ASSUME Typed, NEW r \in Starter, StartSession(r) \/ FailStart(r)
  PROVE  Typed'
<1> USE DEF Typed
<1>q. ReqOK(req[r])
  BY DEF InFlightOK
<1>1. ASSUME NEW i \in Invite, StartVerify(r, i) PROVE Typed'
  <2> DEFINE q == [NoReq EXCEPT !.step = "find", !.invite = i,
                                !.candidate = inviteCandidate[i]]
  <2>1. ReqOK(q)
    BY <1>1, RedemptionAssumption DEF RowsOK, InvitesOK, ReqOK, NoReq, Reqs
  <2>2. InFlightOK'
    BY <1>1, <2>1, ReqMoves DEF StartVerify
  <2>3. QED
    BY <1>1, <2>2 DEF StartVerify, RowsOK, InvitesOK, SessionsOK, invites, sessions
<1>2. CASE StartFind(r)
  <2> DEFINE q == IF HasSession(req[r].candidate) THEN NoReq
                                                  ELSE [req[r] EXCEPT !.step = "lookup"]
  <2>1. ReqOK(q)
    <3>1. ReqOK([req[r] EXCEPT !.step = "lookup"])
      BY <1>2, <1>q DEF StartFind, ReqOK, Reqs
    <3>2. QED  BY <3>1, IdleTyped
  <2>2. InFlightOK'
    BY <1>2, <2>1, ReqMoves DEF StartFind
  <2>3. QED
    BY <1>2, <2>2 DEF StartFind, RowsOK, InvitesOK, SessionsOK, invites, sessions
<1>3. CASE StartLookup(r)
  <2> DEFINE q == IF InviteExists(req[r].invite)
                    THEN [req[r] EXCEPT !.step = "create",
                                        !.drive = inviteDrive[req[r].invite]]
                    ELSE [req[r] EXCEPT !.step = "create", !.invite = None]
  <2>1. req[r].invite \in Invite
    BY <1>3, <1>q DEF StartLookup, ReqOK, Reqs
  <2>2. inviteDrive[req[r].invite] \in Drive \cup {None}
    BY <2>1 DEF RowsOK, InvitesOK
  <2>3. ReqOK(q)
    <3>1. ReqOK([req[r] EXCEPT !.step = "create", !.drive = inviteDrive[req[r].invite]])
      BY <1>q, <2>2 DEF ReqOK, Reqs
    <3>2. ReqOK([req[r] EXCEPT !.step = "create", !.invite = None])
      BY <1>q DEF ReqOK, Reqs
    <3>3. QED  BY <3>1, <3>2
  <2>4. InFlightOK'
    BY <1>3, <2>3, ReqMoves DEF StartLookup
  <2>5. QED
    BY <1>3, <2>4 DEF StartLookup, RowsOK, InvitesOK, SessionsOK, invites, sessions
<1>4. CASE StartCreate(r)
  <2>1. CASE UNCHANGED sessions /\ req' = [req EXCEPT ![r] = NoReq]
    <3>1. InFlightOK'
      BY <1>4, <2>1, IdleTyped, ReqMoves DEF StartCreate
    <3>2. QED
      BY <1>4, <2>1, <3>1 DEF StartCreate, RowsOK, InvitesOK, SessionsOK, invites, sessions
  <2>2. ASSUME NEW s \in Session,
               sessionStatus'    = [sessionStatus EXCEPT ![s] = "NOT_STARTED"],
               sessionDrive'     = [sessionDrive EXCEPT ![s] = req[r].drive],
               sessionCandidate' = [sessionCandidate EXCEPT ![s] = req[r].candidate],
               req' = [req EXCEPT ![r] =
                 IF req[r].invite = None
                   THEN NoReq ELSE [req[r] EXCEPT !.step = "redeem", !.session = s]]
        PROVE  Typed'
    <3> DEFINE q == IF req[r].invite = None
                      THEN NoReq ELSE [req[r] EXCEPT !.step = "redeem", !.session = s]
    <3>1. ReqOK(q)
      <4>1. CASE req[r].invite = None
        BY <4>1, IdleTyped
      <4>2. CASE req[r].invite # None
        <5>1. ReqOK([req[r] EXCEPT !.step = "redeem", !.session = s])
          BY <1>q, <4>2, RedemptionAssumption DEF ReqOK, Reqs
        <5>2. QED  BY <4>2, <5>1
      <4>3. QED  BY <4>1, <4>2
    <3>2. InFlightOK'
      BY <1>4, <2>2, <3>1, ReqMoves DEF StartCreate
    <3>3. SessionsOK'
      BY <1>q, <2>2 DEF ReqOK, Reqs, RowsOK, SessionsOK, SessionStatuses
    <3>4. QED
      BY <1>4, <3>2, <3>3 DEF StartCreate, RowsOK, InvitesOK, invites
  <2>3. QED  BY <1>4, <2>1, <2>2 DEF StartCreate
<1>5. CASE StartRedeem(r)
  <2>1. InFlightOK'
    BY <1>5, IdleTyped, ReqMoves DEF StartRedeem
  <2>2. req[r].session \in Session
    BY <1>5, <1>q DEF StartRedeem, ReqOK, Reqs
  <2>3. QED
    BY <1>5, <2>1, <2>2 DEF StartRedeem, RowsOK, InvitesOK, SessionsOK, sessions,
                            InviteStatuses
<1>6. CASE FailStart(r)
  <2>1. InFlightOK'
    BY <1>6, IdleTyped, ReqMoves DEF FailStart
  <2>2. QED
    BY <1>6, <2>1 DEF FailStart, RowsOK, InvitesOK, SessionsOK, invites, sessions
<1>7. QED  BY <1>1, <1>2, <1>3, <1>4, <1>5, <1>6 DEF StartSession

\* A step in which a staff call reads leaves the state typed.
LEMMA ReadTyped ==
  ASSUME Typed, NEW a \in Staff,
         \/ \E i \in Invite : RevokeRead(a, i) \/ ExtendRead(a, i)
         \/ \E d \in Drive : DriveRead(a, d) \/ \E c \in Candidate : RemoveRead(a, d, c)
  PROVE  Typed'
<1> USE DEF Typed, RowsOK, InvitesOK, SessionsOK, invites, sessions
<1>1. ASSUME NEW i \in Invite, RevokeRead(a, i) PROVE Typed'
  <2>1. CallOK([NoCall EXCEPT !.task = "revoke", !.invites = {i}])
    BY DEF CallOK, NoCall, Calls
  <2>2. InFlightOK'
    BY <1>1, <2>1, CallMoves DEF RevokeRead
  <2>3. QED  BY <1>1, <2>2 DEF RevokeRead
<1>2. ASSUME NEW i \in Invite, ExtendRead(a, i) PROVE Typed'
  <2>1. CallOK([NoCall EXCEPT !.task = "extend", !.invites = {i},
                              !.status = inviteStatus[i]])
    BY <1>2, RedemptionAssumption DEF ExtendRead, InviteExists, CallOK, NoCall, Calls
  <2>2. InFlightOK'
    BY <1>2, <2>1, CallMoves DEF ExtendRead
  <2>3. QED  BY <1>2, <2>2 DEF ExtendRead
<1>3. ASSUME NEW d \in Drive, DriveRead(a, d) PROVE Typed'
  <2> DEFINE its == {i \in Invite : InviteExists(i) /\ inviteDrive[i] = d}
             c == [NoCall EXCEPT !.task = "delete", !.drive = d, !.invites = its,
                                 !.sessions = {inviteSession[i] : i \in its} \ {None}]
  <2>1. {inviteSession[i] : i \in its} \ {None} \subseteq Session
    OBVIOUS
  <2>2. CallOK(c)
    BY <2>1 DEF CallOK, NoCall, Calls
  <2>3. InFlightOK'
    BY <1>3, <2>2, CallMoves DEF DriveRead
  <2>4. QED  BY <1>3, <2>3 DEF DriveRead
<1>4. ASSUME NEW d \in Drive, NEW c \in Candidate, RemoveRead(a, d, c) PROVE Typed'
  <2> DEFINE theirs == {i \in Invite : InviteExists(i) /\ inviteDrive[i] = d
                                                     /\ inviteCandidate[i] = c}
  <2>1. PICK I \in {theirs} \cup {{i} : i \in theirs} :
          call' = [call EXCEPT ![a] = [NoCall EXCEPT !.task = "remove",
                                                     !.invites = I, !.drive = d]]
    BY <1>4 DEF RemoveRead
  <2>2. I \subseteq Invite
    OBVIOUS
  <2>3. CallOK([NoCall EXCEPT !.task = "remove", !.invites = I, !.drive = d])
    BY <2>2 DEF CallOK, NoCall, Calls
  <2>4. InFlightOK'
    BY <1>4, <2>1, <2>3, CallMoves DEF RemoveRead
  <2>5. QED  BY <1>4, <2>4 DEF RemoveRead
<1>5. QED  BY <1>1, <1>2, <1>3, <1>4

\* A step in which a staff call writes, or fails, leaves the state typed.
LEMMA WriteTyped ==
  ASSUME Typed, NEW a \in Staff,
         \/ \E past \in BOOLEAN : ExtendWrite(a, past)
         \/ RevokeWrite(a) \/ RemoveWrite(a) \/ DriveWrite(a) \/ FailCall(a)
  PROVE  Typed'
<1> USE DEF Typed, RowsOK, InvitesOK, SessionsOK, invites, sessions
<1>1. InFlightOK'
  <2>1. call' = [call EXCEPT ![a] = NoCall] /\ UNCHANGED req
    BY DEF ExtendWrite, RevokeWrite, RemoveWrite, DriveWrite, FailCall
  <2>2. QED  BY <2>1, IdleTyped, CallMoves
<1>2. ASSUME NEW past \in BOOLEAN, ExtendWrite(a, past) PROVE Typed'
  <2> DEFINE written == IF ~past /\ call[a].status \in {"PENDING", "EXPIRED"}
                          THEN "PENDING" ELSE call[a].status
  <2>1. written \in InviteStatuses \cup NoRow
    BY <1>2 DEF ExtendWrite, InFlightOK, CallOK, Calls, InviteStatuses
  <2>2. /\ inviteStatus' = Put(inviteStatus, Found(a), written)
        /\ expired'      = Put(expired, Found(a), past)
    BY <1>2 DEF ExtendWrite
  <2>3. /\ inviteStatus' \in [Invite -> InviteStatuses \cup NoRow]
        /\ expired' \in [Invite -> BOOLEAN]
    BY <2>1, <2>2 DEF Put
  <2>4. QED  BY <1>1, <1>2, <2>3 DEF ExtendWrite
<1>3. CASE RevokeWrite(a)
  <2>1. inviteStatus' \in [Invite -> InviteStatuses \cup NoRow]
    BY <1>3 DEF Put, RevokeWrite, InviteStatuses
  <2>2. QED  BY <1>1, <1>3, <2>1 DEF RevokeWrite
<1>4. CASE RemoveWrite(a)
  <2>1. sessionStatus' \in [Session -> SessionStatuses \cup NoRow]
    BY <1>4 DEF Put, RemoveWrite, SessionStatuses
  <2>2. /\ inviteStatus'  \in [Invite -> InviteStatuses \cup NoRow]
        /\ expired'       \in [Invite -> BOOLEAN]
        /\ inviteSession' \in [Invite -> Session \cup {None}]
        /\ inviteDrive'   \in [Invite -> Drive \cup {None}]
    BY <1>4 DEF Put, RemoveWrite, DeleteRows, NoRow
  <2>3. QED  BY <1>1, <1>4, <2>1, <2>2 DEF RemoveWrite
<1>5. CASE DriveWrite(a)
  <2>1. /\ inviteStatus'  \in [Invite -> InviteStatuses \cup NoRow]
        /\ expired'       \in [Invite -> BOOLEAN]
    BY <1>5 DEF Put, DriveWrite, NoRow
  <2>2. /\ inviteSession' \in [Invite -> Session \cup {None}]
        /\ inviteDrive'   \in [Invite -> Drive \cup {None}]
    BY <1>5 DEF Put, DriveWrite
  <2>3. /\ sessionStatus'    \in [Session -> SessionStatuses \cup NoRow]
        /\ sessionDrive'     \in [Session -> Drive \cup {None}]
        /\ sessionCandidate' \in [Session -> Candidate \cup {None}]
    BY <1>5 DEF Put, DriveWrite, NoRow
  <2>4. drives' \subseteq Drive /\ UNCHANGED <<inviteCandidate, revived>>
    BY <1>5 DEF DriveWrite
  <2>5. QED  BY <1>1, <2>1, <2>2, <2>3, <2>4
<1>6. CASE FailCall(a)
  BY <1>1, <1>6 DEF FailCall
<1>7. QED  BY <1>2, <1>3, <1>4, <1>5, <1>6

\* A single statement of staff leaves the state typed.
LEMMA StatementTyped ==
  ASSUME Typed, StaffStatement
  PROVE  Typed'
<1> USE DEF Typed, RowsOK, InvitesOK, SessionsOK, invites, sessions
<1>1. InFlightOK'
  BY NobodyMoves DEF StaffStatement, Regenerate, GenerateLink, CreateInvite,
                     DeleteInvites, ListInvites
<1>2. ASSUME NEW i \in Invite, Regenerate(i) \/ GenerateLink(i) PROVE Typed'
  BY <1>1, <1>2 DEF Regenerate, GenerateLink, InviteStatuses
<1>3. ASSUME NEW i \in Invite, NEW d \in Drive, NEW c \in Candidate, CreateInvite(i, d, c)
      PROVE  Typed'
  BY <1>1, <1>3 DEF CreateInvite, InviteStatuses
<1>4. ASSUME NEW I \in SUBSET Invite, DeleteInvites(I) PROVE Typed'
  <2>1. /\ inviteStatus'  \in [Invite -> InviteStatuses \cup NoRow]
        /\ expired'       \in [Invite -> BOOLEAN]
        /\ inviteSession' \in [Invite -> Session \cup {None}]
        /\ inviteDrive'   \in [Invite -> Drive \cup {None}]
    BY <1>4 DEF Put, DeleteInvites, DeleteRows, NoRow
  <2>2. QED  BY <1>1, <1>4, <2>1 DEF DeleteInvites
<1>5. CASE ListInvites
  <2>1. inviteStatus' \in [Invite -> InviteStatuses \cup NoRow]
    BY <1>5 DEF Put, ListInvites, InviteStatuses
  <2>2. QED  BY <1>1, <1>5, <2>1 DEF ListInvites
<1>6. QED  BY <1>2, <1>3, <1>4, <1>5 DEF StaffStatement

\* Time and the rest of a session's life leave the state typed.
LEMMA LifeTyped ==
  ASSUME Typed,
         \/ \E s \in Session : SessionStep(s)
         \/ \E i \in Invite : Expire(i)
  PROVE  Typed'
<1> USE DEF Typed, RowsOK, InvitesOK, SessionsOK, invites, sessions
<1>1. InFlightOK'
  BY NobodyMoves DEF SessionStep, Progress, Revive, Expire
<1>2. QED  BY <1>1 DEF SessionStep, Progress, Revive, Expire, SessionStatuses

\* The strengthened type invariant holds initially and every step keeps it.
LEMMA StaysTyped ==
  /\ Init => Typed
  /\ Typed /\ [Next]_vars => Typed'
<1>1. ASSUME Init PROVE Typed
  <2>1. InvitesOK
    BY <1>1 DEF Init, InvitesOK, NoRow
  <2>2. SessionsOK
    BY <1>1 DEF Init, SessionsOK, NoRow
  <2>3. InFlightOK
    <3>1. NoReq \in Reqs /\ NoCall \in Calls
      BY IdleTyped DEF ReqOK, CallOK
    <3>2. QED  BY <1>1, <3>1, IdleTyped DEF Init, InFlightOK
  <2>4. drives \subseteq Drive /\ revived \in BOOLEAN
    BY <1>1 DEF Init
  <2>5. QED  BY <2>1, <2>2, <2>3, <2>4 DEF Typed, RowsOK
<1>2. ASSUME Typed, UNCHANGED vars PROVE Typed'
  BY <1>2, NobodyMoves DEF Typed, RowsOK, InvitesOK, SessionsOK, vars, invites, sessions
<1>3. ASSUME Typed, Next PROVE Typed'
  BY <1>3, StartTyped, ReadTyped, WriteTyped, StatementTyped, LifeTyped
     DEF Next, StaffCall
<1>4. QED  BY <1>1, <1>2, <1>3

\* Every row and every value a handler has read keeps its type, however many
\* startSession requests and staff calls overlap.
THEOREM InvitesTypeCorrect == Spec => []TypeOK
<1>1. Typed => TypeOK
  BY DEF Typed, RowsOK, InFlightOK, TypeOK
<1>2. QED  BY <1>1, StaysTyped, PTL DEF Spec

-----------------------------------------------------------------------------
(* Links *)

\* Calls either stay as they are or return.
CallsMayReturn == \A a \in Staff : call'[a] = call[a] \/ call'[a] = NoCall

\* Sessions come neither into being nor to an end, and stay what they were.
SameSessions ==
  /\ UNCHANGED <<sessionDrive, sessionCandidate>>
  /\ \A s \in Session :
       /\ SessionExists(s)' <=> SessionExists(s)
       /\ sessionStatus'[s] = "unborn" <=> sessionStatus[s] = "unborn"

\* Nor do invites.
SameInvites ==
  /\ UNCHANGED <<inviteSession, inviteDrive, inviteCandidate>>
  /\ \A i \in Invite :
       /\ InviteExists(i)' <=> InviteExists(i)
       /\ inviteStatus'[i] = "unborn" <=> inviteStatus[i] = "unborn"

\* A step that creates, deletes and links nothing, and that makes no invite
\* REDEEMED that is not settled, keeps every link right.
LEMMA NothingMoves ==
  ASSUME Typed, Linked, SameSessions, SameInvites, CallsMayReturn,
         UNCHANGED <<drives, req>>,
         \A i \in Invite : inviteStatus'[i] = "REDEEMED" => Settled(i)
  PROVE  Linked'
<1> USE DEF Linked, SameSessions, SameInvites
<1>t. RowsOK /\ InFlightOK
  BY DEF Typed
<1>1. NoRowNoLink'
  BY DEF NoRowNoLink
<1>2. RedeemedIsLinked'
  BY DEF RedeemedIsLinked, Settled
<1>3. LinkedSessionMatches'
  BY <1>t DEF LinkedSessionMatches, RowsOK, InvitesOK
<1>4. ASSUME NEW r \in Starter PROVE ReqFollowsInvite(r)' /\ ReqOwnsSession(r)'
  <2>1. ReqOK(req[r]) /\ ReqFollowsInvite(r) /\ ReqOwnsSession(r)
    BY <1>t DEF InFlightOK
  <2>2. req[r].invite \in Invite \cup {None} /\ req[r].session \in Session \cup {None}
    BY <2>1 DEF ReqOK, Reqs
  <2>3. ReqFollowsInvite(r)'
    BY <2>1, <2>2 DEF ReqFollowsInvite
  <2>4. ReqOwnsSession(r)'
    BY <2>1, <2>2 DEF ReqOwnsSession, ReqOK, CallsMayReturn, NoCall
  <2>5. QED  BY <2>3, <2>4
<1>5. ReqsApart'
  BY DEF ReqsApart
<1>6. ASSUME NEW a \in Staff PROVE CallFits(a)'
  <2>1. CASE call'[a] = NoCall
    BY <2>1 DEF CallFits, NoCall
  <2>2. CASE call'[a] = call[a]
    <3>1. CallFits(a) /\ call[a].invites \subseteq Invite /\ call[a].sessions \subseteq Session
      BY <1>t DEF InFlightOK, CallOK, Calls
    <3>2. QED  BY <2>2, <3>1 DEF CallFits, Settled
  <2>3. QED  BY <2>1, <2>2 DEF CallsMayReturn
<1>7. QED  BY <1>1, <1>2, <1>3, <1>4, <1>5, <1>6

\* Deleting existing invites keeps the links of the others right.
LEMMA DeletedCleanly ==
  ASSUME Typed, Linked, SameSessions, CallsMayReturn,
         UNCHANGED <<inviteCandidate, drives, req>>,
         NEW I \in SUBSET Invite, \A i \in I : InviteExists(i), DeleteRows(I)
  PROVE  Linked'
<1> USE DEF Linked, SameSessions
<1>t. RowsOK /\ InFlightOK
  BY DEF Typed
<1>d. \A i \in Invite :
        /\ i \in I => /\ inviteStatus'[i] = "deleted"
                      /\ inviteSession'[i] = None /\ inviteDrive'[i] = None
        /\ i \notin I => /\ inviteStatus'[i] = inviteStatus[i]
                         /\ inviteSession'[i] = inviteSession[i]
                         /\ inviteDrive'[i] = inviteDrive[i]
  BY <1>t DEF DeleteRows, Put, RowsOK, InvitesOK
<1>e. \A i \in Invite :
        /\ InviteExists(i)' <=> InviteExists(i) /\ i \notin I
        /\ inviteStatus'[i] = "unborn" <=> inviteStatus[i] = "unborn"
  BY <1>d DEF InviteExists, InviteStatuses
<1>1. NoRowNoLink'
  BY <1>d, <1>e DEF NoRowNoLink
<1>2. RedeemedIsLinked'
  BY <1>d DEF RedeemedIsLinked
<1>3. LinkedSessionMatches'
  BY <1>t, <1>d, <1>e DEF LinkedSessionMatches, RowsOK, InvitesOK
<1>4. ASSUME NEW r \in Starter PROVE ReqFollowsInvite(r)' /\ ReqOwnsSession(r)'
  <2>1. ReqOK(req[r]) /\ ReqFollowsInvite(r) /\ ReqOwnsSession(r)
    BY <1>t DEF InFlightOK
  <2>2. req[r].invite \in Invite \cup {None} /\ req[r].session \in Session \cup {None}
    BY <2>1 DEF ReqOK, Reqs
  <2>3. ReqFollowsInvite(r)'
    BY <1>d, <1>e, <2>1, <2>2 DEF ReqFollowsInvite
  <2>4. ReqOwnsSession(r)'
    BY <1>d, <1>e, <2>1, <2>2, RedemptionAssumption
       DEF ReqOwnsSession, ReqOK, CallsMayReturn, NoCall
  <2>5. QED  BY <2>3, <2>4
<1>5. ReqsApart'
  BY DEF ReqsApart
<1>6. ASSUME NEW a \in Staff PROVE CallFits(a)'
  <2>1. CASE call'[a] = NoCall
    BY <2>1 DEF CallFits, NoCall
  <2>2. CASE call'[a] = call[a]
    <3>1. /\ CallFits(a)
          /\ call[a].invites \subseteq Invite /\ call[a].sessions \subseteq Session
      BY <1>t DEF InFlightOK, CallOK, Calls
    <3>2. QED
      BY <1>d, <1>e, <2>2, <3>1, RedemptionAssumption DEF CallFits, Settled
  <2>3. QED  BY <2>1, <2>2 DEF CallsMayReturn
<1>7. QED  BY <1>1, <1>2, <1>3, <1>4, <1>5, <1>6

\* What a request or a call knows survives a step of another one: rows as they
\* were, only the request r moves, and not to the write of a link.
LEMMA ReqReads ==
  ASSUME Typed, Linked, UNCHANGED <<invites, sessions, drives, call>>,
         NEW r \in Starter, NEW q, req' = [req EXCEPT ![r] = q],
         q.step # "redeem", ReqFollowsInvite(r)'
  PROVE  Linked'
<1> USE DEF Linked, invites, sessions
<1>t. RowsOK /\ InFlightOK
  BY DEF Typed
<1>1. NoRowNoLink' /\ RedeemedIsLinked' /\ LinkedSessionMatches'
  BY DEF NoRowNoLink, RedeemedIsLinked, LinkedSessionMatches, InviteExists, SessionExists
<1>2. ASSUME NEW p \in Starter PROVE ReqFollowsInvite(p)' /\ ReqOwnsSession(p)'
  <2>1. CASE p = r
    <3>1. req'[p] = q
      BY <1>t, <2>1 DEF InFlightOK
    <3>2. QED  BY <2>1, <3>1 DEF ReqOwnsSession
  <2>2. CASE p # r
    <3>1. req'[p] = req[p]
      BY <1>t, <2>2 DEF InFlightOK
    <3>2. QED
      BY <3>1 DEF ReqFollowsInvite, ReqOwnsSession, InviteExists, SessionExists
  <2>3. QED  BY <2>1, <2>2
<1>3. ReqsApart'
  BY <1>t DEF ReqsApart, InFlightOK
<1>4. \A a \in Staff : CallFits(a)'
  BY DEF CallFits, Settled
<1>5. QED  BY <1>1, <1>2, <1>3, <1>4

\* The same for a staff call that reads.
LEMMA CallReads ==
  ASSUME Typed, Linked, UNCHANGED <<invites, sessions, drives, req>>,
         NEW a \in Staff, NEW c, call' = [call EXCEPT ![a] = c],
         \A r \in Starter : req[r].step = "redeem" => req[r].session \notin c.sessions,
         CallFits(a)'
  PROVE  Linked'
<1> USE DEF Linked, invites, sessions
<1>t. RowsOK /\ InFlightOK
  BY DEF Typed
<1>1. NoRowNoLink' /\ RedeemedIsLinked' /\ LinkedSessionMatches'
  BY DEF NoRowNoLink, RedeemedIsLinked, LinkedSessionMatches, InviteExists, SessionExists
<1>2. \A b \in Staff : call'[b] = IF b = a THEN c ELSE call[b]
  BY <1>t DEF InFlightOK
<1>3. ASSUME NEW r \in Starter PROVE ReqFollowsInvite(r)' /\ ReqOwnsSession(r)'
  <2>1. ReqFollowsInvite(r)'
    BY DEF ReqFollowsInvite, InviteExists
  <2>2. ReqOwnsSession(r)'
    BY <1>2 DEF ReqOwnsSession, InviteExists, SessionExists
  <2>3. QED  BY <2>1, <2>2
<1>4. ReqsApart'
  BY DEF ReqsApart
<1>5. ASSUME NEW b \in Staff PROVE CallFits(b)'
  <2>1. CASE b = a
    BY <2>1
  <2>2. CASE b # a
    BY <1>2, <2>2 DEF CallFits, Settled
  <2>3. QED  BY <2>1, <2>2
<1>6. QED  BY <1>1, <1>3, <1>4, <1>5

\* The first three steps of startSession, and its failure, keep links right.
LEMMA StartReadsLinked ==
  ASSUME Typed, Linked, NEW r \in Starter,
         \/ \E i \in Invite : StartVerify(r, i)
         \/ StartFind(r) \/ StartLookup(r) \/ FailStart(r)
  PROVE  Linked'
<1>t. ReqOK(req[r]) /\ RowsOK /\ req \in [Starter -> Reqs]
  BY DEF Typed, InFlightOK
<1>l. ReqFollowsInvite(r)
  BY DEF Linked
<1> DEFINE Moves(q) == req' = [req EXCEPT ![r] = q] /\ q.step # "redeem"
<1>1. ASSUME NEW i \in Invite, StartVerify(r, i) PROVE Linked'
  <2> DEFINE q == [NoReq EXCEPT !.step = "find", !.invite = i,
                                !.candidate = inviteCandidate[i]]
  <2>1. Moves(q) /\ req'[r] = q /\ UNCHANGED <<invites, sessions, drives, call>>
    BY <1>1, <1>t DEF StartVerify, NoReq
  <2>2. ReqFollowsInvite(r)'
    <3>1. inviteStatus[i] # "unborn" /\ inviteCandidate[i] # None
      BY <1>1 DEF StartVerify, InviteExists, InviteStatuses, Linked, NoRowNoLink
    <3>2. q.step = "find" /\ q.invite = i /\ q.candidate = inviteCandidate[i]
      BY DEF NoReq
    <3>3. QED  BY <2>1, <3>1, <3>2 DEF ReqFollowsInvite, invites
  <2>3. QED  BY <2>1, <2>2, ReqReads
<1>2. CASE StartFind(r)
  <2>1. CASE req' = [req EXCEPT ![r] = NoReq]
    <3>1. Moves(NoReq) /\ req'[r] = NoReq /\ UNCHANGED <<invites, sessions, drives, call>>
      BY <1>2, <2>1, <1>t DEF StartFind, NoReq
    <3>2. ReqFollowsInvite(r)'
      BY <3>1 DEF ReqFollowsInvite, NoReq
    <3>3. QED  BY <3>1, <3>2, ReqReads
  <2>2. CASE req' = [req EXCEPT ![r] = [req[r] EXCEPT !.step = "lookup"]]
    <3> DEFINE q == [req[r] EXCEPT !.step = "lookup"]
    <3>1. /\ Moves(q) /\ req'[r] = q /\ UNCHANGED <<invites, sessions, drives, call>>
          /\ q.step = "lookup" /\ q.invite = req[r].invite
          /\ q.candidate = req[r].candidate
      BY <1>2, <2>2, <1>t DEF StartFind, Reqs
    <3>2. ReqFollowsInvite(r)'
      BY <1>2, <1>l, <3>1 DEF ReqFollowsInvite, StartFind, invites
    <3>3. QED  BY <3>1, <3>2, ReqReads
  <2>3. QED  BY <1>2, <2>1, <2>2 DEF StartFind
<1>3. CASE StartLookup(r)
  <2> DEFINE q == IF InviteExists(req[r].invite)
                    THEN [req[r] EXCEPT !.step = "create",
                                        !.drive = inviteDrive[req[r].invite]]
                    ELSE [req[r] EXCEPT !.step = "create", !.invite = None]
  <2>1. /\ Moves(q) /\ req'[r] = q /\ UNCHANGED <<invites, sessions, drives, call>>
        /\ q.step = "create" /\ q.candidate = req[r].candidate
        /\ \/ q.invite = None
           \/ q.invite = req[r].invite /\ q.drive = inviteDrive[q.invite]
    BY <1>3, <1>t DEF StartLookup, Reqs
  <2>2. ReqFollowsInvite(r)'
    BY <1>3, <1>l, <2>1 DEF ReqFollowsInvite, StartLookup, invites
  <2>3. QED  BY <2>1, <2>2, ReqReads
<1>4. CASE FailStart(r)
  <2>1. Moves(NoReq) /\ req'[r] = NoReq /\ UNCHANGED <<invites, sessions, drives, call>>
    BY <1>4, <1>t DEF FailStart, NoReq
  <2>2. ReqFollowsInvite(r)'
    BY <2>1 DEF ReqFollowsInvite, NoReq
  <2>3. QED  BY <2>1, <2>2, ReqReads
<1>5. QED  BY <1>1, <1>2, <1>3, <1>4

\* Creating the session of a request keeps links right.
LEMMA StartCreateLinked ==
  ASSUME Typed, Linked, NEW r \in Starter, StartCreate(r)
  PROVE  Linked'
<1>t. ReqOK(req[r]) /\ RowsOK /\ InFlightOK
  BY DEF Typed, InFlightOK
<1>u. UNCHANGED <<invites, drives, call>> /\ req[r].step = "create"
  BY DEF StartCreate
<1>1. CASE UNCHANGED sessions /\ req' = [req EXCEPT ![r] = NoReq]
  <2>1. req'[r] = NoReq /\ NoReq.step = "idle"
    BY <1>1, <1>t DEF InFlightOK, NoReq
  <2>2. ReqFollowsInvite(r)'
    BY <2>1 DEF ReqFollowsInvite
  <2>3. QED  BY <1>u, <1>1, <2>1, <2>2, ReqReads
<1>2. ASSUME NEW s \in Session, sessionStatus[s] = "unborn",
             req[r].drive \in drives \cup {None},
             sessionStatus'    = [sessionStatus EXCEPT ![s] = "NOT_STARTED"],
             sessionDrive'     = [sessionDrive EXCEPT ![s] = req[r].drive],
             sessionCandidate' = [sessionCandidate EXCEPT ![s] = req[r].candidate],
             req' = [req EXCEPT ![r] =
               IF req[r].invite = None
                 THEN NoReq ELSE [req[r] EXCEPT !.step = "redeem", !.session = s]]
      PROVE  Linked'
  <2> USE DEF Linked
  <2>1. /\ sessionStatus'[s] = "NOT_STARTED" /\ sessionDrive'[s] = req[r].drive
        /\ sessionCandidate'[s] = req[r].candidate
        /\ \A t \in Session : t # s =>
             /\ sessionStatus'[t] = sessionStatus[t] /\ sessionDrive'[t] = sessionDrive[t]
             /\ sessionCandidate'[t] = sessionCandidate[t]
        /\ SessionExists(s)'
        /\ \A t \in Session : t # s => (SessionExists(t)' <=> SessionExists(t))
    BY <1>t, <1>2 DEF RowsOK, SessionsOK, SessionExists, SessionStatuses
  <2>2. \A i \in Invite : inviteSession[i] # s
    BY <1>t, <1>2, RedemptionAssumption
       DEF NoRowNoLink, LinkedSessionMatches, SessionExists, SessionStatuses
  <2>3. \A a \in Staff : s \notin call[a].sessions
    BY <1>2 DEF CallFits
  <2>4. \A p \in Starter : req[p].step = "redeem" =>
          req[p].session \in Session /\ req[p].session # s
    BY <1>t, <1>2 DEF ReqOwnsSession, InFlightOK, ReqOK, Reqs
  <2>5. /\ \A p \in Starter : p # r => req'[p] = req[p]
        /\ \/ req[r].invite = None /\ req'[r].step = "idle"
           \/ /\ req[r].invite # None /\ req'[r].step = "redeem"
              /\ req'[r].invite = req[r].invite /\ req'[r].session = s
              /\ req'[r].candidate = req[r].candidate
    BY <1>t, <1>2 DEF InFlightOK, ReqOK, Reqs, NoReq
  <2>6. NoRowNoLink' /\ RedeemedIsLinked'
    BY <1>u DEF NoRowNoLink, RedeemedIsLinked, InviteExists, invites
  <2>7. LinkedSessionMatches'
    BY <1>t, <1>u, <2>1, <2>2 DEF LinkedSessionMatches, InviteExists, invites, RowsOK, InvitesOK
  <2>8. ASSUME NEW p \in Starter PROVE ReqFollowsInvite(p)' /\ ReqOwnsSession(p)'
    <3>1. CASE p # r
      <4>1. ReqFollowsInvite(p)'
        BY <1>u, <2>5, <3>1 DEF ReqFollowsInvite, InviteExists, invites
      <4>2. ReqOwnsSession(p)'
        BY <1>u, <2>1, <2>4, <2>5, <3>1 DEF ReqOwnsSession, InviteExists, invites
      <4>3. QED  BY <4>1, <4>2
    <3>2. CASE p = r
      <4>1. ReqFollowsInvite(p)'
        BY <1>u, <2>5, <3>2 DEF ReqFollowsInvite, InviteExists, invites
      <4>2. ReqOwnsSession(p)'
        BY <1>u, <1>2, <2>1, <2>2, <2>3, <2>5, <3>2
           DEF ReqOwnsSession, ReqFollowsInvite, InviteExists, invites
      <4>3. QED  BY <4>1, <4>2
    <3>3. QED  BY <3>1, <3>2
  <2>9. ReqsApart'
    BY <2>4, <2>5 DEF ReqsApart
  <2>10. \A a \in Staff : CallFits(a)'
    BY <1>t, <1>u, <2>1, <2>3 DEF CallFits, Settled, invites, InFlightOK, CallOK, Calls
  <2>11. QED  BY <2>6, <2>7, <2>8, <2>9, <2>10
<1>3. QED  BY <1>1, <1>2 DEF StartCreate

\* Redeeming the invite keeps links right.
LEMMA StartRedeemLinked ==
  ASSUME Typed, Linked, NEW r \in Starter, StartRedeem(r)
  PROVE  Linked'
<1> DEFINE i == req[r].invite
           s == req[r].session
<1> USE DEF Linked
<1>t. RowsOK /\ InFlightOK
  BY DEF Typed
<1>1. /\ i \in Invite /\ s \in Session
      /\ ReqFollowsInvite(r) /\ ReqOwnsSession(r) /\ req[r].step = "redeem"
  BY <1>t DEF StartRedeem, InFlightOK, ReqOK, Reqs
<1>2. /\ UNCHANGED <<inviteDrive, inviteCandidate, sessions, drives, call>>
      /\ req'[r].step = "idle" /\ \A p \in Starter : p # r => req'[p] = req[p]
      /\ req' = [req EXCEPT ![r] = NoReq]
  BY <1>t DEF StartRedeem, InFlightOK, NoReq
<1>3. CASE ~(InviteExists(i) /\ SessionExists(s))
  <2>1. UNCHANGED <<invites, sessions, drives, call>>
    BY <1>2, <1>3 DEF StartRedeem, invites
  <2>2. ReqFollowsInvite(r)' /\ NoReq.step # "redeem"
    BY <1>2 DEF ReqFollowsInvite, NoReq
  <2>3. QED  BY <1>2, <2>1, <2>2, ReqReads
<1>4. CASE InviteExists(i) /\ SessionExists(s)
  <2>1. /\ inviteStatus'[i] = "REDEEMED" /\ inviteSession'[i] = s
        /\ \A j \in Invite : j # i =>
             inviteStatus'[j] = inviteStatus[j] /\ inviteSession'[j] = inviteSession[j]
        /\ \A j \in Invite : InviteExists(j)' <=> InviteExists(j)
        /\ \A j \in Invite : inviteStatus'[j] = "unborn" <=> inviteStatus[j] = "unborn"
    BY <1>t, <1>1, <1>4 DEF StartRedeem, RowsOK, InvitesOK, InviteExists, InviteStatuses
  <2>2. NoRowNoLink'
    BY <1>2, <1>4, <2>1 DEF NoRowNoLink
  <2>3. RedeemedIsLinked'
    BY <1>1, <1>2, <2>1, RedemptionAssumption DEF RedeemedIsLinked
  <2>4. LinkedSessionMatches'
    <3>1. /\ sessionCandidate[s] = inviteCandidate[i]
          /\ sessionDrive[s] = inviteDrive[i]
      BY <1>1, <1>4, <2>1, RedemptionAssumption
         DEF ReqFollowsInvite, ReqOwnsSession, InviteExists, InviteStatuses
    <3>2. QED
      BY <1>2, <1>4, <2>1, <3>1 DEF LinkedSessionMatches, SessionExists, sessions
  <2>5. ASSUME NEW p \in Starter PROVE ReqFollowsInvite(p)' /\ ReqOwnsSession(p)'
    <3>1. CASE p = r
      BY <1>2, <3>1 DEF ReqFollowsInvite, ReqOwnsSession
    <3>2. CASE p # r
      <4>1. req'[p] = req[p] /\ ReqFollowsInvite(p) /\ ReqOwnsSession(p) /\ ReqOK(req[p])
        BY <1>t, <1>2, <3>2 DEF InFlightOK
      <4>2. req[p].step = "redeem" => req[p].session # s
        BY <1>1, <3>2 DEF ReqsApart
      <4>3. ReqFollowsInvite(p)'
        BY <1>2, <2>1, <4>1 DEF ReqFollowsInvite, ReqOK, Reqs
      <4>4. ReqOwnsSession(p)'
        BY <1>2, <2>1, <4>1, <4>2 DEF ReqOwnsSession, ReqOK, Reqs, SessionExists, sessions
      <4>5. QED  BY <4>3, <4>4
    <3>3. QED  BY <3>1, <3>2
  <2>6. ReqsApart'
    BY <1>2 DEF ReqsApart
  <2>7. ASSUME NEW a \in Staff PROVE CallFits(a)'
    <3>1. CallFits(a) /\ call'[a] = call[a] /\ CallOK(call[a]) /\ s \notin call[a].sessions
      BY <1>t, <1>1, <1>2 DEF InFlightOK, ReqOwnsSession
    <3>2. QED
      BY <1>1, <1>2, <2>1, <3>1, RedemptionAssumption
         DEF CallFits, Settled, sessions, CallOK, Calls
  <2>8. QED  BY <2>2, <2>3, <2>4, <2>5, <2>6, <2>7
<1>5. QED  BY <1>3, <1>4

\* A staff call that reads, or fails, keeps links right.
LEMMA CallReadsLinked ==
  ASSUME Typed, Linked, NEW a \in Staff,
         \/ \E i \in Invite : RevokeRead(a, i) \/ ExtendRead(a, i)
         \/ \E d \in Drive : DriveRead(a, d) \/ \E c \in Candidate : RemoveRead(a, d, c)
         \/ FailCall(a)
  PROVE  Linked'
<1>t. RowsOK /\ InFlightOK
  BY DEF Typed
<1>u. UNCHANGED <<invites, sessions, drives, req>>
  BY DEF RevokeRead, ExtendRead, DriveRead, RemoveRead, FailCall
<1> DEFINE Reads(c) == call' = [call EXCEPT ![a] = c]
<1>c. ASSUME NEW c, Reads(c) PROVE call'[a] = c
  BY <1>t, <1>c DEF InFlightOK
<1>1. ASSUME NEW I \in SUBSET Invite, \A i \in I : InviteExists(i), NEW c, Reads(c),
             c.invites = I, c.sessions = {}, c.task # "extend"
      PROVE  Linked'
  <2>1. CallFits(a)'
    BY <1>t, <1>u, <1>c, <1>1, RedemptionAssumption
       DEF CallFits, InviteExists, InviteStatuses, invites
  <2>2. QED  BY <1>u, <1>1, <2>1, CallReads
<1>2. ASSUME NEW i \in Invite, RevokeRead(a, i) PROVE Linked'
  <2> DEFINE c == [NoCall EXCEPT !.task = "revoke", !.invites = {i}]
  <2>1. Reads(c) /\ c.invites = {i} /\ c.sessions = {} /\ c.task # "extend" /\ InviteExists(i)
    BY <1>2 DEF RevokeRead, NoCall, InviteExists, InviteStatuses
  <2>2. QED  BY <1>1, <2>1
<1>3. ASSUME NEW i \in Invite, ExtendRead(a, i) PROVE Linked'
  <2> DEFINE c == [NoCall EXCEPT !.task = "extend", !.invites = {i},
                                 !.status = inviteStatus[i]]
  <2>1. /\ Reads(c) /\ c.invites = {i} /\ c.sessions = {} /\ c.status = inviteStatus[i]
        /\ InviteExists(i)
    BY <1>3 DEF ExtendRead, NoCall
  <2>2. call'[a].invites = {i} /\ call'[a].sessions = {} /\ call'[a].status = inviteStatus[i]
    BY <1>c, <2>1
  <2>3. inviteStatus[i] = "REDEEMED" => Settled(i)
    BY DEF Linked, RedeemedIsLinked, Settled
  <2>4. inviteStatus[i] # "unborn"
    BY <2>1 DEF InviteExists, InviteStatuses
  <2>5. CallFits(a)'
    BY <1>u, <2>2, <2>3, <2>4 DEF CallFits, Settled, invites
  <2>6. QED  BY <1>u, <2>1, <2>5, CallReads
<1>4. ASSUME NEW d \in Drive, NEW e \in Candidate, RemoveRead(a, d, e) PROVE Linked'
  <2>1. PICK I \in SUBSET Invite :
          /\ \A i \in I : InviteExists(i)
          /\ Reads([NoCall EXCEPT !.task = "remove", !.invites = I, !.drive = d])
    BY <1>4 DEF RemoveRead
  <2> DEFINE c == [NoCall EXCEPT !.task = "remove", !.invites = I, !.drive = d]
  <2>2. c.invites = I /\ c.sessions = {} /\ c.task # "extend"
    BY DEF NoCall
  <2>3. QED  BY <1>1, <2>1, <2>2
<1>5. ASSUME NEW d \in Drive, DriveRead(a, d) PROVE Linked'
  <2> DEFINE its == {i \in Invite : InviteExists(i) /\ inviteDrive[i] = d}
             S   == {inviteSession[i] : i \in its} \ {None}
             c   == [NoCall EXCEPT !.task = "delete", !.drive = d, !.invites = its,
                                   !.sessions = S]
  <2>1. Reads(c) /\ c.invites = its /\ c.sessions = S /\ c.task # "extend"
    BY <1>5 DEF DriveRead, NoCall
  <2>2. \A s \in S : SessionExists(s) /\ sessionDrive[s] = d
    BY DEF Linked, LinkedSessionMatches
  <2>3. \A i \in Invite : inviteSession[i] \in S => i \in its
    BY <2>2, RedemptionAssumption DEF Linked, LinkedSessionMatches, NoRowNoLink
  <2>4. \A r \in Starter : req[r].step = "redeem" => req[r].session \notin c.sessions
    BY <2>1 DEF Linked, ReqOwnsSession
  <2>5. CallFits(a)'
    BY <1>u, <1>c, <2>1, <2>2, <2>3
       DEF CallFits, InviteExists, InviteStatuses, SessionExists, SessionStatuses,
           invites, sessions
  <2>6. QED  BY <1>u, <2>1, <2>4, <2>5, CallReads
<1>6. CASE FailCall(a)
  <2>1. Reads(NoCall) /\ NoCall.invites = {} /\ NoCall.sessions = {}
        /\ NoCall.task # "extend"
    BY <1>6 DEF FailCall, NoCall
  <2>2. QED  BY <1>1, <2>1
<1>7. QED  BY <1>2, <1>3, <1>4, <1>5, <1>6

\* A staff call that writes rows of invites keeps links right.
LEMMA CallWritesLinked ==
  ASSUME Typed, Linked, NEW a \in Staff,
         \/ \E past \in BOOLEAN : ExtendWrite(a, past)
         \/ RevokeWrite(a) \/ RemoveWrite(a)
  PROVE  Linked'
<1>t. RowsOK /\ InFlightOK
  BY DEF Typed
<1>c. CallsMayReturn /\ UNCHANGED <<drives, req, inviteCandidate>>
  BY <1>t DEF InFlightOK, CallsMayReturn, ExtendWrite, RevokeWrite, RemoveWrite
<1>f. Found(a) \subseteq Invite /\ \A i \in Found(a) : InviteExists(i)
  BY <1>t DEF Found, InFlightOK, CallOK, Calls
<1>1. ASSUME NEW past \in BOOLEAN, ExtendWrite(a, past) PROVE Linked'
  <2> DEFINE written == IF ~past /\ call[a].status \in {"PENDING", "EXPIRED"}
                          THEN "PENDING" ELSE call[a].status
  <2>1. /\ UNCHANGED <<inviteSession, inviteDrive, sessions>>
        /\ \A i \in Invite :
             inviteStatus'[i] = IF i \in Found(a) THEN written ELSE inviteStatus[i]
    BY <1>1, <1>t DEF ExtendWrite, Put, RowsOK, InvitesOK
  <2>2. written \in InviteStatuses
    BY <1>1, <1>t DEF ExtendWrite, InFlightOK, CallOK, Calls, InviteStatuses
  <2>3. SameInvites
    BY <1>c, <1>f, <2>1, <2>2 DEF SameInvites, InviteExists, InviteStatuses
  <2>4. SameSessions
    BY <2>1 DEF SameSessions, sessions, SessionExists
  <2>5. ASSUME NEW i \in Invite, inviteStatus'[i] = "REDEEMED" PROVE Settled(i)
    <3>1. CASE i \in Found(a)
      BY <1>1, <2>1, <2>5, <3>1 DEF ExtendWrite, Found, Linked, CallFits
    <3>2. CASE i \notin Found(a)
      BY <2>1, <2>5, <3>2 DEF Linked, RedeemedIsLinked, Settled
    <3>3. QED  BY <3>1, <3>2
  <2>6. QED  BY <1>c, <2>3, <2>4, <2>5, NothingMoves
<1>2. CASE RevokeWrite(a)
  <2>1. /\ UNCHANGED <<inviteSession, inviteDrive, sessions>>
        /\ \A i \in Invite :
             inviteStatus'[i] = IF i \in Found(a) THEN "REVOKED" ELSE inviteStatus[i]
    BY <1>2, <1>t DEF RevokeWrite, Put, RowsOK, InvitesOK
  <2>2. SameInvites
    BY <1>c, <1>f, <2>1 DEF SameInvites, InviteExists, InviteStatuses
  <2>3. SameSessions
    BY <2>1 DEF SameSessions, sessions, SessionExists
  <2>4. \A i \in Invite : inviteStatus'[i] = "REDEEMED" => Settled(i)
    BY <2>1 DEF Linked, RedeemedIsLinked, Settled
  <2>5. QED  BY <1>c, <2>2, <2>3, <2>4, NothingMoves
<1>3. CASE RemoveWrite(a)
  <2>1. SameSessions
    BY <1>3, <1>t DEF RemoveWrite, Put, RowsOK, SessionsOK, SameSessions, IsActive, Active,
                      SessionExists, SessionStatuses
  <2>2. DeleteRows(Found(a))
    BY <1>3 DEF RemoveWrite
  <2>3. QED  BY <1>c, <1>f, <2>1, <2>2, DeletedCleanly
<1>4. QED  BY <1>1, <1>2, <1>3

\* Deleting a drive keeps links right: a session goes with its link, and an
\* invite that the call did not list loses the drive the session had.
LEMMA DriveWriteLinked ==
  ASSUME Typed, Linked, NEW a \in Staff, DriveWrite(a)
  PROVE  Linked'
<1> DEFINE d    == call[a].drive
           gone == call[a].sessions
                     \cup {s \in Session : SessionExists(s) /\ sessionDrive[s] = d}
<1> USE DEF Linked
<1>t. RowsOK /\ InFlightOK
  BY DEF Typed
<1>d. d \in drives /\ d # None /\ drives' = drives \ {d} /\ UNCHANGED <<inviteCandidate, req>>
  BY <1>t, RedemptionAssumption DEF DriveWrite, RowsOK
<1>c. call'[a] = NoCall /\ \A b \in Staff : b # a => call'[b] = call[b]
  BY <1>t DEF DriveWrite, InFlightOK
<1>f. Found(a) \subseteq Invite /\ \A i \in Found(a) : InviteExists(i)
  BY <1>t DEF Found, InFlightOK, CallOK, Calls
<1>1. \A i \in Invite :
        /\ inviteStatus'[i] = IF i \in Found(a) THEN "deleted" ELSE inviteStatus[i]
        /\ inviteSession'[i] =
             IF i \in Found(a) \/ inviteSession[i] \in gone THEN None ELSE inviteSession[i]
        /\ inviteDrive'[i] =
             IF i \in Found(a) \/ inviteDrive[i] = d THEN None ELSE inviteDrive[i]
  BY <1>t DEF DriveWrite, Put, RowsOK, InvitesOK
<1>2. \A s \in Session :
        /\ sessionStatus'[s] = IF s \in gone THEN "deleted" ELSE sessionStatus[s]
        /\ s \notin gone =>
             sessionDrive'[s] = sessionDrive[s] /\ sessionCandidate'[s] = sessionCandidate[s]
  BY <1>t DEF DriveWrite, Put, RowsOK, SessionsOK
<1>3. \A i \in Invite :
        /\ InviteExists(i)' <=> InviteExists(i) /\ i \notin Found(a)
        /\ inviteStatus'[i] = "unborn" <=> inviteStatus[i] = "unborn"
  BY <1>1, <1>f DEF InviteExists, InviteStatuses
<1>4. \A s \in Session :
        /\ SessionExists(s)' <=> SessionExists(s) /\ s \notin gone
        /\ sessionStatus'[s] = "unborn" <=> sessionStatus[s] = "unborn"
  BY <1>2 DEF SessionExists, SessionStatuses, CallFits
<1>5. \A i \in Invite : i \notin Found(a) /\ InviteExists(i) => inviteSession[i] \notin call[a].sessions
  BY DEF Found, CallFits
<1>6. \A s \in Session : SessionExists(s) /\ s \notin gone => sessionDrive[s] # d
  OBVIOUS
<1>7. NoRowNoLink'
  BY <1>d, <1>1, <1>3 DEF NoRowNoLink
<1>8. RedeemedIsLinked'
  <2>1. SUFFICES ASSUME NEW i \in Invite, inviteStatus'[i] = "REDEEMED",
                        inviteSession'[i] = None
                 PROVE  inviteDrive'[i] = None
    BY DEF RedeemedIsLinked
  <2>2. i \notin Found(a) /\ inviteStatus[i] = "REDEEMED" /\ InviteExists(i)
    BY <1>1, <2>1 DEF InviteExists, InviteStatuses
  <2>3. CASE inviteSession[i] = None
    BY <1>1, <2>2, <2>3 DEF RedeemedIsLinked
  <2>4. CASE inviteSession[i] # None
    <3>1. inviteSession[i] \in gone /\ inviteSession[i] \notin call[a].sessions
      BY <1>1, <1>5, <2>1, <2>2, <2>4
    <3>2. inviteDrive[i] = d
      BY <2>2, <2>4, <3>1 DEF LinkedSessionMatches
    <3>3. QED  BY <1>1, <3>2
  <2>5. QED  BY <2>3, <2>4
<1>9. LinkedSessionMatches'
  <2>1. SUFFICES ASSUME NEW i \in Invite, InviteExists(i)', inviteSession'[i] # None,
                        NEW s, s = inviteSession'[i]
                 PROVE  /\ SessionExists(s)' /\ sessionCandidate'[s] = inviteCandidate[i]
                        /\ sessionDrive'[s] = inviteDrive'[i]
    BY <1>d DEF LinkedSessionMatches, SessionExists, InviteExists
  <2>2. /\ i \notin Found(a) /\ InviteExists(i) /\ s = inviteSession[i]
        /\ s \notin gone /\ s \in Session
    BY <1>1, <1>3, <1>t, <2>1 DEF RowsOK, InvitesOK
  <2>3. /\ SessionExists(s) /\ sessionCandidate[s] = inviteCandidate[i]
        /\ sessionDrive[s] = inviteDrive[i]
    BY <2>1, <2>2 DEF LinkedSessionMatches
  <2>4. inviteDrive'[i] = inviteDrive[i]
    BY <1>1, <1>6, <2>2, <2>3
  <2>5. QED  BY <1>2, <1>4, <2>2, <2>3, <2>4
<1>10. ASSUME NEW r \in Starter PROVE ReqFollowsInvite(r)' /\ ReqOwnsSession(r)'
  <2>1. /\ ReqOK(req[r]) /\ ReqFollowsInvite(r) /\ ReqOwnsSession(r)
        /\ req[r].invite \in Invite \cup {None} /\ req[r].session \in Session \cup {None}
    BY <1>t DEF InFlightOK, ReqOK, Reqs
  <2>2. ReqFollowsInvite(r)'
    BY <1>d, <1>1, <1>3, <2>1 DEF ReqFollowsInvite
  <2>3. ReqOwnsSession(r)'
    <3>1. SUFFICES ASSUME req[r].step = "redeem" PROVE ReqOwnsSession(r)'
      BY <1>d DEF ReqOwnsSession
    <3>2. req[r].invite \in Invite /\ req[r].session \in Session
      BY <2>1, <3>1 DEF ReqOK
    <3>3. sessionStatus'[req[r].session] # "unborn"
      BY <1>4, <2>1, <3>1, <3>2 DEF ReqOwnsSession
    <3>4. \A i \in Invite : inviteSession'[i] # req[r].session
      BY <1>1, <2>1, <3>1, <3>2, RedemptionAssumption DEF ReqOwnsSession
    <3>5. \A b \in Staff : req[r].session \notin call'[b].sessions
      BY <1>c, <2>1, <3>1 DEF ReqOwnsSession, NoCall
    <3>6. SessionExists(req[r].session)' =>
            /\ sessionCandidate'[req[r].session] = req[r].candidate
            /\ InviteExists(req[r].invite)' =>
                 sessionDrive'[req[r].session] = inviteDrive'[req[r].invite]
      BY <1>d, <1>1, <1>2, <1>3, <1>4, <2>1, <3>1, <3>2
         DEF ReqOwnsSession, SessionExists, InviteExists
    <3>7. QED  BY <1>d, <3>3, <3>4, <3>5, <3>6 DEF ReqOwnsSession, SessionExists, InviteExists
  <2>4. QED  BY <2>2, <2>3
<1>11. ReqsApart'
  BY <1>d DEF ReqsApart
<1>12. ASSUME NEW b \in Staff PROVE CallFits(b)'
  <2>1. CASE b = a
    BY <1>c, <2>1 DEF CallFits, NoCall
  <2>2. CASE b # a
    <3>1. CallFits(b) /\ call'[b] = call[b] /\ CallOK(call[b])
      BY <1>c, <1>t, <2>2 DEF InFlightOK
    <3>2. call[b].invites \subseteq Invite /\ call[b].sessions \subseteq Session
      BY <3>1 DEF CallOK, Calls
    <3>3. ASSUME NEW i \in Invite, Settled(i) PROVE Settled(i)'
      <4>1. CASE inviteSession[i] = None \/ inviteSession'[i] # None
        BY <1>1, <3>3, <4>1 DEF Settled
      <4>2. CASE inviteSession[i] # None /\ inviteSession'[i] = None
        <5>1. CASE i \in Found(a)
          BY <1>1, <5>1 DEF Settled
        <5>2. CASE i \notin Found(a)
          <6>1. InviteExists(i)
            BY <4>2 DEF NoRowNoLink
          <6>2. inviteSession[i] \in gone /\ inviteSession[i] \notin call[a].sessions
            BY <1>1, <1>5, <4>2, <5>2, <6>1
          <6>3. inviteDrive[i] = d
            BY <4>2, <6>1, <6>2 DEF LinkedSessionMatches
          <6>4. QED  BY <1>1, <6>3 DEF Settled
        <5>3. QED  BY <5>1, <5>2
      <4>3. QED  BY <4>1, <4>2
    <3>4. \A i \in Invite : inviteSession'[i] \in call[b].sessions => i \in call[b].invites
      BY <1>1, <3>1, <3>2, RedemptionAssumption DEF CallFits
    <3>5. QED  BY <1>3, <1>4, <3>1, <3>2, <3>3, <3>4 DEF CallFits
  <2>3. QED  BY <2>1, <2>2
<1>13. QED  BY <1>7, <1>8, <1>9, <1>10, <1>11, <1>12

\* A new invite keeps links right.
LEMMA CreateInviteLinked ==
  ASSUME Typed, Linked, NEW i \in Invite, NEW d \in Drive, NEW c \in Candidate,
         CreateInvite(i, d, c)
  PROVE  Linked'
<1> USE DEF Linked
<1>t. RowsOK /\ InFlightOK
  BY DEF Typed
<1>1. /\ UNCHANGED <<inviteSession, sessions, drives, req, call>>
      /\ inviteStatus[i] = "unborn" /\ inviteStatus'[i] = "PENDING" /\ InviteExists(i)'
      /\ \A j \in Invite : j # i =>
           /\ inviteStatus'[j] = inviteStatus[j] /\ inviteDrive'[j] = inviteDrive[j]
           /\ inviteCandidate'[j] = inviteCandidate[j]
  BY <1>t DEF CreateInvite, RowsOK, InvitesOK, InviteExists, InviteStatuses
<1>2. inviteSession[i] = None
  BY <1>1 DEF NoRowNoLink, InviteExists, InviteStatuses
<1>3. NoRowNoLink'
  <2>1. inviteCandidate'[i] # None
    BY <1>t, RedemptionAssumption DEF CreateInvite, RowsOK, InvitesOK
  <2>2. QED  BY <1>1, <2>1 DEF NoRowNoLink, InviteExists
<1>4. RedeemedIsLinked'
  BY <1>1 DEF RedeemedIsLinked
<1>5. LinkedSessionMatches'
  BY <1>1, <1>2 DEF LinkedSessionMatches, InviteExists, SessionExists, sessions
<1>6. ASSUME NEW r \in Starter PROVE ReqFollowsInvite(r)' /\ ReqOwnsSession(r)'
  <2>1. /\ ReqOK(req[r]) /\ ReqFollowsInvite(r) /\ ReqOwnsSession(r)
        /\ req[r].invite \in Invite \cup {None} /\ req'[r] = req[r]
    BY <1>t, <1>1 DEF InFlightOK, ReqOK, Reqs
  <2>2. req[r].step # "idle" /\ req[r].invite # None => req[r].invite # i
    BY <1>1, <2>1 DEF ReqFollowsInvite
  <2>3. ReqFollowsInvite(r)'
    BY <1>1, <2>1, <2>2 DEF ReqFollowsInvite, InviteExists
  <2>4. ReqOwnsSession(r)'
    BY <1>1, <2>1, <2>2 DEF ReqOwnsSession, ReqOK, InviteExists, SessionExists, sessions
  <2>5. QED  BY <2>3, <2>4
<1>7. ReqsApart'
  BY <1>1 DEF ReqsApart
<1>8. ASSUME NEW a \in Staff PROVE CallFits(a)'
  <2>1. CallFits(a) /\ CallOK(call[a]) /\ call'[a] = call[a] /\ i \notin call[a].invites
    BY <1>t, <1>1 DEF InFlightOK, CallFits
  <2>2. QED
    BY <1>1, <2>1 DEF CallFits, CallOK, Calls, Settled, sessions
<1>9. QED  BY <1>3, <1>4, <1>5, <1>6, <1>7, <1>8

\* A single statement of staff keeps links right.
LEMMA StatementLinked ==
  ASSUME Typed, Linked, StaffStatement
  PROVE  Linked'
<1>t. RowsOK
  BY DEF Typed
<1>c. CallsMayReturn /\ UNCHANGED <<drives, req, sessions>>
  BY DEF CallsMayReturn, StaffStatement, Regenerate, GenerateLink, CreateInvite,
         DeleteInvites, ListInvites, sessions
<1>s. SameSessions
  BY <1>c DEF SameSessions, SessionExists, sessions
<1>r. \A i \in Invite : inviteStatus[i] = "REDEEMED" => Settled(i)
  BY DEF Linked, RedeemedIsLinked, Settled
<1>1. ASSUME NEW i \in Invite, Regenerate(i) \/ GenerateLink(i) PROVE Linked'
  <2>1. SameInvites
    BY <1>1, <1>t DEF Regenerate, GenerateLink, SameInvites, RowsOK, InvitesOK,
                      InviteExists, InviteStatuses
  <2>2. \A j \in Invite : inviteStatus'[j] = "REDEEMED" => inviteStatus[j] = "REDEEMED"
    BY <1>1, <1>t DEF Regenerate, GenerateLink, RowsOK, InvitesOK
  <2>3. QED  BY <1>c, <1>s, <1>r, <2>1, <2>2, NothingMoves
<1>2. ASSUME NEW I \in SUBSET Invite, DeleteInvites(I) PROVE Linked'
  BY <1>c, <1>s, <1>2, DeletedCleanly DEF DeleteInvites
<1>3. CASE ListInvites
  <2> DEFINE X == {i \in Invite : inviteStatus[i] = "PENDING" /\ expired[i]}
  <2>1. \A i \in Invite : inviteStatus'[i] = IF i \in X THEN "EXPIRED" ELSE inviteStatus[i]
    BY <1>3, <1>t DEF ListInvites, Put, RowsOK, InvitesOK
  <2>2. SameInvites
    BY <1>3, <2>1 DEF ListInvites, SameInvites, InviteExists, InviteStatuses
  <2>3. QED  BY <1>c, <1>s, <1>r, <2>1, <2>2, NothingMoves
<1>4. QED  BY <1>1, <1>2, <1>3, CreateInviteLinked DEF StaffStatement

\* Time and the rest of a session's life keep links right.
LEMMA LifeLinked ==
  ASSUME Typed, Linked,
         \/ \E s \in Session : Progress(s) \/ Revive(s)
         \/ \E i \in Invite : Expire(i)
  PROVE  Linked'
<1>t. RowsOK
  BY DEF Typed
<1>1. CallsMayReturn /\ UNCHANGED <<drives, req>>
  BY DEF CallsMayReturn, Progress, Revive, Expire
<1>2. SameInvites
  BY DEF SameInvites, Progress, Revive, Expire, invites, InviteExists
<1>3. SameSessions
  BY <1>t DEF SameSessions, Progress, Revive, Expire, sessions, SessionExists,
              SessionStatuses, IsActive, Active, RowsOK, SessionsOK
<1>4. \A i \in Invite : inviteStatus'[i] = "REDEEMED" => Settled(i)
  BY DEF Linked, RedeemedIsLinked, Settled, Progress, Revive, Expire, invites
<1>5. QED  BY <1>1, <1>2, <1>3, <1>4, NothingMoves

\* Linked is inductive on typed states.
LEMMA StaysLinked ==
  /\ Init => Linked
  /\ Typed /\ Linked /\ [Next]_vars => Linked'
<1>1. Init => Linked
  BY DEF Init, Linked, NoRowNoLink, RedeemedIsLinked, LinkedSessionMatches, ReqFollowsInvite,
         ReqOwnsSession, ReqsApart, CallFits, NoReq, NoCall
<1>2. ASSUME Typed, Linked, UNCHANGED vars PROVE Linked'
  <2>1. SameInvites /\ SameSessions /\ CallsMayReturn /\ UNCHANGED <<drives, req>>
    BY <1>2 DEF vars, invites, sessions, SameInvites, SameSessions, CallsMayReturn,
                InviteExists, SessionExists
  <2>2. \A i \in Invite : inviteStatus'[i] = "REDEEMED" => Settled(i)
    BY <1>2 DEF vars, invites, Linked, RedeemedIsLinked, Settled
  <2>3. QED  BY <1>2, <2>1, <2>2, NothingMoves
<1>3. ASSUME Typed, Linked, Next PROVE Linked'
  BY <1>3, StartReadsLinked, StartCreateLinked, StartRedeemLinked, CallReadsLinked,
     CallWritesLinked, DriveWriteLinked, StatementLinked, LifeLinked
     DEF Next, StartSession, StaffCall, SessionStep
<1>4. QED  BY <1>1, <1>2, <1>3

\* In every reachable state a REDEEMED invite refers to a session unless its
\* drive was deleted, though extendExpiry writes back a status it read earlier.
THEOREM RedeemedStaysLinked == Spec => []RedeemedIsLinked
<1>1. Linked => RedeemedIsLinked
  BY DEF Linked
<1>2. QED  BY <1>1, StaysTyped, StaysLinked, PTL DEF Spec

\* In every reachable state the session an invite refers to exists and is of
\* the invite's candidate and drive, however deletions and starts interleave.
THEOREM LinksStayRight == Spec => []LinkedSessionMatches
<1>1. Linked => LinkedSessionMatches
  BY DEF Linked
<1>2. QED  BY <1>1, StaysTyped, StaysLinked, PTL DEF Spec

-----------------------------------------------------------------------------
(* One active session *)

\* A step that brings no session to life and takes no request past its search
\* leaves a candidate with one active session at most.
LEMMA FewerActive ==
  ASSUME OneActiveSession, Alone, revived => revived',
         \A r \in Starter : ReqFollowsInvite(r),
         \A s \in Session :
           IsActive(s)' => IsActive(s) /\ sessionCandidate'[s] = sessionCandidate[s],
         \A r \in Starter : req'[r] = req[r] \/ req'[r].step \in {"idle", "find"}
  PROVE  OneActiveSession' /\ Alone'
<1>1. OneActiveSession'
  BY RedemptionAssumption DEF OneActiveSession, Undisturbed, NoTwins
<1>2. ASSUME NEW r \in Starter, Undisturbed' PROVE ReqIsAlone(r)'
  <2>1. ReqIsAlone(r)
    BY <1>2 DEF Alone, Undisturbed
  <2>2. QED  BY <2>1 DEF ReqIsAlone, HasSession, ReqFollowsInvite
<1>3. QED  BY <1>1, <1>2 DEF Alone

\* startSession creates a session only for a candidate without an active one.
LEMMA StartAlone ==
  ASSUME Typed, Linked, OneActiveSession, Alone,
         NEW r \in Starter, StartSession(r) \/ FailStart(r)
  PROVE  OneActiveSession' /\ Alone'
<1>t. RowsOK /\ req \in [Starter -> Reqs] /\ \A p \in Starter : ReqFollowsInvite(p)
  BY DEF Typed, Linked, InFlightOK
<1>1. CASE \/ \E i \in Invite : StartVerify(r, i)
           \/ StartRedeem(r) \/ FailStart(r)
  <2>1. UNCHANGED <<sessions, revived>>
    BY <1>1 DEF StartVerify, StartRedeem, FailStart
  <2> DEFINE Goes(q) == q.step \in {"idle", "find"} /\ req' = [req EXCEPT ![r] = q]
  <2>2. ASSUME NEW q, Goes(q)
        PROVE  \A p \in Starter : req'[p] = req[p] \/ req'[p].step \in {"idle", "find"}
    BY <2>2, <1>t
  <2>3. Goes(NoReq) \/ \E i \in Invite :
          Goes([NoReq EXCEPT !.step = "find", !.invite = i, !.candidate = inviteCandidate[i]])
    BY <1>1 DEF StartVerify, StartRedeem, FailStart, NoReq
  <2>4. \A p \in Starter : req'[p] = req[p] \/ req'[p].step \in {"idle", "find"}
    BY <2>2, <2>3
  <2>5. QED  BY <1>t, <2>1, <2>4, FewerActive DEF sessions, IsActive
<1>2. CASE StartFind(r) \/ StartLookup(r)
  <2>1. /\ UNCHANGED <<sessions, revived>>
        /\ \A p \in Starter : p # r => req'[p] = req[p]
    BY <1>2, <1>t DEF StartFind, StartLookup
  <2>2. \/ req'[r].step = "idle"
        \/ /\ req'[r].step \in {"lookup", "create"}
           /\ req'[r].candidate = req[r].candidate
           /\ req[r].step = "lookup" \/ ~HasSession(req[r].candidate)
    <3>1. CASE StartFind(r)
      BY <1>t, <3>1 DEF StartFind, Reqs, NoReq
    <3>2. CASE StartLookup(r)
      BY <1>t, <3>2 DEF StartLookup, Reqs
    <3>3. QED  BY <1>2, <3>1, <3>2
  <2>3. OneActiveSession'
    BY <2>1 DEF OneActiveSession, Undisturbed, NoTwins, IsActive, sessions
  <2>4. ASSUME NEW p \in Starter, Undisturbed' PROVE ReqIsAlone(p)'
    <3>1. p = r /\ ReqIsAlone(r)
      BY <2>1, <2>4 DEF Undisturbed, Alone
    <3>2. QED
      BY <2>1, <2>2, <3>1 DEF ReqIsAlone, HasSession, IsActive, sessions
  <2>5. QED  BY <2>3, <2>4 DEF Alone
<1>3. CASE StartCreate(r)
  <2>1. CASE UNCHANGED sessions /\ req' = [req EXCEPT ![r] = NoReq]
    <3>1. UNCHANGED revived /\ \A p \in Starter : req'[p] = req[p] \/ req'[p].step = "idle"
      BY <1>3, <2>1, <1>t DEF StartCreate, NoReq
    <3>2. QED  BY <1>t, <2>1, <3>1, FewerActive DEF sessions, IsActive
  <2>2. ASSUME NEW s \in Session, sessionStatus[s] = "unborn",
               sessionStatus'    = [sessionStatus EXCEPT ![s] = "NOT_STARTED"],
               sessionCandidate' = [sessionCandidate EXCEPT ![s] = req[r].candidate],
               req' = [req EXCEPT ![r] =
                 IF req[r].invite = None
                   THEN NoReq ELSE [req[r] EXCEPT !.step = "redeem", !.session = s]]
        PROVE  OneActiveSession' /\ Alone'
    <3>1. SUFFICES ASSUME Undisturbed'
                   PROVE  (\A c \in Candidate : NoTwins(c)') /\ ReqIsAlone(r)'
      <4>1. Undisturbed' => \A p \in Starter : p = r
        BY DEF Undisturbed
      <4>2. QED  BY <4>1 DEF OneActiveSession, Alone
    <3>2. Undisturbed /\ ReqIsAlone(r) /\ \A c \in Candidate : NoTwins(c)
      BY <1>3, <3>1 DEF StartCreate, Undisturbed, OneActiveSession, Alone
    <3>3. ~HasSession(req[r].candidate)
      BY <1>3, <3>2 DEF StartCreate, ReqIsAlone
    <3>4. /\ sessionCandidate'[s] = req[r].candidate
          /\ \A t \in Session : t # s =>
               sessionStatus'[t] = sessionStatus[t] /\ sessionCandidate'[t] = sessionCandidate[t]
      BY <1>t, <2>2 DEF RowsOK, SessionsOK
    <3>5. \A t \in Session :
            IsActive(t)' /\ sessionCandidate'[t] = req[r].candidate => t = s
      BY <3>3, <3>4 DEF HasSession, IsActive
    <3>6. \A c \in Candidate : NoTwins(c)'
      BY <3>2, <3>4, <3>5 DEF NoTwins, IsActive
    <3>7. ReqIsAlone(r)'
      <4>1. CASE req[r].invite = None
        BY <1>t, <2>2, <4>1 DEF ReqIsAlone, NoReq
      <4>2. CASE req[r].invite # None
        <5>1. /\ req'[r].step = "redeem" /\ req'[r].session = s
              /\ req'[r].candidate = req[r].candidate
          BY <1>t, <2>2, <4>2 DEF Reqs
        <5>2. QED  BY <3>5, <5>1 DEF ReqIsAlone
      <4>3. QED  BY <4>1, <4>2
    <3>8. QED  BY <3>6, <3>7
  <2>3. QED  BY <1>3, <2>1, <2>2 DEF StartCreate
<1>4. QED  BY <1>1, <1>2, <1>3 DEF StartSession

\* No other step disturbs it.
LEMMA OthersAlone ==
  ASSUME Typed, Linked, OneActiveSession, Alone,
         \/ \E a \in Staff : StaffCall(a) \/ FailCall(a)
         \/ StaffStatement
         \/ \E s \in Session : SessionStep(s)
         \/ \E i \in Invite : Expire(i)
  PROVE  OneActiveSession' /\ Alone'
<1>t. RowsOK /\ \A p \in Starter : ReqFollowsInvite(p)
  BY DEF Typed, Linked
<1> DEFINE Fewer == \A s \in Session :
             IsActive(s)' => IsActive(s) /\ sessionCandidate'[s] = sessionCandidate[s]
<1>f. ASSUME UNCHANGED <<req, revived>>, Fewer PROVE OneActiveSession' /\ Alone'
  BY <1>t, <1>f, FewerActive
<1>1. CASE \E s \in Session : Revive(s)
  BY <1>1 DEF Revive, OneActiveSession, Alone, Undisturbed
<1>2. CASE \E s \in Session : Progress(s)
  BY <1>2, <1>f, <1>t DEF Progress, Proceeds, IsActive, Active, RowsOK, SessionsOK
<1>3. ASSUME NEW a \in Staff, RemoveWrite(a) PROVE OneActiveSession' /\ Alone'
  BY <1>3, <1>f, <1>t DEF RemoveWrite, Put, IsActive, Active, RowsOK, SessionsOK
<1>4. ASSUME NEW a \in Staff, DriveWrite(a) PROVE OneActiveSession' /\ Alone'
  BY <1>4, <1>f, <1>t DEF DriveWrite, Put, IsActive, Active, RowsOK, SessionsOK
<1>5. CASE UNCHANGED <<sessions, req, revived>>
  BY <1>5, <1>f DEF sessions, IsActive
<1>6. CASE StaffStatement \/ \E i \in Invite : Expire(i)
  BY <1>5, <1>6 DEF StaffStatement, Regenerate, GenerateLink, CreateInvite, DeleteInvites,
                    ListInvites, Expire
<1>7. ASSUME NEW a \in Staff, StaffCall(a) \/ FailCall(a) PROVE OneActiveSession' /\ Alone'
  BY <1>3, <1>4, <1>5, <1>7 DEF StaffCall, RevokeRead, RevokeWrite, ExtendRead, ExtendWrite,
                                RemoveRead, DriveRead, FailCall
<1>8. QED  BY <1>1, <1>2, <1>6, <1>7 DEF SessionStep

\* OneActiveSession and Alone are inductive on typed states.
LEMMA StaysAlone ==
  /\ Init => OneActiveSession /\ Alone
  /\ Typed /\ Linked /\ OneActiveSession /\ Alone /\ [Next]_vars
       => OneActiveSession' /\ Alone'
<1>1. Init => OneActiveSession /\ Alone
  BY DEF Init, OneActiveSession, Alone, NoTwins, IsActive, Active, ReqIsAlone, NoReq
<1>2. ASSUME Linked, OneActiveSession, Alone, UNCHANGED vars
      PROVE  OneActiveSession' /\ Alone'
  BY <1>2, FewerActive DEF vars, sessions, IsActive, Linked
<1>3. ASSUME Typed, Linked, OneActiveSession, Alone, Next PROVE OneActiveSession' /\ Alone'
  BY <1>3, StartAlone, OthersAlone DEF Next
<1>4. QED  BY <1>1, <1>2, <1>3

\* While startSession calls do not overlap and no session that was over goes on, no
\* candidate has two active sessions, whatever staff do and whatever fails.
THEOREM StaysSingle == Spec => []OneActiveSession
BY StaysTyped, StaysLinked, StaysAlone, PTL DEF Spec

\* Redeeming replaces only the session the request created: by then the
\* candidate has no other active one, so no active session loses its invite.
LEMMA LinkStepKeeps ==
  ASSUME Typed, Linked, Alone, Undisturbed, Next, NEW i \in Invite, NEW s \in Session
  PROVE  KeepsLink(i, s)
<1>t. RowsOK /\ InFlightOK
  BY DEF Typed
<1>1. SUFFICES ASSUME inviteSession[i] = s, IsActive(s), IsActive(s)', InviteExists(i)'
               PROVE  inviteSession'[i] = s
  BY DEF KeepsLink
<1>2. CASE UNCHANGED inviteSession
  BY <1>1, <1>2
<1>3. ASSUME NEW r \in Starter, StartRedeem(r) PROVE inviteSession'[i] = s
  <2>1. CASE i # req[r].invite \/ ~InviteExists(i)
    BY <1>1, <1>3, <1>t, <2>1 DEF StartRedeem, RowsOK, InvitesOK
  <2>2. CASE i = req[r].invite /\ InviteExists(i)
    <3>1. sessionCandidate[s] = inviteCandidate[i]
      BY <1>1, <2>2, RedemptionAssumption, <1>t
         DEF Linked, LinkedSessionMatches, RowsOK, InvitesOK
    <3>2. req[r].candidate = inviteCandidate[i]
      BY <1>3, <1>t, <2>2, RedemptionAssumption DEF StartRedeem, Linked, ReqFollowsInvite
    <3>3. s = req[r].session
      BY <1>1, <1>3, <3>1, <3>2 DEF Alone, ReqIsAlone, StartRedeem
    <3>4. inviteSession[i] # req[r].session
      BY <1>3 DEF Linked, ReqOwnsSession, StartRedeem
    <3>5. QED  BY <1>1, <3>3, <3>4
  <2>3. QED  BY <2>1, <2>2
<1>4. ASSUME NEW I, DeleteRows(I) PROVE inviteSession'[i] = s
  BY <1>1, <1>4, <1>t DEF DeleteRows, Put, RowsOK, InvitesOK, InviteExists, InviteStatuses
<1>5. ASSUME NEW a \in Staff, DriveWrite(a) PROVE inviteSession'[i] = s
  <2> DEFINE gone == call[a].sessions
               \cup {t \in Session : SessionExists(t) /\ sessionDrive[t] = call[a].drive}
  <2>1. i \notin Found(a)
    BY <1>1, <1>5, <1>t DEF DriveWrite, Put, RowsOK, InvitesOK, InviteExists, InviteStatuses
  <2>2. s \notin gone
    BY <1>1, <1>5, <1>t DEF DriveWrite, Put, RowsOK, SessionsOK, IsActive, Active
  <2>3. QED
    BY <1>1, <1>5, <1>t, <2>1, <2>2 DEF DriveWrite, Put, RowsOK, InvitesOK
<1>6. CASE StaffStatement
  BY <1>2, <1>4, <1>6 DEF StaffStatement, Regenerate, GenerateLink, CreateInvite,
                          DeleteInvites, ListInvites
<1>7. ASSUME NEW a \in Staff, StaffCall(a) \/ FailCall(a) PROVE inviteSession'[i] = s
  BY <1>2, <1>4, <1>5, <1>7 DEF StaffCall, RevokeRead, RevokeWrite, ExtendRead, ExtendWrite,
       RemoveRead, RemoveWrite, DriveRead, FailCall, invites
<1>8. ASSUME NEW r \in Starter, StartSession(r) \/ FailStart(r) PROVE inviteSession'[i] = s
  BY <1>2, <1>3, <1>8 DEF StartSession, StartVerify, StartFind, StartLookup, StartCreate,
       FailStart, invites
<1>9. CASE \/ \E t \in Session : SessionStep(t)
           \/ \E j \in Invite : Expire(j)
  BY <1>2, <1>9 DEF SessionStep, Progress, Revive, Expire, invites
<1>10. QED  BY <1>6, <1>7, <1>8, <1>9 DEF Next

\* While startSession calls do not overlap and no session that was over goes on, no
\* step takes an invite away from a session that stays active.
THEOREM ActiveLinksSurvive == Spec => ActiveLinkKept
<1>1. Typed /\ Linked /\ Alone /\ [Next]_vars
        => [Undisturbed => \A i \in Invite, s \in Session : KeepsLink(i, s)]_vars
  <2>1. SUFFICES ASSUME Typed, Linked, Alone, Undisturbed, Next,
                        NEW i \in Invite, NEW s \in Session
                 PROVE  KeepsLink(i, s)
    OBVIOUS
  <2>2. QED  BY <2>1, LinkStepKeeps
<1>2. QED  BY <1>1, StaysTyped, StaysLinked, StaysAlone, PTL DEF Spec, ActiveLinkKept
=============================================================================
