-------------------------- MODULE InviteRedemption --------------------------
(***************************************************************************)
(* Invites, the sessions started from them and the drives they belong to.  *)
(*                                                                         *)
(* startSession verifies the link, looks for an active session of the      *)
(* candidate, creates one when there is none and then updates the invite:  *)
(* five database calls with no transaction around them.  Staff revoke,     *)
(* extend, re-issue and delete invites, remove candidates and delete       *)
(* drives meanwhile, also by reading first and writing later.  A request   *)
(* or a staff call in flight keeps in its record what it has read.         *)
(*                                                                         *)
(* A link resolves to the invite that holds its token or id and, when      *)
(* there is none, to the newest invite: to some existing invite in every   *)
(* case, so tokens are not part of the state.  scheduledTime, on which     *)
(* startSession has a cutoff, is null in every row the code writes.        *)
(*                                                                         *)
(* The session that the owner guard, MCQ and proctoring try to create for  *)
(* an unknown id has a cvMode the schema does not know: the insert always  *)
(* rejects, and startSession is the only way to a session row.             *)
(*                                                                         *)
(* Audit rows and role templates decide nothing here and are left out.     *)
(***************************************************************************)
EXTENDS SessionStages

CONSTANTS
  Invite, Session,    \* ids of rows, each used once
  Drive, Candidate,
  Starter,            \* slots for startSession requests in flight
  Staff,              \* slots for staff calls in flight
  None                \* SQL NULL

InviteStatuses == {"PENDING", "REDEEMED", "EXPIRED", "REVOKED"}

\* The life of a row outside its own columns.
NoRow == {"unborn", "deleted"}

ASSUME RedemptionAssumption ==
  /\ None \notin Invite \cup Session \cup Drive \cup Candidate
  /\ None \notin InviteStatuses

VARIABLES
  \* Invite rows: status, whether expiresAt has passed, session, drive, candidate
  inviteStatus, expired, inviteSession, inviteDrive, inviteCandidate,
  \* Session rows: status, drive, candidate
  sessionStatus, sessionDrive, sessionCandidate,
  \* the drives there are
  drives,
  \* startSession requests and staff calls in flight, with what they have read
  req, call,
  \* history: a run or a late write has set a session going again that was over
  revived

invites  == <<inviteStatus, expired, inviteSession, inviteDrive, inviteCandidate>>
sessions == <<sessionStatus, sessionDrive, sessionCandidate>>
vars     == <<invites, sessions, drives, req, call, revived>>

NoReq  == [step |-> "idle", invite |-> None, candidate |-> None, drive |-> None,
           session |-> None]
NoCall == [task |-> "idle", invites |-> {}, status |-> None, drive |-> None,
           sessions |-> {}]

InviteExists(i)  == inviteStatus[i] \in InviteStatuses
SessionExists(s) == sessionStatus[s] \in SessionStatuses
IsActive(s)      == sessionStatus[s] \in Active

\* The column f with v in every row of X.
Put(f, X, v) == [x \in DOMAIN f |-> IF x \in X THEN v ELSE f[x]]

Init ==
  /\ inviteStatus    = [i \in Invite |-> "unborn"]
  /\ expired         = [i \in Invite |-> FALSE]
  /\ inviteSession   = [i \in Invite |-> None]
  /\ inviteDrive     = [i \in Invite |-> None]
  /\ inviteCandidate = [i \in Invite |-> None]
  /\ sessionStatus    = [s \in Session |-> "unborn"]
  /\ sessionDrive     = [s \in Session |-> None]
  /\ sessionCandidate = [s \in Session |-> None]
  /\ drives = Drive
  /\ req  = [r \in Starter |-> NoReq]
  /\ call = [a \in Staff |-> NoCall]
  /\ revived = FALSE

-----------------------------------------------------------------------------
(* POST /sessions/start *)

\* verifyInviteToken: REVOKED and expired links are refused, REDEEMED ones not.
StartVerify(r, i) ==
  /\ req[r].step = "idle"
  /\ InviteExists(i) /\ inviteStatus[i] # "REVOKED" /\ ~expired[i]
  /\ req' = [req EXCEPT ![r] = [NoReq EXCEPT !.step = "find", !.invite = i,
                                             !.candidate = inviteCandidate[i]]]
  /\ UNCHANGED <<invites, sessions, drives, call, revived>>

\* Mutant of HasSession: a session that has not begun is not found.
HasBegunSession(c) ==
  \E s \in Session : sessionStatus[s] = "IN_PROGRESS" /\ sessionCandidate[s] = c

\* An active session of the candidate, of any drive, is handed out again.
HasSession(c) == \E s \in Session : IsActive(s) /\ sessionCandidate[s] = c

StartFind(r) ==
  /\ req[r].step = "find"
  /\ req' = [req EXCEPT ![r] = IF HasSession(req[r].candidate)
                                 THEN NoReq
                                 ELSE [req[r] EXCEPT !.step = "lookup"]]
  /\ UNCHANGED <<invites, sessions, drives, call, revived>>

\* Mutant of StartLookup: the invite's session is taken for its drive.
StartLookupSwapped(r) ==
  /\ req[r].step = "lookup"
  /\ req' = [req EXCEPT ![r] =
       IF InviteExists(req[r].invite)
         THEN [req[r] EXCEPT !.step = "create",
                             !.drive = inviteCandidate[req[r].invite]]
         ELSE [req[r] EXCEPT !.step = "create", !.invite = None]]
  /\ UNCHANGED <<invites, sessions, drives, call, revived>>

\* The invite is read again for its drive, and may be gone.
StartLookup(r) ==
  /\ req[r].step = "lookup"
  /\ req' = [req EXCEPT ![r] =
       IF InviteExists(req[r].invite)
         THEN [req[r] EXCEPT !.step = "create",
                             !.drive = inviteDrive[req[r].invite]]
         ELSE [req[r] EXCEPT !.step = "create", !.invite = None]]
  /\ UNCHANGED <<invites, sessions, drives, call, revived>>

\* Mutant of StartCreate: no foreign key checks the drive.
StartCreateUnchecked(r) ==
  /\ req[r].step = "create"
  /\ \E s \in Session :
       /\ sessionStatus[s] = "unborn"
       /\ sessionStatus'    = [sessionStatus EXCEPT ![s] = "NOT_STARTED"]
       /\ sessionDrive'     = [sessionDrive EXCEPT ![s] = req[r].drive]
       /\ sessionCandidate' = [sessionCandidate EXCEPT ![s] = req[r].candidate]
       /\ req' = [req EXCEPT ![r] =
            IF req[r].invite = None
              THEN NoReq
              ELSE [req[r] EXCEPT !.step = "redeem", !.session = s]]
  /\ UNCHANGED <<invites, drives, call, revived>>

\* The insert is rejected when the drive it refers to has been deleted.
StartCreate(r) ==
  /\ req[r].step = "create"
  /\ \/ /\ req[r].drive \in drives \cup {None}
        /\ \E s \in Session :
             /\ sessionStatus[s] = "unborn"
             /\ sessionStatus'    = [sessionStatus EXCEPT ![s] = "NOT_STARTED"]
             /\ sessionDrive'     = [sessionDrive EXCEPT ![s] = req[r].drive]
             /\ sessionCandidate' = [sessionCandidate EXCEPT ![s] = req[r].candidate]
             /\ req' = [req EXCEPT ![r] =
                  IF req[r].invite = None
                    THEN NoReq
                    ELSE [req[r] EXCEPT !.step = "redeem", !.session = s]]
     \/ /\ req[r].drive \notin drives \cup {None}
        /\ req' = [req EXCEPT ![r] = NoReq]
        /\ UNCHANGED sessions
  /\ UNCHANGED <<invites, drives, call, revived>>

\* Mutant of StartRedeem: the session is not written.
StartRedeemStatusOnly(r) ==
  /\ req[r].step = "redeem"
  /\ inviteStatus' = [inviteStatus EXCEPT ![req[r].invite] =
       IF InviteExists(req[r].invite) THEN "REDEEMED" ELSE @]
  /\ req' = [req EXCEPT ![r] = NoReq]
  /\ UNCHANGED <<expired, inviteSession, inviteDrive, inviteCandidate, sessions,
                 drives, call, revived>>

\* The update is rejected when the invite or the session has been deleted.
StartRedeem(r) ==
  /\ req[r].step = "redeem"
  /\ LET i == req[r].invite
         s == req[r].session
     IN  IF InviteExists(i) /\ SessionExists(s)
           THEN /\ inviteStatus'  = [inviteStatus EXCEPT ![i] = "REDEEMED"]
                /\ inviteSession' = [inviteSession EXCEPT ![i] = s]
           ELSE UNCHANGED <<inviteStatus, inviteSession>>
  /\ req' = [req EXCEPT ![r] = NoReq]
  /\ UNCHANGED <<expired, inviteDrive, inviteCandidate, sessions,
                 drives, call, revived>>

-----------------------------------------------------------------------------
(* The rest of a session's life, in short *)

\* The handlers of SessionLifecycle, those included that write late; the
\* removal is below.
Progress(s) ==
  /\ SessionExists(s)
  /\ \E st \in SessionStatuses :
       /\ Proceeds(sessionStatus[s], st)
       /\ sessionStatus' = [sessionStatus EXCEPT ![s] = st]
  /\ UNCHANGED <<invites, sessionDrive, sessionCandidate,
                 drives, req, call, revived>>

Revive(s) ==
  /\ SessionExists(s)
  /\ \E st \in SessionStatuses :
       /\ Revives(sessionStatus[s], st)
       /\ sessionStatus' = [sessionStatus EXCEPT ![s] = st]
  /\ revived' = TRUE
  /\ UNCHANGED <<invites, sessionDrive, sessionCandidate, drives, req, call>>

-----------------------------------------------------------------------------
(* Staff: invites *)

\* createInvite, and each row of processBulkCandidates.
CreateInvite(i, d, c) ==
  /\ inviteStatus[i] = "unborn" /\ d \in drives
  /\ inviteStatus'    = [inviteStatus EXCEPT ![i] = "PENDING"]
  /\ inviteDrive'     = [inviteDrive EXCEPT ![i] = d]
  /\ inviteCandidate' = [inviteCandidate EXCEPT ![i] = c]
  /\ UNCHANGED <<expired, inviteSession, sessions, drives, req, call, revived>>

\* listInvites marks the expired PENDING rows, in one conditional statement.
ListInvites ==
  /\ inviteStatus' =
       Put(inviteStatus,
           {i \in Invite : inviteStatus[i] = "PENDING" /\ expired[i]}, "EXPIRED")
  /\ UNCHANGED <<expired, inviteSession, inviteDrive, inviteCandidate, sessions,
                 drives, req, call, revived>>

\* The invites of a call that its statement still finds.
Found(a) == {i \in call[a].invites : InviteExists(i)}

\* revokeInvite, and each step of bulkRevoke: only a PENDING invite is revoked.
RevokeRead(a, i) ==
  /\ call[a].task = "idle" /\ inviteStatus[i] = "PENDING"
  /\ call' = [call EXCEPT ![a] = [NoCall EXCEPT !.task = "revoke", !.invites = {i}]]
  /\ UNCHANGED <<invites, sessions, drives, req, revived>>

RevokeWrite(a) ==
  /\ call[a].task = "revoke"
  /\ inviteStatus' = Put(inviteStatus, Found(a), "REVOKED")
  /\ call' = [call EXCEPT ![a] = NoCall]
  /\ UNCHANGED <<expired, inviteSession, inviteDrive, inviteCandidate, sessions,
                 drives, req, revived>>

\* extendExpiry writes back the status it read.
ExtendRead(a, i) ==
  /\ call[a].task = "idle" /\ InviteExists(i)
  /\ call' = [call EXCEPT ![a] = [NoCall EXCEPT !.task = "extend", !.invites = {i},
                                                !.status = inviteStatus[i]]]
  /\ UNCHANGED <<invites, sessions, drives, req, revived>>

\* past: the new expiry date is already over.
ExtendWrite(a, past) ==
  /\ call[a].task = "extend"
  /\ LET written == IF ~past /\ call[a].status \in {"PENDING", "EXPIRED"}
                      THEN "PENDING" ELSE call[a].status
     IN  /\ inviteStatus' = Put(inviteStatus, Found(a), written)
         /\ expired'      = Put(expired, Found(a), past)
  /\ call' = [call EXCEPT ![a] = NoCall]
  /\ UNCHANGED <<inviteSession, inviteDrive, inviteCandidate, sessions,
                 drives, req, revived>>

\* Mutant of Regenerate: the new link forgets the session.
RegenerateAfresh(i) ==
  /\ InviteExists(i)
  /\ inviteStatus'  = [inviteStatus EXCEPT ![i] = "PENDING"]
  /\ inviteSession' = [inviteSession EXCEPT ![i] = None]
  /\ UNCHANGED <<expired, inviteDrive, inviteCandidate, sessions,
                 drives, req, call, revived>>

\* regenerateToken and bulkResend: PENDING again, from any status.
Regenerate(i) ==
  /\ InviteExists(i)
  /\ inviteStatus' = [inviteStatus EXCEPT ![i] = "PENDING"]
  /\ UNCHANGED <<expired, inviteSession, inviteDrive, inviteCandidate, sessions,
                 drives, req, call, revived>>

\* One update of generateLinks; they run beside its transaction, one by one.
GenerateLink(i) ==
  /\ InviteExists(i) /\ inviteDrive[i] # None
  /\ expired' = [expired EXCEPT ![i] = FALSE]
  /\ UNCHANGED <<inviteStatus, inviteSession, inviteDrive, inviteCandidate,
                 sessions, drives, req, call, revived>>

\* Rows gone with whatever they refer to; the sessions stay.  The candidate
\* stays in the model for the calls that have read it.
DeleteRows(I) ==
  /\ inviteStatus'  = Put(inviteStatus, I, "deleted")
  /\ expired'       = Put(expired, I, FALSE)
  /\ inviteSession' = Put(inviteSession, I, None)
  /\ inviteDrive'   = Put(inviteDrive, I, None)

\* deleteInvite and bulkDelete.
DeleteInvites(I) ==
  /\ I # {} /\ \A i \in I : InviteExists(i)
  /\ DeleteRows(I)
  /\ UNCHANGED <<inviteCandidate, sessions, drives, req, call, revived>>

-----------------------------------------------------------------------------
(* Staff: drives *)

\* removeCandidateFromDrive finds the candidate's invites in the drive, or one
\* of them when called with its id ...
RemoveRead(a, d, c) ==
  /\ call[a].task = "idle" /\ d \in drives
  /\ LET theirs == {i \in Invite : InviteExists(i) /\ inviteDrive[i] = d
                                                   /\ inviteCandidate[i] = c}
     IN  \E I \in {theirs} \cup {{i} : i \in theirs} :
           /\ I # {}
           /\ call' = [call EXCEPT ![a] = [NoCall EXCEPT !.task = "remove",
                                             !.invites = I, !.drive = d]]
  /\ UNCHANGED <<invites, sessions, drives, req, revived>>

\* ... and in one transaction abandons their sessions and deletes the invites.
RemoveWrite(a) ==
  /\ call[a].task = "remove"
  /\ LET who == {inviteCandidate[i] : i \in call[a].invites}
     IN  sessionStatus' = Put(sessionStatus,
           {s \in Session : IsActive(s) /\ sessionDrive[s] = call[a].drive
                                       /\ sessionCandidate[s] \in who}, "ABANDONED")
  /\ DeleteRows(Found(a))
  /\ call' = [call EXCEPT ![a] = NoCall]
  /\ UNCHANGED <<inviteCandidate, sessionDrive, sessionCandidate,
                 drives, req, revived>>

\* delete(drive) reads its invites and their sessions before its transaction.
DriveRead(a, d) ==
  /\ call[a].task = "idle" /\ d \in drives
  /\ LET its == {i \in Invite : InviteExists(i) /\ inviteDrive[i] = d}
     IN  call' = [call EXCEPT ![a] =
           [NoCall EXCEPT !.task = "delete", !.drive = d, !.invites = its,
                          !.sessions = {inviteSession[i] : i \in its} \ {None}]]
  /\ UNCHANGED <<invites, sessions, drives, req, revived>>

\* Sessions, invites and the drive go in one transaction; foreign keys clear
\* what an invite that was not on the list still refers to.
DriveWrite(a) ==
  /\ call[a].task = "delete" /\ call[a].drive \in drives
  /\ LET d    == call[a].drive
         gone == call[a].sessions
                   \cup {s \in Session : SessionExists(s) /\ sessionDrive[s] = d}
     IN  /\ inviteStatus'  = Put(inviteStatus, Found(a), "deleted")
         /\ expired'       = Put(expired, Found(a), FALSE)
         /\ inviteSession' = Put(inviteSession,
              Found(a) \cup {i \in Invite : inviteSession[i] \in gone}, None)
         /\ inviteDrive'   = Put(inviteDrive,
              Found(a) \cup {i \in Invite : inviteDrive[i] = d}, None)
         /\ sessionStatus' = Put(sessionStatus, gone, "deleted")
         /\ sessionDrive'  = Put(sessionDrive, gone, None)
         /\ sessionCandidate' = Put(sessionCandidate, gone, None)
         /\ drives' = drives \ {d}
  /\ call' = [call EXCEPT ![a] = NoCall]
  /\ UNCHANGED <<inviteCandidate, req, revived>>

-----------------------------------------------------------------------------
(* Time and failures *)

Expire(i) ==
  /\ InviteExists(i) /\ ~expired[i]
  /\ expired' = [expired EXCEPT ![i] = TRUE]
  /\ UNCHANGED <<inviteStatus, inviteSession, inviteDrive, inviteCandidate,
                 sessions, drives, req, call, revived>>

\* A call rejects, or the process restarts: what was read is forgotten.
FailStart(r) ==
  /\ req[r].step # "idle"
  /\ req' = [req EXCEPT ![r] = NoReq]
  /\ UNCHANGED <<invites, sessions, drives, call, revived>>

FailCall(a) ==
  /\ call[a].task # "idle"
  /\ call' = [call EXCEPT ![a] = NoCall]
  /\ UNCHANGED <<invites, sessions, drives, req, revived>>

-----------------------------------------------------------------------------
(* Specification *)

StartSession(r) ==
  \/ \E i \in Invite : StartVerify(r, i)
  \/ StartFind(r) \/ StartLookup(r) \/ StartCreate(r) \/ StartRedeem(r)

StaffCall(a) ==
  \/ \E i \in Invite : RevokeRead(a, i) \/ ExtendRead(a, i)
  \/ \E d \in Drive : DriveRead(a, d) \/ \E c \in Candidate : RemoveRead(a, d, c)
  \/ \E past \in BOOLEAN : ExtendWrite(a, past)
  \/ RevokeWrite(a) \/ RemoveWrite(a) \/ DriveWrite(a)

StaffStatement ==
  \/ \E i \in Invite :
       \/ Regenerate(i) \/ GenerateLink(i)
       \/ \E d \in Drive, c \in Candidate : CreateInvite(i, d, c)
  \/ \E I \in SUBSET Invite : DeleteInvites(I)
  \/ ListInvites

SessionStep(s) == Progress(s) \/ Revive(s)

Next ==
  \/ \E r \in Starter : StartSession(r) \/ FailStart(r)
  \/ \E a \in Staff : StaffCall(a) \/ FailCall(a)
  \/ StaffStatement
  \/ \E s \in Session : SessionStep(s)
  \/ \E i \in Invite : Expire(i)

Spec == Init /\ [][Next]_vars

-----------------------------------------------------------------------------
(* Safety *)

Reqs ==
  [step : {"idle", "find", "lookup", "create", "redeem"},
   invite : Invite \cup {None}, candidate : Candidate \cup {None},
   drive : Drive \cup {None}, session : Session \cup {None}]

Calls ==
  [task : {"idle", "revoke", "extend", "remove", "delete"},
   invites : SUBSET Invite, status : InviteStatuses \cup {None},
   drive : Drive \cup {None}, sessions : SUBSET Session]

InvitesOK ==
  /\ inviteStatus    \in [Invite -> InviteStatuses \cup NoRow]
  /\ expired         \in [Invite -> BOOLEAN]
  /\ inviteSession   \in [Invite -> Session \cup {None}]
  /\ inviteDrive     \in [Invite -> Drive \cup {None}]
  /\ inviteCandidate \in [Invite -> Candidate \cup {None}]

SessionsOK ==
  /\ sessionStatus    \in [Session -> SessionStatuses \cup NoRow]
  /\ sessionDrive     \in [Session -> Drive \cup {None}]
  /\ sessionCandidate \in [Session -> Candidate \cup {None}]

\* Every column and every value a handler has read has its type.
TypeOK ==
  /\ InvitesOK /\ SessionsOK
  /\ drives \subseteq Drive /\ revived \in BOOLEAN
  /\ req \in [Starter -> Reqs] /\ call \in [Staff -> Calls]

\* startSession writes REDEEMED and the session together, and extendExpiry may
\* write a REDEEMED it read long before: still, a REDEEMED invite refers to a
\* session, unless its drive was deleted and took the session with it.
RedeemedIsLinked ==
  \A i \in Invite :
    inviteStatus[i] = "REDEEMED" => inviteSession[i] # None \/ inviteDrive[i] = None

\* The session an invite refers to exists and is of the invite's own candidate
\* and drive, though startSession reads the drive, creates the session and
\* links it in separate calls while drives are deleted and links re-issued.
LinkedSessionMatches ==
  \A i \in Invite :
    InviteExists(i) /\ inviteSession[i] # None =>
      LET s == inviteSession[i]
      IN  /\ SessionExists(s)
          /\ sessionCandidate[s] = inviteCandidate[i]
          /\ sessionDrive[s] = inviteDrive[i]

\* startSession calls do not overlap, and no session that was over goes on.
Undisturbed == ~revived /\ \A q, r \in Starter : q = r

\* A candidate has one active session at a time, whatever staff do and however
\* many invites the candidate has, when startSession calls do not overlap.
NoTwins(c) ==
  \A s, t \in Session :
    IsActive(s) /\ IsActive(t) /\ sessionCandidate[s] = c /\ sessionCandidate[t] = c
      => s = t

OneActiveSession == Undisturbed => \A c \in Candidate : NoTwins(c)

\* An invite is never taken away from a session that is still active.
KeepsLink(i, s) ==
  inviteSession[i] = s /\ IsActive(s) /\ IsActive(s)' /\ InviteExists(i)'
    => inviteSession'[i] = s

ActiveLinkKept ==
  [][Undisturbed => \A i \in Invite, s \in Session : KeepsLink(i, s)]_vars

-----------------------------------------------------------------------------
(* What the repository's texts promise and the code does not keep *)

\* Launch plan: a second tab or device redeeming the same link attaches to the
\* existing session rather than forking a new one.
SingleActiveSession == \A c \in Candidate : NoTwins(c)
=============================================================================
