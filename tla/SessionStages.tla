---------------------------- MODULE SessionStages ----------------------------
(***************************************************************************)
(* What the modules that do not follow the handlers of a session know of   *)
(* its status: a few stages, and how one may become another.  This is what *)
(* InviteRedemption relies on and SessionLifecycle is shown to guarantee.  *)
(***************************************************************************)

\* IN_PROGRESS stands for DISCONNECTED as well, SUBMITTED for AUTO_SUBMITTED.
SessionStatuses == {"NOT_STARTED", "IN_PROGRESS", "SUBMITTED", "ABANDONED"}
Active          == {"NOT_STARTED", "IN_PROGRESS"}

StageOf(st) ==
  CASE st = "DISCONNECTED"   -> "IN_PROGRESS"
    [] st = "AUTO_SUBMITTED" -> "SUBMITTED"
    [] OTHER                 -> st

\* An active session goes on; any may be finished, also one that was abandoned
\* after the handler had read it.
Proceeds(from, to) == to = "SUBMITTED" \/ (from \in Active /\ to = "IN_PROGRESS")

\* A run takes up an AUTO_SUBMITTED session, and a handler that read an active
\* one writes IN_PROGRESS or DISCONNECTED whatever has become of it since.
Revives(from, to) == from \in {"SUBMITTED", "ABANDONED"} /\ to = "IN_PROGRESS"

\* The candidate is removed from the drive.
Removes(from, to) == from \in Active /\ to = "ABANDONED"

MayBecome(from, to) ==
  from = to \/ Proceeds(from, to) \/ Revives(from, to) \/ Removes(from, to)
=============================================================================
