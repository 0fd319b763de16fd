----------------------------- MODULE UploadQueue -----------------------------
(***************************************************************************)
(* What the evidence of a session is promised, without requests, replies,  *)
(* handlers, objects or rows: a queue with at-least-once delivery and, as  *)
(* long as it is not cut off, one worker.  An item is tried at once, then  *)
(* a bounded number of times out of the queue, then reported without its   *)
(* clip; it may be recorded at any moment after it was submitted, also     *)
(* while it is thought to have failed, and it is done with only when it    *)
(* is.  A queue that is cut off may lose the items that wait in it.        *)
(***************************************************************************)
EXTENDS Integers

CONSTANTS Item, MaxTries

VARIABLES
  phase,     \* of each item
  tries,     \* the failures counted so far
  recorded,  \* the items that are recorded
  cut        \* the queue has been cut off from its worker, or emptied

vars == <<phase, tries, recorded, cut>>

Init ==
  /\ phase = [i \in Item |-> "new"]
  /\ tries = [i \in Item |-> 0]
  /\ recorded = {}
  /\ cut = FALSE

Submit(i) ==
  /\ phase[i] = "new"
  /\ phase' = [phase EXCEPT ![i] = "first"]
  /\ UNCHANGED <<tries, recorded, cut>>

\* The worker takes an item when it is at no other; once the queue has been cut
\* off, a second worker may be at it.
Take(i) ==
  /\ phase[i] = "waiting"
  /\ cut \/ \A j \in Item : phase[j] \notin {"again", "last"}
  /\ phase' = [phase EXCEPT ![i] = "again"]
  /\ UNCHANGED <<tries, recorded, cut>>

\* A try fails; the last one leaves the report.
Fail(i) ==
  /\ \/ /\ phase[i] = "first"
        /\ phase' = [phase EXCEPT ![i] = "waiting"]
        /\ tries' = [tries EXCEPT ![i] = 1]
     \/ /\ phase[i] = "again" /\ tries[i] < MaxTries
        /\ phase' = [phase EXCEPT ![i] = "waiting"]
        /\ tries' = [tries EXCEPT ![i] = tries[i] + 1]
     \/ /\ phase[i] = "again" /\ tries[i] = MaxTries
        /\ phase' = [phase EXCEPT ![i] = "last"]
        /\ UNCHANGED tries
     \/ /\ phase[i] = "last"
        /\ phase' = [phase EXCEPT ![i] = "dropped"]
        /\ UNCHANGED tries
  /\ UNCHANGED <<recorded, cut>>

Record(i) ==
  /\ phase[i] # "new"
  /\ recorded' = recorded \cup {i}
  /\ UNCHANGED <<phase, tries, cut>>

\* A try, or the report, succeeds.
Complete(i) ==
  /\ phase[i] \in {"first", "again", "last"}
  /\ phase' = [phase EXCEPT ![i] = "done"]
  /\ recorded' = recorded \cup {i}
  /\ UNCHANGED <<tries, cut>>

\* The queue is cut off: items that wait are given up, if any do.
CutOff(lost) ==
  /\ \A i \in lost : phase[i] = "waiting"
  /\ phase' = [i \in Item |-> IF i \in lost THEN "dropped" ELSE phase[i]]
  /\ cut' = TRUE
  /\ UNCHANGED <<tries, recorded>>

Next ==
  \/ \E i \in Item : Submit(i) \/ Take(i) \/ Fail(i) \/ Record(i) \/ Complete(i)
  \/ \E lost \in SUBSET Item : CutOff(lost)

Spec == Init /\ [][Next]_vars
=============================================================================
