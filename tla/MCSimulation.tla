----------------------------- MODULE MCSimulation -----------------------------
(* An instance of Simulation for TLC, on model values. *)
EXTENDS Simulation, Integers, TLC

CONSTANTS r1, r2, o1, o2, o3

TwoCallers   == {r1, r2}
ThreeObjects == {o1, o2, o3}

Interchangeable == Permutations(TwoCallers) \cup Permutations(ThreeObjects)

\* An object that nothing refers to is never read again.
Live == {cur} \cup {req[r].obj : r \in Caller}
Alive == [o \in Obj |-> IF o \in Live THEN heap[o] ELSE Fresh]
Seen == <<cur, Alive, events, snap, resp, req, told, lapses>>

\* Bounds: after a lapse, which nothing undoes, every property but TypeOK holds
\* by its condition, and the search ends.  What was said or replied is not sent
\* again; what overlaps are two requests of different kinds, out of those that do
\* not merely look or run a command.
Minor == {"open", "read", "command"}

Bounded ==
  /\ lapses = {}
  /\ \A r \in Caller : req[r].step # "idle" => req[r].kind \notin told
  /\ \A q, r \in Caller :
       q # r /\ req[q].step # "idle" /\ req[r].step # "idle" =>
         /\ req[q].kind # req[r].kind
         /\ req[q].kind \notin Minor
=============================================================================
