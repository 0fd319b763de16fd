------------------------------ MODULE MCEvidence ------------------------------
(* An instance of Evidence for TLC, on model values. *)
EXTENDS Evidence, TLC

CONSTANTS i1, i2, h1, h2, l1, l2, u1, u2

TwoIncidents == {i1, i2}
TwoHandlers  == {h1, h2}
TwoLoops     == {l1, l2}
TwoRows      == {u1, u2}

\* Two incidents within one cooldown, on either side of a bucket's end.
Instants == [i \in TwoIncidents |-> IF i = i1 THEN 1 ELSE 2]

InService == {h \in Handler : handler[h].step # "idle"}

\* Requests that go on though nobody waits for them.
Orphans == {h \in InService : \A i \in Incident : client[i].on # h}

\* Two tries in all; cleanups while the server has no request.
BoundedTries ==
  /\ client[i1].tries + client[i2].tries <= 2
  /\ (\E c \in clips : c.expired) => InService = {}

\* What is left behind: a post kept in localStorage or a request nobody waits for,
\* and the record of a clip; when the queue has been cut off just one of the three,
\* and such a request while both loops are at work.
LeftBehind == Cardinality(outbox) + Cardinality(Orphans)

Bounded ==
  /\ BoundedTries
  /\ LeftBehind <= 1 /\ Cardinality(clips) <= 1
  /\ cut => /\ LeftBehind + Cardinality(clips) <= 1
            /\ Orphans # {} => \A l \in Loop : worker[l] # "idle"
=============================================================================
