------------------------------ MODULE MCGrading ------------------------------
(* An instance of Grading for TLC, on model values. *)
EXTENDS Grading, Integers, TLC

CONSTANTS code, sql, mcq, ai, sim, t1, e1, e2, r1, r2, g1, g2, a1, a2, o1, o2, NULL

OneCoding     == {code}
OneSql        == {sql}
OneMcq        == {mcq}
OnePrompting  == {ai}
OneSimulation == {sim}
OneText       == {t1}
TwoExecutions == {e1, e2}
TwoCallers    == {r1, r2}
TwoGraders    == {g1, g2}
TwoStaff      == {a1, a2}
TwoOutcomes   == {o1, o2}

\* Ids and slots are interchangeable.
Interchangeable ==
  Permutations(TwoExecutions) \cup Permutations(TwoCallers)
    \cup Permutations(TwoGraders) \cup Permutations(TwoStaff)
    \cup Permutations(TwoOutcomes)

\* Bounds: of the candidate's requests, the closings and the decisions no more
\* than two are in flight at a time, and only decisions are once a grading has
\* failed.  Two executions of one question, or two questions that are executed,
\* but one of one once there is a score; none while two decisions overlap, and
\* one call at a time once one is recorded.
WorkedOn ==
  {q \in Question : answer[q] # None \/ Rows(q) # {} \/ \E r \in Caller : req[r].q = q}

Executed == {e \in Execution : exec[e] # NoExec}

Busy(slots, state) == Cardinality({x \in slots : state[x].step # "idle"})

InFlight == Busy(Caller, req) + Busy(Grader, grade) + Busy(Staff, call)

Bounded ==
  /\ InFlight <= 2
  /\ failed => Busy(Caller, req) + Busy(Grader, grade) = 0
  /\ Cardinality(WorkedOn) = 2 => WorkedOn \subseteq Checked
  /\ Cardinality(WorkedOn) + Cardinality(Executed) <=
       (IF score = None /\ Busy(Staff, call) = 0 THEN 3 ELSE 2)
  /\ Busy(Staff, call) = 2 => Executed = {}
  /\ decision # None => InFlight <= 1 \/ WorkedOn = {}
=============================================================================
