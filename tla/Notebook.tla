------------------------------- MODULE Notebook -------------------------------
(***************************************************************************)
(* What the simulation of a session promises to the candidate and to the   *)
(* recruiter, as if it had neither a memory to lose nor requests that      *)
(* overlap: whatever it notes stays noted, nobody is told of a note that   *)
(* is not there, and an evaluation has every text the candidate was told   *)
(* of.  A restart of the process is no step of it.  All of it is promised  *)
(* until the first lapse.                                                  *)
(***************************************************************************)
CONSTANTS
  Fact,   \* what may be noted
  Text    \* the facts that are texts of the candidate

VARIABLES
  noted,       \* the facts on file
  told,        \* the facts the candidate was told of
  evaluation,  \* the texts that each stored evaluation has: one or none
  lapsed

vars == <<noted, told, evaluation, lapsed>>

Init == noted = {} /\ told = {} /\ evaluation = {} /\ ~lapsed

\* A request is answered: in one step its facts are on file, with any that other
\* requests have brought, and the candidate is told of one of them.
Note ==
  /\ \E more \in SUBSET Fact : noted' = noted \cup more
  /\ \/ UNCHANGED told
     \/ \E f \in noted' :
          /\ told' = told \cup {f}
          /\ f \in Text => \A e \in evaluation : f \in e
  /\ UNCHANGED <<evaluation, lapsed>>

\* An evaluation is stored, or the one there was is replaced by other work.
Evaluate ==
  /\ \/ evaluation' = {}
     \/ \E e \in SUBSET Text : told \cap Text \subseteq e /\ evaluation' = {e}
  /\ UNCHANGED <<noted, told, lapsed>>

\* Nothing is promised from here on.
Lapse == lapsed'

Next == Note \/ Evaluate \/ Lapse

Spec == Init /\ [][Next]_vars
=============================================================================
