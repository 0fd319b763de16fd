---------------------------- MODULE MCCandidateApp ----------------------------
(* An instance of CandidateApp for TLC, on model values. *)
EXTENDS CandidateApp, TLC

CONSTANTS t1, t2, w1, w2, s1, s2, code, mail

OneTab      == {t1}
TwoTabs     == {t1, t2}
TwoSlots    == {w1, w2}
OneSession  == {s1}
TwoSessions == {s1, s2}
Programs    == {code}
Everything  == {code, mail}

\* Bounds.  What two tabs do to each other is followed before any time passes,
\* with one function under way and one reload, before anything is answered or
\* lost, and until a tab is forced back, after which OneTabWorks says nothing.
Conflict == tab[t2].id > 0

OneAtMost == \A v, w \in Work : ~Idle(v) /\ ~Idle(w) => v = w

Calm ==
  /\ now = 0 /\ ~forced
  /\ tab[t1].id + tab[t2].id <= 3
  /\ OneAtMost
  /\ \A s \in Session : sess[s].started # None => sess[s].begun
  /\ \A t \in Tab : tab[t].mem # None => tab[t].mem.answers = {}
  /\ \A w \in Work : work[w].clean /\ work[w].kind # "sync" /\ (Idle(w) \/ work[w].tab # None)

\* With one tab: late writes, a full localStorage, a second session and an answer
\* that is not sent are followed one at a time, and with one function under way,
\* or on the first page for late writes.  One decision about a session is on its
\* way at a time.
Late    == \E s \in Session : sess[s].since # None \/ pending[s] # {}
Refused == unsaved \/ (Opened(t1) /\ tab[t1].mem # stored)
Second  == sess[s2].status # "UNBORN"
Unsent  == \E t \in Tab : tab[t].mem # None /\ mail \in tab[t].mem.answers

Troubles == {x \in 1..4 : <<Late, Refused, Second, Unsent>>[x]}

Bounded ==
  /\ IF Conflict THEN Calm /\ Troubles = {} ELSE Cardinality(Troubles) <= 1
  /\ Troubles # {} => OneAtMost \/ (Late /\ tab[t1].id <= 1)
  /\ \A s \in Session : Cardinality(pending[s]) <= 1
=============================================================================
