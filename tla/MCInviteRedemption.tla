------------------------- MODULE MCInviteRedemption -------------------------
(* Instances of InviteRedemption for TLC, on model values. *)
EXTENDS InviteRedemption, TLC

CONSTANTS i1, i2, s1, s2, d1, d2, c1, r1, r2, a1, NULL

TwoInvites   == {i1, i2}
OneInvite    == {i1}
TwoSessions  == {s1, s2}
TwoDrives    == {d1, d2}
OneDrive     == {d1}
OneCandidate == {c1}
OneStarter   == {r1}
TwoStarters  == {r1, r2}
OneStaff     == {a1}

\* Ids are interchangeable.
Interchangeable ==
  Permutations(TwoInvites) \cup Permutations(TwoSessions) \cup Permutations(TwoDrives)
=============================================================================
