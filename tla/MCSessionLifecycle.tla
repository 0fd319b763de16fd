------------------------- MODULE MCSessionLifecycle -------------------------
(* Instances of SessionLifecycle for TLC: one slot for a request in flight, *)
(* one monitor and one tab, as model values.                                *)
EXTENDS SessionLifecycle

CONSTANTS r1, m1, w, t1, NULL

OneRequest == {r1}
OneMonitor == {m1}
OneTab     == {t1}
=============================================================================
