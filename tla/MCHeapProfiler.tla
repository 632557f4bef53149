--------------------------- MODULE MCHeapProfiler ---------------------------
(* HeapProfiler with the sessions, the timer and the paths of a cfg.       *)
EXTENDS HeapProfiler, TLC

CONSTANTS s1, s2, t1, p1, p2

TwoSessions == {s1, s2}
OneSession == {s1}
OneTimer == {t1}
OnePath == {p1}
TwoPaths == {p1, p2}

\* Sessions are interchangeable; for runs without liveness properties.
Symmetry == Permutations(TwoSessions)
=============================================================================
