---------------------------- MODULE MCLifecycle ----------------------------
(* Lifecycle with two sessions.                                            *)
EXTENDS Lifecycle

CONSTANTS s1, s2

MCSessions == {s1, s2}

\* Sessions are interchangeable.
Symmetry == Permutations(MCSessions)
=============================================================================
