------------------------- MODULE MCJemallocProfiler -------------------------
(* JemallocProfiler with two sessions and two dump paths.                  *)
EXTENDS JemallocProfiler, TLC

CONSTANTS s1, s2, p1, p2

MCSessions == {s1, s2}
MCPaths == {p1, p2}

\* Sessions are interchangeable, and so are paths.
Symmetry == Permutations(MCSessions) \cup Permutations(MCPaths)
=============================================================================
