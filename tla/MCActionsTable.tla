--------------------------- MODULE MCActionsTable ---------------------------
(* ActionsTable on a ring of three rows that wraps.                        *)
EXTENDS ActionsTable, TLC

CONSTANTS w1, w2, c1, start, stop

MCWriters == {w1, w2}
MCCursors == {c1}
MCActions == {start, stop}

\* Writers are interchangeable.
Symmetry == Permutations(MCWriters)
=============================================================================
