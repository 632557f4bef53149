---------------------------- MODULE MCDumpFiles ----------------------------
(* DumpFiles with two paths, the name of one beginning with the other's,   *)
(* and numbers in base 2 that outgrow their two digits.                    *)
EXTENDS DumpFiles

CONSTANTS p1, p2

MCPaths == {p1, p2}
MCLonger == {<<p1, p2>>}
MCBefore == {<<p1, p2>>}
=============================================================================
