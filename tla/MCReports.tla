------------------------------ MODULE MCReports ------------------------------
(* Reports with ints of three bits: of the numbers, 0, 2 and -3 fit in one, *)
(* 5 becomes -3, and 10 becomes 2.  Of -3 no byte is zero.                  *)
EXTENDS Reports

MCNumbers == {-3, 0, 2, 5, 10}
MCFull == {-3}
==============================================================================
