----------------------------- MODULE ActionLog -----------------------------
(***************************************************************************)
(* What performance_schema.profiler_actions promises the rest of the       *)
(* profiler: a log of actions that keeps the most recent ones and holds at *)
(* most Rows of them.  Entries are numbered in the order in which they     *)
(* were recorded; the entries first .. next-1 are kept.  The oldest entry  *)
(* is given up only when the log is full.                                  *)
(*                                                                         *)
(* ActionsTable, the array of profiler_pfs.cc, implements this log.        *)
(***************************************************************************)
EXTENDS Integers

CONSTANTS Actions,  \* what can be recorded
          Rows      \* how many entries the log holds

VARIABLES first,    \* number of the oldest entry kept
          next,     \* number the next entry gets
          log       \* log[k] is the action of entry k

vars == <<first, next, log>>

Init ==
  /\ first = 0
  /\ next = 0
  /\ log \in [first..(next-1) -> Actions]

\* The oldest entry of a full log is given up.
Evict ==
  /\ next - first = Rows
  /\ first' = first + 1
  /\ log' = [k \in first'..(next-1) |-> log[k]]
  /\ UNCHANGED next

\* An action is recorded as the newest entry.
Record(a) ==
  /\ next - first < Rows
  /\ next' = next + 1
  /\ log' = [k \in first..next |-> IF k = next THEN a ELSE log[k]]
  /\ UNCHANGED first

Next == Evict \/ \E a \in Actions : Record(a)

Spec == Init /\ [][Next]_vars
=============================================================================
