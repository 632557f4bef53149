-------------------------- MODULE JemallocProfiler --------------------------
(***************************************************************************)
(* The component profiler_jemalloc_memory (jemalloc_memory.cc):            *)
(* memprof_jemalloc_start(), _stop(), _dump() and _report() called by      *)
(* several sessions.                                                       *)
(*                                                                         *)
(* The component numbers its dumps itself and names each file it asks      *)
(* jemalloc to write, so what protects a dump from being overwritten is    *)
(* the component's own bookkeeping: the path, the number, and the check of *)
(* p.0001.heap when a profile is started.  jemalloc is external: writing   *)
(* prof.active switches it on or off, prof.dump writes (or truncates) the  *)
(* file it is given, and either may fail.  A call refused before it        *)
(* changes anything is a guard.                                            *)
(***************************************************************************)
EXTENDS Naturals

CONSTANTS Sessions,  \* client sessions
          Paths,     \* values of profiler.dump_path; none a prefix of another
          NoPath,    \* the empty path
          MaxDump    \* bound: the last number of a dump

ASSUME NoPathAssumption == NoPath \notin Paths
ASSUME MaxDumpAssumption == MaxDump \in Nat

VARIABLES
  dump_path,                  \* the system variable profiler.dump_path
  memprof_jemalloc_dump_path,
  memprof_jemalloc_status,
  dump_count,
  active,                     \* jemalloc's prof.active
  files,                      \* files[p]: the n for which p.000n.heap exists
  pc,                         \* where each session is
  path, number,               \* locals of a call: a path, a dump's number
  \* history
  overlap,                    \* two calls have run side by side
  meddled                     \* since the last start that went on, another one
                              \* has failed after it had changed something, or
                              \* profiler_cleanup has removed the dumps of the
                              \* running profile, or tcmalloc has added some;
                              \* or that start found old dumps

component == <<memprof_jemalloc_dump_path, memprof_jemalloc_status, dump_count>>
outside == <<dump_path, active, files>>
locals == <<path, number>>
history == <<overlap, meddled>>
vars == <<component, outside, pc, locals, history>>

Points == {"idle", "assign", "check_file", "reset", "activate", "check_status",
           "running", "deactivate", "stopped", "prepared", "write", "count",
           "report", "jeprof"}

\* Any dumps may have been left by earlier runs of the server, by its tcmalloc
\* profiler, which names its files alike, or by a profile cleaned up under way.
Init ==
  /\ dump_path \in Paths
  /\ memprof_jemalloc_dump_path = NoPath
  /\ memprof_jemalloc_status = "STOPPED"
  /\ dump_count = 0
  /\ active = FALSE
  /\ files \in [Paths -> SUBSET (1..MaxDump)]
  /\ pc = [s \in Sessions |-> "idle"]
  /\ path = [s \in Sessions |-> NoPath]
  /\ number = [s \in Sessions |-> 0]
  /\ overlap = FALSE
  /\ meddled = FALSE

-----------------------------------------------------------------------------
Goto(s, from, to) ==
  /\ pc[s] = from
  /\ pc' = [pc EXCEPT ![s] = to]

Enter(s, at) ==
  /\ Goto(s, "idle", at)
  /\ overlap' = (overlap \/ \E t \in Sessions \ {s} : pc[t] # "idle")
  /\ UNCHANGED meddled

\* A start that fails after it has replaced the path and the number.
Fail(s, from) ==
  /\ Goto(s, from, "idle")
  /\ meddled' = TRUE
  /\ UNCHANGED overlap

-----------------------------------------------------------------------------
(* memprof_jemalloc_start() *)

\* profiler_var.get("dump_path") into a local buffer.
StartCall(s) ==
  /\ Enter(s, "assign")
  /\ path' = [path EXCEPT ![s] = dump_path]
  /\ UNCHANGED <<component, outside, number>>

AssignPath(s) ==
  /\ Goto(s, "assign", "check_file")
  /\ memprof_jemalloc_dump_path' = path[s]
  /\ path' = [path EXCEPT ![s] = NoPath]
  /\ meddled' = (meddled \/ path[s] # memprof_jemalloc_dump_path)
  /\ UNCHANGED <<memprof_jemalloc_status, dump_count, outside, number, overlap>>

\* The start goes on; there may be dumps that a check for number 1 cannot see.
GoOn(s) ==
  /\ Goto(s, "check_file", "reset")
  /\ meddled' = (files[memprof_jemalloc_dump_path] \ {1} # {})
  /\ UNCHANGED overlap

\* A defective CheckFile: the first dump is not looked for.
CheckNothing(s) ==
  /\ GoOn(s)
  /\ UNCHANGED <<component, outside, locals>>

\* Only p.0001.heap is looked for.
CheckFile(s) ==
  /\ pc[s] = "check_file"
  /\ IF 1 \in files[memprof_jemalloc_dump_path]
     THEN Goto(s, "check_file", "idle") /\ UNCHANGED history
     ELSE GoOn(s)
  /\ UNCHANGED <<component, outside, locals>>

\* A defective ResetCount: the numbers go on from the profile before.
CountGoesOn(s) ==
  /\ Goto(s, "reset", "activate")
  /\ dump_count' = IF dump_count = 0 THEN 1 ELSE dump_count
  /\ UNCHANGED <<memprof_jemalloc_dump_path, memprof_jemalloc_status, outside,
                 locals, history>>

\* Done before it is known whether a profile is running.
ResetCount(s) ==
  /\ Goto(s, "reset", "activate")
  /\ dump_count' = 1
  /\ UNCHANGED <<memprof_jemalloc_dump_path, memprof_jemalloc_status, outside,
                 locals, history>>

\* mallctl("prof.active", true).
Activate(s) ==
  /\ \/ Fail(s, "activate") /\ UNCHANGED active
     \/ Goto(s, "activate", "check_status") /\ active' = TRUE /\ UNCHANGED history
  /\ UNCHANGED <<component, dump_path, files, locals>>

CheckStatus(s) ==
  /\ IF memprof_jemalloc_status = "STOPPED"
     THEN Goto(s, "check_status", "running") /\ UNCHANGED history
     ELSE Fail(s, "check_status")
  /\ UNCHANGED <<component, outside, locals>>

SetRunning(s) ==
  /\ Goto(s, "running", "idle")
  /\ memprof_jemalloc_status' = "RUNNING"
  /\ UNCHANGED <<memprof_jemalloc_dump_path, dump_count, outside, locals, history>>

-----------------------------------------------------------------------------
(* memprof_jemalloc_stop() *)

StopCall(s) ==
  /\ memprof_jemalloc_status # "STOPPED"
  /\ Enter(s, "deactivate")
  /\ UNCHANGED <<component, outside, locals>>

\* A defective Deactivate: the wrong value is written.
DeactivateNothing(s) ==
  /\ Goto(s, "deactivate", "stopped")
  /\ UNCHANGED <<component, outside, locals, history>>

\* mallctl("prof.active", false); the call ends if that fails.
Deactivate(s) ==
  /\ \/ Goto(s, "deactivate", "idle") /\ UNCHANGED active
     \/ Goto(s, "deactivate", "stopped") /\ active' = FALSE
  /\ UNCHANGED <<component, dump_path, files, locals, history>>

\* A defective SetStopped: a status nothing recognises.
StatusMisspelt(s) ==
  /\ Goto(s, "stopped", "idle")
  /\ memprof_jemalloc_status' = "STOPED"
  /\ UNCHANGED <<memprof_jemalloc_dump_path, dump_count, outside, locals, history>>

SetStopped(s) ==
  /\ Goto(s, "stopped", "idle")
  /\ memprof_jemalloc_status' = "STOPPED"
  /\ UNCHANGED <<memprof_jemalloc_dump_path, dump_count, outside, locals, history>>

-----------------------------------------------------------------------------
(* memprof_jemalloc_dump(): the status is looked at when the statement is  *)
(* prepared, the function runs once per row of it.                         *)

DumpInit(s) ==
  /\ memprof_jemalloc_status # "STOPPED"
  /\ Enter(s, "prepared")
  /\ UNCHANGED <<component, outside, locals>>

\* The file name is built from the path and the number.
DumpCall(s) ==
  /\ dump_count \in 1..MaxDump
  /\ Goto(s, "prepared", "write")
  /\ path' = [path EXCEPT ![s] = memprof_jemalloc_dump_path]
  /\ number' = [number EXCEPT ![s] = dump_count]
  /\ UNCHANGED <<component, outside, history>>

\* mallctl("prof.dump"): if it fails nothing is counted.
WriteDump(s) ==
  /\ \/ Goto(s, "write", "prepared") /\ UNCHANGED files
     \/ /\ Goto(s, "write", "count")
        /\ files' = [files EXCEPT ![path[s]] = @ \cup {number[s]}]
  /\ path' = [path EXCEPT ![s] = NoPath]
  /\ number' = [number EXCEPT ![s] = 0]
  /\ UNCHANGED <<component, dump_path, active, history>>

\* ++dump_count on a plain int: of two at once, one may be lost.
Count(s) ==
  /\ Goto(s, "count", "prepared")
  /\ \/ dump_count' = dump_count + 1
     \/ (\E t \in Sessions \ {s} : pc[t] = "count") /\ UNCHANGED dump_count
  /\ UNCHANGED <<memprof_jemalloc_dump_path, memprof_jemalloc_status, outside,
                 locals, history>>

\* The statement has no more rows.
DumpDeinit(s) ==
  /\ Goto(s, "prepared", "idle")
  /\ UNCHANGED <<component, outside, locals, history>>

-----------------------------------------------------------------------------
(* memprof_jemalloc_report() *)

ReportCall(s) ==
  /\ memprof_jemalloc_status = "STOPPED"
  /\ Enter(s, "report")
  /\ UNCHANGED <<component, outside, locals>>

\* jeprof reads every dump of the path.
RunJeprof(s) ==
  /\ Goto(s, "report", "jeprof")
  /\ path' = [path EXCEPT ![s] = memprof_jemalloc_dump_path]
  /\ UNCHANGED <<component, outside, number, history>>

\* The report is returned; or mysqld or jeprof was not found.
ReportEnds(s) ==
  /\ pc[s] \in {"report", "jeprof"}
  /\ pc' = [pc EXCEPT ![s] = "idle"]
  /\ path' = [path EXCEPT ![s] = NoPath]
  /\ UNCHANGED <<component, outside, number, history>>

-----------------------------------------------------------------------------
(* The other components, at any moment. *)

\* The tcmalloc profiler writes a dump; its files have the same names.
HeapDump(p, n) ==
  /\ files' = [files EXCEPT ![p] = @ \cup {n}]
  /\ meddled' = (meddled \/ p = memprof_jemalloc_dump_path)
  /\ UNCHANGED <<component, dump_path, active, pc, locals, overlap>>

\* SET GLOBAL profiler.dump_path.
SetDumpPath(p) ==
  /\ dump_path' = p
  /\ UNCHANGED <<component, active, files, pc, locals, history>>

\* profiler_cleanup() removes the files of profiler.dump_path.
Cleanup ==
  /\ files' = [files EXCEPT ![dump_path] = {}]
  /\ meddled' = \/ meddled
                 \/ /\ memprof_jemalloc_status = "RUNNING"
                    /\ memprof_jemalloc_dump_path = dump_path
  /\ overlap' = (overlap \/ \E s \in Sessions : pc[s] # "idle")
  /\ UNCHANGED <<component, dump_path, active, pc, locals>>

-----------------------------------------------------------------------------
Start(s) ==
  \/ StartCall(s) \/ AssignPath(s) \/ CheckFile(s) \/ ResetCount(s)
  \/ Activate(s) \/ CheckStatus(s) \/ SetRunning(s)

Stop(s) == StopCall(s) \/ Deactivate(s) \/ SetStopped(s)

Dump(s) == DumpInit(s) \/ DumpCall(s) \/ WriteDump(s) \/ Count(s) \/ DumpDeinit(s)

Report(s) == ReportCall(s) \/ RunJeprof(s) \/ ReportEnds(s)

Next ==
  \/ \E s \in Sessions : Start(s) \/ Stop(s) \/ Dump(s) \/ Report(s)
  \/ \E p \in Paths : SetDumpPath(p)
  \/ \E p \in Paths : \E n \in 1..MaxDump : HeapDump(p, n)
  \/ Cleanup

Spec == Init /\ [][Next]_vars

-----------------------------------------------------------------------------
(* Properties *)

TypeOK ==
  /\ dump_path \in Paths
  /\ memprof_jemalloc_dump_path \in Paths \cup {NoPath}
  /\ memprof_jemalloc_status \in {"STOPPED", "RUNNING"}
  /\ dump_count \in Nat
  /\ active \in BOOLEAN
  /\ files \in [Paths -> SUBSET (1..MaxDump)]
  /\ pc \in [Sessions -> Points]
  /\ path \in [Sessions -> Paths \cup {NoPath}]
  /\ number \in [Sessions -> 0..MaxDump]
  /\ overlap \in BOOLEAN /\ meddled \in BOOLEAN

\* While calls do not overlap, between calls the status says whether jemalloc
\* is sampling, also after starts that failed half way.
StatusMatchesActive ==
  ~overlap /\ (\A s \in Sessions : pc[s] = "idle") =>
    (active <=> memprof_jemalloc_status = "RUNNING")

\* While calls do not overlap, a dump never overwrites a file, although only
\* number 1 is looked for, and only at the start.  Exceptions: the start found
\* dumps without number 1; a start since then has failed after it had changed
\* the path; the dumps of the running profile were cleaned up, or tcmalloc's
\* profiler added to them.
NeverOverwrites ==
  ~overlap /\ ~meddled =>
    \A s \in Sessions : pc[s] = "write" => number[s] \notin files[path[s]]

\* With the same exceptions a report covers the dumps of the last profile, all
\* of them (or none, when they have been cleaned up) and no others.
ReportCoversLastProfile ==
  ~overlap /\ ~meddled =>
    \A s \in Sessions : pc[s] = "jeprof" /\ path[s] # NoPath =>
      files[path[s]] \in {{}, 1..(dump_count - 1)}

=============================================================================
