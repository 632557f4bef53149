----------------------------- MODULE CpuProfiler -----------------------------
(***************************************************************************)
(* The component profiler_cpu (cpu.cc): cpuprof_start(), cpuprof_stop()    *)
(* and cpuprof_report() called by several sessions.                        *)
(*                                                                         *)
(* The component keeps two globals, cpuprof_status and cpuprof_dump_path,  *)
(* and guards neither; the collector and its file belong to gperftools.  A *)
(* call is therefore split at each access to what the sessions share.      *)
(* A call refused before it changes anything (privilege, arguments, an     *)
(* unreadable system variable, a status that does not fit) leaves no trace *)
(* and is a guard here.                                                    *)
(***************************************************************************)
CONSTANTS Sessions,  \* client sessions
          Paths,     \* values of profiler.dump_path
          NoPath     \* the empty path

ASSUME NoPathAssumption == NoPath \notin Paths

VARIABLES
  dump_path,           \* the system variable profiler.dump_path
  cpuprof_dump_path,
  cpuprof_status,
  collector,           \* gperftools: the file being collected, or NoPath
  prof,                \* prof[p]: the state of the file p.prof
  pc,                  \* where each session is
  path,                \* the path a call holds in a local variable
  \* history
  overlap,             \* some start or stop has run beside another call
  replaced,            \* the last start replaced the path and began no profile
  finished             \* what the last ProfilerStop finished

shared  == <<dump_path, cpuprof_dump_path, cpuprof_status, collector, prof>>
history == <<overlap, replaced, finished>>
vars == <<shared, pc, path, history>>

Control == {"assign", "build", "check", "begin", "running", "log_started",
            "stopping", "stopped", "build_stopped", "log_stopped"}
Reporting == {"report", "pprof"}

Init ==
  /\ dump_path \in Paths
  /\ cpuprof_dump_path = NoPath
  /\ cpuprof_status = "STOPPED"
  /\ collector = NoPath
  /\ prof \in [Paths -> {"none", "complete"}]  \* files of earlier server runs
  /\ pc = [s \in Sessions |-> "idle"]
  /\ path = [s \in Sessions |-> NoPath]
  /\ overlap = FALSE
  /\ replaced = FALSE
  /\ finished = NoPath

-----------------------------------------------------------------------------
\* Session s goes from one point of its call to the next; at the end of the
\* call its local variable is gone.
Goto(s, from, to) ==
  /\ pc[s] = from
  /\ pc' = [pc EXCEPT ![s] = to]

Local(s, p) == path' = [path EXCEPT ![s] = p]
Keep == UNCHANGED <<path, history>>

\* A call begins; disturbing says which calls of others it must not meet.
Enter(s, at, disturbing) ==
  /\ Goto(s, "idle", at)
  /\ overlap' = (overlap \/ \E t \in Sessions \ {s} : pc[t] \in disturbing)
  /\ UNCHANGED <<replaced, finished>>

-----------------------------------------------------------------------------
(* cpuprof_start() *)

\* profiler_var.get("dump_path") into a local buffer.
StartCall(s) ==
  /\ Enter(s, "assign", Control \cup Reporting)
  /\ Local(s, dump_path)
  /\ UNCHANGED shared

AssignPath(s) ==
  /\ Goto(s, "assign", "build")
  /\ cpuprof_dump_path' = path[s]
  /\ Keep
  /\ UNCHANGED <<dump_path, cpuprof_status, collector, prof>>

\* filePath is built from the global, not from the buffer.
BuildPath(s) ==
  /\ Goto(s, "build", "check")
  /\ Local(s, cpuprof_dump_path)
  /\ UNCHANGED <<shared, history>>

\* A defective CheckFile: the existing file is not noticed.
CheckNothing(s) ==
  /\ Goto(s, "check", "begin")
  /\ Keep
  /\ UNCHANGED shared

\* An existing file ends the call with an error.
CheckFile(s) ==
  /\ Goto(s, "check", IF prof[path[s]] = "none" THEN "begin" ELSE "idle")
  /\ Local(s, IF prof[path[s]] = "none" THEN path[s] ELSE NoPath)
  /\ replaced' = (replaced \/ prof[path[s]] # "none")
  /\ UNCHANGED <<shared, overlap, finished>>

\* ProfilerStart: refused while collecting, or when the file cannot be opened;
\* otherwise it creates or truncates the file.  Its result is ignored.
ProfilerStart(p) ==
  \/ /\ collector = NoPath
     /\ collector' = p
     /\ prof' = [prof EXCEPT ![p] = "open"]
     /\ replaced' = FALSE
  \/ /\ replaced' = TRUE
     /\ UNCHANGED <<collector, prof>>

Begin(s) ==
  /\ Goto(s, "begin", "running")
  /\ ProfilerStart(path[s])
  /\ UNCHANGED <<dump_path, cpuprof_dump_path, cpuprof_status, path, overlap, finished>>

SetRunning(s) ==
  /\ Goto(s, "running", "log_started")
  /\ cpuprof_status' = "RUNNING"
  /\ Keep
  /\ UNCHANGED <<dump_path, cpuprof_dump_path, collector, prof>>

\* profiler_pfs.add: a "started" row.
LogStarted(s) ==
  /\ Goto(s, "log_started", "idle")
  /\ Local(s, NoPath)
  /\ UNCHANGED <<shared, history>>

-----------------------------------------------------------------------------
(* cpuprof_stop() *)

StopCall(s) ==
  /\ cpuprof_status # "STOPPED"
  /\ Enter(s, "stopping", Control \cup Reporting)
  /\ UNCHANGED <<shared, path>>

\* A defective StopProfiler: ProfilerStop is not called.
StopNothing(s) ==
  /\ Goto(s, "stopping", "stopped")
  /\ Keep
  /\ UNCHANGED shared

\* ProfilerStop: closes the file being collected, if any.
StopProfiler(s) ==
  /\ Goto(s, "stopping", "stopped")
  /\ collector' = NoPath
  /\ prof' = [p \in Paths |-> IF p = collector /\ prof[p] = "open"
                              THEN "complete" ELSE prof[p]]
  /\ finished' = collector
  /\ UNCHANGED <<dump_path, cpuprof_dump_path, cpuprof_status, path, overlap, replaced>>

\* A defective SetStopped: a status nothing recognises.
StatusMisspelt(s) ==
  /\ Goto(s, "stopped", "build_stopped")
  /\ cpuprof_status' = "STOPED"
  /\ Keep
  /\ UNCHANGED <<dump_path, cpuprof_dump_path, collector, prof>>

\* A defective SetStopped: the status is left as it was.
StatusLeft(s) ==
  /\ Goto(s, "stopped", "build_stopped")
  /\ Keep
  /\ UNCHANGED shared

SetStopped(s) ==
  /\ Goto(s, "stopped", "build_stopped")
  /\ cpuprof_status' = "STOPPED"
  /\ Keep
  /\ UNCHANGED <<dump_path, cpuprof_dump_path, collector, prof>>

\* A defective BuildStopped: it takes the system variable of now.
BuildFromVariable(s) ==
  /\ Goto(s, "build_stopped", "log_stopped")
  /\ Local(s, dump_path)
  /\ UNCHANGED <<shared, history>>

BuildStopped(s) ==
  /\ Goto(s, "build_stopped", "log_stopped")
  /\ Local(s, cpuprof_dump_path)
  /\ UNCHANGED <<shared, history>>

\* profiler_pfs.add: a "stopped" row that names path[s].
LogStopped(s) ==
  /\ Goto(s, "log_stopped", "idle")
  /\ Local(s, NoPath)
  /\ UNCHANGED <<shared, history>>

-----------------------------------------------------------------------------
(* cpuprof_report() *)

\* A defective ReportCall: a running profiler is not noticed.
ReportAnyway(s) ==
  /\ Enter(s, "report", Control)
  /\ UNCHANGED <<shared, path>>

\* The call goes on unless the status says the profiler is running.
ReportCall(s) ==
  /\ cpuprof_status # "RUNNING"
  /\ Enter(s, "report", Control)
  /\ UNCHANGED <<shared, path>>

\* exec_pprof starts pprof on the file of cpuprof_dump_path.
RunPprof(s) ==
  /\ Goto(s, "report", "pprof")
  /\ Local(s, cpuprof_dump_path)
  /\ UNCHANGED <<shared, history>>

\* The report is returned and its row added; or the call fails before pprof
\* runs, because mysqld or the pprof binary was not found.
ReportEnds(s) ==
  /\ pc[s] \in Reporting
  /\ pc' = [pc EXCEPT ![s] = "idle"]
  /\ Local(s, NoPath)
  /\ UNCHANGED <<shared, history>>

-----------------------------------------------------------------------------
(* The rest of the server, at any moment. *)

\* SET GLOBAL profiler.dump_path (profiler.cc).
SetDumpPath(p) ==
  /\ dump_path' = p
  /\ UNCHANGED <<cpuprof_dump_path, cpuprof_status, collector, prof, pc, path, history>>

\* profiler_cleanup() removes a file, also one that is being written.
RemoveProfile(p) ==
  /\ prof' = [prof EXCEPT ![p] = "none"]
  /\ UNCHANGED <<dump_path, cpuprof_dump_path, cpuprof_status, collector, pc, path, history>>

-----------------------------------------------------------------------------
Start(s) ==
  \/ StartCall(s) \/ AssignPath(s) \/ BuildPath(s) \/ CheckFile(s)
  \/ Begin(s) \/ SetRunning(s) \/ LogStarted(s)

Stop(s) ==
  \/ StopCall(s) \/ StopProfiler(s) \/ SetStopped(s)
  \/ BuildStopped(s) \/ LogStopped(s)

Report(s) == ReportCall(s) \/ RunPprof(s) \/ ReportEnds(s)

Next ==
  \/ \E s \in Sessions : Start(s) \/ Stop(s) \/ Report(s)
  \/ \E p \in Paths : SetDumpPath(p) \/ RemoveProfile(p)

Spec == Init /\ [][Next]_vars

-----------------------------------------------------------------------------
(* Properties.  The component takes no lock, so most of what it promises   *)
(* holds while no start or stop has overlapped another call.               *)

TypeOK ==
  /\ dump_path \in Paths
  /\ cpuprof_dump_path \in Paths \cup {NoPath}
  /\ cpuprof_status \in {"STOPPED", "RUNNING"}
  /\ collector \in Paths \cup {NoPath}
  /\ prof \in [Paths -> {"none", "open", "complete"}]
  /\ pc \in [Sessions -> {"idle"} \cup Control \cup Reporting]
  /\ path \in [Sessions -> Paths \cup {NoPath}]
  /\ overlap \in BOOLEAN
  /\ replaced \in BOOLEAN
  /\ finished \in Paths \cup {NoPath}

\* While calls do not overlap, a profile being collected can be stopped: the
\* status is RUNNING unless the start that began it has yet to say so, so
\* cpuprof_stop does not refuse.
CollectingCanBeStopped ==
  ~overlap /\ collector # NoPath /\ cpuprof_status = "STOPPED" =>
    \E s \in Sessions : pc[s] = "running"

\* While calls do not overlap, pprof reads no profile that is being written,
\* even when SET GLOBAL and profiler_cleanup run beside it.
ReportReadsNoOpenProfile ==
  ~overlap => \A s \in Sessions : pc[s] = "pprof" => collector = NoPath

\* While calls do not overlap, a finished profile is never overwritten: only
\* profiler_cleanup takes it away.
NeverOverwrites ==
  [][~overlap => \A p \in Paths : prof[p] = "complete" => prof'[p] # "open"]_vars

\* While calls do not overlap and the last start began a profile, the
\* "stopped" row names the profile that was finished, although the name is
\* built again from the global after SET GLOBAL may have changed dump_path.
StoppedRowNamesProfile ==
  ~overlap /\ ~replaced => \A s \in Sessions :
    pc[s] = "log_stopped" /\ finished # NoPath => path[s] = finished

\* While calls do not overlap, between calls the status tells whether a
\* profile is being collected, unless the last start began none: the result of
\* ProfilerStart is ignored.
StatusMatchesCollector ==
  ~overlap /\ (\A s \in Sessions : pc[s] = "idle") =>
    /\ collector # NoPath => cpuprof_status = "RUNNING"
    /\ cpuprof_status = "RUNNING" /\ ~replaced => collector # NoPath

==============================================================================
