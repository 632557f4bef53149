-------------------------- MODULE CpuProfilerProofs --------------------------
(***************************************************************************)
(* Proofs about CpuProfiler for any number of sessions and paths.          *)
(***************************************************************************)
EXTENDS CpuProfiler, TLAPS

-----------------------------------------------------------------------------
(* The inductive invariant.  But for the types, its parts say nothing once *)
(* a start or stop has overlapped another call.                            *)

\* Who starts or stops is alone; reports may overlap each other.
Alone ==
  ~overlap => \A s, t \in Sessions : s # t /\ pc[s] \in Control => pc[t] = "idle"

\* A start that goes on has a path, and cpuprof_dump_path has one from then on.
PathInv ==
  \A s \in Sessions :
    /\ pc[s] \in {"assign", "check", "begin"} => path[s] \in Paths
    /\ pc[s] = "build" => cpuprof_dump_path \in Paths

\* Status and collector differ only between the two steps that change them,
\* or after a start that began no profile.
StatusInv ==
  ~overlap =>
    /\ collector # NoPath /\ cpuprof_status = "STOPPED" =>
         \E s \in Sessions : pc[s] = "running"
    /\ cpuprof_status = "RUNNING" /\ ~replaced /\ collector = NoPath =>
         \E s \in Sessions : pc[s] = "stopped"
    /\ \A s \in Sessions : pc[s] = "running" => collector # NoPath \/ replaced

\* Nothing is collected while a report runs, nor in the rest of a stop.
QuietInv ==
  ~overlap => \A s \in Sessions :
    pc[s] \in Reporting \cup {"stopped", "build_stopped", "log_stopped"} =>
      collector = NoPath

\* The global names the profile being collected, except in the middle of a
\* start, and after ProfilerStop the one that is finished.
NameInv ==
  ~overlap =>
    /\ \A s \in Sessions : pc[s] \in {"check", "begin"} => path[s] = cpuprof_dump_path
    /\ ~replaced =>
         /\ collector # NoPath /\ (\A s \in Sessions : pc[s] \notin {"build", "check", "begin"}) =>
              collector = cpuprof_dump_path
         /\ \A s \in Sessions :
              pc[s] \in {"stopped", "build_stopped"} /\ finished # NoPath =>
                finished = cpuprof_dump_path

\* A file that was not there when it was looked for is still not there.
FileInv ==
  ~overlap => \A s \in Sessions : pc[s] = "begin" => prof[path[s]] = "none"

IInv ==
  /\ TypeOK /\ Alone /\ PathInv
  /\ StatusInv /\ QuietInv /\ NameInv /\ FileInv
  /\ StoppedRowNamesProfile

-----------------------------------------------------------------------------
(* Init => IInv, and IInv is preserved part by part. *)

LEMMA Initially == Init => IInv
  BY DEF Init, IInv, TypeOK, Alone, PathInv, StatusInv, QuietInv, NameInv,
         FileInv, StoppedRowNamesProfile, Control, Reporting

LEMMA TypesKept == TypeOK /\ [Next]_vars => TypeOK'
  <1> SUFFICES ASSUME TypeOK, [Next]_vars
               PROVE  TypeOK'
    OBVIOUS
  <1> USE DEF TypeOK, Goto, Local, Keep, Enter, shared, history, Control, Reporting
  <1>1. ASSUME NEW s \in Sessions, Start(s)
        PROVE  TypeOK'
    <2>1. CASE StartCall(s)
      BY <2>1 DEF StartCall
    <2>2. CASE AssignPath(s) \/ BuildPath(s)
      BY <2>2 DEF AssignPath, BuildPath
    <2>3. CASE CheckFile(s)
      BY <2>3 DEF CheckFile
    <2>4. CASE Begin(s)
      BY <2>4 DEF Begin, ProfilerStart
    <2>5. CASE SetRunning(s) \/ LogStarted(s)
      BY <2>5 DEF SetRunning, LogStarted
    <2> QED
      BY <1>1, <2>1, <2>2, <2>3, <2>4, <2>5 DEF Start
  <1>2. ASSUME NEW s \in Sessions, Stop(s)
        PROVE  TypeOK'
    <2>1. CASE StopCall(s)
      BY <2>1 DEF StopCall
    <2>2. CASE StopProfiler(s)
      BY <2>2 DEF StopProfiler
    <2>3. CASE SetStopped(s) \/ BuildStopped(s) \/ LogStopped(s)
      BY <2>3 DEF SetStopped, BuildStopped, LogStopped
    <2> QED
      BY <1>2, <2>1, <2>2, <2>3 DEF Stop
  <1>3. ASSUME NEW s \in Sessions, Report(s)
        PROVE  TypeOK'
    BY <1>3 DEF Report, ReportCall, RunPprof, ReportEnds
  <1>4. ASSUME NEW p \in Paths, SetDumpPath(p) \/ RemoveProfile(p)
        PROVE  TypeOK'
    BY <1>4 DEF SetDumpPath, RemoveProfile
  <1>5. CASE UNCHANGED vars
    BY <1>5 DEF vars
  <1> QED
    BY <1>1, <1>2, <1>3, <1>4, <1>5 DEF Next

\* A call that meets another sets overlap, and overlap stays.
LEMMA AloneKept ==
  ASSUME TypeOK, Alone, TypeOK', [Next]_vars
  PROVE  Alone'
  <1> USE DEF TypeOK, Alone,
              Goto, Local, Keep, Enter, shared, history, Control, Reporting
  <1>1. ASSUME NEW self \in Sessions, Start(self)
        PROVE  Alone'
    <2>1. CASE StartCall(self)
      <3>1. ~overlap' => \A t \in Sessions \ {self} : pc[t] = "idle"
        BY <2>1 DEF StartCall
      <3> QED
        BY <2>1, <3>1 DEF StartCall
    <2>2. CASE AssignPath(self)
      BY <2>2 DEF AssignPath
    <2>3. CASE BuildPath(self)
      BY <2>3 DEF BuildPath
    <2>4. CASE CheckFile(self)
      BY <2>4 DEF CheckFile
    <2>5. CASE Begin(self)
      BY <2>5 DEF Begin, ProfilerStart
    <2>6. CASE SetRunning(self)
      BY <2>6 DEF SetRunning
    <2>7. CASE LogStarted(self)
      BY <2>7 DEF LogStarted
    <2> QED
      BY <1>1, <2>1, <2>2, <2>3, <2>4, <2>5, <2>6, <2>7 DEF Start
  <1>2. ASSUME NEW self \in Sessions, Stop(self)
        PROVE  Alone'
    <2>1. CASE StopCall(self)
      BY <2>1 DEF StopCall
    <2>2. CASE StopProfiler(self)
      BY <2>2 DEF StopProfiler
    <2>3. CASE SetStopped(self)
      BY <2>3 DEF SetStopped
    <2>4. CASE BuildStopped(self)
      BY <2>4 DEF BuildStopped
    <2>5. CASE LogStopped(self)
      BY <2>5 DEF LogStopped
    <2> QED
      BY <1>2, <2>1, <2>2, <2>3, <2>4, <2>5 DEF Stop
  <1>3. ASSUME NEW self \in Sessions, Report(self)
        PROVE  Alone'
    <2>1. CASE ReportCall(self)
      BY <2>1 DEF ReportCall
    <2>2. CASE RunPprof(self)
      BY <2>2 DEF RunPprof
    <2>3. CASE ReportEnds(self)
      BY <2>3 DEF ReportEnds
    <2> QED
      BY <1>3, <2>1, <2>2, <2>3 DEF Report
  <1>4. ASSUME NEW p \in Paths, SetDumpPath(p) \/ RemoveProfile(p)
        PROVE  Alone'
    BY <1>4 DEF SetDumpPath, RemoveProfile
  <1>5. CASE UNCHANGED vars
    BY <1>5 DEF vars
  <1> QED
    BY <1>1, <1>2, <1>3, <1>4, <1>5 DEF Next

\* The path of a start comes from dump_path and goes through the global.
LEMMA PathKept ==
  ASSUME TypeOK, PathInv, TypeOK', [Next]_vars
  PROVE  PathInv'
  <1> USE DEF TypeOK, PathInv,
              Goto, Local, Keep, Enter, shared, history, Control, Reporting
  <1>1. ASSUME NEW self \in Sessions, Start(self)
        PROVE  PathInv'
    <2>1. CASE StartCall(self)
      BY <2>1 DEF StartCall
    <2>2. CASE AssignPath(self)
      BY <2>2 DEF AssignPath
    <2>3. CASE BuildPath(self)
      BY <2>3 DEF BuildPath
    <2>4. CASE CheckFile(self)
      BY <2>4 DEF CheckFile
    <2>5. CASE Begin(self)
      BY <2>5 DEF Begin, ProfilerStart
    <2>6. CASE SetRunning(self)
      BY <2>6 DEF SetRunning
    <2>7. CASE LogStarted(self)
      BY <2>7 DEF LogStarted
    <2> QED
      BY <1>1, <2>1, <2>2, <2>3, <2>4, <2>5, <2>6, <2>7 DEF Start
  <1>2. ASSUME NEW self \in Sessions, Stop(self)
        PROVE  PathInv'
    <2>1. CASE StopCall(self)
      BY <2>1 DEF StopCall
    <2>2. CASE StopProfiler(self)
      BY <2>2 DEF StopProfiler
    <2>3. CASE SetStopped(self)
      BY <2>3 DEF SetStopped
    <2>4. CASE BuildStopped(self)
      BY <2>4 DEF BuildStopped
    <2>5. CASE LogStopped(self)
      BY <2>5 DEF LogStopped
    <2> QED
      BY <1>2, <2>1, <2>2, <2>3, <2>4, <2>5 DEF Stop
  <1>3. ASSUME NEW self \in Sessions, Report(self)
        PROVE  PathInv'
    <2>1. CASE ReportCall(self)
      BY <2>1 DEF ReportCall
    <2>2. CASE RunPprof(self)
      BY <2>2 DEF RunPprof
    <2>3. CASE ReportEnds(self)
      BY <2>3 DEF ReportEnds
    <2> QED
      BY <1>3, <2>1, <2>2, <2>3 DEF Report
  <1>4. ASSUME NEW p \in Paths, SetDumpPath(p) \/ RemoveProfile(p)
        PROVE  PathInv'
    BY <1>4 DEF SetDumpPath, RemoveProfile
  <1>5. CASE UNCHANGED vars
    BY <1>5 DEF vars
  <1> QED
    BY <1>1, <1>2, <1>3, <1>4, <1>5 DEF Next

\* Begin and StopProfiler change the collector, the next step of the same call
\* the status; nobody else acts on either in between.
LEMMA StatusKept ==
  ASSUME TypeOK, Alone, PathInv, StatusInv, QuietInv, TypeOK', [Next]_vars
  PROVE  StatusInv'
  <1> USE DEF TypeOK, Alone, PathInv, StatusInv, QuietInv,
              Goto, Local, Keep, Enter, shared, history, Control, Reporting
  <1>1. ASSUME NEW self \in Sessions, Start(self)
        PROVE  StatusInv'
    <2>1. CASE StartCall(self)
      BY <2>1 DEF StartCall
    <2>2. CASE AssignPath(self)
      BY <2>2 DEF AssignPath
    <2>3. CASE BuildPath(self)
      BY <2>3 DEF BuildPath
    <2>4. CASE CheckFile(self)
      BY <2>4 DEF CheckFile
    <2>5. CASE Begin(self)
      BY <2>5, NoPathAssumption DEF Begin, ProfilerStart
    <2>6. CASE SetRunning(self)
      BY <2>6 DEF SetRunning
    <2>7. CASE LogStarted(self)
      BY <2>7 DEF LogStarted
    <2> QED
      BY <1>1, <2>1, <2>2, <2>3, <2>4, <2>5, <2>6, <2>7 DEF Start
  <1>2. ASSUME NEW self \in Sessions, Stop(self)
        PROVE  StatusInv'
    <2>1. CASE StopCall(self)
      BY <2>1 DEF StopCall
    <2>2. CASE StopProfiler(self)
      BY <2>2 DEF StopProfiler
    <2>3. CASE SetStopped(self)
      BY <2>3 DEF SetStopped
    <2>4. CASE BuildStopped(self)
      BY <2>4 DEF BuildStopped
    <2>5. CASE LogStopped(self)
      BY <2>5 DEF LogStopped
    <2> QED
      BY <1>2, <2>1, <2>2, <2>3, <2>4, <2>5 DEF Stop
  <1>3. ASSUME NEW self \in Sessions, Report(self)
        PROVE  StatusInv'
    <2>1. CASE ReportCall(self)
      BY <2>1 DEF ReportCall
    <2>2. CASE RunPprof(self)
      BY <2>2 DEF RunPprof
    <2>3. CASE ReportEnds(self)
      BY <2>3 DEF ReportEnds
    <2> QED
      BY <1>3, <2>1, <2>2, <2>3 DEF Report
  <1>4. ASSUME NEW p \in Paths, SetDumpPath(p) \/ RemoveProfile(p)
        PROVE  StatusInv'
    BY <1>4 DEF SetDumpPath, RemoveProfile
  <1>5. CASE UNCHANGED vars
    BY <1>5 DEF vars
  <1> QED
    BY <1>1, <1>2, <1>3, <1>4, <1>5 DEF Next

\* A report begins when the status is not RUNNING and no start is under way, and
\* nobody starts while it runs.
LEMMA QuietKept ==
  ASSUME TypeOK, Alone, StatusInv, QuietInv, TypeOK', [Next]_vars
  PROVE  QuietInv'
  <1> USE DEF TypeOK, Alone, StatusInv, QuietInv,
              Goto, Local, Keep, Enter, shared, history, Control, Reporting
  <1>1. ASSUME NEW self \in Sessions, Start(self)
        PROVE  QuietInv'
    <2>1. CASE StartCall(self)
      BY <2>1 DEF StartCall
    <2>2. CASE AssignPath(self)
      BY <2>2 DEF AssignPath
    <2>3. CASE BuildPath(self)
      BY <2>3 DEF BuildPath
    <2>4. CASE CheckFile(self)
      BY <2>4 DEF CheckFile
    <2>5. CASE Begin(self)
      BY <2>5 DEF Begin, ProfilerStart
    <2>6. CASE SetRunning(self)
      BY <2>6 DEF SetRunning
    <2>7. CASE LogStarted(self)
      BY <2>7 DEF LogStarted
    <2> QED
      BY <1>1, <2>1, <2>2, <2>3, <2>4, <2>5, <2>6, <2>7 DEF Start
  <1>2. ASSUME NEW self \in Sessions, Stop(self)
        PROVE  QuietInv'
    <2>1. CASE StopCall(self)
      BY <2>1 DEF StopCall
    <2>2. CASE StopProfiler(self)
      BY <2>2 DEF StopProfiler
    <2>3. CASE SetStopped(self)
      BY <2>3 DEF SetStopped
    <2>4. CASE BuildStopped(self)
      BY <2>4 DEF BuildStopped
    <2>5. CASE LogStopped(self)
      BY <2>5 DEF LogStopped
    <2> QED
      BY <1>2, <2>1, <2>2, <2>3, <2>4, <2>5 DEF Stop
  <1>3. ASSUME NEW self \in Sessions, Report(self)
        PROVE  QuietInv'
    <2>1. CASE ReportCall(self)
      BY <2>1 DEF ReportCall
    <2>2. CASE RunPprof(self)
      BY <2>2 DEF RunPprof
    <2>3. CASE ReportEnds(self)
      BY <2>3 DEF ReportEnds
    <2> QED
      BY <1>3, <2>1, <2>2, <2>3 DEF Report
  <1>4. ASSUME NEW p \in Paths, SetDumpPath(p) \/ RemoveProfile(p)
        PROVE  QuietInv'
    BY <1>4 DEF SetDumpPath, RemoveProfile
  <1>5. CASE UNCHANGED vars
    BY <1>5 DEF vars
  <1> QED
    BY <1>1, <1>2, <1>3, <1>4, <1>5 DEF Next

\* Only a start changes the global, and if it then begins no profile it sets
\* replaced.
LEMMA NameKept ==
  ASSUME TypeOK, Alone, NameInv, TypeOK', [Next]_vars
  PROVE  NameInv'
  <1> USE DEF TypeOK, Alone, NameInv,
              Goto, Local, Keep, Enter, shared, history, Control, Reporting
  <1>1. ASSUME NEW self \in Sessions, Start(self)
        PROVE  NameInv'
    <2>1. CASE StartCall(self)
      BY <2>1 DEF StartCall
    <2>2. CASE AssignPath(self)
      BY <2>2 DEF AssignPath
    <2>3. CASE BuildPath(self)
      BY <2>3 DEF BuildPath
    <2>4. CASE CheckFile(self)
      BY <2>4 DEF CheckFile
    <2>5. CASE Begin(self)
      BY <2>5 DEF Begin, ProfilerStart
    <2>6. CASE SetRunning(self)
      BY <2>6 DEF SetRunning
    <2>7. CASE LogStarted(self)
      BY <2>7 DEF LogStarted
    <2> QED
      BY <1>1, <2>1, <2>2, <2>3, <2>4, <2>5, <2>6, <2>7 DEF Start
  <1>2. ASSUME NEW self \in Sessions, Stop(self)
        PROVE  NameInv'
    <2>1. CASE StopCall(self)
      BY <2>1 DEF StopCall
    <2>2. CASE StopProfiler(self)
      BY <2>2 DEF StopProfiler
    <2>3. CASE SetStopped(self)
      BY <2>3 DEF SetStopped
    <2>4. CASE BuildStopped(self)
      BY <2>4 DEF BuildStopped
    <2>5. CASE LogStopped(self)
      BY <2>5 DEF LogStopped
    <2> QED
      BY <1>2, <2>1, <2>2, <2>3, <2>4, <2>5 DEF Stop
  <1>3. ASSUME NEW self \in Sessions, Report(self)
        PROVE  NameInv'
    <2>1. CASE ReportCall(self)
      BY <2>1 DEF ReportCall
    <2>2. CASE RunPprof(self)
      BY <2>2 DEF RunPprof
    <2>3. CASE ReportEnds(self)
      BY <2>3 DEF ReportEnds
    <2> QED
      BY <1>3, <2>1, <2>2, <2>3 DEF Report
  <1>4. ASSUME NEW p \in Paths, SetDumpPath(p) \/ RemoveProfile(p)
        PROVE  NameInv'
    BY <1>4 DEF SetDumpPath, RemoveProfile
  <1>5. CASE UNCHANGED vars
    BY <1>5 DEF vars
  <1> QED
    BY <1>1, <1>2, <1>3, <1>4, <1>5 DEF Next

\* Between CheckFile and Begin others can only remove files.
LEMMA FileKept ==
  ASSUME TypeOK, Alone, PathInv, FileInv, TypeOK', [Next]_vars
  PROVE  FileInv'
  <1> USE DEF TypeOK, Alone, PathInv, FileInv,
              Goto, Local, Keep, Enter, shared, history, Control, Reporting
  <1>1. ASSUME NEW self \in Sessions, Start(self)
        PROVE  FileInv'
    <2>1. CASE StartCall(self)
      BY <2>1 DEF StartCall
    <2>2. CASE AssignPath(self)
      BY <2>2 DEF AssignPath
    <2>3. CASE BuildPath(self)
      BY <2>3 DEF BuildPath
    <2>4. CASE CheckFile(self)
      BY <2>4 DEF CheckFile
    <2>5. CASE Begin(self)
      BY <2>5 DEF Begin, ProfilerStart
    <2>6. CASE SetRunning(self)
      BY <2>6 DEF SetRunning
    <2>7. CASE LogStarted(self)
      BY <2>7 DEF LogStarted
    <2> QED
      BY <1>1, <2>1, <2>2, <2>3, <2>4, <2>5, <2>6, <2>7 DEF Start
  <1>2. ASSUME NEW self \in Sessions, Stop(self)
        PROVE  FileInv'
    <2>1. CASE StopCall(self)
      BY <2>1 DEF StopCall
    <2>2. CASE StopProfiler(self)
      BY <2>2 DEF StopProfiler
    <2>3. CASE SetStopped(self)
      BY <2>3 DEF SetStopped
    <2>4. CASE BuildStopped(self)
      BY <2>4 DEF BuildStopped
    <2>5. CASE LogStopped(self)
      BY <2>5 DEF LogStopped
    <2> QED
      BY <1>2, <2>1, <2>2, <2>3, <2>4, <2>5 DEF Stop
  <1>3. ASSUME NEW self \in Sessions, Report(self)
        PROVE  FileInv'
    <2>1. CASE ReportCall(self)
      BY <2>1 DEF ReportCall
    <2>2. CASE RunPprof(self)
      BY <2>2 DEF RunPprof
    <2>3. CASE ReportEnds(self)
      BY <2>3 DEF ReportEnds
    <2> QED
      BY <1>3, <2>1, <2>2, <2>3 DEF Report
  <1>4. ASSUME NEW p \in Paths, SetDumpPath(p) \/ RemoveProfile(p)
        PROVE  FileInv'
    <2>1. CASE SetDumpPath(p)
      BY <2>1 DEF SetDumpPath
    <2>2. CASE RemoveProfile(p)
      BY <2>2 DEF RemoveProfile
    <2> QED
      BY <1>4, <2>1, <2>2
  <1>5. CASE UNCHANGED vars
    BY <1>5 DEF vars
  <1> QED
    BY <1>1, <1>2, <1>3, <1>4, <1>5 DEF Next

\* BuildStopped reads the global while it still names what was finished.
LEMMA StoppedRowKept ==
  ASSUME TypeOK, Alone, NameInv, StoppedRowNamesProfile, TypeOK', [Next]_vars
  PROVE  StoppedRowNamesProfile'
  <1> USE DEF TypeOK, Alone, NameInv, StoppedRowNamesProfile,
              Goto, Local, Keep, Enter, shared, history, Control, Reporting
  <1>1. ASSUME NEW self \in Sessions, Start(self)
        PROVE  StoppedRowNamesProfile'
    <2>1. CASE StartCall(self)
      BY <2>1 DEF StartCall
    <2>2. CASE AssignPath(self)
      BY <2>2 DEF AssignPath
    <2>3. CASE BuildPath(self)
      BY <2>3 DEF BuildPath
    <2>4. CASE CheckFile(self)
      BY <2>4 DEF CheckFile
    <2>5. CASE Begin(self)
      BY <2>5 DEF Begin, ProfilerStart
    <2>6. CASE SetRunning(self)
      BY <2>6 DEF SetRunning
    <2>7. CASE LogStarted(self)
      BY <2>7 DEF LogStarted
    <2> QED
      BY <1>1, <2>1, <2>2, <2>3, <2>4, <2>5, <2>6, <2>7 DEF Start
  <1>2. ASSUME NEW self \in Sessions, Stop(self)
        PROVE  StoppedRowNamesProfile'
    <2>1. CASE StopCall(self)
      BY <2>1 DEF StopCall
    <2>2. CASE StopProfiler(self)
      BY <2>2 DEF StopProfiler
    <2>3. CASE SetStopped(self)
      BY <2>3 DEF SetStopped
    <2>4. CASE BuildStopped(self)
      BY <2>4 DEF BuildStopped
    <2>5. CASE LogStopped(self)
      BY <2>5 DEF LogStopped
    <2> QED
      BY <1>2, <2>1, <2>2, <2>3, <2>4, <2>5 DEF Stop
  <1>3. ASSUME NEW self \in Sessions, Report(self)
        PROVE  StoppedRowNamesProfile'
    <2>1. CASE ReportCall(self)
      BY <2>1 DEF ReportCall
    <2>2. CASE RunPprof(self)
      BY <2>2 DEF RunPprof
    <2>3. CASE ReportEnds(self)
      BY <2>3 DEF ReportEnds
    <2> QED
      BY <1>3, <2>1, <2>2, <2>3 DEF Report
  <1>4. ASSUME NEW p \in Paths, SetDumpPath(p) \/ RemoveProfile(p)
        PROVE  StoppedRowNamesProfile'
    BY <1>4 DEF SetDumpPath, RemoveProfile
  <1>5. CASE UNCHANGED vars
    BY <1>5 DEF vars
  <1> QED
    BY <1>1, <1>2, <1>3, <1>4, <1>5 DEF Next

LEMMA Invariance == Spec => []IInv
  <1>1. IInv /\ [Next]_vars => IInv'
    BY TypesKept, AloneKept, PathKept, StatusKept, QuietKept, NameKept,
       FileKept, StoppedRowKept DEF IInv
  <1> QED
    BY <1>1, Initially, PTL DEF Spec

-----------------------------------------------------------------------------
(* The theorems. *)

\* The calls of cpu.cc keep the types of their state.
THEOREM TypeCorrect == Spec => []TypeOK
  <1>1. IInv => TypeOK
    BY DEF IInv
  <1> QED
    BY <1>1, Invariance, PTL

\* cpuprof_stop() does not refuse while a profile is being collected.
THEOREM CanBeStopped == Spec => []CollectingCanBeStopped
  <1>1. IInv => CollectingCanBeStopped
    BY DEF IInv, StatusInv, CollectingCanBeStopped
  <1> QED
    BY <1>1, Invariance, PTL

\* cpuprof_report() starts pprof on no profile that is being written.
THEOREM ReportsReadComplete == Spec => []ReportReadsNoOpenProfile
  <1>1. IInv => ReportReadsNoOpenProfile
    BY DEF IInv, QuietInv, Reporting, ReportReadsNoOpenProfile
  <1> QED
    BY <1>1, Invariance, PTL

\* The "stopped" row of cpuprof_stop() names the file ProfilerStop finished.
THEOREM StoppedRowsNameProfiles == Spec => []StoppedRowNamesProfile
  <1>1. IInv => StoppedRowNamesProfile
    BY DEF IInv
  <1> QED
    BY <1>1, Invariance, PTL

\* Between calls cpuprof_status says whether gperftools is collecting, unless
\* ProfilerStart has failed unnoticed.
THEOREM StatusIsRight == Spec => []StatusMatchesCollector
  <1>1. IInv => StatusMatchesCollector
    <2> SUFFICES ASSUME IInv, ~overlap, \A s \in Sessions : pc[s] = "idle"
                 PROVE  /\ collector # NoPath => cpuprof_status = "RUNNING"
                        /\ cpuprof_status = "RUNNING" /\ ~replaced => collector # NoPath
      BY DEF StatusMatchesCollector
    <2> QED
      BY DEF IInv, StatusInv, TypeOK
  <1> QED
    BY <1>1, Invariance, PTL

\* ProfilerStart, the only call that opens a file, opens none that
\* cpuprof_start() has not found missing.
THEOREM NothingOverwritten == Spec => NeverOverwrites
  <1> DEFINE Kept == ~overlap => \A p \in Paths : prof[p] = "complete" => prof'[p] # "open"
  <1>1. IInv /\ [Next]_vars => Kept
    <2> SUFFICES ASSUME IInv, [Next]_vars
                 PROVE  Kept
      OBVIOUS
    <2> USE DEF IInv, TypeOK, shared
    <2>1. ASSUME NEW s \in Sessions, Start(s)
          PROVE  Kept
      <3>1. CASE Begin(s)
        BY <3>1 DEF Begin, ProfilerStart, Goto, PathInv, FileInv
      <3>2. CASE ~Begin(s)
        BY <2>1, <3>2 DEF Start, StartCall, AssignPath, BuildPath, CheckFile,
                          SetRunning, LogStarted
      <3> QED
        BY <3>1, <3>2
    <2>2. ASSUME NEW s \in Sessions, Stop(s)
          PROVE  Kept
      BY <2>2 DEF Stop, StopCall, StopProfiler, SetStopped, BuildStopped, LogStopped
    <2>3. ASSUME NEW s \in Sessions, Report(s)
          PROVE  Kept
      BY <2>3 DEF Report, ReportCall, RunPprof, ReportEnds
    <2>4. ASSUME NEW p \in Paths, SetDumpPath(p) \/ RemoveProfile(p)
          PROVE  Kept
      BY <2>4 DEF SetDumpPath, RemoveProfile
    <2>5. CASE UNCHANGED vars
      BY <2>5 DEF vars
    <2> QED
      BY <2>1, <2>2, <2>3, <2>4, <2>5 DEF Next
  <1> QED
    BY <1>1, Invariance, PTL DEF Spec, NeverOverwrites

==============================================================================
