----------------------- MODULE JemallocProfilerProofs -----------------------
(***************************************************************************)
(* Proofs about JemallocProfiler for any number of sessions, paths and     *)
(* dumps.                                                                  *)
(***************************************************************************)
EXTENDS JemallocProfiler, TLAPS

-----------------------------------------------------------------------------
(* The inductive invariant. *)

\* Points of a start that has replaced the path.
Starting == {"check_file", "reset", "activate", "check_status", "running"}
Dumping == {"prepared", "write", "count"}

\* Nobody calls while a session is inside a function.
Alone ==
  ~overlap => \A s, t \in Sessions : s # t /\ pc[s] # "idle" => pc[t] = "idle"

\* Who needs a path has one, and who writes a dump has its number.
PathInv ==
  /\ memprof_jemalloc_status = "RUNNING" => memprof_jemalloc_dump_path \in Paths
  /\ \A s \in Sessions :
       /\ pc[s] \in Starting \cup Dumping => memprof_jemalloc_dump_path \in Paths
       /\ pc[s] \in {"assign", "write"} => path[s] \in Paths
       /\ pc[s] = "write" => number[s] \in 1..MaxDump

\* Status and jemalloc differ only between the two steps that change them.
StatusInv ==
  ~overlap =>
    /\ memprof_jemalloc_status = "RUNNING" /\ ~active =>
         \E s \in Sessions : pc[s] = "stopped"
    /\ memprof_jemalloc_status = "STOPPED" /\ active =>
         \E s \in Sessions : pc[s] \in {"check_status", "running"}
    /\ \A s \in Sessions :
         /\ pc[s] \in {"check_status", "running"} => active
         /\ pc[s] = "stopped" => ~active

\* A start that goes on has found no dump at all, unless meddled is set, and
\* begins with the number 1.
StartInv ==
  ~overlap /\ ~meddled => \A s \in Sessions :
    /\ pc[s] \in Starting \ {"check_file"} => files[memprof_jemalloc_dump_path] = {}
    /\ pc[s] \in {"activate", "check_status", "running"} => dump_count = 1

\* The dumps of the path are those with a number below the next one; after
\* the profile has been stopped they may have been removed.  A start that has
\* not yet looked for the file leaves this so: it has set meddled if it has
\* changed the path.
CountInv ==
  /\ ~overlap /\ ~meddled
  /\ \A s \in Sessions : pc[s] \notin Starting \ {"check_file"}
  /\ memprof_jemalloc_dump_path \in Paths
  => LET last == IF \E s \in Sessions : pc[s] = "count" THEN dump_count ELSE dump_count - 1
      IN  /\ dump_count >= 1
          /\ \/ files[memprof_jemalloc_dump_path] = 1..last
             \/ /\ memprof_jemalloc_status = "STOPPED"
                /\ files[memprof_jemalloc_dump_path] = {}

\* What a dump or a report holds in its locals is still so.
LocalInv ==
  ~overlap => \A s \in Sessions :
    /\ pc[s] \in {"write", "jeprof"} => path[s] = memprof_jemalloc_dump_path
    /\ pc[s] = "write" => number[s] = dump_count
    /\ pc[s] \in Dumping => memprof_jemalloc_status = "RUNNING"

IInv ==
  /\ TypeOK /\ Alone /\ PathInv /\ StatusInv
  /\ StartInv /\ CountInv /\ LocalInv

-----------------------------------------------------------------------------
(* Init => IInv, and IInv is preserved part by part. *)

LEMMA Initially == Init => IInv
  <1> SUFFICES ASSUME Init
               PROVE  IInv
    OBVIOUS
  <1> USE DEF Init, Starting, Dumping, Points
  <1>1. TypeOK
    <2>1. number \in [Sessions -> 0..MaxDump]
      BY MaxDumpAssumption
    <2> QED
      BY <2>1 DEF TypeOK
  <1>2. Alone /\ PathInv /\ StatusInv /\ StartInv /\ CountInv /\ LocalInv
    BY NoPathAssumption DEF Alone, PathInv, StatusInv, StartInv, CountInv, LocalInv
  <1> QED
    BY <1>1, <1>2 DEF IInv

\* A dump's number is at most MaxDump when it is taken.
LEMMA TypesKept ==
  ASSUME TypeOK, PathInv, [Next]_vars
  PROVE  TypeOK'
  <1> USE DEF TypeOK, PathInv,
              Points,
              component, outside, locals, history, Goto, Enter, Fail, GoOn
  <1>1. ASSUME NEW self \in Sessions, Start(self)
        PROVE  TypeOK'
    <2>1. CASE StartCall(self)
      BY <2>1 DEF StartCall
    <2>2. CASE AssignPath(self)
      BY <2>2 DEF AssignPath
    <2>3. CASE CheckFile(self)
      BY <2>3 DEF CheckFile
    <2>4. CASE ResetCount(self)
      BY <2>4 DEF ResetCount
    <2>5. CASE Activate(self)
      BY <2>5 DEF Activate
    <2>6. CASE CheckStatus(self)
      BY <2>6 DEF CheckStatus
    <2>7. CASE SetRunning(self)
      BY <2>7 DEF SetRunning
    <2> QED
      BY <1>1, <2>1, <2>2, <2>3, <2>4, <2>5, <2>6, <2>7 DEF Start
  <1>2. ASSUME NEW self \in Sessions, Stop(self)
        PROVE  TypeOK'
    <2>1. CASE StopCall(self)
      BY <2>1 DEF StopCall
    <2>2. CASE Deactivate(self)
      BY <2>2 DEF Deactivate
    <2>3. CASE SetStopped(self)
      BY <2>3 DEF SetStopped
    <2> QED
      BY <1>2, <2>1, <2>2, <2>3 DEF Stop
  <1>3. ASSUME NEW self \in Sessions, Dump(self)
        PROVE  TypeOK'
    <2>1. CASE DumpInit(self)
      BY <2>1 DEF DumpInit
    <2>2. CASE DumpCall(self)
      BY <2>2 DEF DumpCall
    <2>3. CASE WriteDump(self)
      <3>1. files' \in [Paths -> SUBSET (1..MaxDump)]
        BY <2>3 DEF WriteDump
      <3>2. path' \in [Sessions -> Paths \cup {NoPath}] /\ number' \in [Sessions -> 0..MaxDump]
        BY <2>3, MaxDumpAssumption DEF WriteDump
      <3> QED
        BY <2>3, <3>1, <3>2 DEF WriteDump
    <2>4. CASE Count(self)
      BY <2>4 DEF Count
    <2>5. CASE DumpDeinit(self)
      BY <2>5 DEF DumpDeinit
    <2> QED
      BY <1>3, <2>1, <2>2, <2>3, <2>4, <2>5 DEF Dump
  <1>4. ASSUME NEW self \in Sessions, Report(self)
        PROVE  TypeOK'
    <2>1. CASE ReportCall(self)
      BY <2>1 DEF ReportCall
    <2>2. CASE RunJeprof(self)
      BY <2>2 DEF RunJeprof
    <2>3. CASE ReportEnds(self)
      BY <2>3 DEF ReportEnds
    <2> QED
      BY <1>4, <2>1, <2>2, <2>3 DEF Report
  <1>5. ASSUME NEW p \in Paths, SetDumpPath(p)
        PROVE  TypeOK'
    BY <1>5 DEF SetDumpPath
  <1>6. CASE Cleanup
    BY <1>6 DEF Cleanup
  <1>7. ASSUME NEW p \in Paths, NEW n \in 1..MaxDump, HeapDump(p, n)
        PROVE  TypeOK'
    BY <1>7 DEF HeapDump
  <1>8. CASE UNCHANGED vars
    BY <1>8 DEF vars
  <1> QED
    BY <1>1, <1>2, <1>3, <1>4, <1>5, <1>6, <1>7, <1>8 DEF Next

\* A call that meets another sets overlap, and overlap stays.
LEMMA AloneKept ==
  ASSUME TypeOK, Alone, TypeOK', [Next]_vars
  PROVE  Alone'
  <1> USE DEF TypeOK, Alone,
              Points, Starting, Dumping,
              component, outside, locals, history, Goto, Enter, Fail, GoOn
  <1>1. ASSUME NEW self \in Sessions, Start(self)
        PROVE  Alone'
    <2>1. CASE StartCall(self)
      BY <2>1 DEF StartCall
    <2>2. CASE AssignPath(self)
      BY <2>2 DEF AssignPath
    <2>3. CASE CheckFile(self)
      BY <2>3 DEF CheckFile
    <2>4. CASE ResetCount(self)
      BY <2>4 DEF ResetCount
    <2>5. CASE Activate(self)
      BY <2>5 DEF Activate
    <2>6. CASE CheckStatus(self)
      BY <2>6 DEF CheckStatus
    <2>7. CASE SetRunning(self)
      BY <2>7 DEF SetRunning
    <2> QED
      BY <1>1, <2>1, <2>2, <2>3, <2>4, <2>5, <2>6, <2>7 DEF Start
  <1>2. ASSUME NEW self \in Sessions, Stop(self)
        PROVE  Alone'
    <2>1. CASE StopCall(self)
      BY <2>1 DEF StopCall
    <2>2. CASE Deactivate(self)
      BY <2>2 DEF Deactivate
    <2>3. CASE SetStopped(self)
      BY <2>3 DEF SetStopped
    <2> QED
      BY <1>2, <2>1, <2>2, <2>3 DEF Stop
  <1>3. ASSUME NEW self \in Sessions, Dump(self)
        PROVE  Alone'
    <2>1. CASE DumpInit(self)
      BY <2>1 DEF DumpInit
    <2>2. CASE DumpCall(self)
      BY <2>2 DEF DumpCall
    <2>3. CASE WriteDump(self)
      BY <2>3 DEF WriteDump
    <2>4. CASE Count(self)
      BY <2>4 DEF Count
    <2>5. CASE DumpDeinit(self)
      BY <2>5 DEF DumpDeinit
    <2> QED
      BY <1>3, <2>1, <2>2, <2>3, <2>4, <2>5 DEF Dump
  <1>4. ASSUME NEW self \in Sessions, Report(self)
        PROVE  Alone'
    <2>1. CASE ReportCall(self)
      BY <2>1 DEF ReportCall
    <2>2. CASE RunJeprof(self)
      BY <2>2 DEF RunJeprof
    <2>3. CASE ReportEnds(self)
      BY <2>3 DEF ReportEnds
    <2> QED
      BY <1>4, <2>1, <2>2, <2>3 DEF Report
  <1>5. ASSUME NEW p \in Paths, SetDumpPath(p)
        PROVE  Alone'
    BY <1>5 DEF SetDumpPath
  <1>6. CASE Cleanup
    BY <1>6 DEF Cleanup
  <1>7. ASSUME NEW p \in Paths, NEW n \in 1..MaxDump, HeapDump(p, n)
        PROVE  Alone'
    BY <1>7 DEF HeapDump
  <1>8. CASE UNCHANGED vars
    BY <1>8 DEF vars
  <1> QED
    BY <1>1, <1>2, <1>3, <1>4, <1>5, <1>6, <1>7, <1>8 DEF Next

\* The path of a start comes from dump_path and goes through the global.
LEMMA PathKept ==
  ASSUME TypeOK, PathInv, TypeOK', [Next]_vars
  PROVE  PathInv'
  <1> USE DEF TypeOK, PathInv,
              Points, Starting, Dumping,
              component, outside, locals, history, Goto, Enter, Fail, GoOn
  <1>1. ASSUME NEW self \in Sessions, Start(self)
        PROVE  PathInv'
    <2>1. CASE StartCall(self)
      BY <2>1 DEF StartCall
    <2>2. CASE AssignPath(self)
      BY <2>2 DEF AssignPath
    <2>3. CASE CheckFile(self)
      BY <2>3 DEF CheckFile
    <2>4. CASE ResetCount(self)
      BY <2>4 DEF ResetCount
    <2>5. CASE Activate(self)
      BY <2>5 DEF Activate
    <2>6. CASE CheckStatus(self)
      BY <2>6 DEF CheckStatus
    <2>7. CASE SetRunning(self)
      BY <2>7 DEF SetRunning
    <2> QED
      BY <1>1, <2>1, <2>2, <2>3, <2>4, <2>5, <2>6, <2>7 DEF Start
  <1>2. ASSUME NEW self \in Sessions, Stop(self)
        PROVE  PathInv'
    <2>1. CASE StopCall(self)
      BY <2>1 DEF StopCall
    <2>2. CASE Deactivate(self)
      BY <2>2 DEF Deactivate
    <2>3. CASE SetStopped(self)
      BY <2>3 DEF SetStopped
    <2> QED
      BY <1>2, <2>1, <2>2, <2>3 DEF Stop
  <1>3. ASSUME NEW self \in Sessions, Dump(self)
        PROVE  PathInv'
    <2>1. CASE DumpInit(self)
      BY <2>1 DEF DumpInit
    <2>2. CASE DumpCall(self)
      BY <2>2, MaxDumpAssumption DEF DumpCall
    <2>3. CASE WriteDump(self)
      BY <2>3 DEF WriteDump
    <2>4. CASE Count(self)
      BY <2>4 DEF Count
    <2>5. CASE DumpDeinit(self)
      BY <2>5 DEF DumpDeinit
    <2> QED
      BY <1>3, <2>1, <2>2, <2>3, <2>4, <2>5 DEF Dump
  <1>4. ASSUME NEW self \in Sessions, Report(self)
        PROVE  PathInv'
    <2>1. CASE ReportCall(self)
      BY <2>1 DEF ReportCall
    <2>2. CASE RunJeprof(self)
      BY <2>2 DEF RunJeprof
    <2>3. CASE ReportEnds(self)
      BY <2>3 DEF ReportEnds
    <2> QED
      BY <1>4, <2>1, <2>2, <2>3 DEF Report
  <1>5. ASSUME NEW p \in Paths, SetDumpPath(p)
        PROVE  PathInv'
    BY <1>5 DEF SetDumpPath
  <1>6. CASE Cleanup
    BY <1>6 DEF Cleanup
  <1>7. ASSUME NEW p \in Paths, NEW n \in 1..MaxDump, HeapDump(p, n)
        PROVE  PathInv'
    BY <1>7 DEF HeapDump
  <1>8. CASE UNCHANGED vars
    BY <1>8 DEF vars
  <1> QED
    BY <1>1, <1>2, <1>3, <1>4, <1>5, <1>6, <1>7, <1>8 DEF Next

\* Activate and Deactivate change jemalloc, and the same call then the status.
LEMMA StatusKept ==
  ASSUME TypeOK, Alone, StatusInv, TypeOK', [Next]_vars
  PROVE  StatusInv'
  <1> USE DEF TypeOK, Alone, StatusInv,
              Points, Starting, Dumping,
              component, outside, locals, history, Goto, Enter, Fail, GoOn
  <1>1. ASSUME NEW self \in Sessions, Start(self)
        PROVE  StatusInv'
    <2>1. CASE StartCall(self)
      BY <2>1 DEF StartCall
    <2>2. CASE AssignPath(self)
      BY <2>2 DEF AssignPath
    <2>3. CASE CheckFile(self)
      BY <2>3 DEF CheckFile
    <2>4. CASE ResetCount(self)
      BY <2>4 DEF ResetCount
    <2>5. CASE Activate(self)
      BY <2>5 DEF Activate
    <2>6. CASE CheckStatus(self)
      BY <2>6 DEF CheckStatus
    <2>7. CASE SetRunning(self)
      BY <2>7 DEF SetRunning
    <2> QED
      BY <1>1, <2>1, <2>2, <2>3, <2>4, <2>5, <2>6, <2>7 DEF Start
  <1>2. ASSUME NEW self \in Sessions, Stop(self)
        PROVE  StatusInv'
    <2>1. CASE StopCall(self)
      BY <2>1 DEF StopCall
    <2>2. CASE Deactivate(self)
      BY <2>2 DEF Deactivate
    <2>3. CASE SetStopped(self)
      BY <2>3 DEF SetStopped
    <2> QED
      BY <1>2, <2>1, <2>2, <2>3 DEF Stop
  <1>3. ASSUME NEW self \in Sessions, Dump(self)
        PROVE  StatusInv'
    <2>1. CASE DumpInit(self)
      BY <2>1 DEF DumpInit
    <2>2. CASE DumpCall(self)
      BY <2>2 DEF DumpCall
    <2>3. CASE WriteDump(self)
      BY <2>3 DEF WriteDump
    <2>4. CASE Count(self)
      BY <2>4 DEF Count
    <2>5. CASE DumpDeinit(self)
      BY <2>5 DEF DumpDeinit
    <2> QED
      BY <1>3, <2>1, <2>2, <2>3, <2>4, <2>5 DEF Dump
  <1>4. ASSUME NEW self \in Sessions, Report(self)
        PROVE  StatusInv'
    <2>1. CASE ReportCall(self)
      BY <2>1 DEF ReportCall
    <2>2. CASE RunJeprof(self)
      BY <2>2 DEF RunJeprof
    <2>3. CASE ReportEnds(self)
      BY <2>3 DEF ReportEnds
    <2> QED
      BY <1>4, <2>1, <2>2, <2>3 DEF Report
  <1>5. ASSUME NEW p \in Paths, SetDumpPath(p)
        PROVE  StatusInv'
    BY <1>5 DEF SetDumpPath
  <1>6. CASE Cleanup
    BY <1>6 DEF Cleanup
  <1>7. ASSUME NEW p \in Paths, NEW n \in 1..MaxDump, HeapDump(p, n)
        PROVE  StatusInv'
    BY <1>7 DEF HeapDump
  <1>8. CASE UNCHANGED vars
    BY <1>8 DEF vars
  <1> QED
    BY <1>1, <1>2, <1>3, <1>4, <1>5, <1>6, <1>7, <1>8 DEF Next

\* Nobody writes files while a start goes on.
LEMMA StartKept ==
  ASSUME TypeOK, Alone, PathInv, StartInv, TypeOK', [Next]_vars
  PROVE  StartInv'
  <1> USE DEF TypeOK, Alone, PathInv, StartInv,
              Points, Starting, Dumping,
              component, outside, locals, history, Goto, Enter, Fail, GoOn
  <1>1. ASSUME NEW self \in Sessions, Start(self)
        PROVE  StartInv'
    <2>1. CASE StartCall(self)
      BY <2>1 DEF StartCall
    <2>2. CASE AssignPath(self)
      BY <2>2 DEF AssignPath
    <2>3. CASE CheckFile(self)
      BY <2>3 DEF CheckFile
    <2>4. CASE ResetCount(self)
      BY <2>4 DEF ResetCount
    <2>5. CASE Activate(self)
      BY <2>5 DEF Activate
    <2>6. CASE CheckStatus(self)
      BY <2>6 DEF CheckStatus
    <2>7. CASE SetRunning(self)
      BY <2>7 DEF SetRunning
    <2> QED
      BY <1>1, <2>1, <2>2, <2>3, <2>4, <2>5, <2>6, <2>7 DEF Start
  <1>2. ASSUME NEW self \in Sessions, Stop(self)
        PROVE  StartInv'
    <2>1. CASE StopCall(self)
      BY <2>1 DEF StopCall
    <2>2. CASE Deactivate(self)
      BY <2>2 DEF Deactivate
    <2>3. CASE SetStopped(self)
      BY <2>3 DEF SetStopped
    <2> QED
      BY <1>2, <2>1, <2>2, <2>3 DEF Stop
  <1>3. ASSUME NEW self \in Sessions, Dump(self)
        PROVE  StartInv'
    <2>1. CASE DumpInit(self)
      BY <2>1 DEF DumpInit
    <2>2. CASE DumpCall(self)
      BY <2>2 DEF DumpCall
    <2>3. CASE WriteDump(self)
      BY <2>3 DEF WriteDump
    <2>4. CASE Count(self)
      BY <2>4 DEF Count
    <2>5. CASE DumpDeinit(self)
      BY <2>5 DEF DumpDeinit
    <2> QED
      BY <1>3, <2>1, <2>2, <2>3, <2>4, <2>5 DEF Dump
  <1>4. ASSUME NEW self \in Sessions, Report(self)
        PROVE  StartInv'
    <2>1. CASE ReportCall(self)
      BY <2>1 DEF ReportCall
    <2>2. CASE RunJeprof(self)
      BY <2>2 DEF RunJeprof
    <2>3. CASE ReportEnds(self)
      BY <2>3 DEF ReportEnds
    <2> QED
      BY <1>4, <2>1, <2>2, <2>3 DEF Report
  <1>5. ASSUME NEW p \in Paths, SetDumpPath(p)
        PROVE  StartInv'
    BY <1>5 DEF SetDumpPath
  <1>6. CASE Cleanup
    BY <1>6 DEF Cleanup
  <1>7. ASSUME NEW p \in Paths, NEW n \in 1..MaxDump, HeapDump(p, n)
        PROVE  StartInv'
    BY <1>7 DEF HeapDump
  <1>8. CASE UNCHANGED vars
    BY <1>8 DEF vars
  <1> QED
    BY <1>1, <1>2, <1>3, <1>4, <1>5, <1>6, <1>7, <1>8 DEF Next

\* WriteDump adds the number that Count then passes.
LEMMA CountKept ==
  ASSUME TypeOK, Alone, PathInv, StartInv, CountInv, LocalInv, TypeOK', [Next]_vars
  PROVE  CountInv'
  <1> USE DEF TypeOK, Alone, PathInv, StartInv, CountInv, LocalInv,
              Points, Starting, Dumping,
              component, outside, locals, history, Goto, Enter, Fail, GoOn
  <1>1. ASSUME NEW self \in Sessions, Start(self)
        PROVE  CountInv'
    <2>1. CASE StartCall(self)
      BY <2>1 DEF StartCall
    <2>2. CASE AssignPath(self)
      BY <2>2 DEF AssignPath
    <2>3. CASE CheckFile(self)
      BY <2>3 DEF CheckFile
    <2>4. CASE ResetCount(self)
      BY <2>4 DEF ResetCount
    <2>5. CASE Activate(self)
      BY <2>5 DEF Activate
    <2>6. CASE CheckStatus(self)
      BY <2>6 DEF CheckStatus
    <2>7. CASE SetRunning(self)
      <3> SUFFICES ASSUME ~overlap, ~meddled
                   PROVE  CountInv'
        BY <2>7 DEF SetRunning
      <3>1. files[memprof_jemalloc_dump_path] = {} /\ dump_count = 1
        BY <2>7 DEF SetRunning
      <3>2. \A s \in Sessions : pc'[s] = "idle"
        BY <2>7 DEF SetRunning
      <3>3. {} = 1..0
        OBVIOUS
      <3> QED
        BY <2>7, <3>1, <3>2, <3>3 DEF SetRunning
    <2> QED
      BY <1>1, <2>1, <2>2, <2>3, <2>4, <2>5, <2>6, <2>7 DEF Start
  <1>2. ASSUME NEW self \in Sessions, Stop(self)
        PROVE  CountInv'
    <2>1. CASE StopCall(self)
      BY <2>1 DEF StopCall
    <2>2. CASE Deactivate(self)
      BY <2>2 DEF Deactivate
    <2>3. CASE SetStopped(self)
      BY <2>3 DEF SetStopped
    <2> QED
      BY <1>2, <2>1, <2>2, <2>3 DEF Stop
  <1>3. ASSUME NEW self \in Sessions, Dump(self)
        PROVE  CountInv'
    <2>1. CASE DumpInit(self)
      BY <2>1 DEF DumpInit
    <2>2. CASE DumpCall(self)
      BY <2>2 DEF DumpCall
    <2>3. CASE WriteDump(self)
      <3> SUFFICES ASSUME ~overlap, ~meddled, Goto(self, "write", "count")
                   PROVE  CountInv'
        BY <2>3 DEF WriteDump
      <3>1. \A s \in Sessions \ {self} : pc[s] = "idle"
        BY <2>3 DEF WriteDump
      <3>2. /\ path[self] = memprof_jemalloc_dump_path
            /\ path[self] \in Paths
            /\ number[self] = dump_count
            /\ memprof_jemalloc_status = "RUNNING"
        BY <2>3 DEF WriteDump
      <3>3. files[path[self]] = 1..(dump_count - 1) /\ dump_count >= 1
        BY <2>3, <3>1, <3>2 DEF WriteDump
      <3>4. files' = [files EXCEPT ![path[self]] = 1..dump_count]
        <4>1. 1..(dump_count - 1) \cup {dump_count} = 1..dump_count
          BY <3>3
        <4> QED
          BY <2>3, <4>1, <3>2, <3>3 DEF WriteDump
      <3>5. pc' = [pc EXCEPT ![self] = "count"]
        BY <2>3 DEF WriteDump
      <3> QED
        BY <2>3, <3>1, <3>2, <3>3, <3>4, <3>5 DEF WriteDump
    <2>4. CASE Count(self)
      BY <2>4 DEF Count
    <2>5. CASE DumpDeinit(self)
      BY <2>5 DEF DumpDeinit
    <2> QED
      BY <1>3, <2>1, <2>2, <2>3, <2>4, <2>5 DEF Dump
  <1>4. ASSUME NEW self \in Sessions, Report(self)
        PROVE  CountInv'
    <2>1. CASE ReportCall(self)
      BY <2>1 DEF ReportCall
    <2>2. CASE RunJeprof(self)
      BY <2>2 DEF RunJeprof
    <2>3. CASE ReportEnds(self)
      BY <2>3 DEF ReportEnds
    <2> QED
      BY <1>4, <2>1, <2>2, <2>3 DEF Report
  <1>5. ASSUME NEW p \in Paths, SetDumpPath(p)
        PROVE  CountInv'
    BY <1>5 DEF SetDumpPath
  <1>6. CASE Cleanup
    BY <1>6 DEF Cleanup
  <1>7. ASSUME NEW p \in Paths, NEW n \in 1..MaxDump, HeapDump(p, n)
        PROVE  CountInv'
    BY <1>7 DEF HeapDump
  <1>8. CASE UNCHANGED vars
    BY <1>8 DEF vars
  <1> QED
    BY <1>1, <1>2, <1>3, <1>4, <1>5, <1>6, <1>7, <1>8 DEF Next

\* Who holds a copy of the path or the number is alone.
LEMMA LocalKept ==
  ASSUME TypeOK, Alone, LocalInv, TypeOK', [Next]_vars
  PROVE  LocalInv'
  <1> USE DEF TypeOK, Alone, LocalInv,
              Points, Starting, Dumping,
              component, outside, locals, history, Goto, Enter, Fail, GoOn
  <1>1. ASSUME NEW self \in Sessions, Start(self)
        PROVE  LocalInv'
    <2>1. CASE StartCall(self)
      BY <2>1 DEF StartCall
    <2>2. CASE AssignPath(self)
      BY <2>2 DEF AssignPath
    <2>3. CASE CheckFile(self)
      BY <2>3 DEF CheckFile
    <2>4. CASE ResetCount(self)
      BY <2>4 DEF ResetCount
    <2>5. CASE Activate(self)
      BY <2>5 DEF Activate
    <2>6. CASE CheckStatus(self)
      BY <2>6 DEF CheckStatus
    <2>7. CASE SetRunning(self)
      BY <2>7 DEF SetRunning
    <2> QED
      BY <1>1, <2>1, <2>2, <2>3, <2>4, <2>5, <2>6, <2>7 DEF Start
  <1>2. ASSUME NEW self \in Sessions, Stop(self)
        PROVE  LocalInv'
    <2>1. CASE StopCall(self)
      BY <2>1 DEF StopCall
    <2>2. CASE Deactivate(self)
      BY <2>2 DEF Deactivate
    <2>3. CASE SetStopped(self)
      BY <2>3 DEF SetStopped
    <2> QED
      BY <1>2, <2>1, <2>2, <2>3 DEF Stop
  <1>3. ASSUME NEW self \in Sessions, Dump(self)
        PROVE  LocalInv'
    <2>1. CASE DumpInit(self)
      BY <2>1 DEF DumpInit
    <2>2. CASE DumpCall(self)
      BY <2>2 DEF DumpCall
    <2>3. CASE WriteDump(self)
      BY <2>3 DEF WriteDump
    <2>4. CASE Count(self)
      BY <2>4 DEF Count
    <2>5. CASE DumpDeinit(self)
      BY <2>5 DEF DumpDeinit
    <2> QED
      BY <1>3, <2>1, <2>2, <2>3, <2>4, <2>5 DEF Dump
  <1>4. ASSUME NEW self \in Sessions, Report(self)
        PROVE  LocalInv'
    <2>1. CASE ReportCall(self)
      BY <2>1 DEF ReportCall
    <2>2. CASE RunJeprof(self)
      BY <2>2 DEF RunJeprof
    <2>3. CASE ReportEnds(self)
      BY <2>3 DEF ReportEnds
    <2> QED
      BY <1>4, <2>1, <2>2, <2>3 DEF Report
  <1>5. ASSUME NEW p \in Paths, SetDumpPath(p)
        PROVE  LocalInv'
    BY <1>5 DEF SetDumpPath
  <1>6. CASE Cleanup
    BY <1>6 DEF Cleanup
  <1>7. ASSUME NEW p \in Paths, NEW n \in 1..MaxDump, HeapDump(p, n)
        PROVE  LocalInv'
    BY <1>7 DEF HeapDump
  <1>8. CASE UNCHANGED vars
    BY <1>8 DEF vars
  <1> QED
    BY <1>1, <1>2, <1>3, <1>4, <1>5, <1>6, <1>7, <1>8 DEF Next

LEMMA Invariance == Spec => []IInv
  <1>1. IInv /\ [Next]_vars => IInv'
    BY TypesKept, AloneKept, PathKept, StatusKept, StartKept,
       CountKept, LocalKept DEF IInv
  <1> QED
    BY <1>1, Initially, PTL DEF Spec

-----------------------------------------------------------------------------
(* The theorems. *)

\* The calls of jemalloc_memory.cc keep the types of their state.
THEOREM TypeCorrect == Spec => []TypeOK
  <1>1. IInv => TypeOK
    BY DEF IInv
  <1> QED
    BY <1>1, Invariance, PTL

\* Between calls memprof_jemalloc_status says whether jemalloc samples, also
\* when switching it on or off has failed.
THEOREM StatusIsRight == Spec => []StatusMatchesActive
  <1>1. IInv => StatusMatchesActive
    <2> SUFFICES ASSUME IInv, ~overlap, \A s \in Sessions : pc[s] = "idle"
                 PROVE  active <=> memprof_jemalloc_status = "RUNNING"
      BY DEF StatusMatchesActive
    <2> QED
      BY DEF IInv, StatusInv, TypeOK
  <1> QED
    BY <1>1, Invariance, PTL

\* memprof_jemalloc_dump() makes jemalloc write no file that exists.
THEOREM NothingOverwritten == Spec => []NeverOverwrites
  <1>1. IInv => NeverOverwrites
    <2> SUFFICES ASSUME IInv, ~overlap, ~meddled,
                        NEW s \in Sessions, pc[s] = "write"
                 PROVE  number[s] \notin files[path[s]]
      BY DEF NeverOverwrites
    <2> USE DEF IInv, Starting
    <2>1. \A t \in Sessions \ {s} : pc[t] = "idle"
      BY DEF Alone
    <2>2. /\ path[s] = memprof_jemalloc_dump_path
          /\ path[s] \in Paths
          /\ number[s] = dump_count
      BY DEF LocalInv, PathInv
    <2>3. \/ files[path[s]] = 1..(dump_count - 1)
          \/ files[path[s]] = {}
      BY <2>1, <2>2 DEF CountInv
    <2> QED
      BY <2>2, <2>3 DEF TypeOK
  <1> QED
    BY <1>1, Invariance, PTL

\* memprof_jemalloc_report() gives jeprof the dumps of one profile.
THEOREM ReportsCoverProfile == Spec => []ReportCoversLastProfile
  <1>1. IInv => ReportCoversLastProfile
    <2> SUFFICES ASSUME IInv, ~overlap, ~meddled,
                        NEW s \in Sessions, pc[s] = "jeprof", path[s] # NoPath
                 PROVE  files[path[s]] \in {{}, 1..(dump_count - 1)}
      BY DEF ReportCoversLastProfile
    <2> USE DEF IInv, Starting
    <2>1. \A t \in Sessions \ {s} : pc[t] = "idle"
      BY DEF Alone
    <2>2. path[s] = memprof_jemalloc_dump_path /\ path[s] \in Paths
      BY DEF LocalInv, TypeOK
    <2> QED
      BY <2>1, <2>2 DEF CountInv
  <1> QED
    BY <1>1, Invariance, PTL

==============================================================================
