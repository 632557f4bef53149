---------------------------- MODULE HeapProfiler ----------------------------
(***************************************************************************)
(* The component profiler_memory (memory.cc): memprof_start([seconds]),    *)
(* memprof_stop() and memprof_dump() called by several sessions, and the   *)
(* detached threads that stop the profiler when the seconds are over.      *)
(*                                                                         *)
(* Sessions and timer threads share the component's globals without a      *)
(* lock; every thread carries the steps of its call that are still to do,  *)
(* one step per access to what is shared.  A call refused before it        *)
(* changes anything is a guard.                                            *)
(*                                                                         *)
(* gperftools' heap profiler is external: HeapProfilerStart does nothing   *)
(* while it is on; HeapProfilerDump does nothing while it is off and       *)
(* otherwise writes prefix.NNNN.heap with the next number; the numbers go  *)
(* on from one profile to the next.  It also dumps by itself, after so     *)
(* many bytes allocated or in use.                                         *)
(***************************************************************************)
EXTENDS Naturals, Sequences

CONSTANTS Sessions,   \* client sessions
          Timers,     \* timer threads that may exist at a time
          Paths,      \* values of profiler.dump_path
          NoPath,     \* the empty path
          MaxStarts,  \* bound: how often the heap profiler is started
          MaxDumps    \* bound: dumps asked for, and dumps of its own

ASSUME NoPathAssumption == NoPath \notin Paths
ASSUME ThreadsAssumption == Sessions \cap Timers = {}
ASSUME BoundsAssumption == MaxStarts \in Nat /\ MaxDumps \in Nat

VARIABLES
  \* the component
  dump_path,          \* the system variable profiler.dump_path
  memprof_dump_path,
  memprof_status,
  dump_count,
  \* gperftools and its files
  on,                 \* IsHeapProfilerRunning()
  prefix,             \* file name prefix of the profile under way
  written,            \* number of the last dump written
  first,              \* the paths p for which p.0001.heap exists
  \* threads
  call,               \* call[x]: the steps thread x still has to do
  path,               \* path[s]: the dump path s has read and not yet assigned
  \* history and bounds
  wrote,              \* wrote[s]: the file gperftools wrote for a row s has to name
  starts,             \* times HeapProfilerStart has switched it on
  dumps,              \* dumps asked for or automatic
  started,            \* started[t]: the start timer t belongs to
  plain,              \* no timer, no automatic dump and no overlap so far
  overlap             \* two calls, or a call and a timer, have met since the
                      \* last memprof_dump() that began alone

component == <<dump_path, memprof_dump_path, memprof_status, dump_count>>
gperftools == <<on, prefix, written, first>>
locals == <<path, wrote>>
history == <<starts, dumps, started, plain, overlap>>
vars == <<component, gperftools, call, locals, history>>

Threads == Sessions \cup Timers
Files == [path : Paths \cup {NoPath}, n : Nat]
NoFile == [path |-> NoPath, n |-> 0]

-----------------------------------------------------------------------------
(* The calls, as sequences of steps. *)

\* A row takes its file name at "name" and is added later; the adding is
\* ActionsTable's.  So are the rows without a name, and the second row of a
\* timed start, which repeats the name the file check used.
Untimed == <<"assign", "check_file", "check_status",
             "begin", "dump", "name", "running", "count">>
Timed == <<"assign", "check_file", "check_status",
           "begin", "dump", "name", "count", "spawn", "running", "count">>
Stopping == <<"dump", "name", "stop", "stopped">>
Dumping == <<"running", "dump", "name", "count">>
Refused == <<"stopped">>
\* A defective timer: it dumps, and forgets to stop the profiler.
TimerDumpsOnly == <<"sleep", "dump", "stopped">>
Timing == <<"sleep", "dump", "stop", "stopped">>

Steps == {"assign", "check_file", "check_status", "begin", "dump", "name",
          "count", "spawn", "running", "stop", "stopped", "sleep"}

At(x, step) == call[x] # <<>> /\ Head(call[x]) = step

\* A thread that is inside a call, or a timer that has woken up.
Busy(x) == call[x] # <<>> /\ ~At(x, "sleep")
Disturbs(x) == \E y \in Threads \ {x} : Busy(y)

\* Thread x does the next step of its call.
Do(x, step) ==
  /\ At(x, step)
  /\ call' = [call EXCEPT ![x] = Tail(@)]

\* Thread x becomes busy; who it meets is remembered.
Meet(x, before) ==
  /\ overlap' = (before \/ Disturbs(x))
  /\ plain' = (plain /\ ~Disturbs(x))

Enter(s, steps) ==
  /\ call[s] = <<>>
  /\ call' = [call EXCEPT ![s] = steps]

Init ==
  /\ dump_path \in Paths
  /\ memprof_dump_path = NoPath
  /\ memprof_status = "STOPPED"
  /\ dump_count = 1
  /\ on = FALSE
  /\ prefix = NoPath
  /\ written = 0
  /\ first \in SUBSET Paths                  \* files of earlier server runs
  /\ call = [x \in Threads |-> <<>>]
  /\ path = [s \in Sessions |-> NoPath]
  /\ wrote = [s \in Sessions |-> NoFile]
  /\ starts = 0
  /\ dumps = 0
  /\ started = [t \in Timers |-> 0]
  /\ plain = TRUE
  /\ overlap = FALSE

-----------------------------------------------------------------------------
(* memprof_start([seconds]) *)

StartCall(s, steps) ==
  /\ starts < MaxStarts
  /\ Enter(s, steps)
  /\ Meet(s, overlap)
  /\ path' = [path EXCEPT ![s] = dump_path]
  /\ UNCHANGED <<component, gperftools, wrote, starts, dumps, started>>

AssignPath(s) ==
  /\ Do(s, "assign")
  /\ memprof_dump_path' = path[s]
  /\ path' = [path EXCEPT ![s] = NoPath]
  /\ UNCHANGED <<dump_path, memprof_status, dump_count, gperftools, wrote, history>>

\* The call goes on if ok, and otherwise returns with an error.
Check(s, step, ok) ==
  /\ At(s, step)
  /\ call' = [call EXCEPT ![s] = IF ok THEN Tail(@) ELSE <<>>]
  /\ UNCHANGED <<component, gperftools, locals, history>>

\* The file name is built from the global, not from the buffer.
CheckFile(s) == Check(s, "check_file", memprof_dump_path \notin first)

\* A defective CheckStatus: a running profiler is not noticed.
CheckNoStatus(s) == Check(s, "check_status", TRUE)

CheckStatus(s) == Check(s, "check_status", memprof_status = "STOPPED")

\* HeapProfilerStart(memprof_dump_path).
Begin(s) ==
  /\ Do(s, "begin")
  /\ IF on
     THEN UNCHANGED <<on, prefix, starts>>
     ELSE on' = TRUE /\ prefix' = memprof_dump_path /\ starts' = starts + 1
  /\ UNCHANGED <<component, written, first, locals, dumps, started, plain, overlap>>

\* gperftools writes prefix.NNNN.heap with the next number.
WriteDump ==
  /\ written' = written + 1
  /\ first' = IF written = 0 THEN first \cup {prefix} ELSE first

\* HeapProfilerDump, by a session or a timer.
DumpHeap(x) ==
  /\ Do(x, "dump")
  /\ IF on THEN WriteDump ELSE UNCHANGED <<written, first>>
  /\ wrote' = [s \in Sessions |->
                 IF s = x /\ on THEN [path |-> prefix, n |-> written + 1]
                                ELSE wrote[s]]
  /\ UNCHANGED <<component, on, prefix, path, history>>

\* A defective RowFile: the number is advanced before it is used.
RowFileNext == [path |-> memprof_dump_path, n |-> dump_count + 1]

\* The name a "dumped" row gets: from the component's own path and number.
RowFile == [path |-> memprof_dump_path, n |-> dump_count]

NameFile(s) ==
  /\ Do(s, "name")
  /\ wrote' = [wrote EXCEPT ![s] = NoFile]
  /\ UNCHANGED <<component, gperftools, path, history>>

\* The timer thread is created.
Spawn(s, t) ==
  /\ call[t] = <<>>
  /\ At(s, "spawn")
  /\ call' = [call EXCEPT ![s] = Tail(@), ![t] = Timing]
  /\ started' = [started EXCEPT ![t] = starts]
  /\ plain' = FALSE
  /\ UNCHANGED <<component, gperftools, locals, starts, dumps, overlap>>

SetRunning(s) ==
  /\ Do(s, "running")
  /\ memprof_status' = "RUNNING"
  /\ UNCHANGED <<dump_path, memprof_dump_path, dump_count, gperftools, locals, history>>

\* ++dump_count on a plain int: of two at once, one may be lost.
Count(s) ==
  /\ Do(s, "count")
  /\ \/ dump_count' = dump_count + 1
     \/ /\ \E r \in Sessions \ {s} : At(r, "count")
        /\ UNCHANGED dump_count
  /\ UNCHANGED <<dump_path, memprof_dump_path, memprof_status, gperftools, locals,
                 history>>

-----------------------------------------------------------------------------
(* memprof_stop() and memprof_dump() *)

StopCall(s) ==
  /\ memprof_status # "STOPPED"
  /\ Enter(s, Stopping)
  /\ Meet(s, overlap)
  /\ UNCHANGED <<component, gperftools, locals, starts, dumps, started>>

\* HeapProfilerStop, by a session or a timer.
StopProfiler(x) ==
  /\ Do(x, "stop")
  /\ on' = FALSE
  /\ prefix' = NoPath
  /\ UNCHANGED <<component, written, first, locals, history>>

\* Defective SetStopped: the status is left; a status nothing recognises is set.
StatusLeft(x) ==
  /\ Do(x, "stopped")
  /\ UNCHANGED <<component, gperftools, locals, history>>

StatusMisspelt(x) ==
  /\ Do(x, "stopped")
  /\ memprof_status' = "STOPED"
  /\ UNCHANGED <<dump_path, memprof_dump_path, dump_count, gperftools, locals, history>>

SetStopped(x) ==
  /\ Do(x, "stopped")
  /\ memprof_status' = "STOPPED"
  /\ UNCHANGED <<dump_path, memprof_dump_path, dump_count, gperftools, locals, history>>

\* memprof_dump() asks gperftools whether it is on; it takes the status from
\* the answer, and refuses if it is off.
DumpCall(s) ==
  /\ on => dumps < MaxDumps
  /\ Enter(s, IF on THEN Dumping ELSE Refused)
  /\ Meet(s, FALSE)
  /\ dumps' = IF on THEN dumps + 1 ELSE dumps
  /\ UNCHANGED <<component, gperftools, locals, starts, started>>

-----------------------------------------------------------------------------
(* Timers, gperftools and the rest of the server. *)

\* sleep_for returns.
Wake(t) ==
  /\ Do(t, "sleep")
  /\ Meet(t, overlap)
  /\ UNCHANGED <<component, gperftools, locals, starts, dumps, started>>

\* gperftools dumps by itself.
AutoDump ==
  /\ on
  /\ dumps < MaxDumps
  /\ dumps' = dumps + 1
  /\ WriteDump
  /\ plain' = FALSE
  /\ UNCHANGED <<component, on, prefix, call, locals, starts, started, overlap>>

\* SET GLOBAL profiler.dump_path.
SetDumpPath(p) ==
  /\ dump_path' = p
  /\ UNCHANGED <<memprof_dump_path, memprof_status, dump_count, gperftools,
                 call, locals, history>>

\* profiler_cleanup() removes p.0001.heap.
RemoveDump(p) ==
  /\ first' = first \ {p}
  /\ UNCHANGED <<component, on, prefix, written, call, locals, history>>

-----------------------------------------------------------------------------
Start(s) ==
  \/ StartCall(s, Untimed) \/ StartCall(s, Timed)
  \/ AssignPath(s) \/ CheckFile(s) \/ CheckStatus(s)
  \/ Begin(s) \/ \E t \in Timers : Spawn(s, t)

Record(s) == NameFile(s) \/ Count(s)

Session(s) ==
  \/ Start(s) \/ StopCall(s) \/ DumpCall(s) \/ Record(s) \/ SetRunning(s)

\* The steps that sessions and timers have in common.
Operate(x) == DumpHeap(x) \/ StopProfiler(x) \/ SetStopped(x)

Timer(t) == Wake(t) \/ Operate(t)

Next ==
  \/ \E s \in Sessions : Session(s) \/ Operate(s)
  \/ \E t \in Timers : Timer(t)
  \/ AutoDump
  \/ \E p \in Paths : SetDumpPath(p) \/ RemoveDump(p)

Spec == Init /\ [][Next]_vars

\* A timer thread runs: sleep_for returns, and nothing it calls blocks for ever.
FairSpec == Spec /\ \A t \in Timers : WF_vars(Timer(t))

-----------------------------------------------------------------------------
(* Properties *)

TypeOK ==
  /\ dump_path \in Paths
  /\ memprof_dump_path \in Paths \cup {NoPath}
  /\ memprof_status \in {"STOPPED", "RUNNING"}
  /\ dump_count \in Nat /\ written \in Nat
  /\ on \in BOOLEAN
  /\ prefix \in Paths \cup {NoPath}
  /\ first \subseteq Paths
  /\ call \in [Threads -> Seq(Steps)]
  /\ path \in [Sessions -> Paths \cup {NoPath}]
  /\ wrote \in [Sessions -> Files]
  /\ starts \in Nat /\ dumps \in 0..MaxDumps
  /\ started \in [Timers -> Nat]
  /\ plain \in BOOLEAN /\ overlap \in BOOLEAN

\* Between calls the status tells whether gperftools is profiling.  Calls that
\* meet, and a timer that meets a call, may break this; from the next
\* memprof_dump() that meets nobody it holds again.
StatusMatchesProfiler ==
  ~overlap /\ (\A x \in Threads : ~Busy(x)) =>
    (on <=> memprof_status = "RUNNING")

\* Under the same condition a start that passed its checks finds gperftools
\* off, so HeapProfilerStart is never ignored and the prefix is the new path.
StartFindsProfilerOff ==
  ~overlap => \A s \in Sessions : At(s, "begin") => ~on

\* The rows name the files written during the first session, if it is not
\* timed, gperftools makes no dump of its own, and no refused memprof_start
\* has replaced the path meanwhile.
FirstSessionRowsNameFiles ==
  plain /\ starts = 1 /\ memprof_dump_path = prefix =>
    \A s \in Sessions : At(s, "name") => RowFile = wrote[s]

\* Once the thread of a timed start sleeps, the profiler is off at some later
\* time, whatever the sessions do and whoever else starts it meanwhile.
TimedProfileEnds ==
  \A t \in Timers : At(t, "sleep") ~> ~on

\* README.md:325: the timeout stops the profiling it was given for.
TimerStopsItsOwnProfile ==
  \A t \in Timers : At(t, "stop") /\ on => started[t] = starts

\* README.md:612: the actions, with their files, are recorded in the table; a
\* "dumped" row names the file of the dump.
DumpedRowNamesFile ==
  ~overlap => \A s \in Sessions : At(s, "name") => RowFile = wrote[s]

=============================================================================
