------------------------- MODULE HeapProfilerProofs -------------------------
(***************************************************************************)
(* Proofs about HeapProfiler for any number of sessions, timer threads,    *)
(* paths, starts and dumps.                                                *)
(***************************************************************************)
EXTENDS HeapProfiler, TLAPS

-----------------------------------------------------------------------------
(* What a thread may still have to do: the rests of the calls.             *)

After1(c) == Tail(c)
After2(c) == Tail(After1(c))
After3(c) == Tail(After2(c))
After4(c) == Tail(After3(c))
After5(c) == Tail(After4(c))
After6(c) == Tail(After5(c))
After7(c) == Tail(After6(c))
After8(c) == Tail(After7(c))
After9(c) == Tail(After8(c))

\* memprof_start() has read the dump path, and has to assign it.
Asking == {Untimed, Timed}

\* It has still to check the file or the status.
Checking ==
  {After1(Untimed), After2(Untimed), After1(Timed), After2(Timed)}

\* gperftools is off, and the status is STOPPED.
Beginning == {After3(Untimed), After3(Timed)}

\* gperftools is on, and the status will be RUNNING.
Begun ==
  {After4(Untimed), After5(Untimed), After6(Untimed),
   After4(Timed), After5(Timed), After6(Timed), After7(Timed), After8(Timed),
   Dumping}

\* Status and gperftools agree, as they do while asking and checking.
Settled ==
  {After7(Untimed), After9(Timed),
   Stopping, After1(Stopping), After2(Stopping),
   After1(Dumping), After2(Dumping), After3(Dumping),
   After1(Timing), After2(Timing)}

\* gperftools is off, and the status will be STOPPED.
Ending == {After3(Stopping), After3(Timing), Refused}

\* A thread that is not busy has no steps, or sleeps.
Resting == {<<>>, Timing}

Calls ==
  Asking \cup Checking \cup Beginning \cup Begun \cup Settled \cup Ending \cup Resting

\* The next step of every rest.
LEMMA Heads ==
  /\ Head(Untimed) = "assign" /\ Head(After1(Untimed)) = "check_file"
  /\ Head(After2(Untimed)) = "check_status" /\ Head(After3(Untimed)) = "begin"
  /\ Head(After4(Untimed)) = "dump" /\ Head(After5(Untimed)) = "name"
  /\ Head(After6(Untimed)) = "running" /\ Head(After7(Untimed)) = "count"
  /\ Head(Timed) = "assign" /\ Head(After1(Timed)) = "check_file"
  /\ Head(After2(Timed)) = "check_status" /\ Head(After3(Timed)) = "begin"
  /\ Head(After4(Timed)) = "dump" /\ Head(After5(Timed)) = "name"
  /\ Head(After6(Timed)) = "count" /\ Head(After7(Timed)) = "spawn"
  /\ Head(After8(Timed)) = "running" /\ Head(After9(Timed)) = "count"
  /\ Head(Stopping) = "dump" /\ Head(After1(Stopping)) = "name"
  /\ Head(After2(Stopping)) = "stop" /\ Head(After3(Stopping)) = "stopped"
  /\ Head(Dumping) = "running" /\ Head(After1(Dumping)) = "dump"
  /\ Head(After2(Dumping)) = "name" /\ Head(After3(Dumping)) = "count"
  /\ Head(Timing) = "sleep" /\ Head(After1(Timing)) = "dump"
  /\ Head(After2(Timing)) = "stop" /\ Head(After3(Timing)) = "stopped"
  /\ Head(Refused) = "stopped"
  BY DEF Untimed, Timed, Stopping, Dumping, Refused, Timing, After1, After2,
         After3, After4, After5, After6, After7, After8, After9

\* The rests of which one step is left.
LEMMA Ends ==
  /\ Tail(After7(Untimed)) = <<>> /\ Tail(After9(Timed)) = <<>>
  /\ Tail(After3(Stopping)) = <<>> /\ Tail(After3(Dumping)) = <<>>
  /\ Tail(After3(Timing)) = <<>> /\ Tail(Refused) = <<>>
  BY DEF Untimed, Timed, Stopping, Dumping, Refused, Timing, After1, After2,
         After3, After4, After5, After6, After7, After8, After9

\* Every rest is a sequence of the steps the module knows.
LEMMA CallsAreSteps == Calls \subseteq Seq(Steps)
  BY DEF Calls, Asking, Checking, Beginning, Begun, Settled, Ending,
         Resting, Steps, Untimed, Timed, Stopping, Dumping, Refused, Timing,
         After1, After2, After3, After4, After5, After6, After7, After8, After9

\* No rest of a call is of two phases.
LEMMA Disjoint ==
  /\ Asking \cap (Checking \cup Beginning \cup Begun \cup Settled \cup Ending \cup Resting) = {}
  /\ Checking \cap (Beginning \cup Begun \cup Settled \cup Ending \cup Resting) = {}
  /\ Beginning \cap (Begun \cup Settled \cup Ending \cup Resting) = {}
  /\ Begun \cap (Settled \cup Ending \cup Resting) = {}
  /\ Settled \cap (Ending \cup Resting) = {}
  /\ Ending \cap Resting = {}
  BY DEF Asking, Checking, Beginning, Begun, Settled, Ending, Resting,
         Untimed, Timed, Stopping, Dumping, Refused, Timing, After1, After2,
         After3, After4, After5, After6, After7, After8, After9

\* The phases calls begin and end in.
LEMMA Entries ==
  /\ Untimed \in Asking /\ Timed \in Asking
  /\ Stopping \in Settled /\ Dumping \in Begun /\ Refused \in Ending
  /\ <<>> \in Resting /\ Timing \in Resting
  BY DEF Asking, Settled, Begun, Ending, Resting

\* From one phase to the next.
LEMMA PhaseStep ==
  /\ \A c \in Asking : Head(c) = "assign" /\ Tail(c) \in Checking
  /\ \A c \in Checking :
       \/ Head(c) = "check_file" /\ Tail(c) \in Checking
       \/ Head(c) = "check_status" /\ Tail(c) \in Beginning
  /\ \A c \in Beginning : Head(c) = "begin" /\ Tail(c) \in Begun
  /\ \A c \in Begun :
       \/ Head(c) \in {"dump", "name", "count", "spawn"} /\ Tail(c) \in Begun
       \/ Head(c) = "running" /\ Tail(c) \in Settled
  /\ \A c \in Settled :
       \/ Head(c) \in {"dump", "name"} /\ Tail(c) \in Settled
       \/ Head(c) = "count" /\ Tail(c) = <<>>
       \/ Head(c) = "stop" /\ Tail(c) \in Ending
  /\ \A c \in Ending : Head(c) = "stopped" /\ Tail(c) = <<>>
  /\ Head(Timing) = "sleep" /\ Tail(Timing) \in Settled
  <1>1. \A c \in Asking : Head(c) = "assign" /\ Tail(c) \in Checking
    BY Heads DEF Asking, Checking, After1
  <1>2. \A c \in Checking :
          \/ Head(c) = "check_file" /\ Tail(c) \in Checking
          \/ Head(c) = "check_status" /\ Tail(c) \in Beginning
    BY Heads DEF Checking, Beginning, After2, After3
  <1>3. \A c \in Beginning : Head(c) = "begin" /\ Tail(c) \in Begun
    BY Heads DEF Beginning, Begun, After4
  <1>4. \A c \in Begun :
          \/ Head(c) \in {"dump", "name", "count", "spawn"} /\ Tail(c) \in Begun
          \/ Head(c) = "running" /\ Tail(c) \in Settled
    BY Heads DEF Begun, Settled, After1, After5, After6, After7, After8, After9
  <1>5. \A c \in Settled :
          \/ Head(c) \in {"dump", "name"} /\ Tail(c) \in Settled
          \/ Head(c) = "count" /\ Tail(c) = <<>>
          \/ Head(c) = "stop" /\ Tail(c) \in Ending
    BY Heads, Ends DEF Settled, Ending, After1, After2, After3
  <1>6. \A c \in Ending : Head(c) = "stopped" /\ Tail(c) = <<>>
    BY Heads, Ends DEF Ending
  <1>7. Head(Timing) = "sleep" /\ Tail(Timing) \in Settled
    BY Heads DEF Settled, After1
  <1> QED
    BY <1>1, <1>2, <1>3, <1>4, <1>5, <1>6, <1>7

\* The same from the name of the step.
LEMMA StepPhase ==
  ASSUME NEW c \in Calls, c # <<>>
  PROVE  /\ Head(c) = "assign" => c \in Asking /\ Tail(c) \in Checking
         /\ Head(c) = "check_file" => c \in Checking /\ Tail(c) \in Checking
         /\ Head(c) = "check_status" => c \in Checking /\ Tail(c) \in Beginning
         /\ Head(c) = "begin" => c \in Beginning /\ Tail(c) \in Begun
         /\ Head(c) = "spawn" => c \in Begun /\ Tail(c) \in Begun
         /\ Head(c) \in {"dump", "name"} =>
              (c \in Begun /\ Tail(c) \in Begun) \/ (c \in Settled /\ Tail(c) \in Settled)
         /\ Head(c) = "count" =>
              (c \in Begun /\ Tail(c) \in Begun) \/ (c \in Settled /\ Tail(c) = <<>>)
         /\ Head(c) = "running" => c \in Begun /\ Tail(c) \in Settled
         /\ Head(c) = "stop" => c \in Settled /\ Tail(c) \in Ending
         /\ Head(c) = "stopped" => c \in Ending /\ Tail(c) = <<>>
         /\ Head(c) = "sleep" => c = Timing /\ Tail(c) \in Settled
         /\ Head(c) = "sleep" <=> c \in Resting
  <1>1. CASE c \in Asking
    BY <1>1, PhaseStep, Disjoint
  <1>2. CASE c \in Checking
    BY <1>2, PhaseStep, Disjoint
  <1>3. CASE c \in Beginning
    BY <1>3, PhaseStep, Disjoint
  <1>4. CASE c \in Begun
    BY <1>4, PhaseStep, Disjoint
  <1>5. CASE c \in Settled
    BY <1>5, PhaseStep, Disjoint
  <1>6. CASE c \in Ending
    BY <1>6, PhaseStep, Disjoint
  <1>7. CASE c \in Resting
    BY <1>7, PhaseStep DEF Resting
  <1> QED
    BY <1>1, <1>2, <1>3, <1>4, <1>5, <1>6, <1>7 DEF Calls

\* The phases are disjoint, in the form the case splits use.
LEMMA Apart ==
  ASSUME NEW c
  PROVE  /\ c \in Checking => c \notin Asking
         /\ c \in Beginning => c \notin Asking /\ c \notin Checking
         /\ c \in Begun => c \notin Asking /\ c \notin Checking /\ c \notin Beginning
         /\ c \in Settled => /\ c \notin Asking /\ c \notin Checking
                            /\ c \notin Beginning /\ c \notin Begun
         /\ c \in Ending => /\ c \notin Asking /\ c \notin Checking /\ c \notin Beginning
                           /\ c \notin Begun /\ c \notin Settled
         /\ c \in Resting => /\ c \notin Asking /\ c \notin Checking /\ c \notin Beginning
                            /\ c \notin Begun /\ c \notin Settled /\ c \notin Ending
  BY Disjoint

\* A step leads to another rest of a call.
LEMMA TailIsCall ==
  ASSUME NEW c \in Calls, c # <<>>
  PROVE  Tail(c) \in Calls
  BY PhaseStep, Entries DEF Calls, Resting

\* What a thread begins with is a rest of a call.
LEMMA FirstRests ==
  /\ Untimed \in Calls /\ Timed \in Calls /\ Stopping \in Calls
  /\ Dumping \in Calls /\ Refused \in Calls /\ Timing \in Calls /\ <<>> \in Calls
  BY Entries DEF Calls

-----------------------------------------------------------------------------
(* The inductive invariant. *)

CallInv == call \in [Threads -> Calls]

\* Sessions that need a path have one, and so has gperftools while it is on.
PathInv ==
  /\ on => prefix \in Paths
  /\ \A s \in Sessions :
       /\ call[s] \in Asking => path[s] \in Paths
       /\ call[s] \in Checking \cup Beginning => memprof_dump_path \in Paths

\* While nothing overlaps, one thread at most is neither idle nor asleep.
Alone ==
  ~overlap => \A x, y \in Threads :
    x # y /\ call[x] \notin Resting => call[y] \in Resting

\* What the thread that is alone finds.
PhaseInv ==
  ~overlap =>
    /\ \A x \in Threads :
         /\ call[x] \in Beginning => ~on /\ memprof_status = "STOPPED"
         /\ call[x] \in Begun => on
         /\ call[x] \in Ending => ~on
    /\ (\A x \in Threads : call[x] \notin Beginning \cup Begun \cup Ending) =>
         (on <=> memprof_status = "RUNNING")

IInv == TypeOK /\ CallInv /\ PathInv /\ Alone /\ PhaseInv

\* Busy is defined by the next step, Resting by the rest.
LEMMA BusyIsNotResting ==
  ASSUME CallInv, NEW x \in Threads
  PROVE  Busy(x) <=> call[x] \notin Resting
  <1>1. call[x] \in Calls
    BY DEF CallInv
  <1> QED
    BY <1>1, StepPhase, Entries DEF Busy, At

\* The invariant holds at first.
LEMMA Initially == Init => IInv
  <1> SUFFICES ASSUME Init
               PROVE  IInv
    OBVIOUS
  <1>1. \A x \in Threads : call[x] = <<>>
    BY DEF Init
  <1>2. <<>> \in Resting /\ <<>> \in Calls
    BY Entries DEF Calls
  <1>3. CallInv /\ PathInv /\ Alone /\ PhaseInv
    BY <1>1, <1>2, Disjoint DEF Init, CallInv, PathInv, Alone, PhaseInv, Threads
  <1>4. TypeOK
    <2>1. call \in [Threads -> Seq(Steps)]
      BY <1>3, CallsAreSteps DEF CallInv
    <2>2. wrote \in [Sessions -> Files]
      BY DEF Init, Files, NoFile
    <2>3. dumps \in 0..MaxDumps
      BY BoundsAssumption DEF Init
    <2> QED
      BY <2>1, <2>2, <2>3 DEF Init, TypeOK
  <1> QED
    BY <1>3, <1>4 DEF IInv

\* ++dump_count may be the last step of a call, or not.
LEMMA CountMoves ==
  ASSUME CallInv, NEW s \in Sessions, Count(s)
  PROVE  /\ \/ call[s] \in Begun /\ Tail(call[s]) \in Begun
            \/ call[s] \in Settled /\ Tail(call[s]) \in Resting
         /\ call' = [call EXCEPT ![s] = Tail(@)]
  <1>1. call[s] \in Calls /\ call[s] # <<>> /\ Head(call[s]) = "count"
    BY DEF CallInv, Threads, Count, Do, At
  <1> QED
    BY <1>1, StepPhase, Entries DEF Count, Do

\* HeapProfilerStop is followed by the assignment of the status.
LEMMA StopMoves ==
  ASSUME CallInv, NEW x \in Threads, StopProfiler(x)
  PROVE  /\ call[x] \in Settled /\ Tail(call[x]) \in Ending
         /\ call' = [call EXCEPT ![x] = Tail(@)]
  <1>1. call[x] \in Calls /\ call[x] # <<>> /\ Head(call[x]) = "stop"
    BY DEF CallInv, StopProfiler, Do, At
  <1> QED
    BY <1>1, StepPhase DEF StopProfiler, Do

\* That assignment is the last step.
LEMMA StoppedMoves ==
  ASSUME CallInv, NEW x \in Threads, SetStopped(x)
  PROVE  /\ call[x] \in Ending /\ Tail(call[x]) \in Resting
         /\ call' = [call EXCEPT ![x] = Tail(@)]
  <1>1. call[x] \in Calls /\ call[x] # <<>> /\ Head(call[x]) = "stopped"
    BY DEF CallInv, SetStopped, Do, At
  <1> QED
    BY <1>1, StepPhase, Entries DEF SetStopped, Do

\* A timer thread is created asleep, by a call that goes on.
LEMMA SpawnMoves ==
  ASSUME CallInv, NEW s \in Sessions, NEW t \in Timers, Spawn(s, t)
  PROVE  /\ call[s] \in Begun /\ Tail(call[s]) \in Begun
         /\ s # t /\ call[t] \in Resting
         /\ call' = [call EXCEPT ![s] = Tail(@), ![t] = Timing]
  <1>1. call[s] \in Calls /\ call[s] # <<>> /\ Head(call[s]) = "spawn"
    BY DEF CallInv, Threads, Spawn, At
  <1>2. call[s] \in Begun /\ Tail(call[s]) \in Begun
    BY <1>1, StepPhase
  <1> QED
    BY <1>2, Entries, ThreadsAssumption DEF Spawn

\* Every step leads from one rest of a call to another.
LEMMA CallKept ==
  ASSUME CallInv, [Next]_vars
  PROVE  CallInv'
  <1> USE TailIsCall, FirstRests, ThreadsAssumption
      DEF CallInv, Do, At, Enter, gperftools, Threads
  <1>1. ASSUME NEW s \in Sessions, Session(s)
        PROVE  CallInv'
    <2>1. CASE StartCall(s, Untimed)
      BY <2>1 DEF StartCall
    <2>2. CASE StartCall(s, Timed)
      BY <2>2 DEF StartCall
    <2>3. CASE AssignPath(s)
      BY <2>3 DEF AssignPath
    <2>4. CASE CheckFile(s)
      BY <2>4 DEF CheckFile, Check
    <2>5. CASE CheckStatus(s)
      BY <2>5 DEF CheckStatus, Check
    <2>6. CASE Begin(s)
      BY <2>6 DEF Begin
    <2>7. CASE StopCall(s)
      BY <2>7 DEF StopCall
    <2>8. CASE DumpCall(s)
      BY <2>8 DEF DumpCall
    <2>9. CASE NameFile(s)
      BY <2>9 DEF NameFile
    <2>10. CASE Count(s)
      BY <2>10 DEF Count
    <2>11. CASE SetRunning(s)
      BY <2>11 DEF SetRunning
    <2>12. ASSUME NEW t \in Timers, Spawn(s, t)
          PROVE  CallInv'
      BY <2>12 DEF Spawn
    <2> QED
      BY <1>1, <2>1, <2>2, <2>3, <2>4, <2>5, <2>6, <2>7, <2>8, <2>9, <2>10, <2>11, <2>12
         DEF Session, Start, Record
  <1>2. ASSUME NEW x \in Threads, Operate(x)
        PROVE  CallInv'
    <2>1. CASE DumpHeap(x)
      BY <2>1 DEF DumpHeap, WriteDump
    <2>2. CASE StopProfiler(x)
      BY <2>2 DEF StopProfiler
    <2>3. CASE SetStopped(x)
      BY <2>3 DEF SetStopped
    <2> QED
      BY <1>2, <2>1, <2>2, <2>3 DEF Operate
  <1>3. ASSUME NEW t \in Timers, Wake(t)
        PROVE  CallInv'
    BY <1>3 DEF Wake
  <1>4. CASE AutoDump
    BY <1>4 DEF AutoDump, WriteDump
  <1>5. ASSUME NEW p \in Paths, SetDumpPath(p) \/ RemoveDump(p)
        PROVE  CallInv'
    BY <1>5 DEF SetDumpPath, RemoveDump
  <1>6. CASE UNCHANGED vars
    BY <1>6 DEF vars
  <1> QED
    BY <1>1, <1>2, <1>3, <1>4, <1>5, <1>6 DEF Next, Timer, Threads

\* A start reads dump_path, assigns it, and gives it to gperftools.
LEMMA PathKept ==
  ASSUME TypeOK, CallInv, PathInv, [Next]_vars
  PROVE  PathInv'
  <1> USE Apart, Entries, ThreadsAssumption
      DEF TypeOK, CallInv, PathInv,
          Do, At, Enter, component, gperftools, locals, history, Threads
  <1>1. ASSUME NEW s \in Sessions, Session(s)
        PROVE  PathInv'
    <2>1. CASE StartCall(s, Untimed)
      BY <2>1 DEF StartCall
    <2>2. CASE StartCall(s, Timed)
      BY <2>2 DEF StartCall
    <2>3. CASE AssignPath(s)
      BY <2>3, StepPhase DEF AssignPath
    <2>4. CASE CheckFile(s)
      BY <2>4, StepPhase DEF CheckFile, Check
    <2>5. CASE CheckStatus(s)
      BY <2>5, StepPhase DEF CheckStatus, Check
    <2>6. CASE Begin(s)
      BY <2>6, StepPhase DEF Begin
    <2>7. CASE StopCall(s)
      BY <2>7 DEF StopCall
    <2>8. CASE DumpCall(s)
      BY <2>8 DEF DumpCall
    <2>9. CASE NameFile(s)
      BY <2>9, StepPhase DEF NameFile
    <2>10. CASE Count(s)
      BY <2>10, CountMoves DEF Count
    <2>11. CASE SetRunning(s)
      BY <2>11, StepPhase DEF SetRunning
    <2>12. ASSUME NEW t \in Timers, Spawn(s, t)
          PROVE  PathInv'
      BY <2>12, SpawnMoves DEF Spawn
    <2> QED
      BY <1>1, <2>1, <2>2, <2>3, <2>4, <2>5, <2>6, <2>7, <2>8, <2>9, <2>10, <2>11, <2>12
         DEF Session, Start, Record
  <1>2. ASSUME NEW x \in Threads, Operate(x)
        PROVE  PathInv'
    <2>1. CASE DumpHeap(x)
      BY <2>1, StepPhase DEF DumpHeap, WriteDump
    <2>2. CASE StopProfiler(x)
      BY <2>2, StopMoves DEF StopProfiler
    <2>3. CASE SetStopped(x)
      BY <2>3, StoppedMoves DEF SetStopped
    <2> QED
      BY <1>2, <2>1, <2>2, <2>3 DEF Operate
  <1>3. ASSUME NEW t \in Timers, Wake(t)
        PROVE  PathInv'
    BY <1>3 DEF Wake
  <1>4. CASE AutoDump
    BY <1>4 DEF AutoDump, WriteDump
  <1>5. ASSUME NEW p \in Paths, SetDumpPath(p) \/ RemoveDump(p)
        PROVE  PathInv'
    BY <1>5 DEF SetDumpPath, RemoveDump
  <1>6. CASE UNCHANGED vars
    BY <1>6 DEF vars
  <1> QED
    BY <1>1, <1>2, <1>3, <1>4, <1>5, <1>6 DEF Next, Timer, Threads

\* The types.
LEMMA TypesKept ==
  ASSUME TypeOK, CallInv, PathInv, CallInv', [Next]_vars
  PROVE  TypeOK'
  <1>0. call' \in [Threads -> Seq(Steps)]
    BY CallsAreSteps DEF CallInv
  <1> USE BoundsAssumption, <1>0
      DEF TypeOK, PathInv, Files, NoFile, Meet, Disturbs,
          Do, At, Enter, component, gperftools, locals, history, Threads
  <1>1. ASSUME NEW s \in Sessions, Session(s)
        PROVE  TypeOK'
    <2>1. CASE StartCall(s, Untimed)
      BY <2>1 DEF StartCall
    <2>2. CASE StartCall(s, Timed)
      BY <2>2 DEF StartCall
    <2>3. CASE AssignPath(s)
      BY <2>3 DEF AssignPath
    <2>4. CASE CheckFile(s)
      BY <2>4 DEF CheckFile, Check
    <2>5. CASE CheckStatus(s)
      BY <2>5 DEF CheckStatus, Check
    <2>6. CASE Begin(s)
      <3>1. CASE on
        BY <2>6, <3>1 DEF Begin
      <3>2. CASE ~on
        <4>1. on' = TRUE /\ prefix' = memprof_dump_path /\ starts' = starts + 1
          BY <2>6, <3>2 DEF Begin
        <4> QED
          BY <2>6, <4>1 DEF Begin
      <3> QED
        BY <3>1, <3>2
    <2>7. CASE StopCall(s)
      BY <2>7 DEF StopCall
    <2>8. CASE DumpCall(s)
      BY <2>8 DEF DumpCall
    <2>9. CASE NameFile(s)
      BY <2>9 DEF NameFile
    <2>10. CASE Count(s)
      BY <2>10 DEF Count
    <2>11. CASE SetRunning(s)
      BY <2>11 DEF SetRunning
    <2>12. ASSUME NEW t \in Timers, Spawn(s, t)
          PROVE  TypeOK'
      BY <2>12 DEF Spawn
    <2> QED
      BY <1>1, <2>1, <2>2, <2>3, <2>4, <2>5, <2>6, <2>7, <2>8, <2>9, <2>10, <2>11, <2>12
         DEF Session, Start, Record
  <1>2. ASSUME NEW x \in Threads, Operate(x)
        PROVE  TypeOK'
    <2>1. CASE DumpHeap(x)
      BY <2>1 DEF DumpHeap, WriteDump
    <2>2. CASE StopProfiler(x)
      BY <2>2 DEF StopProfiler
    <2>3. CASE SetStopped(x)
      BY <2>3 DEF SetStopped
    <2> QED
      BY <1>2, <2>1, <2>2, <2>3 DEF Operate
  <1>3. ASSUME NEW t \in Timers, Wake(t)
        PROVE  TypeOK'
    BY <1>3 DEF Wake
  <1>4. CASE AutoDump
    <2>1. dumps' \in 0..MaxDumps
      BY <1>4 DEF AutoDump
    <2>2. written' \in Nat /\ first' \subseteq Paths
      BY <1>4 DEF AutoDump, WriteDump
    <2> QED
      BY <1>4, <2>1, <2>2 DEF AutoDump
  <1>5. ASSUME NEW p \in Paths, SetDumpPath(p) \/ RemoveDump(p)
        PROVE  TypeOK'
    BY <1>5 DEF SetDumpPath, RemoveDump
  <1>6. CASE UNCHANGED vars
    BY <1>6 DEF vars
  <1> QED
    BY <1>1, <1>2, <1>3, <1>4, <1>5, <1>6 DEF Next, Timer, Threads

\* A thread that becomes busy beside another sets overlap.
LEMMA AloneKept ==
  ASSUME TypeOK, CallInv, Alone, CallInv', [Next]_vars
  PROVE  Alone'
  <1> USE Apart, Entries, BusyIsNotResting
      DEF CallInv, Alone, Meet, Disturbs,
          Do, At, Enter, component, gperftools, locals, history, Threads
  <1>1. ASSUME NEW s \in Sessions, Session(s)
        PROVE  Alone'
    <2>1. CASE StartCall(s, Untimed)
      BY <2>1 DEF StartCall
    <2>2. CASE StartCall(s, Timed)
      BY <2>2 DEF StartCall
    <2>3. CASE AssignPath(s)
      BY <2>3, StepPhase DEF AssignPath
    <2>4. CASE CheckFile(s)
      BY <2>4, StepPhase DEF CheckFile, Check
    <2>5. CASE CheckStatus(s)
      BY <2>5, StepPhase DEF CheckStatus, Check
    <2>6. CASE Begin(s)
      BY <2>6, StepPhase DEF Begin
    <2>7. CASE StopCall(s)
      BY <2>7 DEF StopCall
    <2>8. CASE DumpCall(s)
      BY <2>8 DEF DumpCall
    <2>9. CASE NameFile(s)
      BY <2>9, StepPhase DEF NameFile
    <2>10. CASE Count(s)
      BY <2>10, CountMoves DEF Count
    <2>11. CASE SetRunning(s)
      BY <2>11, StepPhase DEF SetRunning
    <2>12. ASSUME NEW t \in Timers, Spawn(s, t)
          PROVE  Alone'
      <3>1. /\ call[s] \in Begun /\ Tail(call[s]) \in Begun
            /\ s # t /\ call[t] \in Resting
            /\ call' = [call EXCEPT ![s] = Tail(call[s]), ![t] = Timing]
        BY <2>12, SpawnMoves
      <3>2. UNCHANGED <<on, memprof_status, overlap>>
        BY <2>12 DEF Spawn
      <3> QED
        BY <3>1, <3>2
    <2> QED
      BY <1>1, <2>1, <2>2, <2>3, <2>4, <2>5, <2>6, <2>7, <2>8, <2>9, <2>10, <2>11, <2>12
         DEF Session, Start, Record
  <1>2. ASSUME NEW x \in Threads, Operate(x)
        PROVE  Alone'
    <2>1. CASE DumpHeap(x)
      BY <2>1, StepPhase DEF DumpHeap, WriteDump
    <2>2. CASE StopProfiler(x)
      BY <2>2, StopMoves DEF StopProfiler
    <2>3. CASE SetStopped(x)
      BY <2>3, StoppedMoves DEF SetStopped
    <2> QED
      BY <1>2, <2>1, <2>2, <2>3 DEF Operate
  <1>3. ASSUME NEW t \in Timers, Wake(t)
        PROVE  Alone'
    BY <1>3, StepPhase DEF Wake
  <1>4. CASE AutoDump
    BY <1>4 DEF AutoDump, WriteDump
  <1>5. ASSUME NEW p \in Paths, SetDumpPath(p) \/ RemoveDump(p)
        PROVE  Alone'
    BY <1>5 DEF SetDumpPath, RemoveDump
  <1>6. CASE UNCHANGED vars
    BY <1>6 DEF vars
  <1> QED
    BY <1>1, <1>2, <1>3, <1>4, <1>5, <1>6 DEF Next, Timer, Threads

\* Each step leads to what the next one of the same thread finds.
LEMMA PhaseKept ==
  ASSUME TypeOK, CallInv, Alone, PhaseInv, CallInv', [Next]_vars
  PROVE  PhaseInv'
  <1> USE Apart, Entries, BusyIsNotResting
      DEF TypeOK, CallInv, Alone, PhaseInv, Meet, Disturbs,
          Do, At, Enter, component, gperftools, locals, history, Threads
  <1>1. ASSUME NEW s \in Sessions, Session(s)
        PROVE  PhaseInv'
    <2>1. CASE StartCall(s, Untimed)
      BY <2>1 DEF StartCall
    <2>2. CASE StartCall(s, Timed)
      BY <2>2 DEF StartCall
    <2>3. CASE AssignPath(s)
      BY <2>3, StepPhase DEF AssignPath
    <2>4. CASE CheckFile(s)
      BY <2>4, StepPhase DEF CheckFile, Check
    <2>5. CASE CheckStatus(s)
      BY <2>5, StepPhase DEF CheckStatus, Check
    <2>6. CASE Begin(s)
      BY <2>6, StepPhase DEF Begin
    <2>7. CASE StopCall(s)
      BY <2>7 DEF StopCall
    <2>8. CASE DumpCall(s)
      BY <2>8 DEF DumpCall
    <2>9. CASE NameFile(s)
      BY <2>9, StepPhase DEF NameFile
    <2>10. CASE Count(s)
      BY <2>10, CountMoves DEF Count
    <2>11. CASE SetRunning(s)
      BY <2>11, StepPhase DEF SetRunning
    <2>12. ASSUME NEW t \in Timers, Spawn(s, t)
          PROVE  PhaseInv'
      <3>1. /\ call[s] \in Begun /\ Tail(call[s]) \in Begun
            /\ s # t /\ call[t] \in Resting
            /\ call' = [call EXCEPT ![s] = Tail(call[s]), ![t] = Timing]
        BY <2>12, SpawnMoves
      <3>2. UNCHANGED <<on, memprof_status, overlap>>
        BY <2>12 DEF Spawn
      <3> QED
        BY <3>1, <3>2
    <2> QED
      BY <1>1, <2>1, <2>2, <2>3, <2>4, <2>5, <2>6, <2>7, <2>8, <2>9, <2>10, <2>11, <2>12
         DEF Session, Start, Record
  <1>2. ASSUME NEW x \in Threads, Operate(x)
        PROVE  PhaseInv'
    <2>1. CASE DumpHeap(x)
      BY <2>1, StepPhase DEF DumpHeap, WriteDump
    <2>2. CASE StopProfiler(x)
      BY <2>2, StopMoves DEF StopProfiler
    <2>3. CASE SetStopped(x)
      BY <2>3, StoppedMoves DEF SetStopped
    <2> QED
      BY <1>2, <2>1, <2>2, <2>3 DEF Operate
  <1>3. ASSUME NEW t \in Timers, Wake(t)
        PROVE  PhaseInv'
    BY <1>3, StepPhase DEF Wake
  <1>4. CASE AutoDump
    BY <1>4 DEF AutoDump, WriteDump
  <1>5. ASSUME NEW p \in Paths, SetDumpPath(p) \/ RemoveDump(p)
        PROVE  PhaseInv'
    BY <1>5 DEF SetDumpPath, RemoveDump
  <1>6. CASE UNCHANGED vars
    BY <1>6 DEF vars
  <1> QED
    BY <1>1, <1>2, <1>3, <1>4, <1>5, <1>6 DEF Next, Timer, Threads

-----------------------------------------------------------------------------
(* The theorems. *)

\* The invariant holds in every state.
LEMMA Invariance == Spec => []IInv
  <1>1. Init => IInv
    BY Initially
  <1>2. IInv /\ [Next]_vars => IInv'
    <2> SUFFICES ASSUME IInv, [Next]_vars
                 PROVE  IInv'
      OBVIOUS
    <2>1. CallInv'
      BY CallKept DEF IInv
    <2> QED
      BY <2>1, PathKept, TypesKept, AloneKept, PhaseKept DEF IInv
  <1> QED
    BY <1>1, <1>2, PTL DEF Spec

\* The globals of memory.cc, the calls and gperftools keep their types, and
\* no more dumps are asked for than the bound allows.
THEOREM TypeCorrect == Spec => []TypeOK
  BY Invariance, PTL DEF IInv

\* However many sessions and timers there are, the status tells between the
\* calls whether gperftools is profiling, unless two of them have met.
THEOREM StatusIsRight == Spec => []StatusMatchesProfiler
  <1>1. IInv => StatusMatchesProfiler
    <2> SUFFICES ASSUME IInv, ~overlap, \A x \in Threads : ~Busy(x)
                 PROVE  on <=> memprof_status = "RUNNING"
      BY DEF StatusMatchesProfiler
    <2>1. \A x \in Threads : call[x] \in Resting
      BY BusyIsNotResting DEF IInv
    <2>2. \A x \in Threads : call[x] \notin Beginning \cup Begun \cup Ending
      BY <2>1, Apart
    <2> QED
      BY <2>2 DEF IInv, PhaseInv
  <1> QED
    BY <1>1, Invariance, PTL

\* Under the same condition HeapProfilerStart is called only while gperftools
\* is off: the prefix of the dumps is the path of the call.
THEOREM StartIsObeyed == Spec => []StartFindsProfilerOff
  <1>1. IInv => StartFindsProfilerOff
    <2> SUFFICES ASSUME IInv, ~overlap, NEW s \in Sessions, At(s, "begin")
                 PROVE  ~on
      BY DEF StartFindsProfilerOff
    <2>1. call[s] \in Calls /\ s \in Threads
      BY DEF IInv, CallInv, Threads
    <2>2. call[s] \in Beginning
      BY <2>1, StepPhase DEF At
    <2> QED
      BY <2>1, <2>2 DEF IInv, PhaseInv
  <1> QED
    BY <1>1, Invariance, PTL

-----------------------------------------------------------------------------
(* Numbers: plain says that nothing has met and no timer was started.      *)

\* The component's number is the one of the dump that is to be written.
DumpDue == {After4(Untimed), After4(Timed), Stopping, Dumping, After1(Dumping)}

\* It is the one of the dump just written, which the row has to name.
NameDue == {After5(Untimed), After5(Timed), After1(Stopping), After2(Dumping)}

\* It still is, and has to be advanced unless the profiler is stopped.
CountDue ==
  {After6(Untimed), After7(Untimed), After6(Timed), After2(Stopping), After3(Dumping)}

\* The call has not begun to dump, or is through with it.
NothingDue ==
  Asking \cup Checking \cup Beginning
    \cup {<<>>, After7(Timed), After3(Stopping), Refused}

PlainInv ==
  plain =>
    /\ ~overlap
    /\ \A t \in Timers : call[t] = <<>>
    /\ \A s \in Sessions : call[s] \in DumpDue \cup NameDue \cup CountDue \cup NothingDue

\* Until the profiler is started for the first time nothing is counted.
UnstartedInv ==
  plain /\ starts = 0 =>
    /\ ~on /\ written = 0 /\ dump_count = 1
    /\ \A s \in Sessions : call[s] \in NothingDue

\* From then on the component counts as gperftools does, until it is started again.
CountInv ==
  plain /\ starts = 1 =>
    /\ \A s \in Sessions :
         /\ call[s] \in DumpDue => on
         /\ call[s] \in NameDue \cup CountDue => dump_count = written
         /\ call[s] \in NameDue => wrote[s] = [path |-> prefix, n |-> written]
    /\ on /\ (\A s \in Sessions : call[s] \in DumpDue \cup NothingDue) =>
         dump_count = written + 1

\* The rests of a call are told apart by what is due.
LEMMA DueApart ==
  /\ DumpDue \cap (NameDue \cup CountDue \cup NothingDue) = {}
  /\ NameDue \cap (CountDue \cup NothingDue) = {}
  /\ CountDue \cap NothingDue = {}
  /\ Timing \notin DumpDue \cup NameDue \cup CountDue \cup NothingDue
  BY DEF DumpDue, NameDue, CountDue, NothingDue, Asking, Checking, Beginning,
         Untimed, Timed, Stopping, Dumping, Refused, Timing, After1, After2,
         After3, After4, After5, After6, After7, After8, After9

\* What is due before and after each step.
LEMMA DueStep ==
  ASSUME NEW c \in DumpDue \cup NameDue \cup CountDue \cup NothingDue, c # <<>>
  PROVE  /\ Head(c) = "assign" => c \in NothingDue /\ Tail(c) \in NothingDue
         /\ Head(c) = "check_file" => c \in NothingDue /\ Tail(c) \in NothingDue
         /\ Head(c) = "check_status" => c \in NothingDue /\ Tail(c) \in NothingDue
         /\ Head(c) = "begin" => c \in Beginning /\ Tail(c) \in DumpDue
         /\ Head(c) = "dump" => c \in DumpDue /\ Tail(c) \in NameDue
         /\ Head(c) = "name" => c \in NameDue /\ Tail(c) \in CountDue
         /\ Head(c) = "running" =>
              (c \in DumpDue /\ Tail(c) \in DumpDue) \/ (c \in CountDue /\ Tail(c) \in CountDue)
         /\ Head(c) = "count" => c \in CountDue /\ Tail(c) \in NothingDue
         /\ Head(c) = "stop" => c \in CountDue /\ Tail(c) \in NothingDue
         /\ Head(c) = "stopped" => c \in NothingDue /\ Tail(c) \in NothingDue
         /\ Head(c) # "sleep"
  <1>1. CASE c \in DumpDue
    BY <1>1, Heads DEF DumpDue, NameDue, After1, After2, After5
  <1>2. CASE c \in NameDue
    BY <1>2, Heads DEF NameDue, CountDue, After2, After3, After6
  <1>3. CASE c \in CountDue
    BY <1>3, Heads, Ends DEF CountDue, NothingDue, After3, After7
  <1>4. CASE c \in NothingDue
    <2>1. CASE c \in Asking
      BY <2>1, PhaseStep DEF NothingDue
    <2>2. CASE c \in Checking
      BY <2>2, PhaseStep DEF NothingDue
    <2>3. CASE c \in Beginning
      BY <2>3, Heads DEF Beginning, DumpDue, After4
    <2>4. CASE c \in {After7(Timed), After3(Stopping), Refused}
      BY <2>4, Heads, Ends DEF NothingDue
    <2> QED
      BY <1>4, <2>1, <2>2, <2>3, <2>4 DEF NothingDue
  <1> QED
    BY <1>1, <1>2, <1>3, <1>4

\* The first steps of the calls.
LEMMA DueFirst ==
  /\ Untimed \in NothingDue /\ Timed \in NothingDue /\ Refused \in NothingDue
  /\ Stopping \in DumpDue /\ Dumping \in DumpDue /\ <<>> \in NothingDue
  BY DEF NothingDue, DumpDue, Asking

\* While one thread is inside a call, the other sessions are not.
OthersIdle(s) == \A r \in Sessions \ {s} : call[r] = <<>>

\* The calls of other sessions were over before this one began, if nothing met.
LEMMA InsideAlone ==
  ASSUME CallInv, Alone, PlainInv, plain, NEW s \in Sessions
  PROVE  /\ call[s] # <<>> => OthersIdle(s)
         /\ ~Disturbs(s) => OthersIdle(s)
  <1>1. ASSUME NEW r \in Sessions, call[r] \in Resting
        PROVE  call[r] = <<>>
    BY <1>1, DueApart DEF PlainInv, Resting
  <1>2. CASE call[s] # <<>>
    <2>1. call[s] \notin Resting
      BY <1>1, <1>2
    <2> QED
      BY <1>1, <2>1 DEF Alone, PlainInv, OthersIdle, Threads
  <1>3. CASE ~Disturbs(s)
    BY <1>1, <1>3, BusyIsNotResting DEF Disturbs, OthersIdle, Threads
  <1> QED
    BY <1>2, <1>3

\* So a step of one session concerns only what is due in its own call.
LEMMA OneMoves ==
  ASSUME PlainInv, plain, NEW s \in Sessions, CallInv, OthersIdle(s), ~overlap',
         NEW c \in DumpDue \cup NameDue \cup CountDue \cup NothingDue,
         call' = [call EXCEPT ![s] = c]
  PROVE  /\ PlainInv'
         /\ (starts' = 0 => ~on' /\ written' = 0 /\ dump_count' = 1 /\ c \in NothingDue)
              => UnstartedInv'
         /\ (starts' = 1 =>
               /\ c \in DumpDue => on'
               /\ c \in NameDue \cup CountDue => dump_count' = written'
               /\ c \in NameDue => wrote'[s] = [path |-> prefix', n |-> written']
               /\ on' /\ c \in DumpDue \cup NothingDue => dump_count' = written' + 1)
              => CountInv'
  <1>1. call'[s] = c /\ \A r \in Sessions \ {s} : call'[r] = <<>>
    BY DEF CallInv, Threads, OthersIdle
  <1>2. \A t \in Timers : call'[t] = <<>>
    BY ThreadsAssumption DEF CallInv, Threads, PlainInv
  <1>3. \A r \in Sessions \ {s} :
          /\ call'[r] \in NothingDue
          /\ call'[r] \notin DumpDue /\ call'[r] \notin NameDue /\ call'[r] \notin CountDue
    BY <1>1, DueFirst, DueApart
  <1>4. PlainInv'
    BY <1>1, <1>2, <1>3 DEF PlainInv
  <1>5. (starts' = 0 => ~on' /\ written' = 0 /\ dump_count' = 1 /\ c \in NothingDue)
          => UnstartedInv'
    BY <1>1, <1>3 DEF UnstartedInv
  <1>6. (starts' = 1 =>
           /\ c \in DumpDue => on'
           /\ c \in NameDue \cup CountDue => dump_count' = written'
           /\ c \in NameDue => wrote'[s] = [path |-> prefix', n |-> written']
           /\ on' /\ c \in DumpDue \cup NothingDue => dump_count' = written' + 1)
          => CountInv'
    BY <1>1, <1>3 DEF CountInv
  <1> QED
    BY <1>4, <1>5, <1>6

\* The component counts one for each dump of gperftools.
LEMMA NumbersKept ==
  ASSUME IInv, PlainInv, UnstartedInv, CountInv, [Next]_vars
  PROVE  (PlainInv /\ UnstartedInv /\ CountInv)'
  <1> SUFFICES ASSUME plain'
               PROVE  (PlainInv /\ UnstartedInv /\ CountInv)'
    BY DEF PlainInv, UnstartedInv, CountInv
  <1>0. CASE UNCHANGED vars \/ \E p \in Paths : SetDumpPath(p) \/ RemoveDump(p)
    <2>1. UNCHANGED <<dump_count, on, prefix, written, call, wrote, starts, plain, overlap>>
      BY <1>0 DEF vars, component, gperftools, locals, history, SetDumpPath, RemoveDump
    <2>2. PlainInv'
      BY <2>1 DEF PlainInv
    <2>3. UnstartedInv'
      BY <2>1 DEF UnstartedInv
    <2>4. CountInv'
      BY <2>1 DEF CountInv
    <2> QED
      BY <2>2, <2>3, <2>4
  <1>1. CASE AutoDump
    BY <1>1 DEF AutoDump
  <1>2. ASSUME NEW t \in Timers, Timer(t)
        PROVE  FALSE
    <2>1. plain /\ call[t] # <<>>
      BY <1>2 DEF Timer, Wake, Operate, DumpHeap, StopProfiler, SetStopped, Do, At,
                  Meet, history
    <2> QED
      BY <2>1 DEF PlainInv
  <1>3. ASSUME NEW s \in Sessions, Session(s) \/ Operate(s)
        PROVE  (PlainInv /\ UnstartedInv /\ CountInv)'
    <2> DEFINE Due == DumpDue \cup NameDue \cup CountDue \cup NothingDue
    <2>0. plain /\ s \in Threads /\ CallInv /\ Alone
      BY <1>3 DEF Session, Start, StartCall, AssignPath, CheckFile, CheckStatus, Check,
                  Begin, Spawn, Record, NameFile, Count, StopCall, DumpCall, SetRunning,
                  Operate, DumpHeap, StopProfiler, SetStopped, Meet, history,
                  Threads, IInv
    <2>1. ~overlap /\ call[s] \in Due /\ OthersIdle(s)
      <3>1. ~overlap /\ call[s] \in Due
        BY <2>0 DEF PlainInv
      <3>2. call[s] # <<>> \/ ~Disturbs(s)
        BY <1>3 DEF Session, Start, StartCall, AssignPath, CheckFile, CheckStatus, Check,
                    Begin, Spawn, Record, NameFile, Count, StopCall, DumpCall, SetRunning,
                    Operate, DumpHeap, StopProfiler, SetStopped, Meet, Do, At
      <3> QED
        BY <2>0, <3>1, <3>2, InsideAlone
    \* What is due tells the numbers before the step.
    <2>2. /\ starts = 0 => ~on /\ written = 0 /\ dump_count = 1 /\ call[s] \in NothingDue
          /\ starts = 1 =>
               /\ call[s] \in DumpDue => on /\ dump_count = written + 1
               /\ call[s] \in NameDue \cup CountDue => dump_count = written
               /\ on /\ call[s] \in NothingDue => dump_count = written + 1
      <3>1. \A r \in Sessions \ {s} : call[r] \in NothingDue
        BY <2>1, DueFirst DEF OthersIdle
      <3> QED
        BY <2>0, <3>1 DEF UnstartedInv, CountInv
    <2> USE <2>0, <2>1, <2>2, DueFirst, DueApart
    <2>3. ASSUME NEW steps \in {Untimed, Timed}, StartCall(s, steps)
          PROVE  (PlainInv /\ UnstartedInv /\ CountInv)'
      <3>1. /\ ~overlap' /\ call' = [call EXCEPT ![s] = steps] /\ steps \in NothingDue
            /\ call[s] = <<>>
            /\ UNCHANGED <<starts, on, written, dump_count>>
        BY <2>3 DEF StartCall, Enter, Meet, component, gperftools
      <3> QED
        BY <3>1, OneMoves
    <2>4. CASE AssignPath(s)
      <3>1. /\ ~overlap' /\ call' = [call EXCEPT ![s] = Tail(call[s])]
            /\ call[s] # <<>> /\ Head(call[s]) = "assign"
            /\ UNCHANGED <<starts, on, written, dump_count>>
        BY <2>4 DEF AssignPath, Do, At, gperftools, history
      <3>2. call[s] \in NothingDue /\ Tail(call[s]) \in NothingDue
        BY <3>1, DueStep
      <3> QED
        BY <3>1, <3>2, OneMoves
    <2>5. CASE CheckFile(s) \/ CheckStatus(s)
      <3>1. /\ ~overlap'
            /\ \/ call' = [call EXCEPT ![s] = Tail(call[s])]
               \/ call' = [call EXCEPT ![s] = <<>>]
            /\ call[s] # <<>> /\ Head(call[s]) \in {"check_file", "check_status"}
            /\ UNCHANGED <<starts, on, written, dump_count>>
        BY <2>5 DEF CheckFile, CheckStatus, Check, At, component, gperftools, history
      <3>2. call[s] \in NothingDue /\ Tail(call[s]) \in NothingDue
        BY <3>1, DueStep
      <3> QED
        BY <3>1, <3>2, OneMoves
    <2>6. CASE Begin(s)
      <3>1. /\ ~overlap' /\ call' = [call EXCEPT ![s] = Tail(call[s])]
            /\ call[s] # <<>> /\ Head(call[s]) = "begin"
            /\ UNCHANGED <<written, dump_count>>
        BY <2>6 DEF Begin, Do, At, component
      <3>2. call[s] \in Beginning /\ Tail(call[s]) \in DumpDue
        BY <3>1, DueStep
      <3>3. ~on
        BY <3>2 DEF IInv, PhaseInv
      <3>4. on' = TRUE /\ starts' = starts + 1 /\ starts \in Nat
        BY <2>6, <3>3 DEF Begin, IInv, TypeOK
      <3>5. starts' # 0 /\ (starts' = 1 => starts = 0)
        BY <3>4
      <3> QED
        BY <3>1, <3>2, <3>4, <3>5, OneMoves
    <2>7. CASE \E t \in Timers : Spawn(s, t)
      BY <2>7 DEF Spawn
    <2>8. CASE StopCall(s)
      <3>1. /\ ~overlap' /\ call' = [call EXCEPT ![s] = Stopping]
            /\ call[s] = <<>> /\ memprof_status # "STOPPED" /\ ~Disturbs(s)
            /\ UNCHANGED <<starts, on, written, dump_count>>
        BY <2>8 DEF StopCall, Enter, Meet, component, gperftools
      <3>2. on
        <4>1. \A x \in Threads : call[x] = <<>>
          BY <3>1 DEF OthersIdle, PlainInv, Threads
        <4>2. \A x \in Threads : call[x] \notin Beginning \cup Begun \cup Ending
          BY <4>1, Entries, Apart
        <4> QED
          BY <3>1, <4>2 DEF IInv, PhaseInv, TypeOK
      <3>3. call[s] \in NothingDue /\ Stopping \in DumpDue
        BY <3>1
      <3> QED
        BY <3>1, <3>2, <3>3, OneMoves
    <2>9. CASE DumpCall(s)
      <3>1. /\ ~overlap' /\ call' = [call EXCEPT ![s] = IF on THEN Dumping ELSE Refused]
            /\ call[s] = <<>>
            /\ UNCHANGED <<starts, on, written, dump_count>>
        BY <2>9 DEF DumpCall, Enter, Meet, component, gperftools
      <3>2. call[s] \in NothingDue /\ Dumping \in DumpDue /\ Refused \in NothingDue
        BY <3>1
      <3>3. CASE on
        BY <3>1, <3>2, <3>3, OneMoves
      <3>4. CASE ~on
        BY <3>1, <3>2, <3>4, OneMoves
      <3> QED
        BY <3>3, <3>4
    <2>10. CASE NameFile(s)
      <3>1. /\ ~overlap' /\ call' = [call EXCEPT ![s] = Tail(call[s])]
            /\ call[s] # <<>> /\ Head(call[s]) = "name"
            /\ UNCHANGED <<starts, on, written, dump_count>>
        BY <2>10 DEF NameFile, Do, At, component, gperftools, history
      <3>2. call[s] \in NameDue /\ Tail(call[s]) \in CountDue
        BY <3>1, DueStep
      <3> QED
        BY <3>1, <3>2, OneMoves
    <2>11. CASE Count(s)
      <3>1. /\ ~overlap' /\ call' = [call EXCEPT ![s] = Tail(call[s])]
            /\ call[s] # <<>> /\ Head(call[s]) = "count"
            /\ UNCHANGED <<starts, on, written>>
        BY <2>11 DEF Count, Do, At, gperftools, history
      <3>2. call[s] \in CountDue /\ Tail(call[s]) \in NothingDue
        BY <3>1, DueStep
      <3>3. dump_count' = dump_count + 1
        BY <2>11 DEF Count, OthersIdle, At
      <3> QED
        BY <3>1, <3>2, <3>3, OneMoves
    <2>12. CASE SetRunning(s)
      <3>1. /\ ~overlap' /\ call' = [call EXCEPT ![s] = Tail(call[s])]
            /\ call[s] # <<>> /\ Head(call[s]) = "running"
            /\ UNCHANGED <<starts, on, written, dump_count>>
        BY <2>12 DEF SetRunning, Do, At, gperftools, history
      <3>2. \/ call[s] \in DumpDue /\ Tail(call[s]) \in DumpDue
            \/ call[s] \in CountDue /\ Tail(call[s]) \in CountDue
        BY <3>1, DueStep
      <3> QED
        BY <3>1, <3>2, OneMoves
    <2>13. CASE DumpHeap(s)
      <3>1. /\ ~overlap' /\ call' = [call EXCEPT ![s] = Tail(call[s])]
            /\ call[s] # <<>> /\ Head(call[s]) = "dump"
            /\ UNCHANGED <<starts, on, prefix, dump_count>>
        BY <2>13 DEF DumpHeap, Do, At, component, history
      <3>2. call[s] \in DumpDue /\ Tail(call[s]) \in NameDue
        BY <3>1, DueStep
      <3>3. on => /\ written' = written + 1
                  /\ wrote'[s] = [path |-> prefix', n |-> written']
        BY <2>13, <3>1 DEF DumpHeap, WriteDump
      <3> QED
        BY <3>1, <3>2, <3>3, OneMoves
    <2>14. CASE StopProfiler(s)
      <3>1. /\ ~overlap' /\ call' = [call EXCEPT ![s] = Tail(call[s])]
            /\ call[s] # <<>> /\ Head(call[s]) = "stop"
            /\ ~on' /\ UNCHANGED <<starts, written, dump_count>>
        BY <2>14 DEF StopProfiler, Do, At, component, history
      <3>2. call[s] \in CountDue /\ Tail(call[s]) \in NothingDue
        BY <3>1, DueStep
      <3> QED
        BY <3>1, <3>2, OneMoves
    <2>15. CASE SetStopped(s)
      <3>1. /\ ~overlap' /\ call' = [call EXCEPT ![s] = Tail(call[s])]
            /\ call[s] # <<>> /\ Head(call[s]) = "stopped"
            /\ UNCHANGED <<starts, on, written, dump_count>>
        BY <2>15 DEF SetStopped, Do, At, gperftools, history
      <3>2. call[s] \in NothingDue /\ Tail(call[s]) \in NothingDue
        BY <3>1, DueStep
      <3> QED
        BY <3>1, <3>2, OneMoves
    <2> QED
      BY <1>3, <2>3, <2>4, <2>5, <2>6, <2>7, <2>8, <2>9, <2>10, <2>11, <2>12, <2>13,
         <2>14, <2>15 DEF Session, Start, Record, Operate
  <1> QED
    BY <1>0, <1>1, <1>2, <1>3 DEF Next

\* In the first session, if nobody meets and nothing but a session dumps, each
\* "dumped" row names the file that gperftools has just written.
THEOREM RowsNameFiles == Spec => []FirstSessionRowsNameFiles
  <1>1. Init => PlainInv /\ UnstartedInv /\ CountInv
    <2>1. Init => PlainInv
      BY DueFirst DEF Init, PlainInv, Threads
    <2>2. Init => UnstartedInv /\ CountInv
      BY DueFirst DEF Init, UnstartedInv, CountInv, Threads
    <2> QED
      BY <2>1, <2>2
  <1>2. IInv /\ PlainInv /\ UnstartedInv /\ CountInv /\ [Next]_vars
          => (PlainInv /\ UnstartedInv /\ CountInv)'
    BY NumbersKept
  <1>3. PlainInv /\ CountInv => FirstSessionRowsNameFiles
    <2> SUFFICES ASSUME PlainInv, CountInv, plain, starts = 1, memprof_dump_path = prefix,
                        NEW s \in Sessions, At(s, "name")
                 PROVE  RowFile = wrote[s]
      BY DEF FirstSessionRowsNameFiles
    <2>1. call[s] \in NameDue
      BY DueStep DEF At, PlainInv
    <2> QED
      BY <2>1 DEF CountInv, RowFile
  <1> QED
    BY <1>1, <1>2, <1>3, Invariance, PTL DEF Spec

=============================================================================
