# A TLA+ model of mysql-component-profiler

The repository is a set of four MySQL components (C++) that profile `mysqld`:
functions (UDFs) start, stop and dump the profilers of gperftools and jemalloc
and run `pprof` or `jeprof` on what they wrote, and each action is recorded in
the table `performance_schema.profiler_actions`. This directory models the
parts where threads, files and external profilers meet, checks them with TLC on
small instances, and proves with TLAPS, for every size, every safety property
that TLC checks in them: of the table, the three profilers, the files, the
lifecycle and the reports. What must eventually happen stays with TLC.

    tlc -workers 2 -config table.cfg MCActionsTable    # any run: its cfg, its MC module
    tlapm ActionsTableProofs.tla                       # the proofs: one module per component

`PROJECT.json` lists the runs, the mutants (a plausible defect for each property
of each passing run, which the run then reports), the source lines of each
definition, the findings, the hazards and the theorems.

## 1. Inventory

| Part | Source | State | Operations |
|---|---|---|---|
| component `profiler` | profiler.cc | sysvars `dump_path`, `pprof_binary`; the mutex | `SET GLOBAL`, `profiler_cleanup()`, services `profiler_var.get`, `profiler_pfs.add`, init/deinit |
| the table | profiler_pfs.cc/.h | `profiler_array` (100 pointers), `profiler_next_available_index`; per handle `m_pos`, `m_next_pos`, `current_row` | `addProfiler_element`, open, close, `rnd_init`, `rnd_next`, `rnd_pos`, `reset_position`, `read_column_value` |
| `profiler_cpu` | cpu.cc | `cpuprof_status`, `cpuprof_dump_path` | `cpuprof_start`, `cpuprof_stop`, `cpuprof_report` |
| `profiler_memory` | memory.cc | `memprof_status`, `memprof_dump_path`, `dump_count`; detached timer threads | `memprof_start([seconds])`, `memprof_stop`, `memprof_dump`, `memprof_report`, `memprof_diff` |
| `profiler_jemalloc_memory` | jemalloc_memory.cc | `memprof_jemalloc_status`, `memprof_jemalloc_dump_path`, `dump_count`; sysvar `jeprof_binary` | `memprof_jemalloc_start`, `_stop`, `_dump`, `_report` |
| shared code | common.cc | none | privilege check, `get_mysqld`, `exec_pprof`, `limit_lines` |
| external | gperftools, jemalloc | collecting or not, file prefix, number of the last dump | `ProfilerStart/Stop`, `HeapProfilerStart/Dump/Stop`, `mallctl` |

**How they interact.** The three profilers read `dump_path` through
`profiler_var.get` at the start of a profile, keep their own copy of it, and
add rows through `profiler_pfs.add`. A report asks `profiler_var.get` for the
path of `pprof`, runs it with `popen` and returns what it writes.
`profiler_cleanup()` removes files by
prefix whatever the profilers are doing. Everything is called on the threads of
the client sessions, so any two calls may run side by side.

**What is hard here.**

- There is one lock, `LOCK_profiler_data`, and only `addProfiler_element` takes
  it. Statements that read the table take none; no profiler guards its globals.
- A profiler's status string and the profiler itself are two pieces of state,
  checked and changed in separate steps; some errors of the libraries are ignored.
- File names are guessed: the component counts dumps, gperftools counts them too.
- A timed heap profile is ended by a detached thread that knows only how long
  to sleep.
- Files outlive the server, the counters do not.
- `INSTALL COMPONENT` is a dozen calls that may each fail, and functions can be
  called as soon as they are registered; `UNINSTALL COMPONENT` may fail half way
  and be tried again.
- The reports take optional arguments apart by hand, from untyped pointers.

**What makes each part correct.** The table holds the latest 100 actions, a
statement sees each row that stays, and never a deleted record. A profiler's
status tells whether it is profiling; a profile under way can be stopped; a
finished profile is not overwritten, and no report reads one that is being
written; rows and reports name the files that were written; a timed profile
ends, and only that one. A component that is not installed leaves nothing
behind that leads into it, and nothing of it runs. A report is the one its
arguments ask for.

## 2. The modules

| Module | Models | Checked by |
|---|---|---|
| `ActionLog` | what the table promises: a log of the latest actions | refined by `ActionsTable` |
| `ActionsTable` | profiler_pfs.cc: writers, ring, handles | runs `table`, `table_read_race` |
| `ActionsTableProofs` | theorems about `ActionsTable` | tlapm |
| `CpuProfiler` | cpu.cc, several sessions | run `cpu` |
| `CpuProfilerProofs` | theorems about `CpuProfiler` | tlapm |
| `HeapProfiler` | memory.cc: start, stop, dump, timers | runs `heap_sessions`, `heap_timer`, `heap_stale_timer`, `heap_filename` |
| `HeapProfilerProofs` | theorems about `HeapProfiler` | tlapm |
| `DumpFiles` | names and numbers of the dumps, `memprof_report()`, cleanup, restart | runs `files`, `files_old_data` |
| `FileNamesProofs` | lemmas about `DumpFiles`: digits, the order of names, the last file | tlapm |
| `DumpFilesProofs` | theorems about `DumpFiles` | tlapm |
| `JemallocProfiler` | jemalloc_memory.cc, several sessions | run `jemalloc` |
| `JemallocProfilerProofs` | theorems about `JemallocProfiler` | tlapm |
| `Lifecycle` | init and deinit of the four components, with sessions and timers | run `lifecycle` |
| `LifecycleProofs` | theorems about `Lifecycle` | tlapm |
| `Reports` | arguments and results of the four reports, `profiler_var.get`, common.cc | run `reports` |
| `ReportsProofs` | theorems about `Reports` | tlapm |

The `MC...` modules give the constants of these runs their values.

### Conventions

A call is split at each access to state that other threads change; the steps in
between are local and belong to the step before. A refused call that changes
nothing (privilege, number of arguments, status that does not fit) is a guard.
Library calls that may fail have an alternative for it. Operators commented
*defective* are the mutants; nothing else uses them. Variables under *history*
are read by properties and (when named so) by bounds, never by what models code.

### ActionsTable

| Code | Action |
|---|---|
| `addProfiler_element`: lock, `index = next++ % MAX` | `Claim` |
| `delete record` (the slot keeps the pointer) | `Delete` |
| `new`, fill, store the pointer | `Store` |
| unlock | `Unlock` |
| `profiler_open_table`, `profiler_close_table`, `profiler_reset_position` | `Open`, `Close`, `Reset` |
| `profiler_rnd_next`: fetch the pointer / copy the record and advance | `RndNext` / `CopyNext` |
| `profiler_rnd_pos`: fetch / copy | `RndPos` / `CopyPos` |

A record is its number (the counter when it was claimed) and an action. `heap`
says which records are allocated: a copy from one that is not may read anything
(`Garbage`, or any action). The contents of a record, the columns and the time
are abstracted. The code calls `time()` before it takes the lock, so the column
LOGGED need not follow the order of the ring; no property is about it.

### CpuProfiler

The steps of `cpuprof_start` are `StartCall` (reads the variable into a
buffer), `AssignPath` (the global), `BuildPath` (the file name, from the
global), `CheckFile`, `Begin` (`ProfilerStart`, whose result the code ignores),
`SetRunning`, `LogStarted`; of `cpuprof_stop`: `StopCall`, `StopProfiler`,
`SetStopped`, `BuildStopped`, `LogStopped`; of `cpuprof_report`: `ReportCall`,
`RunPprof`, `ReportEnds`. `SetDumpPath` and `RemoveProfile` (a file that
`profiler_cleanup` removes) may come at any moment. The file of a profile is
absent, being written ("open"), or complete.

### HeapProfiler

Every thread carries the sequence of steps it still has to do (`call`), so a
call is one of the sequences `Untimed`, `Timed`, `Stopping`, `Dumping`,
`Refused`, `Timing`, which read like the functions, and an action is the next
step of somebody. `memprof_dump` takes the status from gperftools: it sets
RUNNING or STOPPED by what `IsHeapProfilerRunning` said. gperftools is modelled
by what the component sees of it: starting while on is ignored, dumping while
off is ignored, numbers go on from one profile to the next, and it also dumps
by itself (`AutoDump`). `dump_count` is a plain `int`, and two increments at
once may lose one (`Count`).

### DumpFiles

The same calls as single steps, and in exchange the files and their names:
the digits of a number (at least `Width` of them, base `Base`), the order in
which `std::string` compares two names, prefixes of prefixes (`Longer`), CPU
profiles of the same path, `profiler_cleanup()`, dumps that the jemalloc
profiler writes under the same names (`JemallocDump`), and a restart of the
server (`Restart`, external), after which files stay and counters begin again.
Files of earlier runs and those of jemalloc are in the history variable `old`;
`among` notes that a profile has met some in its path.
`get_last_file_with_prefix` is `LastFile`, and `reported` the set of the files
`memprof_report()` has read. The names of different paths are compared by a constant,
`Before`: a name goes on with a dot after its path, so the paths decide, unless
one continues another with a dot and a number ("/tmp/a" and "/tmp/a.0002"), which
the model leaves out. `Power` is `Base ^ i`, written as a recursive function
since tlapm does not know `^`.

### JemallocProfiler

Here the component numbers and names each dump, so its own bookkeeping protects
the files. `memprof_jemalloc_start` replaces the path, looks for the first
dump, resets the number and switches jemalloc on *before* it looks at the
status; the model keeps that order. The status is checked by the init function
of `memprof_jemalloc_dump`, once per statement, and the function itself may run
many times: `DumpInit`, then any number of `DumpCall`, `WriteDump`, `Count`,
then `DumpDeinit`.

Any set of dumps may be on disk when the server starts, number 1 among them or
not: tcmalloc's profiler names its files alike, and a profile that was cleaned
up under way leaves none of its first numbers. During the run tcmalloc may add
dumps at any moment (`HeapDump`). `meddled` notes what the component cannot
know of: a start that failed half way, a cleanup of the running profile, a dump
of tcmalloc under its path, or dumps without number 1 that a start has met. The
next start that goes on settles it anew.

### Lifecycle

`profiler_service_init` and its three sisters, and the four deinit functions,
are sequences of steps (`ProfilerInit`, `CpuDeinit`, ...), which read like them;
a command carries the steps it still has to do (`todo`), and an action is the
next one, done or failed:

| Code | Action |
|---|---|
| `list->add_scalar`, and `delete list` when it fails | `AddScalar` |
| `register_status_variables`, whose result is ignored | `RegisterStatus` |
| `register_variable`: init goes on and returns 1 in the end | `RegisterVariable` |
| `init_profiler_data`, `add_tables` | `AddTables` |
| `cleanup_profiler_data` | `CleanupData` |
| `udf_list::unregister`, a step for each function | `UdfUnregister` |
| `if (list->unregister()) return 1; delete list` | `DeleteList` |
| `unregister_variable`, `delete_tables` | `UnregisterVariable`, `DeleteTables` |
| `unregister_status_variables` | `UnregisterStatus` |

`InstallCommand`, `InstallEnds`, `UninstallCommand` and `UninstallEnds` are the
server's, and external: it runs one such command at a time, loads a component with fresh
statics, unloads it when init fails or deinit succeeds, keeps it when deinit
fails, and does not uninstall a component whose services others use. A name is
registered once, a function in use is not unregistered, and any other call may
fail. Sessions call what is registered (`Call`, `CallEnds`), also while init
still runs; a timed `memprof_start` leaves a thread (`TimerWakes`); `asleep`
says that one or more sleep, and when one wakes others may sleep on. The ring of
records is here only "none", "live" or "dangling" (deleted, but still pointed
to).

What went wrong with a component is kept in `events`; each property names the
events that must not have happened, and so says exactly which failures the code
does not recover from:

- *late failure*: a variable or the table could not be registered. Init returns
  1 and takes nothing back: its functions stay registered, and lead into an
  unloaded library;
- *early call*: a function was called before init had ended. If init then
  fails, `delete list` cannot unregister that function, and ignores it;
- *ignored failure*: a status variable, or `jeprof_binary`, was not
  (un)registered, and nobody looked;
- *uninstall failed*: deinit returned 1, after the records were deleted;
- *list deleted*: it did so after `delete list`; the next UNINSTALL uses the
  deleted list;
- *timer asleep*: profiler_memory was unloaded under a sleeping timer.

### Reports

A call is again a sequence of steps (`CpuReport`, `MemReport`, `MemDiff`,
`JemallocReport`): read the limit, the type and the names of files from the
arguments, find mysqld, get the path of the tool, run it, cut its output. Steps
work on locals, so one call at a time is enough. An argument is a BIGINT, a
REAL, a word or NULL; one read past the last may be anything (`beyond`). Only
limits have their type checked: a BIGINT is then read through an `int` pointer,
and `AsInt` takes its low bits for a number between `-Half` and `Half - 1`
(`Half` is 2^31). Names of files and the type are read as C strings whatever
they are (`StringAt`): the bytes of a number may spell any word, and when none
of them is zero (`Full`; of -1, say) the read goes on behind them. A REAL stands
in the model as the BIGINT of the same bytes.
What C++ leaves undefined, and exceptions nobody catches, end a call at
"undefined". `std::filesystem` throws when it lists the directory of an empty
path, or one that is gone or may not be read (`LastDump`), and when it cannot
tell whether a file exists, its name being too long, say (`CheckFile`);
`lookFailed` notes the last two.

## 3. The runs

| Run | States | Shows |
|---|---|---|
| `table` | 264 301 | all nine properties of the table below |
| `table_read_race` | violation | a statement copies a deleted record |
| `cpu` | 37 022 | the profiler's promises while calls do not overlap |
| `heap_sessions` | 1 361 000 | status and profiler agree again after an undisturbed `memprof_dump` |
| `heap_timer` | 32 056 | rows of the first session name its files; timed profiles end |
| `heap_stale_timer` | violation | a timer stops a later profile |
| `heap_filename` | violation | a "dumped" row names a file that was not written |
| `files` | 500 888 | when no dump is overwritten; the report reads one dump, the newest |
| `files_old_data` | violation | a profile starts among older dumps |
| `jemalloc` | 465 328 | no dump is overwritten; a report covers one profile |
| `lifecycle` | 2 623 437 | what INSTALL and UNINSTALL leave behind, with every failure |
| `reports` | 1 020 819 | a report is as its arguments ask; which calls are undefined |

**table.** `HeapHoldsLatest` relates the ring to the heap at every instant,
inside `addProfiler_element` too: nothing is leaked, lost or kept too long.
`NoDoubleFree` rests on the lock and on the store that follows the delete.
`ScanComplete`: a scan misses no row that stays. `PositionsFilled`:
`profiler_rnd_pos` answers "found" for an empty slot too, which is right only
because the server holds no position of one. `NoGarbageBeforeWrap`: the
unlocked reads are harmless for the first 100 actions. `SlotsOnlyAdvance`: a
slot is not emptied and does not go back. `ScanEnds` is liveness.
`ImplementsLog`: the ring refines `ActionLog`; `Delete` of a full ring is
`Evict`, `Store` is `Record`, all else stutters.

**cpu.** There is no lock, so `CollectingCanBeStopped`,
`ReportReadsNoOpenProfile`, `NeverOverwrites` and `StoppedRowNamesProfile` say
`~overlap`: no start or stop has met another call. Reports may overlap each
other, `SET GLOBAL` and `profiler_cleanup` run at any moment, and gperftools
may refuse. `StoppedRowNamesProfile` also needs `~replaced`: a start that is
refused has already replaced the path. `StatusMatchesCollector` needs it too:
the result of `ProfilerStart` is ignored (cpu.cc:206), so after a start that
gperftools refused the status says RUNNING, where README.md:192 has a profile
under way; `cpuprof_stop()` puts that right.

**heap_sessions, heap_timer.** `overlap` is cleared by a `memprof_dump()` that
meets nobody, and `StatusMatchesProfiler` then shows that the drift caused by
races and stale timers does not survive it. `StartFindsProfilerOff` says that a
start that passed its checks is not ignored by gperftools.
`FirstSessionRowsNameFiles` states under which conditions the component counts
as gperftools does; `heap_filename` shows what happens outside of them.
`TimedProfileEnds` is liveness.

**files.** `KeepsDumps` says what the check for number 1 is worth. Within one
run of the server gperftools' numbers go on, and it is not needed; after a
restart they begin again while the files stay, and it is what keeps the dumps of
earlier runs from being overwritten (without it TLC finds a start that replaces
number 1 of the run before). It is not enough where old dumps lack that number:
such a profile has `among` set, and `files_old_data` shows how it comes about.
`ReportsNewestDump`: the report reads one dump, the newest; one that reads all
dumps of the path, as README.md:450 describes it, breaks the property (section
5). It names its conditions: no file of an earlier run or of jemalloc, no CPU
profile, no longer path with the prefix, and numbers of at most `Width` digits.
Each is needed: with the last one dropped TLC finds number 10000 sorted before
9999.

**jemalloc.** `NeverOverwrites` and `ReportCoversLastProfile` hold while calls
do not overlap, no start fails half way, nobody removes or adds dumps of the
running profile, and its start met no dumps without number 1. The last is
needed: with p.0003.heap left behind the third dump overwrites it, and the
report reads it. `StatusMatchesActive` needs only the first of these: a second
start switches jemalloc on again, which it is, and fails.

**lifecycle.** `UnloadedLeavesNothing` and `RunningCodeIsInMemory` are about
code that is gone: nothing registered leads into it, nothing runs in it.
`InstalledIsWhole` relates the list of a component to the server's registry, so
that an UNINSTALL that met a running function can be tried again.
`CallsFindVariables` rests on the order of deinit, functions before variables:
`profiler_cleanup()` reads a null pointer once `dump_path` is gone.
`DeinitFindsList` and `RecordsDeletedOnce` are about a second UNINSTALL after a
failed one. `LateFailureIsFinal`: the functions such a failure leaves keep the
component from being installed again.

**reports.** `ReportIsAsAsked` compares the tool's type and the lines returned
with what the arguments say by the functions' own error messages, and names the
exceptions: a limit that does not fit in an `int`, a type read past the last
argument or from a number, `memprof_diff` with two arguments (its type is left
empty, memory.cc:681). `ReadsOnlyItsArguments` and `UndefinedOnlyFor` say which
calls leave what the language defines. The causes are many: NULL, a number
without a zero byte, an argument read past the last, a directory or file that
cannot be looked at, the empty path, a failed `popen`. What the property adds is
that a limit is never among them but for NULL: its type is checked
everywhere. `BufferFilled`: `profiler_var.get` reports
success for a buffer that is too short (profiler.cc:404), and no caller ever
uses such a buffer, since the server has refused the value before.

### Bounds, and why they are enough

- `table`: ring of 3 (100 in the code), 5 additions, 2 writers, 1 cursor, 2
  actions. The ring wraps and a slot is reused under a scan; two writers
  suffice for the lock, and cursors share nothing with each other. The proofs
  cover every size.
- `cpu`: 2 sessions, 2 paths; nothing is counted, so the state space is complete.
- `heap_*`: `MaxStarts` 2 (a stale timer needs two), `MaxDumps` 1. Two sessions
  and a timer are the three actors of each race. `Timers` bounds the threads: a
  timed start waits for a free one.
- `files`: base 2, width 2, 4 dumps: 4 is the first number that outgrows its
  digits, as 10000 does. Two paths, the name of one beginning with the other's.
  Dumps of jemalloc have the numbers 1 and 2 (`MaxOther`), the one that is looked
  for and one that is not; restarts and cleanups leave old dumps of any number.
- `jemalloc`: 2 sessions, 2 paths, 3 dumps. Initial states have any subset of
  the dumps of each path.
- `lifecycle`: 2 sessions (one holds a function while the other makes a second
  call), `MaxUsed` 2: the component `profiler` and any one of the others. These
  share only the services of `profiler`, and their names do not meet. Commands
  may be repeated without bound, and the state space is complete.
- `reports`: every number of arguments, each of eighteen values (five numbers as
  BIGINT and REAL, five words, and NULL of each type; one number has no zero
  byte); `Half` 4, ints of three bits, with numbers
  that fit (-3, 0, 2), that change sign (5) and that are cut (10); values one
  shorter, as long, and one longer than the buffer takes; up to 3 lines.

Symmetry (of sessions, and of paths where none is special) is used only in runs
without liveness properties.

### Deadlock

TLC checks for deadlock in every run but `reports`, where a call that is
undefined has no next step. No other module can stop: there is always a call, a
`SET GLOBAL` or an INSTALL to make.

### Fairness

- `ActionsTable!FairSpec`: weak fairness of the two steps that copy (the
  statement's thread runs, and takes no lock), strong fairness of `RndNext`
  (a statement that scans asks for the next row again and again, though it may
  fetch a position in between). None for writers: a scan ends although a writer
  holds the lock for ever. `ScanEnds` excludes that the server restarts the scan
  for ever.
- `HeapProfiler!FairSpec`: weak fairness of each timer thread: `sleep_for`
  returns, and nothing it calls blocks. None for sessions.

## 4. The proofs

Each theorem is about `Spec` of its module, for every value of the constants:
any number of sessions, timers, paths, rows, writers, cursors, any base and
width of numbers, any size of an int and of a buffer, and any bound.

| Module | Theorem | Property |
|---|---|---|
| `ActionsTableProofs` | `TypeCorrect` | `TypeOK` |
| | `HoldsLatest` | `HeapHoldsLatest` |
| | `DeletesOnce` | `NoDoubleFree` |
| | `ScansAreComplete` | `ScanComplete` |
| | `PositionsStayFilled` | `PositionsFilled` |
| | `SafeBeforeWrap` | `NoGarbageBeforeWrap` |
| | `SlotsAdvance` | `SlotsOnlyAdvance` |
| | `RingImplementsLog` | `ImplementsLog` |
| `CpuProfilerProofs` | `TypeCorrect` | `TypeOK` |
| | `CanBeStopped` | `CollectingCanBeStopped` |
| | `ReportsReadComplete` | `ReportReadsNoOpenProfile` |
| | `StoppedRowsNameProfiles` | `StoppedRowNamesProfile` |
| | `StatusIsRight` | `StatusMatchesCollector` |
| | `NothingOverwritten` | `NeverOverwrites` |
| `HeapProfilerProofs` | `TypeCorrect` | `TypeOK` |
| | `StatusIsRight` | `StatusMatchesProfiler` |
| | `StartIsObeyed` | `StartFindsProfilerOff` |
| | `RowsNameFiles` | `FirstSessionRowsNameFiles` |
| `DumpFilesProofs` | `TypeCorrect` | `TypeOK` |
| | `DumpsKept` | `KeepsDumps` |
| | `NewestReported` | `ReportsNewestDump` |
| `JemallocProfilerProofs` | `TypeCorrect` | `TypeOK` |
| | `StatusIsRight` | `StatusMatchesActive` |
| | `NothingOverwritten` | `NeverOverwrites` |
| | `ReportsCoverProfile` | `ReportCoversLastProfile` |
| `LifecycleProofs` | `TypeCorrect` | `TypeOK` |
| | `NothingLeft` | `UnloadedLeavesNothing` |
| | `InstalledWhole` | `InstalledIsWhole` |
| | `RunsInMemory` | `RunningCodeIsInMemory` |
| | `VariablesFound` | `CallsFindVariables` |
| | `ListFound` | `DeinitFindsList` |
| | `DeletedOnce` | `RecordsDeletedOnce` |
| | `LateIsFinal` | `LateFailureIsFinal` |
| `ReportsProofs` | `TypeCorrect` | `TypeOK` |
| | `AsAsked` | `ReportIsAsAsked` |
| | `OnlyTwoReadBeyond` | `ReadsOnlyItsArguments` |
| | `UndefinedCalls` | `UndefinedOnlyFor` |
| | `FilledBuffer` | `BufferFilled` |

**Assumptions.** Those of the modules only, which TLC evaluates in their runs:
the bounds are natural numbers, the table has a row, sessions are no timers,
paths are strictly ordered, numbers are written in a base above 1, an int has at
least one bit, and values that stand for "none" are none of the values they are
told apart from.

**The table.** `HeapHoldsLatest` is not inductive: that the slot about to be
reused holds the oldest record depends on who is inside `addProfiler_element`.
Its strengthening `IInv`
is the conjunction of `TypeOK`, the properties that are inductive beside it, and
these parts:

- `LockInv`: whoever is inside `addProfiler_element` holds the lock, and claimed
  the newest number;
- `SlotInv`: a slot is empty only while the ring has not come that far, and
  otherwise holds the youngest record that belongs there; from this and
  `HeapInv` (the records allocated are `First .. Last-1`) follow
  `HeapHoldsLatest`, `NoDoubleFree` and the refinement;
- `ScanInv`: what a scan has passed it has returned, unless it is gone or newer
  than the scan; what it is copying is still in its slot or replaced by a newer
  record; from this follows `ScanComplete`;
- `FetchInv`: until the ring wraps, nothing a cursor has fetched is deleted.

Each action has a lemma that it preserves `IInv`, with a step per part. The lemmas on
`%` say that `IndexOf` is injective on any window of `Rows` numbers, and that
the slot of a new number is the one of the record `Rows` before it. For the
refinement, initial states map to initial states and each action to `Evict`,
`Record` or a stutter.

**The profilers.** No lock keeps two calls apart, so the properties say what
holds while none have met, and the proofs begin with `Alone`: while `overlap`
is not set, one thread at most is inside a start, stop or dump. Under it, what a
call has checked is still so when it relies on it. One lemma for each part says
that every step keeps it, with a case for each action.

- `CpuProfiler`: `PathInv` (a call that needs a path has one), `StatusInv` (when
  status and gperftools differ, which call is about to put that right),
  `QuietInv` (nothing collects after a stop and during reports), `NameInv` (the
  profile under way is named by the global, unless it was replaced), `FileInv`
  (what `CheckFile` found missing is missing until `ProfilerStart`).
- `JemallocProfiler`: `PathInv` and `StatusInv` likewise; `StartInv` (a start
  that goes on has found no dump at all, unless it has set `meddled`, and the
  count begins with 1), `CountInv` (the dumps of the current path are exactly
  those counted, or the profile is stopped and its dumps were cleaned up),
  `LocalInv` (what a call has copied is still the value of the global).
- `HeapProfiler`: a thread carries the rest of its call, so the proof sorts these
  rests into phases: asking for the path, checking, beginning, begun,
  settled, ending, resting. `PhaseStep` says which phase follows which at which
  step, and the invariant speaks of phases only. `PhaseInv`: a thread that has
  passed its checks finds gperftools off; one that has begun finds it on, one
  that is ending finds it off; and when nobody is in these phases, status and
  gperftools agree.
  `RowsNameFiles` needs the numbers besides. Between the dump of gperftools and
  `dump_count++`, a thread owes a dump, a row or the count; `DumpDue`, `NameDue`
  and `CountDue` are the rests of calls that say which. `CountInv`: as long as the
  conditions of the property last, `dump_count` is one more than the number
  gperftools has last written, and equal to it from the dump to the count, where
  the row is named. `PlainInv` says that nobody is then in a timed call, and
  `UnstartedInv` that nothing is counted before the first start.

**The names of the dumps.** `KeepsDumps` needs `NumberInv`, that a dump with a
number gperftools has still to give is of an earlier run of the server or of
jemalloc, and `AmongInv`, that a profile under way has no such dump in its path
unless `among` is set: for a start that went on, because number 1 was looked for
and the other numbers set `among`.
`ReportsNewestDump` and `TypeOK` need what the names do, which `FileNamesProofs`
works out from the digits up:

- `PowerDef` and `PowerFacts`: the recursive function is defined, and outgrows
  every number; `PlacesFacts` and `DigitsFacts` follow;
- `SmallerPrecedes`: of two numbers with as many digits, the smaller one comes
  first. `Least` finds the first place where the two differ;
- `NamesTotal`, `NamesTransitive`: the names are strictly and totally ordered;
- `LastFileFound`: so a finite set of files that is not empty has exactly one
  that comes last, and the choice in `LastFile` is that file.

These are inductions. The library's theorems take a predicate, which the provers
cannot instantiate; `Induction`, `Least` and `Greatest` say the same of a *set*
of numbers, and follow from the library's statement that `<` is well-founded.
`NewestInv` then relates the newest dump of a path to the numbers of its dumps.

**The lifecycle.** `IInv` says of each place in a command what is registered:

- `TodoInv`: the steps still to do are those of the command, in the order of the
  code (`InOrder`): functions, then variables and tables, and the reverse in
  deinit. `CommandInv`: who is installed or uninstalled, and that the component
  `profiler` comes first and goes last;
- `InstallInv`, `FailedInstallInv`, `UninstallInv`: what init has passed is
  registered, what a failed init or deinit has passed is not, each with the
  events that break it; `ListInv`, `ListedInv`: what the component's list names;
- `LateInv`: after a late failure all its functions stay, so every further init
  fails at the first;
- `CallInv`, `AsleepInv`: who runs the code of a component; `RowsInv`: the
  records in the ring.

An action has a lemma that says in plain terms what it does (`AddScalarDoes`,
...), and a part of `IInv` a lemma that every step keeps it (`ListInvNext`, ...).
The `...InitHolds` and `...DeinitHolds` lemmas work out the sequences of steps of
the eight functions once, as facts about their members and order.

**The reports.** `Planned` says of the steps a call has still to do: each reads
the argument it should, and its check of how many there are covers it, but for
the two calls that read beyond; the tool runs last, after the limit, the type
and its path were read. That the four functions are planned is checked case by
case (`CpuPlan`, ...), and a tail of such a sequence is planned again. The
invariant adds that what has been read is what the argument says (`CalledInv`),
and that the result is that of the tool, cut (`ReturnedInv`). `AsIntFacts` and
`LimitLinesFacts` are the lemmas on numbers and lines.

**Only model-checked.** `ScanEnds` and `TimedProfileEnds`: liveness under
fairness, which the prover does not handle. Nor does it know that the defects of
the four violation runs can be reached; TLC finds those behaviours.

## 5. Where code and documents disagree

Each of the first four is a run that expects a violation.

- `table_read_race`: `profiler_rnd_next` copies a record without the lock
  (profiler_pfs.cc:116) that `addProfiler_element` may just have deleted
  (profiler_pfs.cc:56).
- `heap_stale_timer`: the timer of a profile that was stopped early stops the
  next one (memory.cc:150, README.md:325).
- `heap_filename`: a timed start advances `dump_count` twice for one dump, and
  stopping not at all; rows then name other files than were written
  (memory.cc:144, 295, README.md:612).
- `files_old_data`: only `<path>.0001.heap` is looked for (memory.cc:261), but a
  path's dumps need not begin with 1 (README.md:711).
- `files`: "If you don't pass any dump file, all the dump files are used to
  generate the report" (README.md:450), but `memprof_report()` takes one file
  from `get_last_file_with_prefix` (memory.cc:508). `ReportsNewestDump` says
  that it is exactly one, which the run and the theorem `NewestReported` show;
  `MemReportAll`, the behaviour the README describes, breaks it.

Others are conditions of properties that hold, or fix what such a property
says, and have no run of their own:

- `report('dot')` (README.md:287, 438, 599) is refused, since the first argument
  must be an integer (`ReadLimit`); `memprof_report` and `memprof_diff` read an
  argument more than they have when given two and three (memory.cc:549, 684),
  and `memprof_diff` with two gives the tool no type (memory.cc:681);
  `memprof_report()` before any `memprof_start` throws (memory.cc:509); where a
  string is read no type is refused (cpu.cc:346, memory.cc:521, 666). See
  `reports`.
- README.md:192 has the status RUNNING mean a profile under way; see `cpu`.
- An INSTALL that fails late leaves functions of an unloaded library registered
  (profiler.cc:306); a failed UNINSTALL leaves pointers to deleted records
  (profiler.cc:347) or a deleted list (profiler.cc:351); a timer thread outlives
  its component (memory.cc:153). See `lifecycle`.

- "Starting and stopping without dumping, won't produce any file to parse"
  (README.md:353), but `memprof_start` and `memprof_stop` each write a dump
  (memory.cc:286, 356), which the models do too: `DumpFiles!MemStart` and
  `MemStop`.

Met while reading, and not modelled: README.md:723 asks for a stopped profiler
before a report, and memory.cc:565 and 716 have that check commented out;
`profiler_cleanup` asks for no privilege.

## 6. Not modelled, and why

- Formatting, texts and the columns of rows; how `get_mysqld` finds the binary
  (one step that may fail); privileges (one question to the server); the checks
  of the values of system variables.
- The copies of the mutex: each source file that includes profiler_mutex.h has
  its own, so the one that is initialised is not the one that is locked. A
  zeroed mutex is an unlocked one on the platforms MySQL supports.
- Statements that read the table while the component is uninstalled, a
  `profiler_cleanup()` beside `SET GLOBAL` (the server frees the old value,
  profiler.cc:254), and `std::stoi` in the init of profiler_memory
  (memory.cc:841), whose exception ends the server.
- Two calls of `memprof_jemalloc_dump()` that read the same number
  (jemalloc_memory.cc:442): the run `jemalloc` has these interleavings, but the
  code promises nothing for them.
- Weak memory: steps are atomic and seen in order. Assignments to the
  `std::string` paths and the 8-byte statuses are single steps; the language
  calls concurrent ones undefined, and the model takes the mildest outcome.
- Wrapping of `size_t` (2^64 actions) and `int` (2^31 dumps).
- gperftools switched on by environment variables, and a `HeapProfilerDump` that
  cannot open its file: it counts the number and writes nothing.
- `profiler_cleanup()` of many files is one step in `DumpFiles` and
  `JemallocProfiler`; in the other two modules files go one by one. Only
  `DumpFiles` has paths of which one begins with the other's name.
- A restart of the server, except in `DumpFiles`; `JemallocProfiler` begins with
  whatever files one may leave.

## 7. Plan

Done: the table with its abstract specification, the three profilers side by
side with sessions and timers, the files of the heap profiler, the lifecycle of
the components, the arguments of the reports; the proofs of every safety
property of the runs.

1. **Composition**: the profilers as writers of `ActionLog`, so that the rows
   tell the history of a profiler (a "started" for each "stopped").
2. **A second refinement**: what a profiler promises while calls do not overlap
   (off, on, a finished profile) as an abstract specification, implemented by
   `CpuProfiler`.
