----------------------------- MODULE DumpFiles -----------------------------
(***************************************************************************)
(* The heap dumps on disk and memprof_report(), which reports on the last  *)
(* of them: the one whose name comes last among those that begin with the  *)
(* dump path (get_last_file_with_prefix in memory.cc).                     *)
(*                                                                         *)
(* gperftools, external, gives the names: its numbers have at least Width  *)
(* digits, go on for as long as the server runs, whatever the path, and    *)
(* begin again when it restarts; the files stay.  profiler_cleanup()       *)
(* (profiler.cc) removes by prefix, and cpuprof_stop() leaves files of the *)
(* same prefix.  What runs side by side is the subject of HeapProfiler;    *)
(* here a call is one step.                                                *)
(***************************************************************************)
EXTENDS Naturals, Sequences

CONSTANTS Paths,     \* values of profiler.dump_path, in one directory
          NoPath,    \* the empty path
          Longer,    \* pairs <<p, q>>: the name of q begins with that of p
          Before,    \* pairs <<p, q>>: p and a dot come before q and a dot
          Base,      \* digits in a file name: 10
          Width,     \* digits of a number at least: 4
          MaxDumps,  \* bound: dumps in one run of the server
          MaxOther   \* bound: the last number of a dump of jemalloc

ASSUME PathsAssumption ==
  /\ NoPath \notin Paths
  /\ Longer \subseteq Paths \X Paths /\ Before \subseteq Paths \X Paths
  /\ \A p, q \in Paths : p # q => <<p, q>> \in Before \/ <<q, p>> \in Before
  /\ \A p \in Paths : <<p, p>> \notin Before
  /\ \A p, q, r \in Paths :
       <<p, q>> \in Before /\ <<q, r>> \in Before => <<p, r>> \in Before
ASSUME NumbersAssumption ==
  /\ Base \in Nat /\ Base > 1 /\ Width \in Nat
  /\ MaxDumps \in Nat /\ MaxOther \in Nat

VARIABLES
  memprof_dump_path,
  prefix,             \* gperftools: the prefix, NoPath while it is off
  written,            \* gperftools: number of the last dump
  files,              \* the files there are
  reported,           \* the files the last memprof_report() has read
  \* history
  newest,             \* newest[p]: the dump gperftools wrote last under path p
  old,                \* files of earlier runs, and dumps of the jemalloc profiler
  among               \* the last profile has met old dumps of its path

history == <<newest, old, among>>
vars == <<memprof_dump_path, prefix, written, files, reported, history>>

Dump(p, n) == [path |-> p, kind |-> "heap", n |-> n]
Profile(p) == [path |-> p, kind |-> "prof", n |-> 0]
Files == [path : Paths, kind : {"heap", "prof"}, n : Nat]
NoFile == Dump(NoPath, 0)

Init ==
  /\ memprof_dump_path = NoPath
  /\ prefix = NoPath
  /\ written = 0
  /\ files = {}
  /\ reported = {}
  /\ newest = [p \in Paths |-> NoFile]
  /\ old = {}
  /\ among = FALSE

-----------------------------------------------------------------------------
(* File names *)

\* The powers of Base.
Power[i \in Nat] == IF i = 0 THEN 1 ELSE Base * Power[i - 1]

\* How many digits a number has, and the digits.
Places(n) == CHOOSE w \in Width..(Width + n) :
               /\ n < Power[w]
               /\ \A v \in Width..(w - 1) : n >= Power[v]
Digits(n) == [i \in 1..Places(n) |-> (n \div Power[Places(n) - i]) % Base]

\* The order of names, character by character; where one number ends, a dot
\* follows, which comes before a digit.
Precedes(a, b) ==
  \E i \in 1..Len(b) :
    /\ \A j \in 1..(i - 1) : j <= Len(a) /\ a[j] = b[j]
    /\ i \in 1..Len(a) => a[i] < b[i]
    /\ i <= Len(a) + 1

\* The paths decide if they differ (the name of a file goes on with a dot, and
\* no path continues another with one); and digits come before "prof".
NameBefore(f, g) ==
  \/ <<f.path, g.path>> \in Before
  \/ f.path = g.path /\ f.kind = "heap" /\ g.kind = "prof"
  \/ f.path = g.path /\ f.kind = g.kind /\ Precedes(Digits(f.n), Digits(g.n))

HasPrefix(f, p) == f.path = p \/ <<p, f.path>> \in Longer
Matching(p) == {f \in files : HasPrefix(f, p)}

\* get_last_file_with_prefix, when there is one.
LastFile(p) ==
  CHOOSE f \in Matching(p) : \A g \in Matching(p) \ {f} : NameBefore(g, f)

-----------------------------------------------------------------------------
\* The path has old dumps that a check for number 1 does not see.
Among(p) == \E f \in old \ {Dump(p, 1)} : f.kind = "heap" /\ f.path = p

\* gperftools writes the next dump.
Write(p) ==
  /\ written < MaxDumps
  /\ written' = written + 1
  /\ files' = files \cup {Dump(p, written + 1)}
  /\ old' = old \ {Dump(p, written + 1)}
  /\ newest' = [newest EXCEPT ![p] = Dump(p, written + 1)]

\* A defective MemStart: the file is not looked for.
MemStartUnchecked(p) ==
  /\ prefix = NoPath
  /\ memprof_dump_path' = p
  /\ prefix' = p
  /\ Write(p)
  /\ among' = Among(p)
  /\ UNCHANGED reported

\* memprof_start() with profiler.dump_path = p, and its first dump.
MemStart(p) ==
  /\ prefix = NoPath
  /\ Dump(p, 1) \notin files
  /\ memprof_dump_path' = p
  /\ prefix' = p
  /\ Write(p)
  /\ among' = Among(p)
  /\ UNCHANGED reported

\* A start that is refused has replaced the path.
MemStartFails(p) ==
  /\ prefix # NoPath \/ Dump(p, 1) \in files
  /\ memprof_dump_path' = p
  /\ UNCHANGED <<prefix, written, files, reported, history>>

\* memprof_dump().
MemDump ==
  /\ prefix # NoPath
  /\ Write(prefix)
  /\ UNCHANGED <<memprof_dump_path, prefix, reported, among>>

\* memprof_stop(), which dumps first.
MemStop ==
  /\ prefix # NoPath
  /\ Write(prefix)
  /\ prefix' = NoPath
  /\ UNCHANGED <<memprof_dump_path, reported, among>>

\* cpuprof_start() ... cpuprof_stop() with profiler.dump_path = p.
CpuProfile(p) ==
  /\ Profile(p) \notin files
  /\ files' = files \cup {Profile(p)}
  /\ UNCHANGED <<memprof_dump_path, prefix, written, reported, history>>

\* The jemalloc profiler writes a dump, with a number of its own.
JemallocDump(p, n) ==
  /\ files' = files \cup {Dump(p, n)}
  /\ old' = old \cup {Dump(p, n)}
  /\ among' = (among \/ p = prefix)
  /\ UNCHANGED <<memprof_dump_path, prefix, written, reported, newest>>

\* profiler_cleanup() with profiler.dump_path = p.
Cleanup(p) ==
  /\ files' = files \ Matching(p)
  /\ old' = old \ Matching(p)
  /\ newest' = [q \in Paths |-> IF newest[q] \in Matching(p) THEN NoFile ELSE newest[q]]
  /\ UNCHANGED <<memprof_dump_path, prefix, written, reported, among>>

\* Defective MemReports: one reads the directory itself if no name matches;
\* the other, as README.md:450 has it, all the files whose names do.
MemReportUnchecked ==
  /\ memprof_dump_path # NoPath
  /\ reported' = IF Matching(memprof_dump_path) = {}
                 THEN {[path |-> NoPath, kind |-> "directory", n |-> 0]}
                 ELSE {LastFile(memprof_dump_path)}
  /\ UNCHANGED <<memprof_dump_path, prefix, written, files, history>>

MemReportAll ==
  /\ memprof_dump_path # NoPath
  /\ Matching(memprof_dump_path) # {}
  /\ reported' = Matching(memprof_dump_path)
  /\ UNCHANGED <<memprof_dump_path, prefix, written, files, history>>

\* memprof_report() with no argument.
MemReport ==
  /\ memprof_dump_path # NoPath
  /\ Matching(memprof_dump_path) # {}
  /\ reported' = {LastFile(memprof_dump_path)}
  /\ UNCHANGED <<memprof_dump_path, prefix, written, files, history>>

\* The server stops or dies, and starts again.  memprof_report() is one of the
\* causes: before any memprof_start() it lists the directory "", and the
\* exception is not caught.
Restart ==
  /\ memprof_dump_path' = NoPath
  /\ prefix' = NoPath
  /\ written' = 0
  /\ old' = files
  /\ newest' = [p \in Paths |-> NoFile]
  /\ reported' = {}
  /\ among' = FALSE
  /\ UNCHANGED files

Next ==
  \/ \E p \in Paths : MemStart(p) \/ MemStartFails(p) \/ CpuProfile(p) \/ Cleanup(p)
  \/ \E p \in Paths : \E n \in 1..MaxOther : JemallocDump(p, n)
  \/ MemDump \/ MemStop \/ MemReport
  \/ Restart

Spec == Init /\ [][Next]_vars

-----------------------------------------------------------------------------
(* Properties *)

TypeOK ==
  /\ memprof_dump_path \in Paths \cup {NoPath}
  /\ prefix \in Paths \cup {NoPath}
  /\ written \in 0..MaxDumps
  /\ files \subseteq Files
  /\ reported \subseteq Files
  /\ newest \in [Paths -> Files \cup {NoFile}]
  /\ old \subseteq files
  /\ among \in BOOLEAN

\* A dump overwrites no file, be it of this run of the server, of an earlier one
\* or of the jemalloc profiler, unless the profile began among dumps of those
\* two from which number 1 is missing, or jemalloc dumped under its path since.
\* The one file memprof_start() looks for is enough in all other cases, through
\* stops, changes of path, cleanups and restarts.
KeepsDumps ==
  [][\A p \in Paths : newest'[p] \notin {newest[p], NoFile} /\ ~among' =>
       newest'[p] \notin files]_vars

\* Of all the dumps memprof_report() reads one, the one written last under its
\* path, if no file of an earlier run or of jemalloc, no CPU profile and no
\* longer path has the same prefix and the numbers fit in their Width digits.
\* README.md:450 says that it uses all of them.
ReportsNewestDump ==
  [][ /\ reported' \notin {reported, {}}
      /\ Matching(memprof_dump_path) \cap old = {}
      /\ \A f \in Matching(memprof_dump_path) :
           f.kind = "heap" /\ f.path = memprof_dump_path
      /\ written < Power[Width]
      => reported' = {newest[memprof_dump_path]} ]_vars


=============================================================================
