--------------------------- MODULE DumpFilesProofs ---------------------------
(***************************************************************************)
(* Proofs about DumpFiles for any number of paths and dumps, any base and  *)
(* any width of the numbers.                                               *)
(***************************************************************************)
EXTENDS FileNamesProofs

-----------------------------------------------------------------------------
(* The inductive invariant. *)

TypeInv == TypeOK /\ IsFiniteSet(files)

\* A dump with a number that gperftools has still to give is an old one.
NumberInv ==
  \A f \in files : f.kind = "heap" /\ f.n > written => f \in old

\* newest[p] is gperftools' dump of this run with the greatest number, if there
\* is one.
NewestInv ==
  \A p \in Paths :
    /\ newest[p] # NoFile =>
         /\ newest[p] \in files /\ newest[p].path = p
         /\ newest[p].kind = "heap" /\ newest[p].n <= written
    /\ \A f \in files \ old : f.kind = "heap" /\ f.path = p =>
         newest[p] # NoFile /\ f.n <= newest[p].n

\* The profile under way has met no old dump of its path, unless it began so.
AmongInv ==
  prefix \in Paths /\ ~among =>
    \A f \in old : f.kind = "heap" => f.path # prefix

IInv == TypeInv /\ NumberInv /\ NewestInv /\ AmongInv

\* The next dump of a profile that began among no old dumps is a new file.
LEMMA NextIsNew ==
  ASSUME IInv, NEW p \in Paths, \A f \in old : f.kind = "heap" => f.path # p
  PROVE  Dump(p, written + 1) \notin files
  BY DEF IInv, TypeInv, TypeOK, NumberInv, Dump, Files

\* What stands for no file is none.
LEMMA NoFileIsNone ==
  /\ NoFile \notin Files
  /\ NoFile.path = NoPath
  BY PathsAssumption DEF NoFile, Dump, Files

\* The file of a dump.
LEMMA DumpFacts ==
  ASSUME NEW p \in Paths, NEW n \in Nat
  PROVE  /\ Dump(p, n) \in Files /\ Dump(p, n) # NoFile
         /\ Dump(p, n).path = p /\ Dump(p, n).kind = "heap" /\ Dump(p, n).n = n
  <1>1. Dump(p, n) \in Files
    BY DEF Dump, Files
  <1> QED
    BY <1>1, NoFileIsNone DEF Dump

-----------------------------------------------------------------------------
\* At first there is no file.
LEMMA Initially == Init => IInv
  <1> SUFFICES ASSUME Init
               PROVE  IInv
    OBVIOUS
  <1>1. TypeInv
    <2>1. written \in 0..MaxDumps /\ newest \in [Paths -> Files \cup {NoFile}]
      BY NumbersAssumption DEF Init
    <2>2. IsFiniteSet(files)
      BY FS_EmptySet DEF Init
    <2> QED
      BY <2>1, <2>2 DEF Init, TypeInv, TypeOK
  <1>2. NumberInv /\ NewestInv /\ AmongInv
    BY DEF Init, NumberInv, NewestInv, AmongInv
  <1> QED
    BY <1>1, <1>2 DEF IInv

\* Every dump is written by Write.
LEMMA WriteKeeps ==
  ASSUME IInv, NEW p \in Paths, Write(p), UNCHANGED reported,
         prefix' \in Paths \cup {NoPath}, memprof_dump_path' \in Paths \cup {NoPath},
         among' \in BOOLEAN,
         \/ prefix' = prefix /\ among' = among
         \/ prefix' = NoPath
         \/ among' \/ \A f \in old : f.kind = "heap" => f.path # prefix'
  PROVE  IInv'
  <1> DEFINE d == Dump(p, written + 1)
  <1>1. /\ d \in Files /\ d # NoFile
        /\ d.path = p /\ d.kind = "heap" /\ d.n = written + 1 /\ written \in Nat
    BY DumpFacts DEF IInv, TypeInv, TypeOK
  <1>2. /\ files' = files \cup {d} /\ old' = old \ {d} /\ written' = written + 1
        /\ newest' = [newest EXCEPT ![p] = d] /\ written < MaxDumps
    BY DEF Write
  <1> HIDE DEF d
  <1>3. TypeInv'
    <2>1. IsFiniteSet(files')
      BY <1>2, FS_AddElement DEF IInv, TypeInv
    <2>2. /\ files' \subseteq Files /\ newest' \in [Paths -> Files \cup {NoFile}]
          /\ old' \subseteq files'
      BY <1>1, <1>2 DEF IInv, TypeInv, TypeOK
    <2>3. written' \in 0..MaxDumps
      BY <1>1, <1>2, NumbersAssumption
    <2> QED
      BY <2>1, <2>2, <2>3 DEF IInv, TypeInv, TypeOK
  <1>4. NumberInv'
    <2> SUFFICES ASSUME NEW f \in files', f.kind = "heap", f.n > written'
                 PROVE  f \in old'
      BY DEF NumberInv
    <2>1. f # d
      BY <1>1, <1>2
    <2>2. f \in files /\ f \in Files
      BY <1>2, <2>1 DEF IInv, TypeInv, TypeOK
    <2>3. f.n > written
      BY <1>1, <1>2, <2>2 DEF Files
    <2> QED
      BY <1>2, <2>1, <2>2, <2>3 DEF IInv, NumberInv
  <1>5. NewestInv'
    <2> SUFFICES ASSUME NEW q \in Paths
                 PROVE  /\ newest'[q] # NoFile =>
                             /\ newest'[q] \in files' /\ newest'[q].path = q
                             /\ newest'[q].kind = "heap" /\ newest'[q].n <= written'
                        /\ \A f \in files' \ old' : f.kind = "heap" /\ f.path = q =>
                             newest'[q] # NoFile /\ f.n <= newest'[q].n
      BY DEF NewestInv
    <2>0. newest \in [Paths -> Files \cup {NoFile}]
      BY DEF IInv, TypeInv, TypeOK
    <2>1. CASE q = p
      <3>1. newest'[q] = d
        BY <1>2, <2>0, <2>1
      <3>2. ASSUME NEW f \in files' \ old', f.kind = "heap", f # d
            PROVE  f.n <= written + 1
        <4>1. f \in files \ old /\ f \in Files
          BY <1>2, <3>2 DEF IInv, TypeInv, TypeOK
        <4>2. f.n \in Nat /\ ~(f.n > written)
          BY <3>2, <4>1 DEF IInv, NumberInv, Files
        <4> QED
          BY <1>1, <4>2
      <3> QED
        BY <1>1, <1>2, <2>1, <3>1, <3>2
    <2>2. CASE q # p
      <3>1. newest'[q] = newest[q]
        BY <1>2, <2>0, <2>2
      <3>2. \A f \in files' \ old' : f.path = q => f \in files \ old
        BY <1>1, <1>2, <2>2
      <3>3. newest[q] # NoFile => newest[q].n \in Nat
        BY <2>0 DEF Files
      <3> QED
        BY <1>1, <1>2, <3>1, <3>2, <3>3 DEF IInv, NewestInv
    <2> QED
      BY <2>1, <2>2
  <1>6. AmongInv'
    BY <1>2, PathsAssumption DEF IInv, AmongInv
  <1> QED
    BY <1>3, <1>4, <1>5, <1>6 DEF IInv

\* profiler_cleanup() removes all files of a path, or none.
LEMMA CleanupKeeps ==
  ASSUME IInv, NEW p \in Paths, Cleanup(p)
  PROVE  IInv'
  <1> USE DEF IInv, Cleanup
  <1>1. TypeInv'
    <2>1. IsFiniteSet(files')
      BY FS_Subset DEF TypeInv
    <2>2. newest' \in [Paths -> Files \cup {NoFile}]
      BY DEF TypeInv, TypeOK
    <2> QED
      BY <2>1, <2>2 DEF TypeInv, TypeOK
  <1>2. NumberInv'
    BY DEF NumberInv
  <1>3. NewestInv'
    <2> SUFFICES ASSUME NEW q \in Paths
                 PROVE  /\ newest'[q] # NoFile =>
                             /\ newest'[q] \in files' /\ newest'[q].path = q
                             /\ newest'[q].kind = "heap" /\ newest'[q].n <= written'
                        /\ \A f \in files' \ old' : f.kind = "heap" /\ f.path = q =>
                             newest'[q] # NoFile /\ f.n <= newest'[q].n
      BY DEF NewestInv
    <2>1. CASE newest[q] \in Matching(p)
      <3>1. newest'[q] = NoFile
        BY <2>1
      <3>2. newest[q] \in Files /\ newest[q] # NoFile
        BY <2>1, NoFileIsNone DEF Matching, TypeInv, TypeOK
      <3>3. newest[q].path = q /\ HasPrefix(newest[q], p)
        BY <2>1, <3>2 DEF NewestInv, Matching
      <3>4. \A f \in files : f.path = q => f \in Matching(p)
        BY <3>3 DEF HasPrefix, Matching
      <3> QED
        BY <3>1, <3>4
    <2>2. CASE newest[q] \notin Matching(p)
      <3>1. newest'[q] = newest[q]
        BY <2>2
      <3> QED
        BY <2>2, <3>1 DEF NewestInv
    <2> QED
      BY <2>1, <2>2
  <1>4. AmongInv'
    BY DEF AmongInv
  <1> QED
    BY <1>1, <1>2, <1>3, <1>4

\* Every step keeps the invariant; memprof_report() finds a file.
LEMMA InvarianceStep == IInv /\ [Next]_vars => IInv'
  <1> SUFFICES ASSUME IInv, [Next]_vars
               PROVE  IInv'
    OBVIOUS
  <1>1. ASSUME NEW p \in Paths, MemStart(p)
        PROVE  IInv'
    <2>1. among' \/ \A f \in old : f.kind = "heap" => f.path # prefix'
      <3> SUFFICES ASSUME ~among', NEW f \in old, f.kind = "heap", f.path = p
                   PROVE  FALSE
        BY <1>1 DEF MemStart
      <3>1. ~Among(p)
        BY <1>1 DEF MemStart
      <3>2. f = Dump(p, 1)
        BY <3>1 DEF Among
      <3> QED
        BY <1>1, <3>2 DEF MemStart, IInv, TypeInv, TypeOK
    <2>2. among' \in BOOLEAN
      BY <1>1 DEF MemStart, Among
    <2> QED
      BY <1>1, <2>1, <2>2, WriteKeeps DEF MemStart
  <1>2. ASSUME NEW p \in Paths, MemStartFails(p)
        PROVE  IInv'
    BY <1>2 DEF MemStartFails, history, IInv, TypeInv, TypeOK, NumberInv, NewestInv,
                AmongInv
  <1>3. ASSUME NEW p \in Paths, CpuProfile(p)
        PROVE  IInv'
    <2>1. Profile(p) \in Files /\ Profile(p).kind # "heap"
      BY DEF Profile, Files
    <2>2. IsFiniteSet(files')
      BY <1>3, FS_AddElement DEF CpuProfile, IInv, TypeInv
    <2>3. TypeInv'
      BY <1>3, <2>1, <2>2 DEF CpuProfile, history, IInv, TypeInv, TypeOK
    <2>4. NumberInv' /\ NewestInv' /\ AmongInv'
      BY <1>3, <2>1 DEF CpuProfile, history, IInv, NumberInv, NewestInv, AmongInv
    <2> QED
      BY <2>3, <2>4 DEF IInv
  <1>4. ASSUME NEW p \in Paths, Cleanup(p)
        PROVE  IInv'
    BY <1>4, CleanupKeeps
  <1>10. ASSUME NEW p \in Paths, NEW n \in 1..MaxOther, JemallocDump(p, n)
         PROVE  IInv'
    <2>1. Dump(p, n) \in Files /\ Dump(p, n).path = p
      BY NumbersAssumption, DumpFacts
    <2>2. IsFiniteSet(files')
      BY <1>10, FS_AddElement DEF JemallocDump, IInv, TypeInv
    <2>3. TypeInv'
      BY <1>10, <2>1, <2>2 DEF JemallocDump, IInv, TypeInv, TypeOK
    <2>4. NumberInv' /\ NewestInv'
      BY <1>10 DEF JemallocDump, IInv, NumberInv, NewestInv
    <2>5. AmongInv'
      BY <1>10, <2>1 DEF JemallocDump, IInv, TypeInv, TypeOK, AmongInv
    <2> QED
      BY <2>3, <2>4, <2>5 DEF IInv
  <1>5. CASE MemDump
    BY <1>5, WriteKeeps DEF MemDump, IInv, TypeInv, TypeOK
  <1>6. CASE MemStop
    BY <1>6, WriteKeeps DEF MemStop, IInv, TypeInv, TypeOK
  <1>7. CASE MemReport
    <2>1. memprof_dump_path \in Paths
      BY <1>7 DEF MemReport, IInv, TypeInv, TypeOK
    <2>2. LastFile(memprof_dump_path) \in Matching(memprof_dump_path)
      BY <1>7, <2>1, LastFileFound DEF MemReport, IInv, TypeInv, TypeOK
    <2>3. reported' \subseteq Files
      BY <1>7, <2>2 DEF MemReport, Matching, IInv, TypeInv, TypeOK
    <2>4. TypeInv'
      BY <1>7, <2>3 DEF MemReport, history, IInv, TypeInv, TypeOK
    <2>5. NumberInv' /\ NewestInv' /\ AmongInv'
      BY <1>7 DEF MemReport, history, IInv, NumberInv, NewestInv, AmongInv
    <2> QED
      BY <2>4, <2>5 DEF IInv
  <1>8. CASE Restart
    <2>1. TypeInv'
      <3>1. newest' \in [Paths -> Files \cup {NoFile}] /\ written' \in 0..MaxDumps
        BY <1>8, NumbersAssumption DEF Restart
      <3> QED
        BY <1>8, <3>1 DEF Restart, IInv, TypeInv, TypeOK
    <2>2. NumberInv' /\ NewestInv' /\ AmongInv'
      BY <1>8, PathsAssumption DEF Restart, NumberInv, NewestInv, AmongInv
    <2> QED
      BY <2>1, <2>2 DEF IInv
  <1>9. CASE UNCHANGED vars
    BY <1>9 DEF vars, history, IInv, TypeInv, TypeOK, NumberInv, NewestInv, AmongInv
  <1> QED
    BY <1>1, <1>2, <1>3, <1>4, <1>5, <1>6, <1>7, <1>8, <1>9, <1>10 DEF Next

\* The invariant holds in every state.
LEMMA Invariance == Spec => []IInv
  BY Initially, InvarianceStep, PTL DEF Spec

-----------------------------------------------------------------------------
(* The theorems. *)

\* Status, numbers and files keep their types; memprof_report() reads a file.
THEOREM TypeCorrect == Spec => []TypeOK
  BY Invariance, PTL DEF IInv, TypeInv

\* memprof_start(), memprof_dump() and memprof_stop() make gperftools write over
\* no file, of this run of the server or of an earlier one, if the profile did
\* not begin among old dumps that the check for number 1 does not see.
THEOREM DumpsKept == Spec => KeepsDumps
  <1> DEFINE Kept == \A p \in Paths : newest'[p] \notin {newest[p], NoFile} /\ ~among' =>
                       newest'[p] \notin files
  <1>1. IInv /\ [Next]_vars => Kept
    <2> SUFFICES ASSUME IInv, [Next]_vars, NEW p \in Paths,
                        newest'[p] \notin {newest[p], NoFile}, ~among'
                 PROVE  newest'[p] \notin files
      OBVIOUS
    <2>1. ASSUME NEW q \in Paths, Write(q), \A f \in old : f.kind = "heap" => f.path # q
          PROVE  newest'[p] \notin files
      BY <2>1, NextIsNew DEF Write, IInv, TypeInv, TypeOK
    <2>2. ASSUME NEW q \in Paths, MemStart(q)
          PROVE  newest'[p] \notin files
      <3>1. \A f \in old : f.kind = "heap" => f.path # q
        <4>1. ~Among(q) /\ Dump(q, 1) \notin old
          BY <2>2 DEF MemStart, IInv, TypeInv, TypeOK
        <4> QED
          BY <4>1 DEF Among
      <3> QED
        BY <2>1, <2>2, <3>1 DEF MemStart
    <2>3. CASE MemDump \/ MemStop
      <3>1. prefix \in Paths /\ ~among
        BY <2>3 DEF MemDump, MemStop, IInv, TypeInv, TypeOK
      <3> QED
        BY <2>1, <2>3, <3>1 DEF MemDump, MemStop, IInv, AmongInv
    <2>4. CASE \E q \in Paths : MemStartFails(q) \/ CpuProfile(q) \/ Cleanup(q)
      BY <2>4 DEF MemStartFails, CpuProfile, Cleanup, history
    <2>5. CASE \/ MemReport \/ Restart \/ UNCHANGED vars
               \/ \E q \in Paths : \E n \in 1..MaxOther : JemallocDump(q, n)
      BY <2>5 DEF MemReport, Restart, JemallocDump, vars, history
    <2> QED
      BY <2>2, <2>3, <2>4, <2>5 DEF Next
  <1> QED
    BY <1>1, Invariance, PTL DEF Spec, KeepsDumps

\* The last name is that of the dump written last, if all the files that match
\* are dumps of this run under the path itself and the numbers have no more
\* than Width digits.
LEMMA LastIsNewest ==
  ASSUME IInv, NEW p \in Paths, Matching(p) # {}, Matching(p) \cap old = {},
         \A f \in Matching(p) : f.kind = "heap" /\ f.path = p,
         written < Power[Width]
  PROVE  LastFile(p) = newest[p]
  <1>1. /\ files \subseteq Files /\ IsFiniteSet(files) /\ written \in Nat
        /\ newest[p] \in Files \cup {NoFile} /\ Power[Width] \in Nat
    BY NumbersAssumption, PowerFacts DEF IInv, TypeInv, TypeOK
  <1>2. /\ LastFile(p) \in Matching(p)
        /\ \A g \in Matching(p) \ {LastFile(p)} : NameBefore(g, LastFile(p))
    BY <1>1, LastFileFound
  <1> DEFINE f == LastFile(p)
             m == newest[p]
  <1>3. f \in Files /\ f \in files \ old /\ f.kind = "heap" /\ f.path = p
    BY <1>1, <1>2 DEF Matching
  <1>4. m # NoFile /\ f.n <= m.n
    BY <1>3 DEF IInv, NewestInv
  <1>5. /\ m \in files /\ m \in Files /\ m.path = p /\ m.kind = "heap"
        /\ m.n <= written /\ m \in Matching(p)
    BY <1>1, <1>4 DEF IInv, NewestInv, Matching, HasPrefix
  <1> HIDE DEF f, m
  <1> SUFFICES ASSUME f # m
               PROVE  FALSE
    BY DEF f, m
  <1>6. f.n \in Nat /\ m.n \in Nat /\ f.n < m.n /\ m.n < Power[Width] /\ f.n < Power[Width]
    <2>1. f.n \in Nat /\ m.n \in Nat
      BY <1>3, <1>5 DEF Files
    <2>2. f.n # m.n
      BY <1>3, <1>5 DEF Files
    <2> QED
      BY <1>1, <1>4, <1>5, <2>1, <2>2
  <1>7. Precedes(Digits(f.n), Digits(m.n))
    <2>1. Places(f.n) = Width /\ Places(m.n) = Width
      BY <1>6, PlacesFacts
    <2> QED
      BY <1>6, <2>1, SmallerPrecedes
  <1>8. Precedes(Digits(m.n), Digits(f.n))
    <2>1. NameBefore(m, f)
      BY <1>2, <1>5 DEF f
    <2> QED
      BY <1>3, <1>5, <2>1, PathsAssumption DEF NameBefore
  <1> QED
    BY <1>6, <1>7, <1>8, DigitsFacts, PrecedesTransitive, PrecedesIrreflexive

\* memprof_report() reads one dump, the one that memprof_start(), memprof_dump() or
\* memprof_stop() has written last, as long as only these dumps match.
THEOREM NewestReported == Spec => ReportsNewestDump
  <1> DEFINE Newest ==
               /\ reported' \notin {reported, {}}
               /\ Matching(memprof_dump_path) \cap old = {}
               /\ \A f \in Matching(memprof_dump_path) :
                    f.kind = "heap" /\ f.path = memprof_dump_path
               /\ written < Power[Width]
               => reported' = {newest[memprof_dump_path]}
  <1>1. IInv /\ [Next]_vars => Newest
    <2> SUFFICES ASSUME IInv, [Next]_vars, reported' \notin {reported, {}},
                        Matching(memprof_dump_path) \cap old = {},
                        \A f \in Matching(memprof_dump_path) :
                          f.kind = "heap" /\ f.path = memprof_dump_path,
                        written < Power[Width]
                 PROVE  reported' = {newest[memprof_dump_path]}
      OBVIOUS
    <2>1. MemReport
      BY DEF Next, vars, history, MemStart, MemStartFails, CpuProfile, JemallocDump,
             Cleanup, MemDump, MemStop, Restart
    <2>2. memprof_dump_path \in Paths /\ Matching(memprof_dump_path) # {}
      BY <2>1 DEF MemReport, IInv, TypeInv, TypeOK
    <2> QED
      BY <2>1, <2>2, LastIsNewest DEF MemReport
  <1> QED
    BY <1>1, Invariance, PTL DEF Spec, ReportsNewestDump

==============================================================================
