-------------------------- MODULE LifecycleProofs --------------------------
(***************************************************************************)
(* Proofs about Lifecycle, for any number of sessions and of components    *)
(* installed by one behaviour.                                             *)
(***************************************************************************)
EXTENDS Lifecycle, Integers, SequenceTheorems, TLAPS

-----------------------------------------------------------------------------
(* Kinds of steps, and their order.                                        *)

InitKinds == {"add_scalar", "register_status", "register_variable", "add_tables"}
Undo == {"unregister_status", "unregister_variable", "delete_tables"}
DeinitKinds == {"cleanup_profiler_data", "udf_unregister", "delete_list"} \cup Undo

\* The kinds that may follow a kind, in init, in deinit and in the destructor.
Following(kind) ==
  CASE kind = "add_scalar" -> InitKinds
    [] kind \in {"register_status", "register_variable"} -> InitKinds \ {"add_scalar"}
    [] kind = "cleanup_profiler_data" -> DeinitKinds \ {"cleanup_profiler_data"}
    [] kind = "udf_unregister" -> Undo \cup {"udf_unregister", "delete_list"}
    [] kind \in Undo \cup {"delete_list"} -> Undo
    [] OTHER -> {}

InOrder(steps) ==
  \A i, j \in DOMAIN steps : i < j => steps[j].do \in Following(steps[i].do)

\* What a step is about: a function, a variable, a table, a component's list.
UdfsOf(c) == Range(Udfs[c])
Things ==
  Components \cup (UNION {UdfsOf(c) : c \in Components})
    \cup {"dump_path", "pprof_binary", "jeprof_binary", "profiler_actions",
          "cpu_status", "memory_status", "jemalloc_status"}

AllSteps == [do : InitKinds \cup DeinitKinds, what : Things]

Left == Range(todo)
LeftOf(kind) == {t \in Left : t.do = kind}
NotFunctions(c) == Names[c] \ FunctionsOf[c]

-----------------------------------------------------------------------------
(* The inductive invariant. *)

TodoInv == todo \in Seq(AllSteps) /\ InOrder(todo)

\* One command at a time; the profilers need the component profiler.
CommandInv ==
  /\ loaded # {} => "profiler" \in loaded
  /\ command.op = "install" =>
       /\ command.of \notin loaded
       /\ command.of # "profiler" => "profiler" \in loaded
       /\ Left \subseteq Range(InitSteps[command.of]) \cup Range(UnregisterSteps(command.of))
       /\ ~failed => Left \subseteq Range(InitSteps[command.of])
  /\ command.op = "uninstall" =>
       /\ command.of \in loaded
       /\ command.of = "profiler" => loaded = {"profiler"}
       /\ Left \subseteq Range(DeinitSteps(command.of))
       /\ failed => todo = <<>> /\ "uninstall failed" \in events[command.of]

\* The list names functions that are registered; of an installed component, all.
ListInv ==
  \A c \in Components :
    /\ set[c] \subseteq registered
    /\ c \in loaded => set[c] = FunctionsOf[c] \cap registered

\* What init has passed is registered.
InstallInv ==
  command.op = "install" =>
    LET c == command.of
    IN  /\ c \notin deleted
        /\ ~failed => \A t \in Range(InitSteps[c]) \ Left :
             /\ t.do = "add_scalar" => t.what \in set[c]
             /\ t.what \in registered
                  \/ (t.do = "register_status" /\ "ignored failure" \in events[c])
        /\ Barring(c, {"late failure", "early call"}) =>
             FunctionsOf[c] \cap registered = set[c]

\* An init that has failed takes back its functions, and has registered
\* nothing else unless it failed late.
FailedInstallInv ==
  command.op = "install" =>
    LET c == command.of
    IN  /\ failed /\ Barring(c, {"late failure", "early call"}) =>
             \A u \in set[c] : [do |-> "udf_unregister", what |-> u] \in Left
        /\ failed /\ Barring(c, {"late failure"}) =>
             Left \subseteq Range(UnregisterSteps(c))
        /\ /\ Barring(c, {"late failure", "early call", "ignored failure"})
           /\ failed \/ LeftOf("add_scalar") # {}
           => NotFunctions(c) \cap registered = {}

\* After a late failure the functions stay, and every further init fails at
\* the first of them.
LateInv ==
  \A c \in Components : ~Barring(c, {"late failure"}) =>
    /\ c \notin loaded
    /\ FunctionsOf[c] \subseteq registered
    /\ command.of = c =>
         \/ todo = InitSteps[c] /\ set[c] = {} /\ ~failed
         \/ /\ failed /\ LeftOf("add_scalar") = {}
            /\ set[c] = {} \/ LeftOf("udf_unregister") = {}

\* What deinit has passed is not registered.
UninstallInv ==
  command.op = "uninstall" /\ ~failed =>
    LET c == command.of
    IN  /\ set[c] = {} \/ LeftOf("delete_list") # {}
        /\ Barring(c, {"ignored failure"}) => \A n \in NotFunctions(c) \cap registered :
             \E t \in Left : t.what = n /\ t.do \in Undo

\* c is installed, and the command under way has not deleted its list.
Listed(c) ==
  c \in loaded /\ (command.of = c => failed \/ LeftOf("delete_list") # {})

ListedInv ==
  \A c \in Components : Listed(c) =>
    /\ Barring(c, {"list deleted"}) => VariablesOf[c] \subseteq registered
    /\ c \in deleted => c = "profiler" /\ ~Barring(c, {"list deleted"})

\* What is called is registered, and was not before an init without history.
CallInv ==
  \A s \in Sessions : call[s] # NoCall =>
    /\ call[s] \in registered
    /\ command.op = "install" /\ call[s] \in FunctionsOf[command.of] =>
         ~Barring(command.of, {"late failure", "early call"})

\* Deleted records are pointed to only while nothing runs that could use them.
RowsInv ==
  rows = "dangling" /\ Barring("profiler", {"uninstall failed"}) =>
    /\ command.op # "install"
    /\ loaded \subseteq {"profiler"}
    /\ "profiler" \in loaded =>
         command.of = "profiler" /\ LeftOf("cleanup_profiler_data") = {}

AsleepInv == asleep => InMemory("memory") \/ ~Barring("memory", {"timer asleep"})

IInv ==
  /\ TypeOK /\ TodoInv /\ CommandInv /\ ListInv
  /\ InstallInv /\ FailedInstallInv /\ LateInv
  /\ UninstallInv /\ ListedInv
  /\ UnloadedLeavesNothing /\ InstalledIsWhole /\ RecordsDeletedOnce
  /\ CallInv /\ RowsInv /\ AsleepInv

-----------------------------------------------------------------------------
(* Sequences of steps. *)

\* The steps of one kind about the names of a set.
As(do, names) == {[do |-> do, what |-> n] : n \in names}

\* What one step leaves of a sequence.
LEMMA TailFacts ==
  ASSUME NEW S, NEW q \in Seq(S), q # <<>>, InOrder(q)
  PROVE  /\ Head(q) \in S /\ Head(q) \in Range(q)
         /\ Tail(q) \in Seq(S) /\ InOrder(Tail(q))
         /\ Range(q) = {Head(q)} \cup Range(Tail(q))
         /\ \A t \in Range(Tail(q)) : t.do \in Following(Head(q).do)
  <1>1. /\ Head(q) = q[1] /\ Head(q) \in S /\ Tail(q) \in Seq(S)
        /\ Len(q) \in Nat \ {0} /\ Len(Tail(q)) = Len(q) - 1
        /\ DOMAIN q = 1..Len(q) /\ DOMAIN Tail(q) = 1..(Len(q) - 1)
        /\ \A i \in 1..(Len(q) - 1) : Tail(q)[i] = q[i + 1]
    BY HeadTailProperties, LenProperties, EmptySeq
  <1>2. \A i \in 2..Len(q) : i - 1 \in 1..(Len(q) - 1) /\ Tail(q)[i - 1] = q[i]
    BY <1>1
  <1>3. Range(q) = {Head(q)} \cup Range(Tail(q))
    <2>1. ASSUME NEW t \in Range(q) PROVE t \in {Head(q)} \cup Range(Tail(q))
      <3>1. PICK i \in 1..Len(q) : t = q[i]
        BY <1>1 DEF Range
      <3>2. CASE i = 1
        BY <1>1, <3>1, <3>2
      <3>3. CASE i \in 2..Len(q)
        BY <1>1, <1>2, <3>1, <3>3 DEF Range
      <3> QED
        BY <1>1, <3>2, <3>3
    <2>2. ASSUME NEW t \in Range(Tail(q)) PROVE t \in Range(q)
      <3>1. PICK i \in 1..(Len(q) - 1) : t = Tail(q)[i]
        BY <1>1 DEF Range
      <3> QED
        BY <1>1, <3>1 DEF Range
    <2>3. Head(q) \in Range(q)
      BY <1>1 DEF Range
    <2> QED
      BY <2>1, <2>2, <2>3
  <1>4. InOrder(Tail(q))
    BY <1>1 DEF InOrder
  <1>5. ASSUME NEW t \in Range(Tail(q))
        PROVE  t.do \in Following(Head(q).do)
    <2>1. PICK i \in 1..(Len(q) - 1) : t = q[i + 1]
      BY <1>1 DEF Range
    <2> QED
      BY <1>1, <2>1 DEF InOrder
  <1> QED
    BY <1>1, <1>3, <1>4, <1>5

\* The steps of one kind.
LEMMA StepsFacts ==
  ASSUME NEW do, NEW N, NEW names \in Seq(N),
         do \in Following(do) \/ Len(names) <= 1
  PROVE  /\ Steps(do, names) \in Seq([do : {do}, what : N])
         /\ Len(Steps(do, names)) = Len(names)
         /\ Range(Steps(do, names)) = As(do, Range(names))
         /\ InOrder(Steps(do, names))
  <1>1. Len(names) \in Nat /\ DOMAIN names = 1..Len(names)
        /\ \A i \in 1..Len(names) : names[i] \in N
    BY LenProperties
  <1>2. Steps(do, names) = [i \in 1..Len(names) |-> [do |-> do, what |-> names[i]]]
    BY <1>1 DEF Steps
  <1>3. Steps(do, names) \in Seq([do : {do}, what : N])
    BY <1>1, <1>2, IsASeq
  <1>4. Len(Steps(do, names)) = Len(names) /\ DOMAIN Steps(do, names) = 1..Len(names)
    BY <1>1, <1>2, <1>3, LenProperties
  <1>5. Range(Steps(do, names)) = As(do, Range(names))
    BY <1>1, <1>2 DEF Range, As
  <1>6. InOrder(Steps(do, names))
    BY <1>1, <1>2 DEF InOrder
  <1> QED
    BY <1>3, <1>4, <1>5, <1>6

\* One after the other.
LEMMA ConcatFacts ==
  ASSUME NEW S, NEW p \in Seq(S), NEW q \in Seq(S), InOrder(p), InOrder(q),
         \A t \in Range(p), u \in Range(q) : u.do \in Following(t.do)
  PROVE  /\ p \o q \in Seq(S) /\ InOrder(p \o q)
         /\ Range(p \o q) = Range(p) \cup Range(q)
  <1>1. /\ p \o q \in Seq(S) /\ Len(p \o q) = Len(p) + Len(q)
        /\ \A i \in 1..Len(p) + Len(q) :
             (p \o q)[i] = IF i <= Len(p) THEN p[i] ELSE q[i - Len(p)]
        /\ Len(p) \in Nat /\ Len(q) \in Nat
        /\ DOMAIN p = 1..Len(p) /\ DOMAIN q = 1..Len(q)
        /\ DOMAIN (p \o q) = 1..Len(p) + Len(q)
    BY ConcatProperties, LenProperties
  <1>2. ASSUME NEW i \in DOMAIN (p \o q), NEW j \in DOMAIN (p \o q), i < j
        PROVE  (p \o q)[j].do \in Following((p \o q)[i].do)
    <2>1. CASE j <= Len(p)
      BY <1>1, <1>2, <2>1 DEF InOrder
    <2>2. CASE i <= Len(p) /\ j > Len(p)
      <3>1. /\ (p \o q)[i] = p[i] /\ i \in DOMAIN p
            /\ (p \o q)[j] = q[j - Len(p)] /\ j - Len(p) \in DOMAIN q
        BY <1>1, <1>2, <2>2
      <3> QED
        BY <3>1 DEF Range
    <2>3. CASE i > Len(p)
      <3>1. /\ (p \o q)[i] = q[i - Len(p)] /\ i - Len(p) \in DOMAIN q
            /\ (p \o q)[j] = q[j - Len(p)] /\ j - Len(p) \in DOMAIN q
            /\ i - Len(p) < j - Len(p)
        BY <1>1, <1>2, <2>3
      <3> QED
        BY <3>1 DEF InOrder
    <2> QED
      BY <1>1, <1>2, <2>1, <2>2, <2>3
  <1> QED
    BY <1>1, <1>2, RangeConcatenation DEF InOrder

-----------------------------------------------------------------------------
(* init, deinit and the destructor of each component. *)

\* The functions of each component.
LEMMA UdfsAre ==
  /\ UdfsOf("profiler") = {"PROFILER_CLEANUP"}
  /\ UdfsOf("cpu") = {"CPUPROF_START", "CPUPROF_STOP", "CPUPROF_REPORT"}
  /\ UdfsOf("memory") = {"MEMPROF_START", "MEMPROF_STOP", "MEMPROF_DUMP",
                         "MEMPROF_REPORT", "MEMPROF_DIFF"}
  /\ UdfsOf("jemalloc") = {"MEMPROF_JEMALLOC_START", "MEMPROF_JEMALLOC_STOP",
                           "MEMPROF_JEMALLOC_DUMP", "MEMPROF_JEMALLOC_REPORT"}
  /\ \A c \in Components : Udfs[c] \in Seq(UdfsOf(c)) /\ Udfs[c] # <<>>
  <1>1. /\ Udfs["profiler"] = <<"PROFILER_CLEANUP">>
        /\ Udfs["cpu"] = <<"CPUPROF_START", "CPUPROF_STOP", "CPUPROF_REPORT">>
        /\ Udfs["memory"] = <<"MEMPROF_START", "MEMPROF_STOP", "MEMPROF_DUMP",
                              "MEMPROF_REPORT", "MEMPROF_DIFF">>
        /\ Udfs["jemalloc"] = <<"MEMPROF_JEMALLOC_START", "MEMPROF_JEMALLOC_STOP",
                                "MEMPROF_JEMALLOC_DUMP", "MEMPROF_JEMALLOC_REPORT">>
    BY DEF Udfs
  <1>2. UdfsOf("profiler") = {"PROFILER_CLEANUP"}
    BY <1>1 DEF UdfsOf, Range
  <1>3. UdfsOf("cpu") = {"CPUPROF_START", "CPUPROF_STOP", "CPUPROF_REPORT"}
    BY <1>1 DEF UdfsOf, Range
  <1>4. UdfsOf("memory") = {"MEMPROF_START", "MEMPROF_STOP", "MEMPROF_DUMP",
                            "MEMPROF_REPORT", "MEMPROF_DIFF"}
    BY <1>1 DEF UdfsOf, Range
  <1>5. UdfsOf("jemalloc") = {"MEMPROF_JEMALLOC_START", "MEMPROF_JEMALLOC_STOP",
                              "MEMPROF_JEMALLOC_DUMP", "MEMPROF_JEMALLOC_REPORT"}
    BY <1>1 DEF UdfsOf, Range
  <1>6. Udfs["profiler"] \in Seq(UdfsOf("profiler")) /\ Udfs["profiler"] # <<>>
    BY <1>1, <1>2
  <1>7. Udfs["cpu"] \in Seq(UdfsOf("cpu")) /\ Udfs["cpu"] # <<>>
    BY <1>1, <1>3
  <1>8. Udfs["memory"] \in Seq(UdfsOf("memory")) /\ Udfs["memory"] # <<>>
    BY <1>1, <1>4
  <1>9. Udfs["jemalloc"] \in Seq(UdfsOf("jemalloc")) /\ Udfs["jemalloc"] # <<>>
    BY <1>1, <1>5
  <1> QED
    BY <1>2, <1>3, <1>4, <1>5, <1>6, <1>7, <1>8, <1>9 DEF Components

\* q is a sequence of steps in order, those of R.
Holds(q, R) == q \in Seq(AllSteps) /\ InOrder(q) /\ Range(q) = R

\* Steps of one kind are in order, if the kind may follow itself.
LEMMA OneKind ==
  ASSUME NEW do \in InitKinds \cup DeinitKinds, NEW names \in Seq(Things),
         do \in Following(do) \/ Len(names) <= 1
  PROVE  Holds(Steps(do, names), As(do, Range(names)))
  <1>1. /\ Steps(do, names) \in Seq([do : {do}, what : Things])
        /\ Range(Steps(do, names)) = As(do, Range(names))
        /\ InOrder(Steps(do, names))
    BY StepsFacts
  <1>2. [do : {do}, what : Things] \subseteq AllSteps
    BY DEF AllSteps
  <1>3. Steps(do, names) \in Seq(AllSteps)
    BY <1>1, <1>2, SeqMonotonic
  <1> QED
    BY <1>1, <1>3 DEF Holds

\* A sequence of one step.
LEMMA OneName ==
  ASSUME NEW do \in InitKinds \cup DeinitKinds, NEW name \in Things
  PROVE  Holds(Steps(do, <<name>>), As(do, {name}))
  <1>1. Range(<<name>>) = {name} /\ <<name>> \in Seq(Things) /\ Len(<<name>>) <= 1
    BY DEF Range
  <1> QED
    BY <1>1, OneKind

\* A sequence of two steps of one kind.
LEMMA TwoNames ==
  ASSUME NEW do \in InitKinds \cup DeinitKinds, do \in Following(do),
         NEW name \in Things, NEW other \in Things
  PROVE  Holds(Steps(do, <<name, other>>), As(do, {name, other}))
  <1>1. Range(<<name, other>>) = {name, other} /\ <<name, other>> \in Seq(Things)
    BY DEF Range
  <1> QED
    BY <1>1, OneKind

\* Holds of one sequence after another.
LEMMA Together ==
  ASSUME NEW p, NEW q, NEW P, NEW Q, Holds(p, P), Holds(q, Q),
         \A t \in P, u \in Q : u.do \in Following(t.do)
  PROVE  Holds(p \o q, P \cup Q)
  BY ConcatFacts DEF Holds

\* The status variable, the system variables and the table of each component.
StatusOf ==
  [profiler |-> {}, cpu |-> {"cpu_status"}, memory |-> {"memory_status"},
   jemalloc |-> {"jemalloc_status"}]
SystemOf ==
  [profiler |-> {"dump_path", "pprof_binary"}, cpu |-> {}, memory |-> {},
   jemalloc |-> {"jeprof_binary"}]
TableOf ==
  [profiler |-> {"profiler_actions"}, cpu |-> {}, memory |-> {}, jemalloc |-> {}]

\* The steps of init and those of deinit.
InitOf(c) ==
  As("add_scalar", UdfsOf(c)) \cup As("register_status", StatusOf[c])
    \cup As("register_variable", SystemOf[c]) \cup As("add_tables", TableOf[c])

DeinitOf(c) ==
  As("cleanup_profiler_data", TableOf[c]) \cup As("udf_unregister", UdfsOf(c))
    \cup As("delete_list", {c}) \cup As("unregister_status", StatusOf[c])
    \cup As("unregister_variable", SystemOf[c]) \cup As("delete_tables", TableOf[c])

\* What the steps are about, one by one: the provers do not instantiate a
\* lemma with a string, so they are told which strings there are.
LEMMA AllThings ==
  /\ "profiler" \in Things /\ "cpu" \in Things /\ "memory" \in Things
  /\ "jemalloc" \in Things /\ "dump_path" \in Things /\ "pprof_binary" \in Things
  /\ "jeprof_binary" \in Things /\ "profiler_actions" \in Things
  /\ "cpu_status" \in Things /\ "memory_status" \in Things
  /\ "jemalloc_status" \in Things
  <1>1. Components \subseteq Things
    BY DEF Things
  <1>2. {"dump_path", "pprof_binary", "jeprof_binary", "profiler_actions",
         "cpu_status", "memory_status", "jemalloc_status"} \subseteq Things
    BY DEF Things
  <1> QED
    BY <1>1, <1>2 DEF Components

\* The kinds of steps, one by one.
LEMMA AllKinds ==
  /\ "register_status" \in InitKinds \cup DeinitKinds
  /\ "register_variable" \in InitKinds \cup DeinitKinds
  /\ "add_tables" \in InitKinds \cup DeinitKinds
  /\ "cleanup_profiler_data" \in InitKinds \cup DeinitKinds
  /\ "delete_list" \in InitKinds \cup DeinitKinds
  /\ "unregister_status" \in InitKinds \cup DeinitKinds
  /\ "unregister_variable" \in InitKinds \cup DeinitKinds
  /\ "delete_tables" \in InitKinds \cup DeinitKinds
  /\ "register_variable" \in Following("register_variable")
  /\ "unregister_variable" \in Following("unregister_variable")
  BY DEF InitKinds, DeinitKinds, Undo, Following

\* The functions of a component are registered, and unregistered, in order.
LEMMA UdfSteps ==
  ASSUME NEW c \in Components
  PROVE  /\ Holds(Steps("add_scalar", Udfs[c]), As("add_scalar", UdfsOf(c)))
         /\ Holds(UnregisterSteps(c), As("udf_unregister", UdfsOf(c)))
         /\ Udfs[c] # <<>>
  <1>1. Udfs[c] \in Seq(UdfsOf(c)) /\ Udfs[c] # <<>>
    BY UdfsAre
  <1>2. UdfsOf(c) \subseteq Things
    BY DEF Things
  <1>3. Udfs[c] \in Seq(Things)
    BY <1>1, <1>2, SeqMonotonic
  <1>4. /\ "add_scalar" \in InitKinds \cup DeinitKinds
        /\ "add_scalar" \in Following("add_scalar")
        /\ "udf_unregister" \in InitKinds \cup DeinitKinds
        /\ "udf_unregister" \in Following("udf_unregister")
    BY DEF InitKinds, DeinitKinds, Undo, Following
  <1>5. Holds(Steps("add_scalar", Udfs[c]), As("add_scalar", Range(Udfs[c])))
    BY <1>3, <1>4, OneKind
  <1>6. Holds(Steps("udf_unregister", Udfs[c]), As("udf_unregister", Range(Udfs[c])))
    BY <1>3, <1>4, OneKind
  <1> QED
    BY <1>1, <1>5, <1>6 DEF UnregisterSteps, UdfsOf

\* init of profiler.
LEMMA ProfilerInitHolds == Holds(ProfilerInit, InitOf("profiler"))
  <1>1. Holds(Steps("add_scalar", Udfs["profiler"]),
             As("add_scalar", UdfsOf("profiler")))
    BY UdfSteps DEF Components
  <1>2. Holds(Steps("register_variable", <<"dump_path", "pprof_binary">>),
             As("register_variable", {"dump_path", "pprof_binary"}))
    BY AllThings, AllKinds, TwoNames, Zenon
  <1>3. Holds(Steps("add_tables", <<"profiler_actions">>),
             As("add_tables", {"profiler_actions"}))
    BY AllThings, AllKinds, OneName, Zenon
  <1>4. Holds(Steps("add_scalar", Udfs["profiler"])
               \o Steps("register_variable", <<"dump_path", "pprof_binary">>),
             As("add_scalar", UdfsOf("profiler"))
               \cup As("register_variable", {"dump_path", "pprof_binary"}))
    BY <1>1, <1>2, Together DEF As, Following, InitKinds, DeinitKinds, Undo
  <1>5. Holds(Steps("add_scalar", Udfs["profiler"])
               \o Steps("register_variable", <<"dump_path", "pprof_binary">>)
               \o Steps("add_tables", <<"profiler_actions">>),
             As("add_scalar", UdfsOf("profiler"))
               \cup As("register_variable", {"dump_path", "pprof_binary"})
               \cup As("add_tables", {"profiler_actions"}))
    BY <1>4, <1>3, Together DEF As, Following, InitKinds, DeinitKinds, Undo
  <1>6. InitOf("profiler") = As("add_scalar", UdfsOf("profiler"))
               \cup As("register_variable", {"dump_path", "pprof_binary"})
               \cup As("add_tables", {"profiler_actions"})
    BY DEF InitOf, StatusOf, SystemOf, TableOf, As
  <1> QED
    BY <1>5, <1>6 DEF ProfilerInit

\* init of cpu.
LEMMA CpuInitHolds == Holds(CpuInit, InitOf("cpu"))
  <1>1. Holds(Steps("add_scalar", Udfs["cpu"]),
             As("add_scalar", UdfsOf("cpu")))
    BY UdfSteps DEF Components
  <1>2. Holds(Steps("register_status", <<"cpu_status">>),
             As("register_status", {"cpu_status"}))
    BY AllThings, AllKinds, OneName, Zenon
  <1>3. Holds(Steps("add_scalar", Udfs["cpu"])
               \o Steps("register_status", <<"cpu_status">>),
             As("add_scalar", UdfsOf("cpu"))
               \cup As("register_status", {"cpu_status"}))
    BY <1>1, <1>2, Together DEF As, Following, InitKinds, DeinitKinds, Undo
  <1>4. InitOf("cpu") = As("add_scalar", UdfsOf("cpu"))
               \cup As("register_status", {"cpu_status"})
    BY DEF InitOf, StatusOf, SystemOf, TableOf, As
  <1> QED
    BY <1>3, <1>4 DEF CpuInit

\* init of memory.
LEMMA MemoryInitHolds == Holds(MemoryInit, InitOf("memory"))
  <1>1. Holds(Steps("add_scalar", Udfs["memory"]),
             As("add_scalar", UdfsOf("memory")))
    BY UdfSteps DEF Components
  <1>2. Holds(Steps("register_status", <<"memory_status">>),
             As("register_status", {"memory_status"}))
    BY AllThings, AllKinds, OneName, Zenon
  <1>3. Holds(Steps("add_scalar", Udfs["memory"])
               \o Steps("register_status", <<"memory_status">>),
             As("add_scalar", UdfsOf("memory"))
               \cup As("register_status", {"memory_status"}))
    BY <1>1, <1>2, Together DEF As, Following, InitKinds, DeinitKinds, Undo
  <1>4. InitOf("memory") = As("add_scalar", UdfsOf("memory"))
               \cup As("register_status", {"memory_status"})
    BY DEF InitOf, StatusOf, SystemOf, TableOf, As
  <1> QED
    BY <1>3, <1>4 DEF MemoryInit

\* init of jemalloc.
LEMMA JemallocInitHolds == Holds(JemallocInit, InitOf("jemalloc"))
  <1>1. Holds(Steps("add_scalar", Udfs["jemalloc"]),
             As("add_scalar", UdfsOf("jemalloc")))
    BY UdfSteps DEF Components
  <1>2. Holds(Steps("register_status", <<"jemalloc_status">>),
             As("register_status", {"jemalloc_status"}))
    BY AllThings, AllKinds, OneName, Zenon
  <1>3. Holds(Steps("register_variable", <<"jeprof_binary">>),
             As("register_variable", {"jeprof_binary"}))
    BY AllThings, AllKinds, OneName, Zenon
  <1>4. Holds(Steps("add_scalar", Udfs["jemalloc"])
               \o Steps("register_status", <<"jemalloc_status">>),
             As("add_scalar", UdfsOf("jemalloc"))
               \cup As("register_status", {"jemalloc_status"}))
    BY <1>1, <1>2, Together DEF As, Following, InitKinds, DeinitKinds, Undo
  <1>5. Holds(Steps("add_scalar", Udfs["jemalloc"])
               \o Steps("register_status", <<"jemalloc_status">>)
               \o Steps("register_variable", <<"jeprof_binary">>),
             As("add_scalar", UdfsOf("jemalloc"))
               \cup As("register_status", {"jemalloc_status"})
               \cup As("register_variable", {"jeprof_binary"}))
    BY <1>4, <1>3, Together DEF As, Following, InitKinds, DeinitKinds, Undo
  <1>6. InitOf("jemalloc") = As("add_scalar", UdfsOf("jemalloc"))
               \cup As("register_status", {"jemalloc_status"})
               \cup As("register_variable", {"jeprof_binary"})
    BY DEF InitOf, StatusOf, SystemOf, TableOf, As
  <1> QED
    BY <1>5, <1>6 DEF JemallocInit

\* deinit of profiler.
LEMMA ProfilerDeinitHolds == Holds(ProfilerDeinit, DeinitOf("profiler"))
  <1>1. Holds(Steps("cleanup_profiler_data", <<"profiler_actions">>),
             As("cleanup_profiler_data", {"profiler_actions"}))
    BY AllThings, AllKinds, OneName, Zenon
  <1>2. Holds(UnregisterSteps("profiler"),
             As("udf_unregister", UdfsOf("profiler")))
    BY UdfSteps DEF Components
  <1>3. Holds(Steps("delete_list", <<"profiler">>),
             As("delete_list", {"profiler"}))
    BY AllThings, AllKinds, OneName, Zenon
  <1>4. Holds(Steps("unregister_variable", <<"dump_path", "pprof_binary">>),
             As("unregister_variable", {"dump_path", "pprof_binary"}))
    BY AllThings, AllKinds, TwoNames, Zenon
  <1>5. Holds(Steps("delete_tables", <<"profiler_actions">>),
             As("delete_tables", {"profiler_actions"}))
    BY AllThings, AllKinds, OneName, Zenon
  <1>6. Holds(Steps("cleanup_profiler_data", <<"profiler_actions">>)
               \o UnregisterSteps("profiler"),
             As("cleanup_profiler_data", {"profiler_actions"})
               \cup As("udf_unregister", UdfsOf("profiler")))
    BY <1>1, <1>2, Together DEF As, Following, InitKinds, DeinitKinds, Undo
  <1>7. Holds(Steps("cleanup_profiler_data", <<"profiler_actions">>)
               \o UnregisterSteps("profiler")
               \o Steps("delete_list", <<"profiler">>),
             As("cleanup_profiler_data", {"profiler_actions"})
               \cup As("udf_unregister", UdfsOf("profiler"))
               \cup As("delete_list", {"profiler"}))
    BY <1>6, <1>3, Together DEF As, Following, InitKinds, DeinitKinds, Undo
  <1>8. Holds(Steps("cleanup_profiler_data", <<"profiler_actions">>)
               \o UnregisterSteps("profiler")
               \o Steps("delete_list", <<"profiler">>)
               \o Steps("unregister_variable", <<"dump_path", "pprof_binary">>),
             As("cleanup_profiler_data", {"profiler_actions"})
               \cup As("udf_unregister", UdfsOf("profiler"))
               \cup As("delete_list", {"profiler"})
               \cup As("unregister_variable", {"dump_path", "pprof_binary"}))
    BY <1>7, <1>4, Together DEF As, Following, InitKinds, DeinitKinds, Undo
  <1>9. Holds(Steps("cleanup_profiler_data", <<"profiler_actions">>)
               \o UnregisterSteps("profiler")
               \o Steps("delete_list", <<"profiler">>)
               \o Steps("unregister_variable", <<"dump_path", "pprof_binary">>)
               \o Steps("delete_tables", <<"profiler_actions">>),
             As("cleanup_profiler_data", {"profiler_actions"})
               \cup As("udf_unregister", UdfsOf("profiler"))
               \cup As("delete_list", {"profiler"})
               \cup As("unregister_variable", {"dump_path", "pprof_binary"})
               \cup As("delete_tables", {"profiler_actions"}))
    BY <1>8, <1>5, Together DEF As, Following, InitKinds, DeinitKinds, Undo
  <1>10. DeinitOf("profiler") = As("cleanup_profiler_data", {"profiler_actions"})
               \cup As("udf_unregister", UdfsOf("profiler"))
               \cup As("delete_list", {"profiler"})
               \cup As("unregister_variable", {"dump_path", "pprof_binary"})
               \cup As("delete_tables", {"profiler_actions"})
    BY DEF DeinitOf, StatusOf, SystemOf, TableOf, As
  <1> QED
    BY <1>9, <1>10 DEF ProfilerDeinit

\* deinit of cpu.
LEMMA CpuDeinitHolds == Holds(CpuDeinit, DeinitOf("cpu"))
  <1>1. Holds(UnregisterSteps("cpu"),
             As("udf_unregister", UdfsOf("cpu")))
    BY UdfSteps DEF Components
  <1>2. Holds(Steps("delete_list", <<"cpu">>),
             As("delete_list", {"cpu"}))
    BY AllThings, AllKinds, OneName, Zenon
  <1>3. Holds(Steps("unregister_status", <<"cpu_status">>),
             As("unregister_status", {"cpu_status"}))
    BY AllThings, AllKinds, OneName, Zenon
  <1>4. Holds(UnregisterSteps("cpu")
               \o Steps("delete_list", <<"cpu">>),
             As("udf_unregister", UdfsOf("cpu"))
               \cup As("delete_list", {"cpu"}))
    BY <1>1, <1>2, Together DEF As, Following, InitKinds, DeinitKinds, Undo
  <1>5. Holds(UnregisterSteps("cpu")
               \o Steps("delete_list", <<"cpu">>)
               \o Steps("unregister_status", <<"cpu_status">>),
             As("udf_unregister", UdfsOf("cpu"))
               \cup As("delete_list", {"cpu"})
               \cup As("unregister_status", {"cpu_status"}))
    BY <1>4, <1>3, Together DEF As, Following, InitKinds, DeinitKinds, Undo
  <1>6. DeinitOf("cpu") = As("udf_unregister", UdfsOf("cpu"))
               \cup As("delete_list", {"cpu"})
               \cup As("unregister_status", {"cpu_status"})
    BY DEF DeinitOf, StatusOf, SystemOf, TableOf, As
  <1> QED
    BY <1>5, <1>6 DEF CpuDeinit

\* deinit of memory.
LEMMA MemoryDeinitHolds == Holds(MemoryDeinit, DeinitOf("memory"))
  <1>1. Holds(UnregisterSteps("memory"),
             As("udf_unregister", UdfsOf("memory")))
    BY UdfSteps DEF Components
  <1>2. Holds(Steps("delete_list", <<"memory">>),
             As("delete_list", {"memory"}))
    BY AllThings, AllKinds, OneName, Zenon
  <1>3. Holds(Steps("unregister_status", <<"memory_status">>),
             As("unregister_status", {"memory_status"}))
    BY AllThings, AllKinds, OneName, Zenon
  <1>4. Holds(UnregisterSteps("memory")
               \o Steps("delete_list", <<"memory">>),
             As("udf_unregister", UdfsOf("memory"))
               \cup As("delete_list", {"memory"}))
    BY <1>1, <1>2, Together DEF As, Following, InitKinds, DeinitKinds, Undo
  <1>5. Holds(UnregisterSteps("memory")
               \o Steps("delete_list", <<"memory">>)
               \o Steps("unregister_status", <<"memory_status">>),
             As("udf_unregister", UdfsOf("memory"))
               \cup As("delete_list", {"memory"})
               \cup As("unregister_status", {"memory_status"}))
    BY <1>4, <1>3, Together DEF As, Following, InitKinds, DeinitKinds, Undo
  <1>6. DeinitOf("memory") = As("udf_unregister", UdfsOf("memory"))
               \cup As("delete_list", {"memory"})
               \cup As("unregister_status", {"memory_status"})
    BY DEF DeinitOf, StatusOf, SystemOf, TableOf, As
  <1> QED
    BY <1>5, <1>6 DEF MemoryDeinit

\* deinit of jemalloc.
LEMMA JemallocDeinitHolds == Holds(JemallocDeinit, DeinitOf("jemalloc"))
  <1>1. Holds(UnregisterSteps("jemalloc"),
             As("udf_unregister", UdfsOf("jemalloc")))
    BY UdfSteps DEF Components
  <1>2. Holds(Steps("delete_list", <<"jemalloc">>),
             As("delete_list", {"jemalloc"}))
    BY AllThings, AllKinds, OneName, Zenon
  <1>3. Holds(Steps("unregister_status", <<"jemalloc_status">>),
             As("unregister_status", {"jemalloc_status"}))
    BY AllThings, AllKinds, OneName, Zenon
  <1>4. Holds(Steps("unregister_variable", <<"jeprof_binary">>),
             As("unregister_variable", {"jeprof_binary"}))
    BY AllThings, AllKinds, OneName, Zenon
  <1>5. Holds(UnregisterSteps("jemalloc")
               \o Steps("delete_list", <<"jemalloc">>),
             As("udf_unregister", UdfsOf("jemalloc"))
               \cup As("delete_list", {"jemalloc"}))
    BY <1>1, <1>2, Together DEF As, Following, InitKinds, DeinitKinds, Undo
  <1>6. Holds(UnregisterSteps("jemalloc")
               \o Steps("delete_list", <<"jemalloc">>)
               \o Steps("unregister_status", <<"jemalloc_status">>),
             As("udf_unregister", UdfsOf("jemalloc"))
               \cup As("delete_list", {"jemalloc"})
               \cup As("unregister_status", {"jemalloc_status"}))
    BY <1>5, <1>3, Together DEF As, Following, InitKinds, DeinitKinds, Undo
  <1>7. Holds(UnregisterSteps("jemalloc")
               \o Steps("delete_list", <<"jemalloc">>)
               \o Steps("unregister_status", <<"jemalloc_status">>)
               \o Steps("unregister_variable", <<"jeprof_binary">>),
             As("udf_unregister", UdfsOf("jemalloc"))
               \cup As("delete_list", {"jemalloc"})
               \cup As("unregister_status", {"jemalloc_status"})
               \cup As("unregister_variable", {"jeprof_binary"}))
    BY <1>6, <1>4, Together DEF As, Following, InitKinds, DeinitKinds, Undo
  <1>8. DeinitOf("jemalloc") = As("udf_unregister", UdfsOf("jemalloc"))
               \cup As("delete_list", {"jemalloc"})
               \cup As("unregister_status", {"jemalloc_status"})
               \cup As("unregister_variable", {"jeprof_binary"})
    BY DEF DeinitOf, StatusOf, SystemOf, TableOf, As
  <1> QED
    BY <1>7, <1>8 DEF JemallocDeinit

\* What init does, as a set of steps.
LEMMA InitHolds == \A c \in Components : Holds(InitSteps[c], InitOf(c))
  <1>1. /\ InitSteps["profiler"] = ProfilerInit /\ InitSteps["cpu"] = CpuInit
        /\ InitSteps["memory"] = MemoryInit /\ InitSteps["jemalloc"] = JemallocInit
    BY DEF InitSteps, Components
  <1> QED
    BY <1>1, ProfilerInitHolds, CpuInitHolds, MemoryInitHolds, JemallocInitHolds
    DEF Components

\* What deinit does, as a set of steps.
LEMMA DeinitHolds == \A c \in Components : Holds(DeinitSteps(c), DeinitOf(c))
  <1>1. /\ DeinitSteps("profiler") = ProfilerDeinit /\ DeinitSteps("cpu") = CpuDeinit
        /\ DeinitSteps("memory") = MemoryDeinit
        /\ DeinitSteps("jemalloc") = JemallocDeinit
    BY DEF DeinitSteps
  <1> QED
    BY <1>1, ProfilerDeinitHolds, CpuDeinitHolds, MemoryDeinitHolds, JemallocDeinitHolds
    DEF Components

\* A step of a kind in a set of steps of that kind.
AreAll(T, do, N) ==
  /\ \A t \in T : t.do = do /\ t.what \in N /\ t = [do |-> t.do, what |-> t.what]
  /\ \A n \in N : [do |-> do, what |-> n] \in T
  /\ \A n \in N : \E t \in T : t.do = do /\ t.what = n

\* The steps of one kind are all of that kind, one for each name.
LEMMA AsFacts == ASSUME NEW do, NEW N PROVE AreAll(As(do, N), do, N)
  <1>1. \A n \in N : [do |-> do, what |-> n] \in As(do, N)
    BY DEF As
  <1>2. ASSUME NEW n \in N
        PROVE  \E t \in As(do, N) : t.do = do /\ t.what = n
    <2> DEFINE t == [do |-> do, what |-> n]
    <2>1. t \in As(do, N) /\ t.do = do /\ t.what = n
      BY <1>1
    <2> QED
      BY <2>1
  <1>3. \A t \in As(do, N) : t.do = do /\ t.what \in N
                             /\ t = [do |-> t.do, what |-> t.what]
    BY DEF As
  <1> QED
    BY <1>1, <1>2, <1>3 DEF AreAll

\* What init may still have to do, and the names it registers.
LEMMA InitFacts ==
  ASSUME NEW c \in Components
  PROVE  /\ \A t \in Range(InitSteps[c]) :
              /\ t = [do |-> t.do, what |-> t.what]
              /\ t.do \in InitKinds /\ t.what \in Names[c]
              /\ t.do = "add_scalar" => t.what \in UdfsOf(c)
              /\ t.do = "register_status" => t.what \in StatusOf[c]
              /\ t.do = "register_variable" => t.what \in SystemOf[c]
              /\ t.do = "add_tables" => t.what \in TableOf[c]
         /\ \A n \in UdfsOf(c) : [do |-> "add_scalar", what |-> n] \in Range(InitSteps[c])
         /\ \A n \in SystemOf[c] :
              [do |-> "register_variable", what |-> n] \in Range(InitSteps[c])
         /\ \A n \in Names[c] : \E t \in Range(InitSteps[c]) : t.what = n
         /\ FunctionsOf[c] = UdfsOf(c)
         /\ VariablesOf[c] = SystemOf[c]
         /\ Names[c] = UdfsOf(c) \cup StatusOf[c] \cup SystemOf[c] \cup TableOf[c]
  <1> DEFINE R == Range(InitSteps[c])
  <1>1. R = As("add_scalar", UdfsOf(c)) \cup As("register_status", StatusOf[c])
              \cup As("register_variable", SystemOf[c]) \cup As("add_tables", TableOf[c])
    BY InitHolds DEF Holds, InitOf
  <1>2. Names[c] = {t.what : t \in R} /\ FunctionsOf[c] = {t.what : t \in {u \in R : u.do = "add_scalar"}}
        /\ VariablesOf[c] = {t.what : t \in {u \in R : u.do = "register_variable"}}
    BY DEF Names, FunctionsOf, VariablesOf, Registers
  <1> HIDE DEF R
  <1>11. AreAll(As("add_scalar", UdfsOf(c)), "add_scalar", UdfsOf(c))
    BY AsFacts, Zenon
  <1>12. AreAll(As("register_status", StatusOf[c]), "register_status", StatusOf[c])
    BY AsFacts, Zenon
  <1>13. AreAll(As("register_variable", SystemOf[c]), "register_variable", SystemOf[c])
    BY AsFacts, Zenon
  <1>14. AreAll(As("add_tables", TableOf[c]), "add_tables", TableOf[c])
    BY AsFacts, Zenon
  <1>3. ASSUME NEW t \in R
        PROVE  /\ t = [do |-> t.do, what |-> t.what]
               /\ t.do \in InitKinds
               /\ t.do = "add_scalar" => t.what \in UdfsOf(c)
               /\ t.do = "register_status" => t.what \in StatusOf[c]
               /\ t.do = "register_variable" => t.what \in SystemOf[c]
               /\ t.do = "add_tables" => t.what \in TableOf[c]
    <2>1. \/ t.do = "add_scalar" /\ t.what \in UdfsOf(c)
          \/ t.do = "register_status" /\ t.what \in StatusOf[c]
          \/ t.do = "register_variable" /\ t.what \in SystemOf[c]
          \/ t.do = "add_tables" /\ t.what \in TableOf[c]
      BY <1>1, <1>3, <1>11, <1>12, <1>13, <1>14 DEF AreAll
    <2>2. t = [do |-> t.do, what |-> t.what]
      BY <1>1, <1>3, <1>11, <1>12, <1>13, <1>14 DEF AreAll
    <2> QED
      BY <2>1, <2>2 DEF InitKinds
  <1>4. /\ \A n \in UdfsOf(c) : [do |-> "add_scalar", what |-> n] \in R
        /\ \A n \in StatusOf[c] : [do |-> "register_status", what |-> n] \in R
        /\ \A n \in SystemOf[c] : [do |-> "register_variable", what |-> n] \in R
        /\ \A n \in TableOf[c] : [do |-> "add_tables", what |-> n] \in R
    BY <1>1, <1>11, <1>12, <1>13, <1>14 DEF AreAll
  <1>8. /\ \A n \in UdfsOf(c) : \E t \in R : t.do = "add_scalar" /\ t.what = n
        /\ \A n \in StatusOf[c] : \E t \in R : t.what = n
        /\ \A n \in SystemOf[c] : \E t \in R : t.do = "register_variable" /\ t.what = n
        /\ \A n \in TableOf[c] : \E t \in R : t.what = n
    BY <1>1, <1>11, <1>12, <1>13, <1>14 DEF AreAll
  <1>5. FunctionsOf[c] = UdfsOf(c)
    BY <1>2, <1>3, <1>8
  <1>6. VariablesOf[c] = SystemOf[c]
    BY <1>2, <1>3, <1>8
  <1>7. Names[c] = UdfsOf(c) \cup StatusOf[c] \cup SystemOf[c] \cup TableOf[c]
    <2>1. ASSUME NEW t \in R
          PROVE  t.what \in UdfsOf(c) \cup StatusOf[c] \cup SystemOf[c] \cup TableOf[c]
      BY <1>3 DEF InitKinds
    <2>2. ASSUME NEW n \in UdfsOf(c) \cup StatusOf[c] \cup SystemOf[c] \cup TableOf[c]
          PROVE  n \in Names[c]
      BY <1>2, <1>8
    <2> QED
      BY <1>2, <2>1, <2>2
  <1> QED
    BY <1>2, <1>3, <1>4, <1>5, <1>6, <1>7 DEF R

\* Different components have different names, and so have the functions.
LEMMA NameFacts ==
  /\ \A c, d \in Components : c # d => Names[c] \cap Names[d] = {}
  /\ \A c \in Components :
       /\ FunctionsOf[c] \subseteq Names[c]
       /\ VariablesOf[c] \subseteq NotFunctions(c)
       /\ NotFunctions(c) = StatusOf[c] \cup SystemOf[c] \cup TableOf[c]
       /\ FunctionsOf[c] # {}
  /\ \A c \in Components : \A u \in FunctionsOf[c] : u \in Functions /\ Owner[u] = c
  /\ \A u \in Functions : Owner[u] \in Components /\ u \in FunctionsOf[Owner[u]]
  <1> DEFINE All(c) == UdfsOf(c) \cup StatusOf[c] \cup SystemOf[c] \cup TableOf[c]
  <1>1. \A c \in Components : Names[c] = All(c) /\ FunctionsOf[c] = UdfsOf(c)
                               /\ VariablesOf[c] = SystemOf[c]
    BY InitFacts
  <1>2. /\ All("profiler") = {"PROFILER_CLEANUP", "dump_path", "pprof_binary", "profiler_actions"}
        /\ All("cpu") = {"CPUPROF_START", "CPUPROF_STOP", "CPUPROF_REPORT", "cpu_status"}
        /\ All("memory") = {"MEMPROF_START", "MEMPROF_STOP", "MEMPROF_DUMP",
                            "MEMPROF_REPORT", "MEMPROF_DIFF", "memory_status"}
        /\ All("jemalloc") = {"MEMPROF_JEMALLOC_START", "MEMPROF_JEMALLOC_STOP",
                              "MEMPROF_JEMALLOC_DUMP", "MEMPROF_JEMALLOC_REPORT",
                              "jemalloc_status", "jeprof_binary"}
    <2>1. All("profiler") = {"PROFILER_CLEANUP", "dump_path", "pprof_binary", "profiler_actions"}
      BY UdfsAre DEF StatusOf, SystemOf, TableOf
    <2>2. All("cpu") = {"CPUPROF_START", "CPUPROF_STOP", "CPUPROF_REPORT", "cpu_status"}
      BY UdfsAre DEF StatusOf, SystemOf, TableOf
    <2>3. All("memory") = {"MEMPROF_START", "MEMPROF_STOP", "MEMPROF_DUMP",
                           "MEMPROF_REPORT", "MEMPROF_DIFF", "memory_status"}
      BY UdfsAre DEF StatusOf, SystemOf, TableOf
    <2>4. All("jemalloc") = {"MEMPROF_JEMALLOC_START", "MEMPROF_JEMALLOC_STOP",
                             "MEMPROF_JEMALLOC_DUMP", "MEMPROF_JEMALLOC_REPORT",
                             "jemalloc_status", "jeprof_binary"}
      BY UdfsAre DEF StatusOf, SystemOf, TableOf
    <2> QED
      BY <2>1, <2>2, <2>3, <2>4
  <1>3. ASSUME NEW c \in Components
        PROVE  UdfsOf(c) \cap (StatusOf[c] \cup SystemOf[c] \cup TableOf[c]) = {}
    <2>1. CASE c = "profiler"
      BY <2>1, UdfsAre DEF StatusOf, SystemOf, TableOf
    <2>2. CASE c = "cpu"
      BY <2>2, UdfsAre DEF StatusOf, SystemOf, TableOf
    <2>3. CASE c = "memory"
      BY <2>3, UdfsAre DEF StatusOf, SystemOf, TableOf
    <2>4. CASE c = "jemalloc"
      BY <2>4, UdfsAre DEF StatusOf, SystemOf, TableOf
    <2> QED
      BY <2>1, <2>2, <2>3, <2>4 DEF Components
  <1> HIDE DEF All
  <1>4. \A c, d \in Components : c # d => All(c) \cap All(d) = {}
    BY <1>2 DEF Components
  <1>5. \A c, d \in Components : c # d => Names[c] \cap Names[d] = {}
    BY <1>1, <1>4
  <1>6. \A c \in Components :
          /\ FunctionsOf[c] \subseteq Names[c]
          /\ VariablesOf[c] \subseteq NotFunctions(c)
          /\ NotFunctions(c) = StatusOf[c] \cup SystemOf[c] \cup TableOf[c]
    BY <1>1, <1>3 DEF All, NotFunctions
  <1>7. \A c \in Components : FunctionsOf[c] # {}
    BY <1>1, UdfsAre DEF Components
  <1>8. ASSUME NEW u \in Functions
        PROVE  Owner[u] \in Components /\ u \in FunctionsOf[Owner[u]]
    <2>1. \E c \in Components : u \in FunctionsOf[c]
      BY DEF Functions
    <2> QED
      BY <2>1 DEF Owner
  <1>9. ASSUME NEW c \in Components, NEW u \in FunctionsOf[c]
        PROVE  u \in Functions /\ Owner[u] = c
    <2>1. u \in Functions
      BY DEF Functions
    <2> QED
      BY <1>5, <1>6, <1>8, <2>1
  <1> QED
    BY <1>5, <1>6, <1>7, <1>8, <1>9

\* init starts with a function and does its steps in order.
LEMMA InitStarts ==
  ASSUME NEW c \in Components
  PROVE  /\ InitSteps[c] \in Seq(AllSteps) /\ InOrder(InitSteps[c])
         /\ InitSteps[c] # <<>> /\ Head(InitSteps[c]).do = "add_scalar"
  <1>1. InitSteps[c] \in Seq(AllSteps) /\ InOrder(InitSteps[c])
    BY InitHolds DEF Holds
  <1>2. PICK u \in UdfsOf(c) : [do |-> "add_scalar", what |-> u] \in Range(InitSteps[c])
    BY InitFacts, NameFacts
  <1>3. InitSteps[c] # <<>>
    BY <1>2 DEF Range
  <1>4. Head(InitSteps[c]).do \in InitKinds
    BY <1>1, <1>3, TailFacts, InitFacts
  <1>5. CASE [do |-> "add_scalar", what |-> u] = Head(InitSteps[c])
    BY <1>1, <1>3, <1>5
  <1>6. CASE [do |-> "add_scalar", what |-> u] \in Range(Tail(InitSteps[c]))
    <2>1. "add_scalar" \in Following(Head(InitSteps[c]).do)
      BY <1>1, <1>3, <1>6, TailFacts
    <2> QED
      BY <1>1, <1>3, <1>4, <2>1 DEF Following, InitKinds, DeinitKinds, Undo
  <1> QED
    BY <1>1, <1>2, <1>3, <1>5, <1>6, TailFacts

\* What udf_list::unregister does.
LEMMA UnregisterFacts ==
  ASSUME NEW c \in Components
  PROVE  /\ UnregisterSteps(c) \in Seq(AllSteps) /\ InOrder(UnregisterSteps(c))
         /\ \A t \in Range(UnregisterSteps(c)) :
              /\ t = [do |-> t.do, what |-> t.what]
              /\ t.do = "udf_unregister" /\ t.what \in FunctionsOf[c]
         /\ \A u \in FunctionsOf[c] :
              [do |-> "udf_unregister", what |-> u] \in Range(UnregisterSteps(c))
  <1>1. Holds(UnregisterSteps(c), As("udf_unregister", UdfsOf(c)))
    BY UdfSteps
  <1>2. AreAll(As("udf_unregister", UdfsOf(c)), "udf_unregister", UdfsOf(c))
    BY AsFacts, Zenon
  <1>3. FunctionsOf[c] = UdfsOf(c)
    BY InitFacts
  <1> QED
    BY <1>1, <1>2, <1>3 DEF Holds, AreAll

\* What deinit does.
LEMMA DeinitFacts ==
  ASSUME NEW c \in Components
  PROVE  /\ DeinitSteps(c) \in Seq(AllSteps) /\ InOrder(DeinitSteps(c))
         /\ \A t \in Range(DeinitSteps(c)) :
              /\ t.do \in DeinitKinds
              /\ t.do = "cleanup_profiler_data" => c = "profiler"
              /\ t.do = "udf_unregister" => t.what \in FunctionsOf[c]
              /\ t.do \in Undo => t.what \in NotFunctions(c)
              /\ t.do = "unregister_status" => t.what \in StatusOf[c]
              /\ t.do = "unregister_variable" => t.what \in VariablesOf[c]
              /\ t.do = "delete_tables" => c = "profiler"
         /\ \E t \in Range(DeinitSteps(c)) : t.do = "delete_list"
         /\ \A n \in NotFunctions(c) :
              \E t \in Range(DeinitSteps(c)) : t.what = n /\ t.do \in Undo
  <1> DEFINE R == Range(DeinitSteps(c))
  <1>1. R = As("cleanup_profiler_data", TableOf[c]) \cup As("udf_unregister", UdfsOf(c))
              \cup As("delete_list", {c}) \cup As("unregister_status", StatusOf[c])
              \cup As("unregister_variable", SystemOf[c]) \cup As("delete_tables", TableOf[c])
    BY DeinitHolds DEF Holds, DeinitOf
  <1>2. /\ FunctionsOf[c] = UdfsOf(c) /\ VariablesOf[c] = SystemOf[c]
        /\ NotFunctions(c) = StatusOf[c] \cup SystemOf[c] \cup TableOf[c]
    BY InitFacts, NameFacts
  <1>3. TableOf[c] # {} => c = "profiler"
    BY DEF TableOf, Components
  <1> HIDE DEF R
  <1>21. AreAll(As("cleanup_profiler_data", TableOf[c]), "cleanup_profiler_data", TableOf[c])
    BY AsFacts, Zenon
  <1>22. AreAll(As("udf_unregister", UdfsOf(c)), "udf_unregister", UdfsOf(c))
    BY AsFacts, Zenon
  <1>23. AreAll(As("delete_list", {c}), "delete_list", {c})
    BY AsFacts, Zenon
  <1>24. AreAll(As("unregister_status", StatusOf[c]), "unregister_status", StatusOf[c])
    BY AsFacts, Zenon
  <1>25. AreAll(As("unregister_variable", SystemOf[c]), "unregister_variable", SystemOf[c])
    BY AsFacts, Zenon
  <1>26. AreAll(As("delete_tables", TableOf[c]), "delete_tables", TableOf[c])
    BY AsFacts, Zenon
  <1>4. ASSUME NEW t \in R
        PROVE  \/ t.do = "cleanup_profiler_data" /\ t.what \in TableOf[c]
               \/ t.do = "udf_unregister" /\ t.what \in UdfsOf(c)
               \/ t.do = "delete_list"
               \/ t.do = "unregister_status" /\ t.what \in StatusOf[c]
               \/ t.do = "unregister_variable" /\ t.what \in SystemOf[c]
               \/ t.do = "delete_tables" /\ t.what \in TableOf[c]
    BY <1>1, <1>4, <1>21, <1>22, <1>23, <1>24, <1>25, <1>26 DEF AreAll
  <1>5. \E t \in R : t.do = "delete_list"
    BY <1>1, <1>23 DEF AreAll
  <1>6. ASSUME NEW n \in StatusOf[c]
        PROVE  \E t \in R : t.what = n /\ t.do = "unregister_status"
    BY <1>1, <1>6, <1>24 DEF AreAll
  <1>7. ASSUME NEW n \in SystemOf[c]
        PROVE  \E t \in R : t.what = n /\ t.do = "unregister_variable"
    BY <1>1, <1>7, <1>25 DEF AreAll
  <1>8. ASSUME NEW n \in TableOf[c]
        PROVE  \E t \in R : t.what = n /\ t.do = "delete_tables"
    BY <1>1, <1>8, <1>26 DEF AreAll
  <1>9. ASSUME NEW t \in R
        PROVE  /\ t.do \in DeinitKinds
               /\ t.do = "cleanup_profiler_data" => c = "profiler"
               /\ t.do = "udf_unregister" => t.what \in FunctionsOf[c]
               /\ t.do \in Undo => t.what \in NotFunctions(c)
               /\ t.do = "unregister_status" => t.what \in StatusOf[c]
               /\ t.do = "unregister_variable" => t.what \in VariablesOf[c]
               /\ t.do = "delete_tables" => c = "profiler"
    BY <1>2, <1>3, <1>4, <1>9 DEF DeinitKinds, Undo
  <1>10. ASSUME NEW n \in NotFunctions(c)
         PROVE  \E t \in R : t.what = n /\ t.do \in Undo
    BY <1>2, <1>6, <1>7, <1>8 DEF Undo
  <1> QED
    BY <1>5, <1>9, <1>10, DeinitHolds DEF R, Holds

-----------------------------------------------------------------------------
\* The next step.
Kind == Head(todo).do
Rest == Range(Tail(todo))

\* The command and its component.
LEMMA CommandFacts ==
  ASSUME TypeOK
  PROVE  /\ command.op \in {"none", "install", "uninstall"}
         /\ command.op = "none" <=> command = NoCommand
         /\ command.op = "none" => command.of \notin Components /\ todo = <<>> /\ ~failed
         /\ command.op # "none" => command.of \in used /\ command.of \in Components
         /\ command = [op |-> command.op, of |-> command.of]
         /\ used \subseteq Components /\ loaded \subseteq used
  <1>1. CASE command = NoCommand
    BY <1>1 DEF TypeOK, NoCommand, Components
  <1>2. CASE command \in [op : {"install", "uninstall"}, of : used]
    BY <1>2 DEF TypeOK, NoCommand
  <1> QED
    BY <1>1, <1>2 DEF TypeOK

\* The step is one of the command's, and what follows keeps the order.
LEMMA StepFacts ==
  ASSUME TypeOK, TodoInv, CommandInv, todo # <<>>
  PROVE  /\ command.op \in {"install", "uninstall"}
         /\ This \in used /\ This \in Components
         /\ Head(todo) \in Left /\ Left = {Head(todo)} \cup Rest
         /\ Tail(todo) \in Seq(AllSteps) /\ InOrder(Tail(todo))
         /\ \A t \in Rest : t.do \in Following(Kind)
         /\ command.op = "install" =>
              \/ Head(todo) \in Range(InitSteps[This])
              \/ Head(todo) \in Range(UnregisterSteps(This)) /\ failed
         /\ command.op = "uninstall" => Head(todo) \in Range(DeinitSteps(This)) /\ ~failed
  <1>1. command.op \in {"install", "uninstall"} /\ This \in used /\ This \in Components
    BY CommandFacts DEF This
  <1>2. /\ Head(todo) \in Left /\ Left = {Head(todo)} \cup Rest
        /\ Tail(todo) \in Seq(AllSteps) /\ InOrder(Tail(todo))
        /\ \A t \in Rest : t.do \in Following(Kind)
    BY TailFacts DEF TodoInv, Left, Rest, Kind
  <1>3. command.op = "install" =>
          \/ Head(todo) \in Range(InitSteps[This])
          \/ Head(todo) \in Range(UnregisterSteps(This)) /\ failed
    BY <1>2 DEF CommandInv, This
  <1>4. command.op = "uninstall" => Head(todo) \in Range(DeinitSteps(This)) /\ ~failed
    BY <1>2 DEF CommandInv, This
  <1> QED
    BY <1>1, <1>2, <1>3, <1>4

\* A step of init.
LEMMA InitStepFacts ==
  ASSUME TypeOK, TodoInv, CommandInv, FailedInstallInv, LateInv,
         todo # <<>>, Kind \in InitKinds
  PROVE  /\ command.op = "install" /\ Head(todo) \in Range(InitSteps[This])
         /\ Name \in Names[This]
         /\ Kind = "add_scalar" => ~failed /\ Name \in FunctionsOf[This]
         /\ Kind # "add_scalar" =>
              /\ Name \in NotFunctions(This)
              /\ \A t \in Rest : t.do # "add_scalar"
         /\ Kind = "register_variable" => Name \in VariablesOf[This]
         /\ Kind = "add_tables" => This = "profiler" /\ Rest = {}
  <1> USE DEF Name, Kind
  <1>1. command.op = "install" /\ Head(todo) \in Range(InitSteps[This])
    <2>1. "udf_unregister" \notin InitKinds /\ InitKinds \cap DeinitKinds = {}
      BY DEF InitKinds, DeinitKinds, Undo
    <2> QED
      BY <2>1, StepFacts, UnregisterFacts, DeinitFacts
  <1>2. This \in Components /\ \A t \in Rest : t.do \in Following(Kind)
    BY StepFacts
  <1>3. /\ Name \in Names[This]
        /\ Kind = "add_scalar" => Name \in FunctionsOf[This]
        /\ Kind = "register_status" => Name \in StatusOf[This]
        /\ Kind = "register_variable" => Name \in SystemOf[This]
        /\ Kind = "add_tables" => Name \in TableOf[This]
    BY <1>1, <1>2, InitFacts
  <1>4. Kind # "add_scalar" => Name \in NotFunctions(This)
    BY <1>2, <1>3, NameFacts DEF InitKinds
  <1>5. Kind = "register_variable" => Name \in VariablesOf[This]
    BY <1>2, <1>3, InitFacts
  <1>6. Kind = "add_tables" => This = "profiler"
    BY <1>2, <1>3 DEF TableOf, Components
  <1>7. Kind = "add_tables" => Rest = {}
    BY <1>2 DEF Following, InitKinds, DeinitKinds, Undo
  <1>8. Kind # "add_scalar" => \A t \in Rest : t.do # "add_scalar"
    BY <1>2 DEF Following, InitKinds, DeinitKinds, Undo
  <1>9. Kind = "add_scalar" => ~failed
    <2> SUFFICES ASSUME Kind = "add_scalar", failed PROVE FALSE
      OBVIOUS
    <2>1. Head(todo) \in Left
      BY StepFacts
    <2>2. CASE Barring(This, {"late failure"})
      <3>1. Left \subseteq Range(UnregisterSteps(This))
        BY <1>1, <2>2 DEF FailedInstallInv, This
      <3> QED
        BY <1>2, <2>1, <3>1, UnregisterFacts
    <2>3. CASE ~Barring(This, {"late failure"})
      <3>1. LeftOf("add_scalar") = {}
        BY <1>2, <2>3 DEF LateInv, This
      <3> QED
        BY <2>1, <3>1 DEF LeftOf
    <2> QED
      BY <2>2, <2>3
  <1> QED
    BY <1>1, <1>3, <1>4, <1>5, <1>6, <1>7, <1>8, <1>9

\* A step of deinit, or of the destructor when init fails.
LEMMA DeinitStepFacts ==
  ASSUME TypeOK, TodoInv, CommandInv, todo # <<>>, Kind \in DeinitKinds
  PROVE  /\ \/ command.op = "install" /\ failed /\ Kind = "udf_unregister"
            \/ command.op = "uninstall" /\ ~failed
         /\ Kind = "udf_unregister" => Name \in FunctionsOf[This]
         /\ Kind \in Undo => Name \in NotFunctions(This)
         /\ Kind = "unregister_variable" => Name \in VariablesOf[This]
         /\ Kind \in {"cleanup_profiler_data", "delete_tables"} => This = "profiler"
         /\ \A t \in Rest : t.do # "cleanup_profiler_data"
         /\ Kind \in Undo \cup {"delete_list"} => \A t \in Rest : t.do \in Undo
  <1> USE DEF Name, Kind
  <1>1. /\ This \in Components /\ \A t \in Rest : t.do \in Following(Kind)
        /\ \/ command.op = "install" /\ failed
                /\ Head(todo) \in Range(UnregisterSteps(This))
           \/ command.op = "uninstall" /\ ~failed
                /\ Head(todo) \in Range(DeinitSteps(This))
    <2>1. InitKinds \cap DeinitKinds = {}
      BY DEF InitKinds, DeinitKinds, Undo
    <2> QED
      BY <2>1, StepFacts, InitFacts
  <1>2. \A t \in Rest : t.do # "cleanup_profiler_data"
    BY <1>1 DEF Following, InitKinds, DeinitKinds, Undo
  <1>3. Kind \in Undo \cup {"delete_list"} => \A t \in Rest : t.do \in Undo
    BY <1>1 DEF Following, InitKinds, DeinitKinds, Undo
  <1>4. CASE command.op = "install"
    BY <1>1, <1>2, <1>3, <1>4, UnregisterFacts DEF Undo
  <1>5. CASE command.op = "uninstall"
    BY <1>1, <1>2, <1>3, <1>5, DeinitFacts
  <1> QED
    BY <1>1, <1>4, <1>5

-----------------------------------------------------------------------------
(* What each action does.                                                 *)

\* One component's entry of set or events changes.
Becomes(f, g, c, value) ==
  g[c] = value /\ \A d \in Components \ {c} : g[d] = f[d]

\* What EXCEPT changes, as Becomes says it.
LEMMA ExceptFacts ==
  ASSUME NEW S, NEW f \in [Components -> S], NEW c \in Components, NEW value
  PROVE  Becomes(f, [f EXCEPT ![c] = value], c, value)
  BY DEF Becomes

\* No steps are left.
LEMMA NoneLeft == todo' = <<>> => Left' = {}
  <1>1. Range(<<>>) = {}
    BY DEF Range
  <1> QED
    BY <1>1 DEF Left

\* init and deinit leave alone what is not theirs.
Stays == UNCHANGED <<used, loaded, command, call, asleep>>

\* INSTALL starts: the component has fresh statics and all of init to do.
LEMMA InstallCommandDoes ==
  ASSUME IInv, NEW c \in Components, InstallCommand(c)
  PROVE  /\ c \in used /\ c \notin loaded /\ command.op = "none"
         /\ c # "profiler" => "profiler" \in loaded
         /\ command'.op = "install" /\ command'.of = c
         /\ command' \in [op : {"install", "uninstall"}, of : used]
         /\ todo' = InitSteps[c] /\ Left' = Range(InitSteps[c]) /\ ~failed /\ ~failed'
         /\ Becomes(set, set', c, {})
         /\ Becomes(events, events', c, events[c] \ {"uninstall failed", "list deleted"})
         /\ deleted' = deleted \ {c}
         /\ rows' = IF c = "profiler" THEN "none" ELSE rows
         /\ misused' = (misused /\ c # "profiler")
         /\ UNCHANGED <<used, loaded, registered, call, asleep>>
  <1>1. /\ Becomes(set, set', c, {})
        /\ Becomes(events, events', c, events[c] \ {"uninstall failed", "list deleted"})
    BY ExceptFacts DEF InstallCommand, IInv, TypeOK
  <1>2. /\ command'.op = "install" /\ command'.of = c /\ c \in used
        /\ command' \in [op : {"install", "uninstall"}, of : used]
    BY DEF InstallCommand
  <1>3. command.op = "none" /\ ~failed /\ failed' = failed
    BY CommandFacts DEF InstallCommand, IInv
  <1>4. todo' = InitSteps[c] /\ Left' = Range(InitSteps[c])
    BY DEF InstallCommand, Left
  <1>5. /\ c \notin loaded
        /\ c # "profiler" => "profiler" \in loaded
        /\ deleted' = deleted \ {c}
        /\ rows' = IF c = "profiler" THEN "none" ELSE rows
        /\ misused' = (misused /\ c # "profiler")
        /\ UNCHANGED <<used, loaded, registered, call, asleep>>
    BY DEF InstallCommand, server, users
  <1> QED
    BY <1>1, <1>2, <1>3, <1>4, <1>5

\* What an end of init or deinit does to the history of the component.
Leaves(c) ==
  Becomes(events, events', c,
          events[c] \cup (IF c = "memory" /\ asleep THEN {"timer asleep"} ELSE {}))

\* A component leaves the memory.
LEMMA UnloadedDoes ==
  ASSUME TypeOK, NEW c \in Components, Unloaded(c)
  PROVE  Leaves(c)
  <1>1. CASE c = "memory" /\ asleep
    <2>1. Becomes(events, [events EXCEPT ![c] = events[c] \cup {"timer asleep"}], c,
                  events[c] \cup {"timer asleep"})
      BY ExceptFacts DEF TypeOK
    <2> QED
      BY <1>1, <2>1 DEF Unloaded, Leaves
  <1>2. CASE ~(c = "memory" /\ asleep)
    BY <1>2 DEF Unloaded, Leaves, Becomes
  <1> QED
    BY <1>1, <1>2

\* init has returned: the component is installed, or leaves the memory.
LEMMA InstallEndsDoes ==
  ASSUME IInv, InstallEnds
  PROVE  /\ command.op = "install" /\ todo = <<>> /\ Left = {} /\ This \in Components
         /\ \/ failed /\ loaded' = loaded /\ Leaves(This)
            \/ /\ ~failed /\ loaded' = loaded \cup {This}
               /\ Becomes(events, events', This, events[This] \ {"early call"})
         /\ command' = NoCommand /\ command'.op = "none" /\ command'.of \notin Components
         /\ ~failed' /\ todo' = <<>> /\ Left' = {}
         /\ UNCHANGED <<used, registered, set, deleted, rows, call, asleep, misused>>
  <1>1. This \in Components /\ command.op = "install" /\ todo = <<>>
    BY CommandFacts DEF InstallEnds, IInv, This
  <1>2. Left = {} /\ Left' = {} /\ todo' = <<>>
    <2>1. todo' = todo
      BY DEF InstallEnds
    <2>2. Left' = Left
      BY <2>1 DEF Left
    <2> QED
      BY <1>1, <2>1, <2>2, NoneLeft
  <1>3. command' = NoCommand /\ command'.op = "none" /\ command'.of \notin Components
    BY DEF InstallEnds, NoCommand, Components
  <1>4. CASE failed
    BY <1>1, <1>2, <1>3, <1>4, UnloadedDoes
    DEF InstallEnds, This, IInv, statics, users
  <1>5. CASE ~failed
    <2>1. Becomes(events, events', This, events[This] \ {"early call"})
      <3>1. events' = [events EXCEPT ![This] = events[This] \ {"early call"}]
        BY <1>5 DEF InstallEnds, This
      <3> QED
        BY <1>1, <3>1, ExceptFacts DEF IInv, TypeOK
    <2> QED
      BY <1>1, <1>2, <1>3, <1>5, <2>1 DEF InstallEnds, This, statics, users
  <1> QED
    BY <1>4, <1>5

\* A function is registered and put in the list, or init starts to take
\* back its functions.
LEMMA AddScalarDoes ==
  ASSUME IInv, AddScalar
  PROVE  /\ command.op = "install" /\ ~failed /\ This \in Components /\ Stays
         /\ Name \in FunctionsOf[This] /\ Head(todo) \in Left /\ Kind = "add_scalar"
         /\ \/ /\ Name \notin registered /\ registered' = registered \cup {Name}
               /\ Becomes(set, set', This, set[This] \cup {Name})
               /\ ~failed' /\ todo' = Tail(todo)
               /\ Left = {Head(todo)} \cup Left'
            \/ /\ UNCHANGED <<registered, set>>
               /\ failed' /\ todo' = UnregisterSteps(This)
               /\ Left' = Range(UnregisterSteps(This))
         /\ UNCHANGED <<deleted, rows, events, misused>>
  <1>1. todo # <<>> /\ Kind = "add_scalar" /\ Kind \in InitKinds
    BY DEF AddScalar, Step, Kind, InitKinds
  <1>2. /\ command.op = "install" /\ ~failed /\ Name \in FunctionsOf[This]
        /\ This \in Components /\ Head(todo) \in Left /\ Left = {Head(todo)} \cup Rest
    BY <1>1, InitStepFacts, StepFacts DEF IInv
  <1>3. Stays /\ UNCHANGED <<deleted, rows, events, misused>>
    BY DEF AddScalar, Step, Stays, users, history
  <1>4. CASE /\ Name \notin registered /\ Register
             /\ set' = [set EXCEPT ![This] = @ \cup {Name}]
             /\ Advance
    <2>1. Becomes(set, set', This, set[This] \cup {Name})
      BY <1>2, <1>4, ExceptFacts DEF IInv, TypeOK
    <2> QED
      BY <1>1, <1>2, <1>3, <1>4, <2>1 DEF Register, Advance, Left, Rest
  <1>5. CASE ReturnError(UnregisterSteps(This)) /\ UNCHANGED <<registered, set>>
    BY <1>1, <1>2, <1>3, <1>5 DEF ReturnError, Left
  <1> QED
    BY <1>4, <1>5 DEF AddScalar

\* A status variable, a system variable or the table.
RegistersMore == RegisterStatus \/ RegisterVariable \/ AddTables

\* A failure is noted for the component of the command alone.
LEMMA NoteFacts ==
  ASSUME TypeOK, This \in Components, NEW what, Note(what)
  PROVE  Becomes(events, events', This, events[This] \cup what) /\ misused' = misused
  BY ExceptFacts DEF Note, TypeOK

\* A name that is no function is registered, or init notes a failure; what
\* is noted late makes it fail.
LEMMA RegisterDoes ==
  ASSUME IInv, RegistersMore
  PROVE  /\ command.op = "install" /\ This \in Components /\ Stays
         /\ Name \in NotFunctions(This) /\ Head(todo) \in Left
         /\ Head(todo) \in Range(InitSteps[This]) /\ Kind \in InitKinds \ {"add_scalar"}
         /\ todo' \in {Tail(todo), <<>>} /\ todo # <<>>
         /\ Left = {Head(todo)} \cup Left' /\ \A t \in Left : t.do # "add_scalar"
         /\ \/ registered' = registered \cup {Name} /\ UNCHANGED <<failed, events>>
            \/ /\ UNCHANGED <<registered, failed>> /\ Kind = "register_status"
               /\ Becomes(events, events', This, events[This] \cup {"ignored failure"})
            \/ /\ registered' = registered /\ failed'
               /\ Becomes(events, events', This, events[This] \cup {"late failure"})
         /\ rows' \in {rows, "none"}
         /\ UNCHANGED <<set, deleted, misused>>
  <1>1. todo # <<>> /\ Kind \in InitKinds \ {"add_scalar"} /\ Stays
    BY DEF RegistersMore, RegisterStatus, RegisterVariable, AddTables, Step, Kind, InitKinds,
           Stays, users
  <1>2. /\ command.op = "install" /\ Head(todo) \in Range(InitSteps[This])
        /\ Name \in NotFunctions(This)
        /\ \A t \in Rest : t.do # "add_scalar"
        /\ Kind = "add_tables" => Rest = {}
        /\ This \in Components /\ Head(todo) \in Left /\ Left = {Head(todo)} \cup Rest
    BY <1>1, InitStepFacts, StepFacts DEF IInv
  <1>3. \A t \in Left : t.do # "add_scalar"
    BY <1>1, <1>2 DEF Kind
  <1>4. TypeOK
    BY DEF IInv
  <1>5. CASE RegisterStatus
    <2>1. /\ todo' = Tail(todo) /\ Left' = Rest /\ failed' = failed
          /\ UNCHANGED <<set, deleted, rows>> /\ Kind = "register_status"
      BY <1>5 DEF RegisterStatus, Advance, statics, Left, Rest, Step, Kind
    <2>2. CASE Register /\ UNCHANGED history
      BY <1>1, <1>2, <1>3, <2>1, <2>2 DEF Register, history
    <2>3. CASE Note({"ignored failure"}) /\ UNCHANGED registered
      BY <1>1, <1>2, <1>3, <1>4, <2>1, <2>3, NoteFacts
    <2> QED
      BY <1>5, <2>2, <2>3 DEF RegisterStatus
  <1>6. CASE RegisterVariable
    <2>1. UNCHANGED <<set, deleted, rows>>
      BY <1>6 DEF RegisterVariable, statics
    <2>2. CASE Register /\ Advance /\ UNCHANGED history
      BY <1>1, <1>2, <1>3, <2>1, <2>2 DEF Register, Advance, history, Left, Rest
    <2>3. CASE ReturnError(Tail(todo)) /\ Note({"late failure"}) /\ UNCHANGED registered
      BY <1>1, <1>2, <1>3, <1>4, <2>1, <2>3, NoteFacts DEF ReturnError, Left, Rest
    <2> QED
      BY <1>6, <2>2, <2>3 DEF RegisterVariable
  <1>7. CASE AddTables
    <2>1. UNCHANGED <<set, deleted>> /\ rows' = "none" /\ Rest = {}
      BY <1>2, <1>7 DEF AddTables, Step, Kind
    <2>2. CASE Register /\ Advance /\ UNCHANGED history
      BY <1>1, <1>2, <1>3, <2>1, <2>2 DEF Register, Advance, history, Left, Rest
    <2>3. CASE ReturnError(<<>>) /\ Note({"late failure"}) /\ UNCHANGED registered
      <3>1. Left' = {} /\ todo' = <<>> /\ failed'
        BY NoneLeft, <2>3 DEF ReturnError
      <3> QED
        BY <1>1, <1>2, <1>3, <1>4, <2>1, <2>3, <3>1, NoteFacts
    <2> QED
      BY <1>7, <2>2, <2>3 DEF AddTables
  <1> QED
    BY <1>5, <1>6, <1>7 DEF RegistersMore

\* The records are deleted, and nothing else changes.
LEMMA CleanupDataDoes ==
  ASSUME IInv, CleanupData
  PROVE  /\ command.op = "uninstall" /\ ~failed /\ ~failed' /\ This = "profiler" /\ Stays
         /\ This \in Components /\ Kind = "cleanup_profiler_data"
         /\ Head(todo) \in Left /\ Left = {Head(todo)} \cup Left'
         /\ \A t \in Left' : t.do # "cleanup_profiler_data"
         /\ todo # <<>> /\ todo' = Tail(todo)
         /\ rows' = IF rows = "live" THEN "dangling" ELSE rows
         /\ misused' = (misused \/ rows = "dangling")
         /\ UNCHANGED <<registered, set, deleted, events>>
  <1>1. todo # <<>> /\ Kind = "cleanup_profiler_data" /\ Kind \in DeinitKinds
    BY DEF CleanupData, Step, Kind, DeinitKinds
  <1>2. /\ command.op = "uninstall" /\ ~failed /\ This = "profiler" /\ This \in Components
        /\ \A t \in Rest : t.do # "cleanup_profiler_data"
        /\ Head(todo) \in Left /\ Left = {Head(todo)} \cup Rest
    BY <1>1, DeinitStepFacts, StepFacts DEF IInv
  <1>3. Left' = Rest
    BY DEF CleanupData, Advance, Left, Rest
  <1> QED
    BY <1>1, <1>2, <1>3 DEF CleanupData, Step, Advance, Stays, users

\* A function of the list leaves the server and the list, or neither.
LEMMA UdfUnregisterDoes ==
  ASSUME IInv, UdfUnregister
  PROVE  /\ \/ command.op = "install" /\ failed /\ failed'
            \/ command.op = "uninstall" /\ ~failed /\ ~failed'
         /\ This \in Components /\ Stays /\ Name \in FunctionsOf[This]
         /\ Head(todo) \in Left /\ Kind = "udf_unregister"
         /\ Left = {Head(todo)} \cup Left' /\ todo # <<>> /\ todo' = Tail(todo)
         /\ \/ /\ Name \in set[This] /\ ~InUse(Name)
               /\ registered' = registered \ {Name}
               /\ Becomes(set, set', This, set[This] \ {Name})
            \/ /\ Name \notin set[This] \/ InUse(Name)
               /\ UNCHANGED <<registered, set>>
         /\ UNCHANGED <<deleted, rows, events, misused>>
  <1>1. todo # <<>> /\ Kind = "udf_unregister" /\ Kind \in DeinitKinds
    BY DEF UdfUnregister, Step, Kind, DeinitKinds
  <1>2. /\ \/ command.op = "install" /\ failed
           \/ command.op = "uninstall" /\ ~failed
        /\ Name \in FunctionsOf[This] /\ This \in Components
        /\ Head(todo) \in Left /\ Left = {Head(todo)} \cup Rest
    BY <1>1, DeinitStepFacts, StepFacts DEF IInv
  <1>3. Left' = Rest /\ todo' = Tail(todo) /\ failed' = failed
    BY DEF UdfUnregister, Advance, Left, Rest
  <1>4. Stays /\ UNCHANGED <<deleted, rows, events, misused>>
    BY DEF UdfUnregister, Step, Stays, users, history
  <1>5. CASE /\ Name \in set[This] /\ ~InUse(Name)
             /\ Unregister
             /\ set' = [set EXCEPT ![This] = @ \ {Name}]
    <2>1. Becomes(set, set', This, set[This] \ {Name})
      BY <1>2, <1>5, ExceptFacts DEF IInv, TypeOK
    <2> QED
      BY <1>1, <1>2, <1>3, <1>4, <1>5, <2>1 DEF Unregister
  <1>6. CASE /\ Name \notin set[This] \/ InUse(Name)
             /\ UNCHANGED <<registered, set>>
    BY <1>1, <1>2, <1>3, <1>4, <1>6
  <1> QED
    BY <1>5, <1>6 DEF UdfUnregister

\* Functions that are left end deinit; otherwise the list is deleted.
LEMMA DeleteListDoes ==
  ASSUME IInv, DeleteList
  PROVE  /\ command.op = "uninstall" /\ ~failed /\ This \in Components /\ Stays
         /\ Head(todo) \in Left /\ Kind = "delete_list" /\ todo # <<>>
         /\ \/ /\ set[This] # {} /\ failed' /\ todo' = <<>> /\ Left' = {}
               /\ deleted' = deleted
               /\ Becomes(events, events', This, events[This] \cup {"uninstall failed"})
            \/ /\ set[This] = {} /\ ~failed' /\ todo' = Tail(todo)
               /\ Left = {Head(todo)} \cup Left' /\ \A t \in Left' : t.do \in Undo
               /\ deleted' = deleted \cup {This} /\ This \in used
               /\ events' = events
         /\ UNCHANGED <<registered, set, rows, misused>>
  <1>1. todo # <<>> /\ Kind = "delete_list" /\ Kind \in DeinitKinds
    BY DEF DeleteList, Step, Kind, DeinitKinds
  <1>2. /\ command.op = "uninstall" /\ ~failed /\ This \in Components /\ This \in used
        /\ \A t \in Rest : t.do \in Undo
        /\ Head(todo) \in Left /\ Left = {Head(todo)} \cup Rest
    BY <1>1, DeinitStepFacts, StepFacts DEF IInv
  <1>3. Stays /\ UNCHANGED <<registered, set, rows>>
    BY DEF DeleteList, Step, Stays, users
  <1>4. CASE set[This] # {}
    <2>1. Left' = {} /\ todo' = <<>> /\ failed'
      BY NoneLeft, <1>4 DEF DeleteList, ReturnError
    <2>2. /\ Becomes(events, events', This, events[This] \cup {"uninstall failed"})
          /\ misused' = misused
      BY <1>2, <1>4, NoteFacts DEF DeleteList, IInv
    <2> QED
      BY <1>1, <1>2, <1>3, <1>4, <2>1, <2>2 DEF DeleteList
  <1>5. CASE set[This] = {}
    <2>1. /\ Left' = Rest /\ todo' = Tail(todo) /\ failed' = failed
          /\ deleted' = deleted \cup {This} /\ UNCHANGED <<events, misused>>
      BY <1>5 DEF DeleteList, Advance, Left, Rest, history
    <2> QED
      BY <1>1, <1>2, <1>3, <1>5, <2>1
  <1> QED
    BY <1>4, <1>5

\* The status variable, a system variable or the table is taken back.
UnregistersMore == UnregisterStatus \/ UnregisterVariable \/ DeleteTables

\* A name that is no function is taken back, or deinit fails or goes on.
LEMMA UnregisterDoes ==
  ASSUME IInv, UnregistersMore
  PROVE  /\ command.op = "uninstall" /\ ~failed /\ This \in Components /\ Stays
         /\ Head(todo) \in Left /\ Kind \in Undo /\ todo # <<>>
         /\ Name \in NotFunctions(This)
         /\ \A t \in Left : t.do \in Undo
         /\ \/ /\ registered' = registered \ {Name} /\ ~failed' /\ todo' = Tail(todo)
               /\ Left = {Head(todo)} \cup Left' /\ events' = events
            \/ /\ registered' = registered /\ ~failed' /\ todo' = Tail(todo)
               /\ Left = {Head(todo)} \cup Left'
               /\ Becomes(events, events', This, events[This] \cup {"ignored failure"})
            \/ /\ registered' = registered /\ failed' /\ todo' = <<>> /\ Left' = {}
               /\ This = "profiler"
               /\ Becomes(events, events', This,
                          events[This] \cup {"uninstall failed", "list deleted"})
         /\ UNCHANGED <<set, deleted, rows, misused>>
  <1>1. todo # <<>> /\ Kind \in Undo /\ Kind \in DeinitKinds /\ Stays
    BY DEF UnregistersMore, UnregisterStatus, UnregisterVariable, DeleteTables, Step, Kind,
           DeinitKinds, Undo, Stays, users
  <1>2. /\ command.op = "uninstall" /\ ~failed /\ This \in Components
        /\ Name \in NotFunctions(This)
        /\ Kind \in {"cleanup_profiler_data", "delete_tables"} => This = "profiler"
        /\ \A t \in Rest : t.do \in Undo
        /\ Head(todo) \in Left /\ Left = {Head(todo)} \cup Rest
    BY <1>1, DeinitStepFacts, StepFacts DEF IInv, Undo
  <1>3. \A t \in Left : t.do \in Undo
    BY <1>1, <1>2 DEF Kind
  <1>4. UNCHANGED <<set, deleted, rows>> /\ TypeOK
    BY DEF UnregistersMore, UnregisterStatus, UnregisterVariable, DeleteTables, statics, IInv
  <1>5. CASE Unregister /\ Advance /\ UNCHANGED history
    BY <1>1, <1>2, <1>3, <1>4, <1>5 DEF Unregister, Advance, history, Left, Rest
  <1>6. CASE Note({"ignored failure"}) /\ Advance /\ UNCHANGED registered
    BY <1>1, <1>2, <1>3, <1>4, <1>6, NoteFacts DEF Advance, Left, Rest
  <1>7. CASE /\ This = "profiler" /\ ReturnError(<<>>)
             /\ Note({"uninstall failed", "list deleted"})
             /\ UNCHANGED registered
    <2>1. Left' = {} /\ todo' = <<>> /\ failed'
      BY NoneLeft, <1>7 DEF ReturnError
    <2> QED
      BY <1>1, <1>2, <1>3, <1>4, <1>7, <2>1, NoteFacts
  <1>8. DeleteTables => This = "profiler"
    BY <1>2 DEF DeleteTables, Step, Kind
  <1> QED
    BY <1>5, <1>6, <1>7, <1>8
    DEF UnregistersMore, UnregisterStatus, UnregisterVariable, DeleteTables

\* UNINSTALL starts with all of deinit to do.
LEMMA UninstallCommandDoes ==
  ASSUME IInv, NEW c \in Components, UninstallCommand(c)
  PROVE  /\ c \in loaded /\ command.op = "none"
         /\ c = "profiler" => loaded = {"profiler"}
         /\ command'.op = "uninstall" /\ command'.of = c
         /\ command' \in [op : {"install", "uninstall"}, of : used]
         /\ todo' = DeinitSteps(c) /\ Left' = Range(DeinitSteps(c))
         /\ ~failed /\ ~failed'
         /\ UNCHANGED <<used, loaded, registered, set, deleted, rows, call, asleep,
                        events, misused>>
  <1>1. command.op = "none" /\ ~failed /\ failed' = failed /\ c \in used
    BY CommandFacts DEF UninstallCommand, IInv
  <1>2. /\ command'.op = "uninstall" /\ command'.of = c
        /\ command' \in [op : {"install", "uninstall"}, of : used]
    BY <1>1 DEF UninstallCommand
  <1> QED
    BY <1>1, <1>2 DEF UninstallCommand, Left, server, statics, users, history

\* deinit has returned: the component leaves the memory, or stays.
LEMMA UninstallEndsDoes ==
  ASSUME IInv, UninstallEnds
  PROVE  /\ command.op = "uninstall" /\ todo = <<>> /\ Left = {} /\ This \in Components
         /\ \/ failed /\ UNCHANGED <<loaded, events>>
            \/ ~failed /\ loaded' = loaded \ {This} /\ Leaves(This)
         /\ command' = NoCommand /\ command'.op = "none" /\ command'.of \notin Components
         /\ ~failed' /\ todo' = <<>> /\ Left' = {}
         /\ UNCHANGED <<used, registered, set, deleted, rows, call, asleep, misused>>
  <1>1. This \in Components /\ command.op = "uninstall" /\ todo = <<>>
    BY CommandFacts DEF UninstallEnds, IInv, This
  <1>2. Left = {} /\ Left' = {} /\ todo' = <<>>
    <2>1. todo' = todo
      BY DEF UninstallEnds
    <2>2. Left' = Left
      BY <2>1 DEF Left
    <2> QED
      BY <1>1, <2>1, <2>2, NoneLeft
  <1>3. command' = NoCommand /\ command'.op = "none" /\ command'.of \notin Components
    BY DEF UninstallEnds, NoCommand, Components
  <1>4. CASE failed
    BY <1>1, <1>2, <1>3, <1>4 DEF UninstallEnds, statics, users
  <1>5. CASE ~failed
    BY <1>1, <1>2, <1>3, <1>5, UnloadedDoes
    DEF UninstallEnds, This, IInv, statics, users
  <1> QED
    BY <1>4, <1>5

\* Sessions and timers leave the commands alone.
Quiet == UNCHANGED <<used, loaded, registered, set, deleted, command, todo, failed, Left>>

\* A session enters a function that is registered; early, if init runs.
LEMMA CallDoes ==
  ASSUME IInv, NEW s \in Sessions, Call(s)
  PROVE  \E u \in registered : \E c \in Components :
           /\ u \in FunctionsOf[c] /\ call[s] = NoCall
           /\ call' = [call EXCEPT ![s] = u]
           /\ IF command.op = "install" /\ command.of = c
              THEN Becomes(events, events', c, events[c] \cup {"early call"})
              ELSE events' = events
           /\ Quiet /\ UNCHANGED <<rows, asleep, misused>>
  <1>1. PICK u \in registered \cap Functions :
          /\ call' = [call EXCEPT ![s] = u]
          /\ events' = IF command = [op |-> "install", of |-> Owner[u]]
                       THEN [events EXCEPT ![Owner[u]] = @ \cup {"early call"}]
                       ELSE events
    BY DEF Call
  <1>2. Owner[u] \in Components /\ u \in FunctionsOf[Owner[u]]
    BY NameFacts
  <1>3. command = [op |-> "install", of |-> Owner[u]]
          <=> command.op = "install" /\ command.of = Owner[u]
    BY CommandFacts DEF IInv
  <1>4. /\ Quiet /\ UNCHANGED <<rows, asleep, misused>> /\ call[s] = NoCall
    BY DEF Call, Quiet, server, statics, progress, Left
  <1>5. CASE command.op = "install" /\ command.of = Owner[u]
    <2>1. Becomes(events, events', Owner[u], events[Owner[u]] \cup {"early call"})
      BY <1>1, <1>2, <1>3, <1>5, ExceptFacts DEF IInv, TypeOK
    <2> QED
      BY <1>1, <1>2, <1>4, <1>5, <2>1
  <1>6. CASE ~(command.op = "install" /\ command.of = Owner[u])
    BY <1>1, <1>2, <1>3, <1>4, <1>6
  <1> QED
    BY <1>5, <1>6

\* Code of c adds a row.
Adds(c) ==
  /\ InMemory(c)
  /\ rows' = IF rows = "none" THEN "live" ELSE rows
  /\ misused' = (misused \/ rows = "dangling")

\* A call ends, perhaps with a row, perhaps with a timer asleep.
LEMMA CallEndsDoes ==
  ASSUME IInv, NEW s \in Sessions, CallEnds(s)
  PROVE  /\ call' = [call EXCEPT ![s] = NoCall] /\ Quiet /\ events' = events
         /\ \/ UNCHANGED <<rows, misused, asleep>>
            \/ \E c \in Components \ {"profiler"} :
                 Adds(c) /\ asleep' \in BOOLEAN /\ (asleep' => asleep \/ c = "memory")
  <1>1. call' = [call EXCEPT ![s] = NoCall] /\ Quiet /\ events' = events
    BY DEF CallEnds, Quiet, server, progress, Left
  <1>2. CASE UNCHANGED <<rows, misused, asleep>>
    BY <1>1, <1>2
  <1>3. CASE /\ call[s] \notin FunctionsOf["profiler"]
             /\ AddRow(Owner[call[s]])
             /\ asleep' \in {asleep, asleep \/ call[s] = "MEMPROF_START"}
    <2>1. call[s] \in Functions
      BY DEF CallEnds, IInv, TypeOK, Functions
    <2>2. /\ Owner[call[s]] \in Components \ {"profiler"}
          /\ call[s] = "MEMPROF_START" => Owner[call[s]] = "memory"
      <3>1. "MEMPROF_START" \in FunctionsOf["memory"] /\ "memory" \in Components
        BY UdfsAre, InitFacts DEF Components
      <3> QED
        BY <1>3, <2>1, <3>1, NameFacts
    <2>3. Adds(Owner[call[s]])
      BY <1>3 DEF AddRow, Adds
    <2>4. asleep' \in BOOLEAN /\ (asleep' => asleep \/ Owner[call[s]] = "memory")
      BY <1>3, <2>2 DEF IInv, TypeOK
    <2> QED
      BY <1>1, <2>2, <2>3, <2>4
  <1> QED
    BY <1>2, <1>3 DEF CallEnds

\* A timer wakes and adds a row, if its code is in memory.
LEMMA TimerWakesDoes ==
  ASSUME TimerWakes
  PROVE  /\ Quiet /\ asleep /\ asleep' \in BOOLEAN /\ UNCHANGED <<call, events>>
         /\ Adds("memory") \/ UNCHANGED <<rows, misused>>
  BY DEF TimerWakes, Quiet, Adds, AddRow, server, progress, Left

\* What calls and timers change for the commands: a call that came early.
LEMMA SessionsKeep ==
  ASSUME IInv, TimerWakes \/ \E s \in Sessions : Call(s) \/ CallEnds(s)
  PROVE  /\ Quiet
         /\ \A c \in Components : /\ events[c] \subseteq events'[c]
                                  /\ events'[c] \subseteq events[c] \cup {"early call"}
  <1>1. CASE TimerWakes
    BY <1>1, TimerWakesDoes
  <1>2. ASSUME NEW s \in Sessions, Call(s)
        PROVE  /\ Quiet
               /\ \A c \in Components : /\ events[c] \subseteq events'[c]
                                        /\ events'[c] \subseteq events[c] \cup {"early call"}
    <2>1. PICK u \in registered, c \in Components :
            /\ IF command.op = "install" /\ command.of = c
               THEN Becomes(events, events', c, events[c] \cup {"early call"})
               ELSE events' = events
            /\ Quiet
      BY <1>2, CallDoes
    <2> QED
      BY <2>1 DEF Becomes
  <1>3. ASSUME NEW s \in Sessions, CallEnds(s) PROVE Quiet /\ events' = events
    BY <1>3, CallEndsDoes
  <1> QED
    BY <1>1, <1>2, <1>3

\* Every step is one of these.
LEMMA NextIs ==
  ASSUME [Next]_vars
  PROVE  \/ \E c \in Components : InstallCommand(c) \/ UninstallCommand(c)
         \/ InstallEnds \/ AddScalar \/ RegistersMore \/ CleanupData \/ UdfUnregister
         \/ DeleteList \/ UnregistersMore \/ UninstallEnds
         \/ TimerWakes \/ \E s \in Sessions : Call(s) \/ CallEnds(s)
         \/ UNCHANGED vars
  BY DEF Next, Install, InitStep, DeinitStep, Uninstall, RegistersMore, UnregistersMore

-----------------------------------------------------------------------------
(* Every part of the invariant is preserved.                              *)

\* A component's list holds functions of that component.
LEMMA SetFacts ==
  ASSUME TypeOK
  PROVE  \A c \in Components : set[c] \subseteq FunctionsOf[c]
  BY DEF TypeOK

\* A name of one component is none of another's.
LEMMA OtherNames ==
  ASSUME NEW c \in Components, NEW d \in Components \ {c}, NEW n \in Names[c]
  PROVE  n \notin Names[d] /\ n \notin FunctionsOf[d] /\ n \notin VariablesOf[d]
         /\ n \notin NotFunctions(d)
  BY NameFacts DEF NotFunctions

\* The name of a step that registers or unregisters something is a name of
\* the component of the command, and of no other component.
LEMMA OwnName ==
  ASSUME This \in Components,
         Name \in FunctionsOf[This] \/ Name \in NotFunctions(This)
  PROVE  /\ Name \in Names[This]
         /\ \A d \in Components \ {This} :
              Name \notin Names[d] /\ Name \notin FunctionsOf[d]
              /\ Name \notin VariablesOf[d] /\ Name \notin NotFunctions(d)
  BY NameFacts, OtherNames DEF NotFunctions

\* The rest of a command stays in order.
LEMMA TodoInvNext == ASSUME IInv, [Next]_vars PROVE TodoInv'
  <1>0. TypeOK /\ TodoInv /\ CommandInv
    BY DEF IInv
  <1>1. CASE todo' = Tail(todo) /\ todo # <<>>
    BY <1>0, <1>1, StepFacts DEF TodoInv
  <1>2. CASE todo' = <<>>
    <2>1. <<>> \in Seq(AllSteps) /\ InOrder(<<>>)
      BY EmptySeq DEF InOrder
    <2> QED
      BY <1>2, <2>1 DEF TodoInv
  <1>3. CASE UNCHANGED todo
    BY <1>0, <1>3 DEF TodoInv
  <1>4. ASSUME NEW c \in Components, InstallCommand(c) PROVE TodoInv'
    BY <1>4, InstallCommandDoes, InitStarts DEF TodoInv
  <1>5. ASSUME NEW c \in Components, UninstallCommand(c) PROVE TodoInv'
    BY <1>5, UninstallCommandDoes, DeinitFacts DEF TodoInv
  <1>6. CASE AddScalar
    <2>1. \/ todo' = Tail(todo) /\ todo # <<>>
          \/ todo' = UnregisterSteps(This) /\ This \in Components
      BY <1>6, AddScalarDoes DEF AddScalar, Step
    <2> QED
      BY <1>1, <2>1, UnregisterFacts DEF TodoInv
  <1>7. CASE InstallEnds \/ UninstallEnds
    BY <1>2, <1>7, InstallEndsDoes, UninstallEndsDoes
  <1>8. CASE RegistersMore
    BY <1>1, <1>2, <1>8, RegisterDoes
  <1>9. CASE CleanupData \/ UdfUnregister
    BY <1>1, <1>9, CleanupDataDoes, UdfUnregisterDoes
  <1>10. CASE DeleteList
    BY <1>1, <1>2, <1>10, DeleteListDoes
  <1>11. CASE UnregistersMore
    BY <1>1, <1>2, <1>11, UnregisterDoes
  <1>12. CASE TimerWakes \/ \E s \in Sessions : Call(s) \/ CallEnds(s)
    BY <1>3, <1>12, SessionsKeep DEF Quiet
  <1>13. CASE UNCHANGED vars
    BY <1>3, <1>13 DEF vars, progress
  <1> QED
    BY <1>4, <1>5, <1>6, <1>7, <1>8, <1>9, <1>10, <1>11, <1>12, <1>13, NextIs

\* The command under way stays one of init or deinit.
LEMMA CommandInvNext == ASSUME IInv, [Next]_vars PROVE CommandInv'
  <1>0. TypeOK /\ CommandInv
    BY DEF IInv
  <1>1. ASSUME NEW c \in Components, InstallCommand(c) PROVE CommandInv'
    BY <1>0, <1>1, InstallCommandDoes DEF CommandInv
  <1>2. ASSUME NEW c \in Components, UninstallCommand(c) PROVE CommandInv'
    BY <1>0, <1>2, UninstallCommandDoes DEF CommandInv
  <1>3. CASE InstallEnds
    BY <1>0, <1>3, InstallEndsDoes DEF CommandInv, This
  <1>4. CASE UninstallEnds
    BY <1>0, <1>4, UninstallEndsDoes DEF CommandInv, This
  <1>5. CASE AddScalar
    BY <1>0, <1>5, AddScalarDoes DEF CommandInv, This, Stays
  <1>6. CASE RegistersMore
    BY <1>0, <1>6, RegisterDoes DEF CommandInv, This, Stays
  <1>7. CASE CleanupData \/ UdfUnregister
    BY <1>0, <1>7, CleanupDataDoes, UdfUnregisterDoes DEF CommandInv, This, Stays
  <1>8. CASE DeleteList
    BY <1>0, <1>8, DeleteListDoes DEF CommandInv, This, Stays, Becomes
  <1>9. CASE UnregistersMore
    BY <1>0, <1>9, UnregisterDoes DEF CommandInv, This, Stays, Becomes
  <1>10. CASE TimerWakes \/ \E s \in Sessions : Call(s) \/ CallEnds(s)
    <2>1. /\ UNCHANGED <<loaded, command, todo, failed, Left>>
          /\ \A c \in Components : events[c] \subseteq events'[c]
      BY <1>10, SessionsKeep DEF Quiet
    <2> QED
      BY <1>0, <2>1, CommandFacts DEF CommandInv
  <1>11. CASE UNCHANGED vars
    BY <1>0, <1>11 DEF CommandInv, vars, server, progress, history, Left
  <1> QED
    BY <1>1, <1>2, <1>3, <1>4, <1>5, <1>6, <1>7, <1>8, <1>9, <1>10, <1>11, NextIs

\* The lists stay true to what is registered.
LEMMA ListInvNext == ASSUME IInv, [Next]_vars PROVE ListInv'
  <1>0. TypeOK /\ CommandInv /\ ListInv /\ InstallInv
        /\ \A c \in Components : set[c] \subseteq FunctionsOf[c]
    BY SetFacts DEF IInv
  <1>1. ASSUME NEW c \in Components, InstallCommand(c) PROVE ListInv'
    BY <1>0, <1>1, InstallCommandDoes DEF ListInv, Becomes
  <1>2. ASSUME NEW c \in Components, UninstallCommand(c) PROVE ListInv'
    BY <1>0, <1>2, UninstallCommandDoes DEF ListInv
  <1>3. CASE InstallEnds
    <2>1. CASE failed
      BY <1>0, <1>3, <2>1, InstallEndsDoes DEF ListInv
    <2>2. CASE ~failed
      <3>1. FunctionsOf[This] \subseteq set[This]
        <4>1. ASSUME NEW u \in FunctionsOf[This] PROVE u \in set[This]
          <5>1. PICK t \in Range(InitSteps[This]) : t.do = "add_scalar" /\ t.what = u
            BY <1>3, InstallEndsDoes DEF FunctionsOf, Registers
          <5> QED
            BY <1>0, <1>3, <2>2, <5>1, InstallEndsDoes DEF InstallInv, This
        <4> QED
          BY <4>1
      <3> QED
        BY <1>0, <1>3, <2>2, <3>1, InstallEndsDoes DEF ListInv
    <2> QED
      BY <2>1, <2>2
  <1>4. CASE UninstallEnds
    BY <1>0, <1>4, UninstallEndsDoes DEF ListInv
  <1>5. CASE AddScalar
    <2>1. /\ This \in Components /\ This \notin loaded /\ loaded' = loaded
          /\ Name \in FunctionsOf[This]
          /\ \A d \in Components \ {This} : Name \notin FunctionsOf[d]
      BY <1>0, <1>5, AddScalarDoes, OwnName DEF CommandInv, This, Stays
    <2> QED
      BY <1>0, <1>5, <2>1, AddScalarDoes DEF ListInv, Becomes
  <1>6. CASE RegistersMore
    <2>1. /\ This \in Components /\ loaded' = loaded /\ set' = set
          /\ registered' \in {registered, registered \cup {Name}}
          /\ \A d \in Components : Name \notin FunctionsOf[d]
      BY <1>6, RegisterDoes, OwnName DEF Stays, NotFunctions
    <2> QED
      BY <1>0, <2>1 DEF ListInv
  <1>7. CASE CleanupData
    BY <1>0, <1>7, CleanupDataDoes DEF ListInv, Stays
  <1>8. CASE UdfUnregister
    BY <1>0, <1>8, UdfUnregisterDoes, OwnName DEF ListInv, Stays, Becomes
  <1>9. CASE DeleteList
    BY <1>0, <1>9, DeleteListDoes DEF ListInv, Stays
  <1>10. CASE UnregistersMore
    BY <1>0, <1>10, UnregisterDoes, OwnName DEF ListInv, Stays, NotFunctions
  <1>11. CASE TimerWakes \/ \E s \in Sessions : Call(s) \/ CallEnds(s)
    BY <1>0, <1>11, SessionsKeep DEF ListInv, Quiet
  <1>12. CASE UNCHANGED vars
    BY <1>0, <1>12 DEF ListInv, vars, server, statics
  <1> QED
    BY <1>1, <1>2, <1>3, <1>4, <1>5, <1>6, <1>7, <1>8, <1>9, <1>10, <1>11, <1>12, NextIs

\* An entry that changes keeps its type.
LEMMA BecomesTyped ==
  ASSUME NEW S, NEW f \in [Components -> S], NEW c \in Components, NEW value \in S
  PROVE  [f EXCEPT ![c] = value] \in [Components -> S]
  OBVIOUS

\* A note keeps the type of events.
LEMMA NoteTyped ==
  ASSUME TypeOK, NEW what \in SUBSET Events, Note(what), This \in Components
  PROVE  events' \in [Components -> SUBSET Events]
  BY BecomesTyped DEF Note, TypeOK

\* Every step keeps the type of events.
LEMMA EventsTyped ==
  ASSUME IInv, [Next]_vars
  PROVE  events' \in [Components -> SUBSET Events]
  <1>0. /\ TypeOK /\ events \in [Components -> SUBSET Events]
        /\ command.op # "none" => command.of \in Components
    BY CommandFacts DEF IInv, TypeOK
  <1>1. ASSUME NEW c \in Components, InstallCommand(c)
        PROVE  events' \in [Components -> SUBSET Events]
    BY <1>0, <1>1 DEF InstallCommand
  <1>2. ASSUME Unloaded(This), This \in Components
        PROVE  events' \in [Components -> SUBSET Events]
    BY <1>0, <1>2 DEF Unloaded, Events
  <1>3. CASE InstallEnds
    <2>1. \/ Unloaded(This)
          \/ events' = [events EXCEPT ![This] = events[This] \ {"early call"}]
      BY <1>3 DEF InstallEnds, This
    <2>2. This \in Components
      BY <1>3, InstallEndsDoes
    <2> QED
      BY <1>0, <1>2, <2>1, <2>2
  <1>4. CASE UninstallEnds
    <2>1. This \in Components /\ (Unloaded(This) \/ events' = events)
      BY <1>4, UninstallEndsDoes DEF UninstallEnds, This
    <2> QED
      BY <1>0, <1>2, <2>1
  <1>5. CASE RegistersMore
    <2>1. This \in Components
      BY <1>5, RegisterDoes
    <2>2. \/ UNCHANGED history \/ Note({"ignored failure"}) \/ Note({"late failure"})
      BY <1>5 DEF RegistersMore, RegisterStatus, RegisterVariable, AddTables
    <2>3. {"ignored failure"} \in SUBSET Events /\ {"late failure"} \in SUBSET Events
      BY DEF Events
    <2> QED
      BY <1>0, <2>1, <2>2, <2>3, NoteTyped DEF history
  <1>6. CASE DeleteList \/ UnregistersMore
    <2>1. This \in Components
      BY <1>6, DeleteListDoes, UnregisterDoes
    <2>2. \/ UNCHANGED history \/ Note({"ignored failure"}) \/ Note({"uninstall failed"})
          \/ Note({"uninstall failed", "list deleted"})
      BY <1>6 DEF DeleteList, UnregistersMore, UnregisterStatus, UnregisterVariable,
                  DeleteTables
    <2>3. /\ {"ignored failure"} \in SUBSET Events /\ {"uninstall failed"} \in SUBSET Events
          /\ {"uninstall failed", "list deleted"} \in SUBSET Events
      BY DEF Events
    <2> QED
      BY <1>0, <2>1, <2>2, <2>3, NoteTyped DEF history
  <1>7. ASSUME NEW s \in Sessions, Call(s)
        PROVE  events' \in [Components -> SUBSET Events]
    <2>1. PICK u \in registered \cap Functions :
            events' = IF command = [op |-> "install", of |-> Owner[u]]
                      THEN [events EXCEPT ![Owner[u]] = @ \cup {"early call"}]
                      ELSE events
      BY <1>7 DEF Call
    <2>2. Owner[u] \in Components /\ "early call" \in Events
      BY NameFacts DEF Events
    <2> QED
      BY <1>0, <2>1, <2>2
  <1>8. CASE UNCHANGED events
    BY <1>0, <1>8
  <1>9. ASSUME NEW c \in Components, UninstallCommand(c) PROVE UNCHANGED events
    BY <1>9 DEF UninstallCommand, history
  <1>10. CASE AddScalar \/ CleanupData \/ UdfUnregister \/ UNCHANGED vars
    BY <1>8, <1>10 DEF AddScalar, CleanupData, UdfUnregister, history, vars
  <1>11. ASSUME TimerWakes \/ \E s \in Sessions : CallEnds(s) PROVE UNCHANGED events
    BY <1>11 DEF TimerWakes, CallEnds
  <1> QED
    BY <1>1, <1>3, <1>4, <1>5, <1>6, <1>7, <1>8, <1>9, <1>10, <1>11, NextIs

\* Every step keeps a component's own functions in its list.
LEMMA SetTyped ==
  ASSUME IInv, [Next]_vars
  PROVE  /\ set' \in [Components -> SUBSET Functions]
         /\ \A c \in Components : set'[c] \subseteq FunctionsOf[c]
  <1>0. /\ TypeOK /\ set \in [Components -> SUBSET Functions]
        /\ \A c \in Components : set[c] \subseteq FunctionsOf[c]
    BY DEF IInv, TypeOK
  <1>1. ASSUME NEW c \in Components, NEW value,
               value \subseteq FunctionsOf[c], set' = [set EXCEPT ![c] = value]
        PROVE  /\ set' \in [Components -> SUBSET Functions]
               /\ \A d \in Components : set'[d] \subseteq FunctionsOf[d]
    <2>1. value \in SUBSET Functions
      BY <1>1 DEF Functions
    <2> QED
      BY <1>0, <1>1, <2>1
  <1>2. CASE UNCHANGED set
    BY <1>0, <1>2
  <1>3. ASSUME NEW c \in Components, InstallCommand(c)
        PROVE  /\ set' \in [Components -> SUBSET Functions]
               /\ \A d \in Components : set'[d] \subseteq FunctionsOf[d]
    BY <1>1, <1>3 DEF InstallCommand
  <1>4. CASE AddScalar
    <2>1. This \in Components /\ Name \in FunctionsOf[This]
      BY <1>4, AddScalarDoes
    <2>2. set' = set \/ set' = [set EXCEPT ![This] = set[This] \cup {Name}]
      BY <1>4 DEF AddScalar
    <2> QED
      BY <1>0, <1>1, <1>2, <2>1, <2>2
  <1>5. CASE UdfUnregister
    <2>1. This \in Components
      BY <1>5, UdfUnregisterDoes
    <2>2. set' = set \/ set' = [set EXCEPT ![This] = set[This] \ {Name}]
      BY <1>5 DEF UdfUnregister
    <2> QED
      BY <1>0, <1>1, <1>2, <2>1, <2>2
  <1>6. ASSUME NEW c \in Components, UninstallCommand(c) PROVE UNCHANGED set
    BY <1>6 DEF UninstallCommand, statics
  <1>7. CASE InstallEnds \/ UninstallEnds \/ RegistersMore \/ CleanupData \/ DeleteList
             \/ UnregistersMore \/ UNCHANGED vars
    BY <1>2, <1>7 DEF InstallEnds, UninstallEnds, RegistersMore, RegisterStatus,
         RegisterVariable, AddTables, CleanupData, DeleteList, UnregistersMore,
         UnregisterStatus, UnregisterVariable, DeleteTables, vars, statics
  <1>8. ASSUME TimerWakes \/ \E s \in Sessions : Call(s) \/ CallEnds(s)
        PROVE  UNCHANGED set
    BY <1>8, SessionsKeep DEF Quiet
  <1> QED
    BY <1>2, <1>3, <1>4, <1>5, <1>6, <1>7, <1>8, NextIs

\* Every step registers names of components this server installs.
LEMMA RegisteredTyped ==
  ASSUME IInv, [Next]_vars
  PROVE  registered' \subseteq UNION {Names[c] : c \in used}
  <1>0. TypeOK /\ registered \subseteq UNION {Names[c] : c \in used}
    BY DEF IInv, TypeOK
  <1>1. CASE registered' \subseteq registered
    BY <1>0, <1>1
  <1>2. ASSUME registered' \subseteq registered \cup {Name}, command.op # "none",
               Name \in FunctionsOf[This] \/ Name \in NotFunctions(This)
        PROVE  registered' \subseteq UNION {Names[c] : c \in used}
    <2>1. This \in used /\ This \in Components
      BY <1>0, <1>2, CommandFacts DEF This
    <2>2. Name \in Names[This]
      BY <1>2, <2>1, OwnName
    <2> QED
      BY <1>0, <1>2, <2>1, <2>2
  <1>3. CASE AddScalar
    BY <1>2, <1>3, AddScalarDoes
  <1>4. CASE RegistersMore
    BY <1>2, <1>4, RegisterDoes
  <1>5. CASE UdfUnregister
    BY <1>1, <1>5, UdfUnregisterDoes
  <1>6. CASE UnregistersMore
    BY <1>1, <1>6, UnregisterDoes
  <1>7. CASE InstallEnds \/ UninstallEnds \/ CleanupData \/ DeleteList \/ UNCHANGED vars
    BY <1>1, <1>7 DEF InstallEnds, UninstallEnds, CleanupData, DeleteList, vars, server
  <1>8. ASSUME TimerWakes \/ \E s \in Sessions : Call(s) \/ CallEnds(s)
        PROVE  registered' = registered
    BY <1>8, SessionsKeep DEF Quiet
  <1>9. ASSUME NEW c \in Components, InstallCommand(c) \/ UninstallCommand(c)
        PROVE  registered' = registered
    BY <1>9 DEF InstallCommand, UninstallCommand, server
  <1> QED
    BY <1>1, <1>3, <1>4, <1>5, <1>6, <1>7, <1>8, <1>9, NextIs

\* Every step leaves a session in a function of such a component or in none.
LEMMA CallTyped ==
  ASSUME IInv, [Next]_vars
  PROVE  call' \in [Sessions -> {NoCall} \cup UNION {FunctionsOf[c] : c \in used}]
  <1> DEFINE S == {NoCall} \cup UNION {FunctionsOf[c] : c \in used}
  <1>0. call \in [Sessions -> S] /\ used \subseteq Components
        /\ registered \subseteq UNION {Names[c] : c \in used}
    BY DEF IInv, TypeOK
  <1>1. ASSUME NEW s \in Sessions, Call(s) PROVE call' \in [Sessions -> S]
    <2>1. PICK u \in registered, c \in Components :
            u \in FunctionsOf[c] /\ call' = [call EXCEPT ![s] = u]
      BY <1>1, CallDoes
    <2>2. PICK d \in used : u \in Names[d]
      BY <1>0
    <2>3. c = d
      BY <1>0, <2>1, <2>2, NameFacts
    <2>4. u \in S
      BY <2>1, <2>2, <2>3
    <2> QED
      BY <1>0, <2>1, <2>4
  <1>2. ASSUME NEW s \in Sessions, CallEnds(s) PROVE call' \in [Sessions -> S]
    BY <1>0, <1>2 DEF CallEnds
  <1>3. CASE UNCHANGED call
    BY <1>0, <1>3
  <1>4. ASSUME NEW c \in Components, InstallCommand(c) \/ UninstallCommand(c)
        PROVE  UNCHANGED call
    BY <1>4 DEF InstallCommand, UninstallCommand, users
  <1>5. CASE InstallEnds \/ UninstallEnds \/ UNCHANGED vars
    BY <1>3, <1>5 DEF InstallEnds, UninstallEnds, users, vars
  <1>6. CASE AddScalar \/ RegistersMore \/ CleanupData \/ UdfUnregister \/ DeleteList
             \/ UnregistersMore
    BY <1>3, <1>6, AddScalarDoes, RegisterDoes, CleanupDataDoes, UdfUnregisterDoes,
       DeleteListDoes, UnregisterDoes DEF Stays
  <1>7. CASE TimerWakes
    BY <1>3, <1>7 DEF TimerWakes
  <1> QED
    BY <1>1, <1>2, <1>3, <1>4, <1>5, <1>6, <1>7, NextIs

\* Every step keeps the types.
LEMMA TypeOKNext == ASSUME IInv, [Next]_vars PROVE TypeOK'
  <1> DEFINE Others ==
        /\ used \subseteq Components /\ loaded \subseteq used
        /\ deleted \subseteq used
        /\ rows \in {"none", "live", "dangling"}
        /\ command = NoCommand \/ command \in [op : {"install", "uninstall"}, of : used]
        /\ command = NoCommand => todo = <<>> /\ ~failed
        /\ failed \in BOOLEAN /\ asleep \in BOOLEAN /\ misused \in BOOLEAN
  <1>0. TypeOK /\ Others
    BY DEF IInv, TypeOK
  <1>1. used' = used
    <2>1. ASSUME NEW c \in Components, InstallCommand(c) \/ UninstallCommand(c)
          PROVE  used' = used
      BY <2>1 DEF InstallCommand, UninstallCommand
    <2>2. CASE InstallEnds \/ UninstallEnds \/ UNCHANGED vars
      BY <2>2 DEF InstallEnds, UninstallEnds, vars
    <2>3. CASE AddScalar \/ RegistersMore \/ CleanupData \/ UdfUnregister \/ DeleteList
               \/ UnregistersMore
      BY <2>3, AddScalarDoes, RegisterDoes, CleanupDataDoes, UdfUnregisterDoes,
         DeleteListDoes, UnregisterDoes DEF Stays
    <2>4. CASE TimerWakes \/ \E s \in Sessions : Call(s) \/ CallEnds(s)
      BY <2>4, SessionsKeep DEF Quiet
    <2> QED
      BY <2>1, <2>2, <2>3, <2>4, NextIs
  <1>2. Others'
    <2>1. ASSUME NEW c \in Components, InstallCommand(c) PROVE Others'
      <3>1. UNCHANGED <<loaded, failed, asleep>> /\ misused' \in BOOLEAN
            /\ rows' \in {"none", rows} /\ deleted' \subseteq used
        BY <1>0, <2>1 DEF InstallCommand, server, users
      <3>2. command' \in [op : {"install", "uninstall"}, of : used] /\ command' # NoCommand
        <4>1. /\ command' \in [op : {"install", "uninstall"}, of : used]
              /\ command'.op = "install"
          BY <2>1, InstallCommandDoes
        <4> QED
          BY <4>1 DEF NoCommand
      <3> QED
        BY <1>0, <1>1, <3>1, <3>2
    <2>2. ASSUME NEW c \in Components, UninstallCommand(c) PROVE Others'
      <3>1. UNCHANGED <<loaded, failed, asleep, misused, rows, deleted>>
        BY <2>2 DEF UninstallCommand, server, statics, users, history
      <3>2. command' \in [op : {"install", "uninstall"}, of : used] /\ command' # NoCommand
        BY <2>2, UninstallCommandDoes DEF NoCommand
      <3> QED
        BY <1>0, <1>1, <3>1, <3>2
    <2>3. CASE InstallEnds
      <3>1. This \in used
        BY <1>0, <2>3, InstallEndsDoes, CommandFacts DEF This
      <3>2. /\ UNCHANGED <<deleted, rows, asleep, misused>> /\ failed' = FALSE
            /\ loaded' \subseteq used /\ command' = NoCommand /\ todo' = <<>>
        BY <1>0, <2>3, <3>1, InstallEndsDoes DEF InstallEnds
      <3> QED
        BY <1>0, <1>1, <3>2
    <2>4. CASE UninstallEnds
      <3>1. /\ UNCHANGED <<deleted, rows, asleep, misused>> /\ failed' = FALSE
            /\ loaded' \subseteq used /\ command' = NoCommand /\ todo' = <<>>
        BY <1>0, <2>4, UninstallEndsDoes DEF UninstallEnds
      <3> QED
        BY <1>0, <1>1, <3>1
    <2>5. CASE AddScalar
      <3>1. command # NoCommand /\ Stays /\ UNCHANGED <<deleted, rows, misused>>
        BY <2>5, AddScalarDoes DEF NoCommand
      <3>2. failed' \in BOOLEAN
        BY <1>0, <2>5 DEF AddScalar, Advance, ReturnError
      <3> QED
        BY <1>0, <3>1, <3>2 DEF Stays
    <2>6. CASE RegistersMore
      <3>1. command # NoCommand /\ Stays /\ UNCHANGED <<deleted, misused>>
            /\ rows' \in {rows, "none"} /\ failed' \in BOOLEAN
        BY <1>0, <2>6, RegisterDoes
        DEF NoCommand, RegistersMore, RegisterStatus, RegisterVariable, AddTables, Advance,
            ReturnError
      <3> QED
        BY <1>0, <3>1 DEF Stays
    <2>7. CASE CleanupData
      <3>1. command # NoCommand /\ Stays /\ UNCHANGED <<deleted, failed>>
            /\ rows' \in {rows, "dangling"} /\ misused' \in BOOLEAN
        BY <1>0, <2>7, CleanupDataDoes DEF NoCommand, CleanupData, Advance
      <3> QED
        BY <1>0, <3>1 DEF Stays
    <2>8. CASE UdfUnregister
      <3>1. command # NoCommand /\ Stays /\ UNCHANGED <<deleted, rows, misused, failed>>
        BY <1>0, <2>8, UdfUnregisterDoes DEF NoCommand, UdfUnregister, Advance
      <3> QED
        BY <1>0, <3>1 DEF Stays
    <2>9. CASE DeleteList
      <3>1. command # NoCommand /\ Stays /\ UNCHANGED <<rows, misused>>
            /\ failed' \in BOOLEAN /\ deleted' \subseteq used
        BY <1>0, <2>9, DeleteListDoes DEF NoCommand, DeleteList, Advance, ReturnError
      <3> QED
        BY <1>0, <3>1 DEF Stays
    <2>10. CASE UnregistersMore
      <3>1. command # NoCommand /\ Stays /\ UNCHANGED <<deleted, rows, misused>>
            /\ failed' \in BOOLEAN
        BY <1>0, <2>10, UnregisterDoes
        DEF NoCommand, UnregistersMore, UnregisterStatus, UnregisterVariable, DeleteTables,
            Advance, ReturnError
      <3> QED
        BY <1>0, <3>1 DEF Stays
    <2>11. ASSUME NEW s \in Sessions, Call(s) PROVE Others'
      BY <1>0, <2>11 DEF Call, server, statics, progress
    <2>12. ASSUME NEW s \in Sessions, CallEnds(s) PROVE Others'
      <3>1. /\ rows' \in {rows, "live"} /\ misused' \in BOOLEAN /\ asleep' \in BOOLEAN
            /\ UNCHANGED <<used, loaded, deleted, command, todo, failed>>
        BY <1>0, <2>12, CallEndsDoes DEF Adds, Quiet
      <3> QED
        BY <1>0, <3>1
    <2>13. CASE TimerWakes
      <3>1. /\ rows' \in {rows, "live"} /\ misused' \in BOOLEAN /\ asleep' \in BOOLEAN
            /\ UNCHANGED <<used, loaded, deleted, command, todo, failed>>
        BY <1>0, <2>13, TimerWakesDoes DEF Adds, Quiet, TimerWakes
      <3> QED
        BY <1>0, <3>1
    <2>14. CASE UNCHANGED vars
      BY <1>0, <2>14 DEF vars, server, statics, progress, users, history
    <2> QED
      BY <2>1, <2>2, <2>3, <2>4, <2>5, <2>6, <2>7, <2>8, <2>9, <2>10, <2>11, <2>12, <2>13,
         <2>14, NextIs
  <1> HIDE DEF Others
  <1>3. registered' \subseteq UNION {Names[c] : c \in used'}
    BY <1>1, RegisteredTyped
  <1>4. call' \in [Sessions -> {NoCall} \cup UNION {FunctionsOf[c] : c \in used'}]
    BY <1>1, CallTyped
  <1> QED
    BY <1>2, <1>3, <1>4, EventsTyped, SetTyped DEF Others, TypeOK

\* What a component leaves behind.
LeavesNothing(c) ==
  ~InMemory(c) =>
    /\ Barring(c, {"late failure", "early call"}) => FunctionsOf[c] \cap registered = {}
    /\ Barring(c, {"late failure", "early call", "ignored failure"}) =>
         Names[c] \cap registered = {}

\* Nothing changes for a component that stays outside the memory.
LEMMA LeavesNothingStill ==
  ASSUME NEW c \in Components, LeavesNothing(c),
         InMemory(c) => InMemory(c)', events[c] \subseteq events'[c],
         registered' \cap Names[c] \subseteq registered
  PROVE  LeavesNothing(c)'
  <1>1. FunctionsOf[c] \subseteq Names[c]
    BY NameFacts
  <1> QED
    BY <1>1 DEF LeavesNothing, Barring

\* A component that leaves the memory, or stays outside, leaves nothing.
LEMMA UnloadedNext == ASSUME IInv, [Next]_vars PROVE UnloadedLeavesNothing'
  <1>0. /\ TypeOK /\ CommandInv /\ ListInv /\ InstallInv /\ FailedInstallInv /\ UninstallInv
        /\ \A c \in Components : LeavesNothing(c)
    BY DEF IInv, UnloadedLeavesNothing, LeavesNothing
  <1> SUFFICES ASSUME NEW c \in Components PROVE LeavesNothing(c)'
    BY DEF UnloadedLeavesNothing, LeavesNothing
  <1>1. ASSUME NEW d \in Components, InstallCommand(d) PROVE LeavesNothing(c)'
    <2>1. CASE c = d
      BY <1>1, <2>1, InstallCommandDoes DEF LeavesNothing, InMemory
    <2>2. CASE c # d
      <3>1. /\ events'[c] = events[c] /\ registered' = registered /\ loaded' = loaded
            /\ command.op = "none"
        <4>1. /\ Becomes(events, events', d, events[d] \ {"uninstall failed", "list deleted"})
              /\ registered' = registered /\ loaded' = loaded /\ command.op = "none"
          BY <1>1, InstallCommandDoes
        <4> QED
          BY <2>2, <4>1 DEF Becomes
      <3>2. command.of \notin Components
        BY <1>0, <3>1, CommandFacts
      <3> QED
        BY <1>0, <3>1, <3>2, LeavesNothingStill DEF InMemory
    <2> QED
      BY <2>1, <2>2
  <1>2. ASSUME NEW d \in Components, UninstallCommand(d) PROVE LeavesNothing(c)'
    <2>1. UNCHANGED <<events, registered, loaded>> /\ command.of \notin Components
      BY <1>0, <1>2, UninstallCommandDoes, CommandFacts
    <2> QED
      BY <1>0, <2>1, LeavesNothingStill DEF InMemory
  <1>3. CASE InstallEnds
    <2>1. This \in Components /\ registered' = registered /\ Left = {} /\ set' = set
          /\ command.op = "install"
      BY <1>3, InstallEndsDoes
    <2>2. CASE c # This
      <3>1. events'[c] = events[c] /\ (c \in loaded => c \in loaded')
        BY <1>3, <2>2, InstallEndsDoes DEF Becomes, Leaves
      <3> QED
        BY <1>0, <2>1, <2>2, <3>1, LeavesNothingStill DEF InMemory, This
    <2>3. CASE c = This /\ ~failed
      BY <1>3, <2>3, InstallEndsDoes DEF LeavesNothing, InMemory
    <2>4. CASE c = This /\ failed
      <3>1. events[c] \subseteq events'[c]
        BY <1>3, <2>4, InstallEndsDoes DEF Leaves, Becomes
      <3>2. ASSUME Barring(c, {"late failure", "early call"})
            PROVE  FunctionsOf[c] \cap registered = {}
        <4>1. FunctionsOf[c] \cap registered = set[c]
          BY <1>0, <2>1, <2>4, <3>2 DEF InstallInv, This
        <4>2. \A u \in set[c] : [do |-> "udf_unregister", what |-> u] \in Left
          BY <1>0, <2>1, <2>4, <3>2 DEF FailedInstallInv, This
        <4> QED
          BY <2>1, <4>1, <4>2
      <3>3. ASSUME Barring(c, {"late failure", "early call", "ignored failure"})
            PROVE  NotFunctions(c) \cap registered = {}
        BY <1>0, <2>1, <2>4, <3>3 DEF FailedInstallInv, This
      <3> QED
        BY <2>1, <3>1, <3>2, <3>3 DEF LeavesNothing, Barring, NotFunctions
    <2> QED
      BY <2>2, <2>3, <2>4
  <1>4. CASE UninstallEnds
    <2>1. This \in Components /\ registered' = registered /\ Left = {} /\ set' = set
          /\ command.op = "uninstall" /\ This \in loaded
      BY <1>0, <1>4, UninstallEndsDoes DEF CommandInv, This
    <2>2. CASE c # This
      <3>1. events'[c] = events[c] /\ (c \in loaded => c \in loaded')
        BY <1>4, <2>2, UninstallEndsDoes DEF Becomes, Leaves
      <3> QED
        BY <1>0, <2>1, <2>2, <3>1, LeavesNothingStill DEF InMemory, This
    <2>3. CASE c = This /\ failed
      BY <1>4, <2>1, <2>3, UninstallEndsDoes DEF LeavesNothing, InMemory
    <2>4. CASE c = This /\ ~failed
      <3>1. events[c] \subseteq events'[c]
        BY <1>4, <2>4, UninstallEndsDoes DEF Leaves, Becomes
      <3>2. FunctionsOf[c] \cap registered = {}
        <4>1. set[c] = {}
          BY <1>0, <2>1, <2>4 DEF UninstallInv, This, LeftOf
        <4> QED
          BY <1>0, <2>1, <2>4, <4>1 DEF ListInv
      <3>3. ASSUME Barring(c, {"ignored failure"})
            PROVE  NotFunctions(c) \cap registered = {}
        BY <1>0, <2>1, <2>4, <3>3 DEF UninstallInv, This
      <3> QED
        BY <2>1, <3>1, <3>2, <3>3 DEF LeavesNothing, Barring, NotFunctions
    <2> QED
      BY <2>2, <2>3, <2>4
  <1>5. ASSUME Stays, command.op # "none",
               c # This => events'[c] = events[c] /\ registered' \cap Names[c] \subseteq registered
        PROVE  LeavesNothing(c)'
    <2>1. CASE c = This
      BY <1>5, <2>1 DEF LeavesNothing, InMemory, This, Stays
    <2>2. CASE c # This
      BY <1>0, <1>5, <2>2, LeavesNothingStill DEF InMemory, Stays
    <2> QED
      BY <2>1, <2>2
  <1>6. CASE AddScalar
    <2>1. /\ Stays /\ command.op # "none" /\ events' = events
          /\ registered' \subseteq registered \cup {Name}
          /\ \A d \in Components \ {This} : Name \notin Names[d]
      BY <1>6, AddScalarDoes, OwnName
    <2> QED
      BY <1>5, <2>1
  <1>7. CASE RegistersMore
    <2>1. /\ Stays /\ command.op # "none"
          /\ \A d \in Components \ {This} : events'[d] = events[d]
          /\ registered' \subseteq registered \cup {Name}
          /\ \A d \in Components \ {This} : Name \notin Names[d]
      BY <1>7, RegisterDoes, OwnName DEF Becomes
    <2> QED
      BY <1>5, <2>1
  <1>8. CASE CleanupData
    BY <1>5, <1>8, CleanupDataDoes
  <1>9. CASE UdfUnregister
    BY <1>5, <1>9, UdfUnregisterDoes
  <1>10. CASE DeleteList
    BY <1>5, <1>10, DeleteListDoes DEF Becomes
  <1>11. CASE UnregistersMore
    BY <1>5, <1>11, UnregisterDoes DEF Becomes
  <1>12. CASE TimerWakes \/ \E s \in Sessions : Call(s) \/ CallEnds(s)
    <2>1. UNCHANGED <<loaded, registered, command>> /\ events[c] \subseteq events'[c]
      BY <1>12, SessionsKeep DEF Quiet
    <2> QED
      BY <1>0, <2>1, LeavesNothingStill DEF InMemory
  <1>13. CASE UNCHANGED vars
    BY <1>0, <1>13 DEF vars, server, progress, history, LeavesNothing, InMemory, Barring
  <1> QED
    BY <1>1, <1>2, <1>3, <1>4, <1>6, <1>7, <1>8, <1>9, <1>10, <1>11, <1>12, <1>13, NextIs

\* An installed component is whole.
Whole(c) ==
  c \in loaded /\ command.of # c =>
    /\ set[c] = FunctionsOf[c] \cap registered
    /\ Barring(c, {"ignored failure", "uninstall failed"}) => Names[c] \subseteq registered

\* Nothing is taken from a component no command is about.
LEMMA WholeStill ==
  ASSUME IInv, ListInv', NEW c \in Components, Whole(c),
         c \in loaded' /\ command'.of # c =>
           c \in loaded /\ command.of # c /\ events'[c] = events[c]
             /\ registered \cap Names[c] \subseteq registered'
  PROVE  Whole(c)'
  BY DEF Whole, ListInv, Barring

\* An installed component stays whole, and one is whole when init succeeds.
LEMMA WholeNext == ASSUME IInv, [Next]_vars PROVE InstalledIsWhole'
  <1>0. /\ TypeOK /\ CommandInv /\ InstallInv /\ ListInv'
        /\ \A c \in Components : Whole(c)
    BY ListInvNext DEF IInv, InstalledIsWhole, Whole, TypeOK
  <1> SUFFICES ASSUME NEW c \in Components PROVE Whole(c)'
    BY TypeOKNext DEF InstalledIsWhole, Whole, TypeOK
  <1>1. ASSUME NEW d \in Components, InstallCommand(d) PROVE Whole(c)'
    BY <1>0, <1>1, WholeStill, InstallCommandDoes, CommandFacts DEF Becomes
  <1>2. ASSUME NEW d \in Components, UninstallCommand(d) PROVE Whole(c)'
    BY <1>0, <1>2, WholeStill, UninstallCommandDoes, CommandFacts
  <1>3. CASE InstallEnds
    <2>1. This \in Components /\ registered' = registered /\ Left = {}
          /\ command.op = "install"
      BY <1>3, InstallEndsDoes
    <2>2. CASE c = This /\ ~failed
      <3>1. events'[c] = events[c] \ {"early call"} /\ set' = set
        BY <1>3, <2>2, InstallEndsDoes DEF Becomes
      <3>2. ASSUME Barring(c, {"ignored failure"}), NEW n \in Names[c]
            PROVE  n \in registered
        <4>1. PICK t \in Range(InitSteps[c]) : t.what = n
          BY InitFacts
        <4> QED
          BY <1>0, <2>1, <2>2, <3>2, <4>1 DEF InstallInv, This, Barring
      <3> QED
        BY <1>0, <2>1, <3>1, <3>2 DEF Whole, Barring, ListInv
    <2>3. CASE c # This \/ failed
      <3>1. c \in loaded' => c \in loaded /\ c # This
        <4>1. This \notin loaded
          BY <1>0, <2>1 DEF CommandInv, This
        <4>2. loaded' \subseteq loaded \cup {This} /\ (failed => loaded' = loaded)
          BY <1>3, InstallEndsDoes
        <4> QED
          BY <2>3, <4>1, <4>2
      <3>2. c # This => events'[c] = events[c]
        BY <1>3, <2>1, InstallEndsDoes DEF Becomes, Leaves
      <3> QED
        BY <1>0, <2>1, <3>1, <3>2, WholeStill DEF This
    <2> QED
      BY <2>2, <2>3
  <1>4. CASE UninstallEnds
    <2>1. This \in Components /\ registered' = registered /\ command.op = "uninstall"
      BY <1>4, UninstallEndsDoes
    <2>2. CASE c = This /\ failed
      <3>1. "uninstall failed" \in events'[c]
        BY <1>0, <1>4, <2>1, <2>2, UninstallEndsDoes DEF CommandInv, This
      <3> QED
        BY <1>0, <3>1 DEF Whole, Barring, ListInv
    <2>3. CASE c # This \/ ~failed
      <3>1. c \in loaded' => c \in loaded /\ c # This
        BY <1>0, <1>4, <2>1, <2>3, UninstallEndsDoes DEF This
      <3>2. c # This => events'[c] = events[c]
        BY <1>4, <2>1, UninstallEndsDoes DEF Becomes, Leaves
      <3> QED
        BY <1>0, <2>1, <3>1, <3>2, WholeStill DEF This
    <2> QED
      BY <2>2, <2>3
  <1>5. ASSUME Stays,
               c # This => events'[c] = events[c] /\ registered \cap Names[c] \subseteq registered'
        PROVE  Whole(c)'
    BY <1>0, <1>5, WholeStill DEF Stays, This
  <1>6. CASE AddScalar
    BY <1>5, <1>6, AddScalarDoes
  <1>7. CASE RegistersMore
    BY <1>5, <1>7, RegisterDoes DEF Becomes
  <1>8. CASE CleanupData
    BY <1>5, <1>8, CleanupDataDoes
  <1>9. CASE UdfUnregister
    <2>1. /\ Stays /\ events' = events
          /\ registered \subseteq registered' \cup {Name}
          /\ \A d \in Components \ {This} : Name \notin Names[d]
      BY <1>9, UdfUnregisterDoes, OwnName
    <2> QED
      BY <1>5, <2>1
  <1>10. CASE DeleteList
    BY <1>5, <1>10, DeleteListDoes DEF Becomes
  <1>11. CASE UnregistersMore
    <2>1. /\ Stays /\ \A d \in Components \ {This} : events'[d] = events[d]
          /\ registered \subseteq registered' \cup {Name}
          /\ \A d \in Components \ {This} : Name \notin Names[d]
      BY <1>11, UnregisterDoes, OwnName DEF Becomes
    <2> QED
      BY <1>5, <2>1
  <1>12. CASE TimerWakes \/ \E s \in Sessions : Call(s) \/ CallEnds(s)
    <2>1. UNCHANGED <<loaded, registered, command, set>> /\ events[c] \subseteq events'[c]
      BY <1>12, SessionsKeep DEF Quiet
    <2> QED
      BY <1>0, <2>1 DEF Whole, Barring
  <1>13. CASE UNCHANGED vars
    BY <1>0, <1>13 DEF vars, server, statics, progress, history, Whole, Barring
  <1> QED
    BY <1>1, <1>2, <1>3, <1>4, <1>6, <1>7, <1>8, <1>9, <1>10, <1>11, <1>12, <1>13, NextIs

\* What sessions call stays registered: a function in use is not taken back.
LEMMA CallInvNext == ASSUME IInv, [Next]_vars PROVE CallInv'
  <1>0. /\ TypeOK /\ CallInv /\ UnloadedLeavesNothing
        /\ \A s \in Sessions : call[s] # NoCall =>
             \E c \in Components : call[s] \in FunctionsOf[c]
        /\ \A c \in Components : set[c] \subseteq FunctionsOf[c]
    BY SetFacts DEF IInv, TypeOK
  <1>1. ASSUME NEW c \in Components, InstallCommand(c) PROVE CallInv'
    <2>1. /\ UNCHANGED <<call, registered>> /\ command'.of = c /\ ~InMemory(c)
          /\ events'[c] = events[c] \ {"uninstall failed", "list deleted"}
      BY <1>0, <1>1, InstallCommandDoes, CommandFacts DEF Becomes, InMemory
    <2>2. ASSUME NEW s \in Sessions, call[s] # NoCall, call[s] \in FunctionsOf[c]
          PROVE  ~Barring(c, {"late failure", "early call"})
      BY <1>0, <2>1, <2>2 DEF UnloadedLeavesNothing, CallInv
    <2> QED
      BY <1>0, <2>1, <2>2 DEF CallInv, Barring
  <1>2. ASSUME NEW c \in Components, UninstallCommand(c) PROVE CallInv'
    BY <1>0, <1>2, UninstallCommandDoes DEF CallInv
  <1>3. CASE InstallEnds \/ UninstallEnds
    BY <1>0, <1>3, InstallEndsDoes, UninstallEndsDoes DEF CallInv
  <1>4. ASSUME UNCHANGED <<call, command>>, command.op # "none",
               events[This] \subseteq events'[This],
               \A s \in Sessions : call[s] # NoCall => call[s] \in registered'
        PROVE  CallInv'
    BY <1>0, <1>4 DEF CallInv, Barring, This
  <1>5. CASE AddScalar
    BY <1>0, <1>4, <1>5, AddScalarDoes DEF CallInv, Stays
  <1>6. CASE RegistersMore
    BY <1>0, <1>4, <1>6, RegisterDoes DEF CallInv, Stays, Becomes
  <1>7. CASE CleanupData
    BY <1>0, <1>4, <1>7, CleanupDataDoes DEF CallInv, Stays
  <1>8. CASE UdfUnregister
    <2>1. \A s \in Sessions : call[s] # NoCall => call[s] \in registered'
      BY <1>0, <1>8, UdfUnregisterDoes DEF CallInv, InUse
    <2> QED
      BY <1>4, <1>8, <2>1, UdfUnregisterDoes DEF Stays
  <1>9. CASE DeleteList
    BY <1>0, <1>4, <1>9, DeleteListDoes DEF CallInv, Stays, Becomes
  <1>10. CASE UnregistersMore
    <2>1. /\ This \in Components /\ Stays /\ command.op # "none"
          /\ events[This] \subseteq events'[This]
          /\ Name \in NotFunctions(This)
          /\ registered \subseteq registered' \cup {Name}
      BY <1>10, UnregisterDoes DEF Becomes
    <2>2. \A c \in Components : Name \notin FunctionsOf[c]
      BY <2>1, OwnName DEF NotFunctions
    <2>3. \A s \in Sessions : call[s] # NoCall => call[s] \in registered'
      BY <1>0, <2>1, <2>2 DEF CallInv
    <2> QED
      BY <1>4, <2>1, <2>3 DEF Stays
  <1>11. ASSUME NEW s \in Sessions, Call(s) PROVE CallInv'
    <2>1. PICK u \in registered, c \in Components :
            /\ u \in FunctionsOf[c] /\ call' = [call EXCEPT ![s] = u]
            /\ IF command.op = "install" /\ command.of = c
               THEN Becomes(events, events', c, events[c] \cup {"early call"})
               ELSE events' = events
            /\ Quiet
      BY <1>11, CallDoes
    <2>2. UNCHANGED <<registered, command>>
      BY <2>1 DEF Quiet
    <2>3. \A d \in Components : events[d] \subseteq events'[d]
      BY <2>1 DEF Becomes
    <2>4. command.op = "install" /\ u \in FunctionsOf[command.of] =>
            "early call" \in events'[command.of]
      <3> SUFFICES ASSUME command.op = "install", u \in FunctionsOf[command.of]
                   PROVE  "early call" \in events'[command.of]
        OBVIOUS
      <3>1. command.of \in Components
        BY <1>0, CommandFacts
      <3>2. command.of = c
        BY <2>1, <3>1, NameFacts
      <3> QED
        BY <2>1, <3>2 DEF Becomes
    <2>5. ASSUME NEW r \in Sessions, call'[r] # NoCall
          PROVE  /\ call'[r] \in registered
                 /\ command.op = "install" /\ call'[r] \in FunctionsOf[command.of] =>
                      events'[command.of] \cap {"late failure", "early call"} # {}
      <3>1. CASE r = s
        <4>1. call'[r] = u
          BY <1>0, <2>1, <3>1 DEF TypeOK
        <4> QED
          BY <2>1, <2>4, <4>1
      <3>2. CASE r # s
        <4>1. call'[r] = call[r]
          BY <1>0, <2>1, <3>2 DEF TypeOK
        <4> QED
          BY <1>0, <2>3, <2>5, <4>1, CommandFacts DEF CallInv, Barring
      <3> QED
        BY <3>1, <3>2
    <2> QED
      BY <2>2, <2>5 DEF CallInv, Barring
  <1>12. ASSUME NEW s \in Sessions, CallEnds(s) PROVE CallInv'
    <2>1. /\ call' = [call EXCEPT ![s] = NoCall]
          /\ UNCHANGED <<registered, command, events>>
      BY <1>12, CallEndsDoes DEF Quiet
    <2>2. \A r \in Sessions : call'[r] # NoCall => call'[r] = call[r]
      BY <1>0, <2>1 DEF TypeOK
    <2> QED
      <3>1. CallInv /\ UNCHANGED <<registered, command, events>>
        BY <1>0, <2>1
      <3> QED
        BY <2>2, <3>1 DEF CallInv, Barring
  <1>13. CASE TimerWakes
    BY <1>0, <1>13, TimerWakesDoes DEF CallInv, Barring, Quiet
  <1>14. CASE UNCHANGED vars
    BY <1>0, <1>14 DEF CallInv, Barring, vars, server, progress, users, history
  <1> QED
    BY <1>1, <1>2, <1>3, <1>5, <1>6, <1>7, <1>8, <1>9, <1>10, <1>11, <1>12, <1>13, <1>14,
       NextIs

\* Nobody adds a row while records are deleted.
LEMMA NobodyAdds ==
  ASSUME IInv, NEW c \in Components \ {"profiler"}, InMemory(c),
         rows = "dangling"
  PROVE  ~Barring("profiler", {"uninstall failed"})
  <1> SUFFICES ASSUME Barring("profiler", {"uninstall failed"}) PROVE FALSE
    OBVIOUS
  <1>0. TypeOK /\ CommandInv /\ RowsInv
    BY DEF IInv
  <1>1. command.op # "install" /\ loaded \subseteq {"profiler"}
    BY <1>0 DEF RowsInv
  <1>2. command.of = c
    BY <1>1 DEF InMemory
  <1>3. command.op = "uninstall" /\ c \in loaded
    BY <1>0, <1>1, <1>2, CommandFacts DEF CommandInv
  <1> QED
    BY <1>1, <1>3

\* No step deletes a record twice.
LEMMA RecordsNext == ASSUME IInv, [Next]_vars PROVE RecordsDeletedOnce'
  <1>0. /\ TypeOK /\ RecordsDeletedOnce /\ RowsInv /\ CommandInv
        /\ "profiler" \in Components /\ "memory" \in Components
    BY DEF IInv, Components
  <1>1. CASE misused' = misused /\ events["profiler"] \subseteq events'["profiler"]
    BY <1>0, <1>1 DEF RecordsDeletedOnce, Barring
  <1>2. ASSUME NEW c \in Components, InstallCommand(c) PROVE RecordsDeletedOnce'
    <2>1. CASE c = "profiler"
      BY <1>2, <2>1, InstallCommandDoes DEF RecordsDeletedOnce
    <2>2. CASE c # "profiler"
      <3>1. /\ Becomes(events, events', c, events[c] \ {"uninstall failed", "list deleted"})
            /\ misused' = (misused /\ c # "profiler")
        BY <1>2, InstallCommandDoes
      <3> QED
        BY <1>0, <2>2, <3>1 DEF RecordsDeletedOnce, Barring, Becomes
    <2> QED
      BY <2>1, <2>2
  <1>3. ASSUME NEW c \in Components, UninstallCommand(c) PROVE RecordsDeletedOnce'
    BY <1>1, <1>3, UninstallCommandDoes
  <1>4. CASE InstallEnds
    <2>1. /\ misused' = misused
          /\ \A c \in Components : events[c] \subseteq events'[c] \cup {"early call"}
      BY <1>4, InstallEndsDoes DEF Becomes, Leaves
    <2> QED
      BY <1>0, <2>1 DEF RecordsDeletedOnce, Barring
  <1>5. CASE UninstallEnds
    <2>1. misused' = misused /\ \A c \in Components : events[c] \subseteq events'[c]
      BY <1>5, UninstallEndsDoes DEF Becomes, Leaves
    <2> QED
      BY <1>0, <1>1, <2>1
  <1>6. CASE AddScalar \/ UdfUnregister
    BY <1>1, <1>6, AddScalarDoes, UdfUnregisterDoes
  <1>7. CASE RegistersMore
    <2>1. misused' = misused /\ \A c \in Components : events[c] \subseteq events'[c]
      BY <1>7, RegisterDoes DEF Becomes
    <2> QED
      BY <1>0, <1>1, <2>1
  <1>8. CASE DeleteList
    <2>1. misused' = misused /\ \A c \in Components : events[c] \subseteq events'[c]
      BY <1>8, DeleteListDoes DEF Becomes
    <2> QED
      BY <1>0, <1>1, <2>1
  <1>9. CASE UnregistersMore
    <2>1. misused' = misused /\ \A c \in Components : events[c] \subseteq events'[c]
      BY <1>9, UnregisterDoes DEF Becomes
    <2> QED
      BY <1>0, <1>1, <2>1
  <1>10. CASE CleanupData
    <2>1. /\ This = "profiler" /\ Head(todo) \in Left /\ Kind = "cleanup_profiler_data"
          /\ events' = events /\ misused' = (misused \/ rows = "dangling")
          /\ command.op = "uninstall"
      BY <1>10, CleanupDataDoes
    <2>2. "profiler" \in loaded
      BY <1>0, <2>1 DEF CommandInv, This
    <2>3. rows = "dangling" => ~Barring("profiler", {"uninstall failed"})
      BY <1>0, <2>1, <2>2 DEF RowsInv, LeftOf, Kind
    <2> QED
      BY <1>0, <2>1, <2>3 DEF RecordsDeletedOnce, Barring
  <1>11. ASSUME NEW c \in Components \ {"profiler"}, Adds(c), events' = events
         PROVE  RecordsDeletedOnce'
    BY <1>0, <1>11, NobodyAdds DEF Adds, RecordsDeletedOnce, Barring
  <1>12. ASSUME NEW s \in Sessions, CallEnds(s) PROVE RecordsDeletedOnce'
    BY <1>1, <1>11, <1>12, CallEndsDoes
  <1>13. CASE TimerWakes
    BY <1>0, <1>1, <1>11, <1>13, TimerWakesDoes
  <1>14. ASSUME NEW s \in Sessions, Call(s) PROVE RecordsDeletedOnce'
    <2>1. misused' = misused
      BY <1>14 DEF Call
    <2>2. events["profiler"] \subseteq events'["profiler"]
      BY <1>0, <1>14, SessionsKeep
    <2> QED
      BY <1>1, <2>1, <2>2
  <1>15. CASE UNCHANGED vars
    BY <1>1, <1>15 DEF vars, history
  <1> QED
    BY <1>2, <1>3, <1>4, <1>5, <1>6, <1>7, <1>8, <1>9, <1>10, <1>12, <1>13, <1>14, <1>15,
       NextIs

\* Deleted records stay out of reach: while they are pointed to, the only
\* component that is left is the one being uninstalled.
LEMMA RowsInvNext == ASSUME IInv, [Next]_vars PROVE RowsInv'
  <1>0. /\ TypeOK /\ RowsInv /\ CommandInv
        /\ "profiler" \in Components /\ "memory" \in Components
    BY DEF IInv, Components
  <1>1. ASSUME NEW c \in Components, InstallCommand(c) PROVE RowsInv'
    <2>1. CASE c = "profiler"
      BY <1>1, <2>1, InstallCommandDoes DEF RowsInv
    <2>2. CASE c # "profiler"
      <3>1. /\ Becomes(events, events', c, events[c] \ {"uninstall failed", "list deleted"})
            /\ rows' = rows /\ command.op = "none" /\ "profiler" \in loaded
        BY <1>1, <2>2, InstallCommandDoes
      <3>2. command.of # "profiler"
        BY <1>0, <3>1, CommandFacts
      <3>3. ~(rows = "dangling" /\ Barring("profiler", {"uninstall failed"}))
        BY <1>0, <3>1, <3>2 DEF RowsInv
      <3> QED
        BY <1>0, <2>2, <3>1, <3>3 DEF RowsInv, Barring, Becomes
    <2> QED
      BY <2>1, <2>2
  <1>2. ASSUME NEW c \in Components, UninstallCommand(c) PROVE RowsInv'
    <2>1. c \in loaded /\ command.op = "none" /\ UNCHANGED <<rows, events>>
      BY <1>2, UninstallCommandDoes
    <2>2. command.of # "profiler"
      BY <1>0, <2>1, CommandFacts
    <2>3. ~(rows = "dangling" /\ Barring("profiler", {"uninstall failed"}))
      BY <1>0, <2>1, <2>2 DEF RowsInv
    <2> QED
      BY <2>1, <2>3 DEF RowsInv, Barring
  <1>3. ASSUME command.op = "install", rows' \in {rows, "none"},
               events["profiler"] \subseteq events'["profiler"] \cup {"early call"}
        PROVE  RowsInv'
    BY <1>0, <1>3 DEF RowsInv, Barring
  <1>4. CASE InstallEnds
    <2>1. /\ command.op = "install" /\ rows' = rows
          /\ \A c \in Components : events[c] \subseteq events'[c] \cup {"early call"}
      BY <1>4, InstallEndsDoes DEF Becomes, Leaves
    <2> QED
      BY <1>0, <1>3, <2>1
  <1>5. CASE AddScalar
    BY <1>3, <1>5, AddScalarDoes
  <1>6. CASE RegistersMore
    <2>1. /\ command.op = "install" /\ rows' \in {rows, "none"}
          /\ \A c \in Components : events[c] \subseteq events'[c]
      BY <1>6, RegisterDoes DEF Becomes
    <2> QED
      BY <1>0, <1>3, <2>1
  <1>7. ASSUME Stays, rows' = rows, Left' \subseteq Left,
               events["profiler"] \subseteq events'["profiler"]
        PROVE  RowsInv'
    BY <1>0, <1>7 DEF RowsInv, Stays, Barring, LeftOf
  <1>8. CASE UdfUnregister
    BY <1>7, <1>8, UdfUnregisterDoes
  <1>9. CASE DeleteList
    <2>1. /\ Stays /\ rows' = rows /\ Left' \subseteq Left
          /\ \A c \in Components : events[c] \subseteq events'[c]
      BY <1>9, DeleteListDoes DEF Becomes
    <2> QED
      BY <1>0, <1>7, <2>1
  <1>10. CASE UnregistersMore
    <2>1. /\ Stays /\ rows' = rows /\ Left' \subseteq Left
          /\ \A c \in Components : events[c] \subseteq events'[c]
      BY <1>10, UnregisterDoes DEF Becomes
    <2> QED
      BY <1>0, <1>7, <2>1
  <1>11. CASE CleanupData
    <2>1. /\ This = "profiler" /\ Stays /\ command.op = "uninstall"
          /\ \A t \in Left' : t.do # "cleanup_profiler_data"
      BY <1>11, CleanupDataDoes
    <2>2. loaded = {"profiler"}
      BY <1>0, <2>1 DEF CommandInv, This
    <2> QED
      BY <2>1, <2>2 DEF RowsInv, Stays, LeftOf, This
  <1>12. CASE UninstallEnds
    <2>1. /\ command.op = "uninstall" /\ rows' = rows /\ This \in Components
          /\ \A c \in Components : events[c] \subseteq events'[c]
      BY <1>12, UninstallEndsDoes DEF Becomes, Leaves
    <2>2. This \in loaded
      BY <1>0, <2>1 DEF CommandInv, This
    <2> SUFFICES ASSUME rows = "dangling", Barring("profiler", {"uninstall failed"})
                 PROVE  loaded' = {} /\ command'.op # "install"
      BY <1>0, <2>1 DEF RowsInv, Barring
    <2>3. This = "profiler" /\ loaded = {"profiler"}
      BY <1>0, <2>1, <2>2 DEF RowsInv
    <2>4. ~failed
      BY <1>0, <2>1, <2>3 DEF CommandInv, Barring, This
    <2> QED
      BY <1>12, <2>3, <2>4, UninstallEndsDoes
  <1>13. CASE TimerWakes \/ \E s \in Sessions : Call(s) \/ CallEnds(s)
    <2>1. UNCHANGED <<loaded, command, Left>>
      BY <1>13, SessionsKeep DEF Quiet
    <2>2. events["profiler"] \subseteq events'["profiler"]
      BY <1>0, <1>13, SessionsKeep
    <2>3. rows' = "dangling" => rows = "dangling"
      <3>1. ASSUME NEW s \in Sessions, Call(s) PROVE rows' = rows
        BY <3>1 DEF Call, statics
      <3>2. ASSUME NEW s \in Sessions, CallEnds(s)
            PROVE  rows' = "dangling" => rows = "dangling"
        BY <3>2, CallEndsDoes DEF Adds
      <3>3. CASE TimerWakes
        BY <3>3, TimerWakesDoes DEF Adds
      <3> QED
        BY <1>13, <3>1, <3>2, <3>3
    <2> QED
      BY <1>0, <2>1, <2>2, <2>3 DEF RowsInv, Barring, LeftOf
  <1>14. CASE UNCHANGED vars
    BY <1>0, <1>14
    DEF RowsInv, Barring, LeftOf, Left, vars, server, statics, progress, history
  <1> QED
    BY <1>1, <1>2, <1>4, <1>5, <1>6, <1>8, <1>9, <1>10, <1>11, <1>12, <1>13, <1>14, NextIs

\* A timer thread's code stays in memory, or its leaving was noted.
LEMMA AsleepInvNext == ASSUME IInv, [Next]_vars PROVE AsleepInv'
  <1>0. TypeOK /\ AsleepInv /\ CommandInv /\ "memory" \in Components
    BY DEF IInv, Components
  <1>1. ASSUME asleep' = asleep, InMemory("memory") => InMemory("memory")',
               events["memory"] \cap {"timer asleep"} \subseteq events'["memory"]
        PROVE  AsleepInv'
    BY <1>0, <1>1 DEF AsleepInv, Barring
  <1>2. ASSUME NEW c \in Components, InstallCommand(c) PROVE AsleepInv'
    <2>1. /\ asleep' = asleep /\ loaded' = loaded /\ command.op = "none"
          /\ Becomes(events, events', c, events[c] \ {"uninstall failed", "list deleted"})
      BY <1>2, InstallCommandDoes
    <2>2. events["memory"] \cap {"timer asleep"} \subseteq events'["memory"]
      BY <1>0, <2>1 DEF Becomes
    <2>3. InMemory("memory") => InMemory("memory")'
      BY <1>0, <2>1, CommandFacts DEF InMemory
    <2> QED
      BY <1>1, <2>1, <2>2, <2>3
  <1>3. ASSUME NEW c \in Components, UninstallCommand(c) PROVE AsleepInv'
    <2>1. asleep' = asleep /\ loaded' = loaded /\ command.op = "none" /\ events' = events
      BY <1>3, UninstallCommandDoes
    <2>2. InMemory("memory") => InMemory("memory")'
      BY <1>0, <2>1, CommandFacts DEF InMemory
    <2> QED
      BY <1>1, <2>1, <2>2
  <1>4. CASE InstallEnds
    <2>1. CASE failed /\ This = "memory"
      BY <1>4, <2>1, InstallEndsDoes DEF AsleepInv, Leaves, Becomes, Barring
    <2>2. CASE ~failed /\ This = "memory"
      BY <1>4, <2>2, InstallEndsDoes DEF AsleepInv, InMemory
    <2>3. CASE This # "memory"
      <3>1. /\ asleep' = asleep /\ loaded \subseteq loaded'
            /\ events'["memory"] = events["memory"]
        BY <1>0, <1>4, <2>3, InstallEndsDoes DEF Becomes, Leaves
      <3> QED
        BY <1>1, <2>3, <3>1 DEF InMemory, This
    <2> QED
      BY <2>1, <2>2, <2>3
  <1>5. CASE UninstallEnds
    <2>0. This \in loaded
      BY <1>0, <1>5, UninstallEndsDoes DEF CommandInv, This
    <2>1. CASE ~failed /\ This = "memory"
      BY <1>5, <2>1, UninstallEndsDoes DEF AsleepInv, Leaves, Becomes, Barring
    <2>2. CASE failed
      <3>1. asleep' = asleep /\ loaded' = loaded /\ events' = events
        BY <1>5, <2>2, UninstallEndsDoes
      <3> QED
        BY <1>1, <2>0, <3>1 DEF InMemory, This
    <2>3. CASE ~failed /\ This # "memory"
      <3>1. /\ asleep' = asleep /\ loaded' = loaded \ {This}
            /\ events'["memory"] = events["memory"]
        BY <1>0, <1>5, <2>3, UninstallEndsDoes DEF Becomes, Leaves
      <3> QED
        BY <1>1, <2>3, <3>1 DEF InMemory, This
    <2> QED
      BY <2>1, <2>2, <2>3
  <1>6. ASSUME Stays, \A c \in Components : events[c] \subseteq events'[c]
        PROVE  AsleepInv'
    BY <1>0, <1>1, <1>6 DEF Stays, InMemory
  <1>7. CASE AddScalar \/ CleanupData \/ UdfUnregister
    BY <1>6, <1>7, AddScalarDoes, CleanupDataDoes, UdfUnregisterDoes
  <1>8. CASE RegistersMore
    BY <1>6, <1>8, RegisterDoes DEF Becomes
  <1>9. CASE DeleteList
    BY <1>6, <1>9, DeleteListDoes DEF Becomes
  <1>10. CASE UnregistersMore
    BY <1>6, <1>10, UnregisterDoes DEF Becomes
  <1>11. ASSUME NEW s \in Sessions, Call(s) PROVE AsleepInv'
    <2>1. UNCHANGED <<loaded, command>> /\ events["memory"] \subseteq events'["memory"]
      BY <1>0, <1>11, SessionsKeep DEF Quiet
    <2>2. asleep' = asleep
      BY <1>11 DEF Call
    <2> QED
      BY <1>1, <2>1, <2>2 DEF InMemory
  <1>12. ASSUME NEW s \in Sessions, CallEnds(s) PROVE AsleepInv'
    <2>1. UNCHANGED <<loaded, command, events>>
      BY <1>12, CallEndsDoes DEF Quiet
    <2>2. asleep' => asleep \/ InMemory("memory")
      BY <1>12, CallEndsDoes DEF Adds
    <2> QED
      BY <1>0, <2>1, <2>2 DEF AsleepInv, InMemory, Barring
  <1>13. CASE TimerWakes
    <2>1. asleep /\ UNCHANGED <<loaded, command, events>>
      BY <1>13, TimerWakesDoes DEF Quiet
    <2> QED
      BY <1>0, <2>1 DEF AsleepInv, InMemory, Barring
  <1>14. CASE UNCHANGED vars
    BY <1>1, <1>14 DEF InMemory, vars, server, progress, users, history
  <1> QED
    BY <1>2, <1>3, <1>4, <1>5, <1>7, <1>8, <1>9, <1>10, <1>11, <1>12, <1>13, <1>14, NextIs

\* What init has passed is registered.
LEMMA InstallInvNext == ASSUME IInv, [Next]_vars PROVE InstallInv'
  <1>0. /\ TypeOK /\ InstallInv /\ CommandInv /\ UnloadedLeavesNothing
        /\ \A c \in Components : set[c] \subseteq FunctionsOf[c]
    BY SetFacts DEF IInv
  <1>1. ASSUME NEW c \in Components, InstallCommand(c) PROVE InstallInv'
    <2>1. /\ command.op = "none" /\ c \notin loaded /\ command'.of = c
          /\ Left' = Range(InitSteps[c]) /\ deleted' = deleted \ {c}
          /\ registered' = registered
          /\ Becomes(set, set', c, {})
          /\ Becomes(events, events', c, events[c] \ {"uninstall failed", "list deleted"})
      BY <1>1, InstallCommandDoes
    <2>2. ~InMemory(c)
      BY <1>0, <2>1, CommandFacts DEF InMemory
    <2>3. /\ events'[c] = events[c] \ {"uninstall failed", "list deleted"}
          /\ set'[c] = {}
      BY <2>1 DEF Becomes
    <2>4. events[c] \cap {"late failure", "early call"} = {} =>
            FunctionsOf[c] \cap registered = {}
      BY <1>0, <2>2 DEF UnloadedLeavesNothing, Barring
    <2> QED
      BY <2>1, <2>3, <2>4 DEF InstallInv, Barring
  <1>2. CASE command'.op # "install"
    BY <1>2 DEF InstallInv
  <1>3. ASSUME NEW c \in Components, UninstallCommand(c) PROVE command'.op # "install"
    BY <1>3, UninstallCommandDoes
  <1>4. CASE InstallEnds \/ UninstallEnds
    BY <1>2, <1>4, InstallEndsDoes, UninstallEndsDoes
  <1>5. CASE CleanupData \/ DeleteList \/ UnregistersMore
    BY <1>2, <1>5, CleanupDataDoes, DeleteListDoes, UnregisterDoes DEF Stays
  <1>6. CASE AddScalar
    <2>1. /\ command.op = "install" /\ command' = command /\ ~failed
          /\ This \in Components /\ Name \in FunctionsOf[This]
          /\ UNCHANGED <<deleted, events>>
      BY <1>6, AddScalarDoes DEF Stays
    <2>2. CASE /\ registered' = registered \cup {Name}
               /\ Becomes(set, set', This, set[This] \cup {Name})
               /\ Left = {Head(todo)} \cup Left'
      BY <1>0, <2>1, <2>2 DEF InstallInv, This, Becomes, Barring, Name
    <2>3. CASE UNCHANGED <<registered, set>> /\ failed'
      BY <1>0, <2>1, <2>3 DEF InstallInv, This, Barring
    <2> QED
      BY <1>6, <2>2, <2>3, AddScalarDoes
  <1>7. CASE RegistersMore
    <2>1. /\ command.op = "install" /\ command' = command
          /\ This \in Components /\ Name \notin FunctionsOf[This]
          /\ UNCHANGED <<deleted, set>> /\ Left = {Head(todo)} \cup Left'
      BY <1>7, RegisterDoes DEF Stays, NotFunctions
    <2>2. CASE registered' = registered \cup {Name} /\ UNCHANGED <<failed, events>>
      <3>1. Kind # "add_scalar"
        BY <1>7, RegisterDoes
      <3> QED
        <4>1. ASSUME NEW t \in Range(InitSteps[This]) \ Left', ~failed'
              PROVE  /\ t.do = "add_scalar" => t.what \in set'[This]
                     /\ t.what \in registered'
                          \/ (t.do = "register_status" /\ "ignored failure" \in events'[This])
          <5>1. CASE t = Head(todo)
            BY <2>1, <2>2, <3>1, <5>1 DEF Name, Kind
          <5>2. CASE t # Head(todo)
            BY <1>0, <2>1, <2>2, <4>1, <5>2 DEF InstallInv, This
          <5> QED
            BY <5>1, <5>2
        <4> QED
          BY <1>0, <2>1, <2>2, <4>1 DEF InstallInv, This, Barring
    <2>3. CASE /\ UNCHANGED <<registered, failed>> /\ Kind = "register_status"
               /\ Becomes(events, events', This, events[This] \cup {"ignored failure"})
      BY <1>0, <2>1, <2>3 DEF InstallInv, This, Barring, Becomes, Kind
    <2>4. CASE /\ registered' = registered /\ failed'
               /\ Becomes(events, events', This, events[This] \cup {"late failure"})
      BY <1>0, <2>1, <2>4 DEF InstallInv, This, Barring, Becomes
    <2> QED
      BY <1>7, <2>2, <2>3, <2>4, RegisterDoes
  <1>8. CASE UdfUnregister
    <2>1. CASE command.op = "uninstall"
      BY <1>2, <1>8, <2>1, UdfUnregisterDoes DEF Stays
    <2>2. CASE command.op = "install"
      <3>1. /\ command' = command /\ failed' /\ This \in Components
            /\ UNCHANGED <<deleted, events>>
            /\ \/ /\ registered' = registered \ {Name}
                  /\ set'[This] = set[This] \ {Name}
               \/ UNCHANGED <<registered, set>>
        BY <1>8, <2>2, UdfUnregisterDoes DEF Stays, Becomes
      <3> QED
        BY <1>0, <2>2, <3>1 DEF InstallInv, This, Barring
    <2> QED
      BY <1>8, <2>1, <2>2, UdfUnregisterDoes
  <1>9. CASE TimerWakes \/ \E s \in Sessions : Call(s) \/ CallEnds(s)
    <2>1. UNCHANGED <<registered, set, deleted, command, failed, Left>>
      BY <1>9, SessionsKeep DEF Quiet
    <2>2. command.op = "install" => events[command.of] \subseteq events'[command.of]
      BY <1>0, <1>9, SessionsKeep, CommandFacts
    <2> QED
      BY <1>0, <2>1, <2>2 DEF InstallInv, Barring
  <1>10. CASE UNCHANGED vars
    BY <1>0, <1>10
    DEF InstallInv, Barring, Left, vars, server, statics, progress, history
  <1> QED
    BY <1>1, <1>2, <1>3, <1>4, <1>5, <1>6, <1>7, <1>8, <1>9, <1>10, NextIs

\* A failed init still has to take back what is in its list.
LEMMA FailedInstallNext == ASSUME IInv, [Next]_vars PROVE FailedInstallInv'
  <1>0. /\ TypeOK /\ FailedInstallInv /\ CommandInv /\ UnloadedLeavesNothing /\ CallInv
        /\ \A c \in Components : set[c] \subseteq FunctionsOf[c]
    BY SetFacts DEF IInv
  <1>1. ASSUME NEW c \in Components, InstallCommand(c) PROVE FailedInstallInv'
    <2>1. /\ command.op = "none" /\ c \notin loaded /\ command'.of = c /\ ~failed'
          /\ registered' = registered
          /\ Becomes(events, events', c, events[c] \ {"uninstall failed", "list deleted"})
      BY <1>1, InstallCommandDoes
    <2>2. ~InMemory(c)
      BY <1>0, <2>1, CommandFacts DEF InMemory
    <2>3. Barring(c, {"late failure", "early call", "ignored failure"})' =>
            Names[c] \cap registered = {}
      BY <1>0, <2>1, <2>2 DEF UnloadedLeavesNothing, Barring, Becomes
    <2> QED
      BY <2>1, <2>3 DEF FailedInstallInv, NotFunctions
  <1>2. CASE command'.op # "install"
    BY <1>2 DEF FailedInstallInv
  <1>3. ASSUME NEW c \in Components, UninstallCommand(c) PROVE command'.op # "install"
    BY <1>3, UninstallCommandDoes
  <1>4. CASE InstallEnds \/ UninstallEnds
    BY <1>2, <1>4, InstallEndsDoes, UninstallEndsDoes
  <1>5. CASE CleanupData \/ DeleteList \/ UnregistersMore
    BY <1>2, <1>5, CleanupDataDoes, DeleteListDoes, UnregisterDoes DEF Stays
  <1>6. CASE AddScalar
    <2>1. /\ command.op = "install" /\ command' = command /\ ~failed
          /\ This \in Components /\ Name \in FunctionsOf[This]
          /\ Head(todo) \in LeftOf("add_scalar") /\ events' = events
      BY <1>6, AddScalarDoes DEF Stays, LeftOf, Kind
    <2>2. /\ Barring(This, {"late failure", "early call", "ignored failure"})
          => NotFunctions(This) \cap registered = {}
      BY <1>0, <2>1 DEF FailedInstallInv, This
    <2>3. CASE registered' = registered \cup {Name} /\ ~failed'
      BY <2>1, <2>2, <2>3 DEF FailedInstallInv, This, Barring, NotFunctions
    <2>4. CASE /\ UNCHANGED <<registered, set>>
               /\ Left' = Range(UnregisterSteps(This))
      BY <1>0, <2>1, <2>2, <2>4, UnregisterFacts DEF FailedInstallInv, This, Barring
    <2> QED
      BY <1>6, <2>3, <2>4, AddScalarDoes
  <1>7. CASE RegistersMore
    <2>1. /\ command.op = "install" /\ command' = command
          /\ This \in Components /\ Kind \in InitKinds \ {"add_scalar"}
          /\ set' = set /\ Left = {Head(todo)} \cup Left' /\ Head(todo) \in Left
          /\ \A t \in Left : t.do # "add_scalar"
      BY <1>7, RegisterDoes DEF Stays
    <2>2. LeftOf("add_scalar")' = {}
      BY <2>1 DEF LeftOf
    <2>3. failed => ~Barring(This, {"late failure"})
      BY <1>0, <2>1, UnregisterFacts DEF FailedInstallInv, This, Kind, InitKinds
    <2>4. CASE ~failed /\ ~failed'
      BY <2>1, <2>2, <2>4 DEF FailedInstallInv
    <2>5. CASE failed \/ failed'
      <3>1. ~Barring(This, {"late failure"})'
        <4>1. \/ failed' = failed /\ events[This] \subseteq events'[This]
              \/ failed' /\ "late failure" \in events'[This]
          BY <1>7, RegisterDoes DEF Becomes
        <4>2. Stays /\ command' = command
          BY <1>7, RegisterDoes DEF Stays
        <4> QED
          BY <2>3, <2>5, <4>1, <4>2 DEF Barring, This
      <3> QED
        BY <2>1, <3>1 DEF FailedInstallInv, This, Barring
    <2> QED
      BY <2>4, <2>5
  <1>8. CASE UdfUnregister
    <2>1. CASE command.op = "uninstall"
      BY <1>2, <1>8, <2>1, UdfUnregisterDoes DEF Stays
    <2>2. CASE command.op = "install"
      <3>1. /\ command' = command /\ failed /\ failed' /\ This \in Components
            /\ Name \in FunctionsOf[This] /\ Left = {Head(todo)} \cup Left'
            /\ events' = events
            /\ \/ /\ registered' \subseteq registered
                  /\ set'[This] = set[This] \ {Name}
               \/ /\ UNCHANGED <<registered, set>>
                  /\ Name \notin set[This] \/ InUse(Name)
        BY <1>8, <2>2, UdfUnregisterDoes DEF Stays, Becomes
      <3>2. InUse(Name) => ~Barring(This, {"late failure", "early call"})
        <4>1. ASSUME NEW s \in Sessions, call[s] = Name
              PROVE  call[s] # NoCall
          BY <3>1, <4>1, NoCallIsNone, NameFacts
        <4> QED
          BY <1>0, <2>2, <3>1, <4>1 DEF CallInv, InUse, This
      <3>3. ASSUME Barring(This, {"late failure", "early call"}), NEW u \in set'[This]
            PROVE  [do |-> "udf_unregister", what |-> u] \in Left'
        <4>1. u \in set[This] /\ u # Name
          BY <3>1, <3>2, <3>3
        <4>2. [do |-> "udf_unregister", what |-> u] \in Left
          BY <1>0, <2>2, <3>1, <3>3, <4>1 DEF FailedInstallInv, This
        <4>3. [do |-> "udf_unregister", what |-> u] # Head(todo)
          BY <4>1 DEF Name
        <4> QED
          BY <3>1, <4>2, <4>3
      <3> QED
        BY <1>0, <2>2, <3>1, <3>3 DEF FailedInstallInv, This, Barring
    <2> QED
      BY <1>8, <2>1, <2>2, UdfUnregisterDoes
  <1>9. CASE TimerWakes \/ \E s \in Sessions : Call(s) \/ CallEnds(s)
    <2>1. UNCHANGED <<registered, set, command, failed, Left>>
      BY <1>9, SessionsKeep DEF Quiet
    <2>2. command.op = "install" =>
            /\ events[command.of] \subseteq events'[command.of]
            /\ events'[command.of] \subseteq events[command.of] \cup {"early call"}
      BY <1>0, <1>9, SessionsKeep, CommandFacts
    <2> QED
      BY <1>0, <2>1, <2>2 DEF FailedInstallInv, Barring, LeftOf
  <1>10. CASE UNCHANGED vars
    BY <1>0, <1>10
    DEF FailedInstallInv, Barring, LeftOf, Left, vars, server, statics, progress, history
  <1> QED
    BY <1>1, <1>2, <1>3, <1>4, <1>5, <1>6, <1>7, <1>8, <1>9, <1>10, NextIs

\* A component whose init failed late.
Late(c) == ~Barring(c, {"late failure"})

FailsAgain(c) ==
  \/ todo = InitSteps[c] /\ set[c] = {} /\ ~failed
  \/ /\ failed /\ LeftOf("add_scalar") = {}
     /\ set[c] = {} \/ LeftOf("udf_unregister") = {}

LateOf(c) ==
  Late(c) => /\ c \notin loaded
             /\ FunctionsOf[c] \subseteq registered
             /\ command.of = c => FailsAgain(c)

\* It stays so while the command is another component's.
LEMMA LateStill ==
  ASSUME NEW c \in Components, LateOf(c), command'.of # c,
         c \in loaded' => c \in loaded,
         events[c] \cap {"late failure"} = events'[c] \cap {"late failure"},
         registered \cap FunctionsOf[c] \subseteq registered'
  PROVE  LateOf(c)'
  <1>1. Late(c)' => Late(c)
    BY DEF Late, Barring
  <1> QED
    BY <1>1 DEF LateOf

\* After a late failure the functions stay, and init fails at the first.
LEMMA LateInvNext == ASSUME IInv, [Next]_vars PROVE LateInv'
  <1>0. /\ TypeOK /\ CommandInv /\ InstallInv /\ FailedInstallInv
        /\ \A c \in Components : LateOf(c)
        /\ \A c \in Components : set[c] \subseteq FunctionsOf[c] /\ set[c] \subseteq registered
    BY SetFacts DEF IInv, LateInv, LateOf, Late, FailsAgain, ListInv
  <1> SUFFICES ASSUME NEW c \in Components PROVE LateOf(c)'
    BY DEF LateInv, LateOf, Late, FailsAgain
  <1>1. ASSUME NEW d \in Components, InstallCommand(d) PROVE LateOf(c)'
    <2>1. /\ command'.of = d /\ loaded' = loaded /\ registered' = registered
          /\ todo' = InitSteps[d] /\ ~failed' /\ Becomes(set, set', d, {})
          /\ Becomes(events, events', d, events[d] \ {"uninstall failed", "list deleted"})
      BY <1>1, InstallCommandDoes
    <2>2. events[c] \cap {"late failure"} = events'[c] \cap {"late failure"}
      BY <2>1 DEF Becomes
    <2>3. CASE c = d
      <3>1. FailsAgain(c)'
        BY <2>1, <2>3 DEF FailsAgain, Becomes
      <3> QED
        BY <1>0, <2>1, <2>2, <3>1 DEF LateOf, Late, Barring
    <2>4. CASE c # d
      BY <1>0, <2>1, <2>2, <2>4, LateStill
    <2> QED
      BY <2>3, <2>4
  <1>2. ASSUME NEW d \in Components, UninstallCommand(d) PROVE LateOf(c)'
    <2>1. d \in loaded /\ command'.of = d /\ UNCHANGED <<loaded, registered, events>>
      BY <1>2, UninstallCommandDoes
    <2>2. CASE c = d
      BY <1>0, <2>1, <2>2 DEF LateOf, Late, Barring
    <2>3. CASE c # d
      BY <1>0, <2>1, <2>3, LateStill
    <2> QED
      BY <2>2, <2>3
  <1>3. CASE InstallEnds
    <2>1. /\ This \in Components /\ todo = <<>> /\ registered' = registered
          /\ command'.of # c
      BY <1>3, InstallEndsDoes
    <2>2. events[c] \cap {"late failure"} = events'[c] \cap {"late failure"}
      BY <1>3, InstallEndsDoes DEF Leaves, Becomes
    <2>3. CASE c # This \/ failed
      BY <1>0, <1>3, <2>1, <2>2, <2>3, LateStill, InstallEndsDoes
    <2>4. CASE c = This /\ ~failed
      <3>1. ~Late(c)
        BY <1>0, <2>1, <2>4, InitStarts DEF LateOf, FailsAgain, This
      <3> QED
        BY <2>2, <3>1 DEF LateOf, Late, Barring
    <2> QED
      BY <2>3, <2>4
  <1>4. CASE UninstallEnds
    <2>1. registered' = registered /\ command'.of # c /\ loaded' \subseteq loaded
      BY <1>4, UninstallEndsDoes
    <2>2. events[c] \cap {"late failure"} = events'[c] \cap {"late failure"}
      BY <1>4, UninstallEndsDoes DEF Leaves, Becomes
    <2> QED
      BY <1>0, <2>1, <2>2, LateStill
  <1>5. CASE command.op = "uninstall" /\ Stays
             /\ (\A d \in Components : events[d] \cap {"late failure"}
                                         = events'[d] \cap {"late failure"})
             /\ (\A d \in Components \ {This} :
                   registered \cap FunctionsOf[d] \subseteq registered')
    <2>1. CASE c = This
      <3>1. ~Late(c)
        BY <1>0, <1>5, <2>1 DEF LateOf, CommandInv, This
      <3> QED
        BY <1>5, <3>1 DEF LateOf, Late, Barring
    <2>2. CASE c # This
      BY <1>0, <1>5, <2>2, LateStill DEF Stays, This
    <2> QED
      BY <2>1, <2>2
  <1>6. CASE CleanupData
    BY <1>5, <1>6, CleanupDataDoes
  <1>7. CASE DeleteList
    BY <1>5, <1>7, DeleteListDoes DEF Becomes
  <1>8. CASE UnregistersMore
    <2>1. /\ command.op = "uninstall" /\ Stays /\ registered \subseteq registered' \cup {Name}
          /\ \A d \in Components \ {This} : Name \notin FunctionsOf[d]
      BY <1>8, UnregisterDoes, OwnName
    <2>2. \A d \in Components : events[d] \cap {"late failure"}
                                  = events'[d] \cap {"late failure"}
      BY <1>8, UnregisterDoes DEF Becomes
    <2> QED
      BY <1>5, <2>1, <2>2
  <1>9. CASE AddScalar
    <2>1. /\ command.op = "install" /\ ~failed /\ This \in Components
          /\ Stays /\ command'.of = This /\ loaded' = loaded
          /\ Name \in FunctionsOf[This] /\ events' = events
          /\ registered \subseteq registered' /\ Head(todo) \in LeftOf("add_scalar")
      BY <1>9, AddScalarDoes DEF Stays, LeftOf, Kind, This
    <2>2. CASE c # This
      BY <1>0, <2>1, <2>2, LateStill
    <2>3. CASE c = This /\ Late(c)
      <3>1. set[c] = {} /\ FunctionsOf[c] \subseteq registered /\ c \notin loaded
        BY <1>0, <2>1, <2>3 DEF LateOf, FailsAgain, This
      <3>2. failed' /\ set' = set /\ Left' = Range(UnregisterSteps(c))
        BY <1>9, <2>1, <2>3, <3>1, AddScalarDoes
      <3>3. FailsAgain(c)'
        BY <3>1, <3>2, UnregisterFacts DEF FailsAgain, LeftOf
      <3> QED
        BY <2>1, <3>1, <3>3 DEF LateOf
    <2>4. CASE c = This /\ ~Late(c)
      BY <2>1, <2>4 DEF LateOf, Late, Barring
    <2> QED
      BY <2>2, <2>3, <2>4
  <1>10. CASE RegistersMore
    <2>1. /\ command.op = "install" /\ This \in Components
          /\ Stays /\ command'.of = This /\ loaded' = loaded /\ set' = set
          /\ registered \subseteq registered' /\ Left = {Head(todo)} \cup Left'
          /\ Kind \in InitKinds \ {"add_scalar"} /\ Head(todo) \in Left
          /\ \A t \in Left : t.do # "add_scalar"
      BY <1>10, RegisterDoes DEF Stays, This
    <2>2. \A d \in Components \ {This} : events'[d] = events[d]
      BY <1>10, RegisterDoes DEF Becomes
    <2>3. CASE c # This
      BY <1>0, <2>1, <2>2, <2>3, LateStill
    <2>4. CASE c = This /\ Late(c)
      <3>1. /\ failed /\ c \notin loaded /\ FunctionsOf[c] \subseteq registered
            /\ set[c] = {} \/ LeftOf("udf_unregister") = {}
        BY <1>0, <2>1, <2>4, InitStarts DEF LateOf, FailsAgain, This, Kind
      <3>2. failed'
        BY <1>10, <3>1, RegisterDoes
      <3>3. FailsAgain(c)'
        BY <2>1, <3>1, <3>2 DEF FailsAgain, LeftOf
      <3> QED
        BY <2>1, <3>1, <3>3 DEF LateOf
    <2>5. CASE c = This /\ ~Late(c) /\ Late(c)'
      <3>1. failed'
        BY <1>10, <2>1, <2>5, RegisterDoes DEF Late, Barring, Becomes
      <3>2. ~failed
        BY <1>0, <2>1, <2>5, UnregisterFacts
        DEF FailedInstallInv, Late, This, Kind, InitKinds
      <3>3. Left \subseteq Range(InitSteps[c]) /\ c \notin loaded
        BY <1>0, <2>1, <2>5, <3>2 DEF CommandInv, This
      <3>4. FunctionsOf[c] \subseteq set[c]
        <4>1. ASSUME NEW u \in FunctionsOf[c] PROVE u \in set[c]
          <5>1. PICK t \in Range(InitSteps[c]) : t.do = "add_scalar" /\ t.what = u
            BY DEF FunctionsOf, Registers
          <5> QED
            BY <1>0, <2>1, <2>5, <3>2, <5>1 DEF InstallInv, This
        <4> QED
          BY <4>1
      <3>5. \A t \in Left' : t.do \in InitKinds /\ t.do # "add_scalar"
        BY <2>1, <3>3, InitFacts
      <3>6. FailsAgain(c)'
        BY <3>1, <3>5 DEF FailsAgain, LeftOf, InitKinds
      <3> QED
        BY <1>0, <2>1, <3>3, <3>4, <3>6 DEF LateOf
    <2>6. CASE c = This /\ ~Late(c)'
      BY <2>6 DEF LateOf
    <2> QED
      BY <2>3, <2>4, <2>5, <2>6
  <1>11. CASE UdfUnregister
    <2>1. /\ This \in Components /\ Stays /\ command'.of = This /\ loaded' = loaded
          /\ events' = events /\ Name \in FunctionsOf[This]
          /\ registered \subseteq registered' \cup {Name}
          /\ Head(todo) \in LeftOf("udf_unregister") /\ Left = {Head(todo)} \cup Left'
          /\ \A d \in Components \ {This} : Name \notin FunctionsOf[d]
      BY <1>11, UdfUnregisterDoes, OwnName DEF Stays, LeftOf, Kind, This
    <2>2. CASE c # This
      BY <1>0, <2>1, <2>2, LateStill
    <2>3. CASE c = This /\ Late(c)
      <3>1. c \notin loaded /\ FunctionsOf[c] \subseteq registered /\ FailsAgain(c)
        BY <1>0, <2>3 DEF LateOf, This
      <3>2. command.op = "install" /\ failed /\ failed'
        BY <1>0, <1>11, <2>3, <3>1, UdfUnregisterDoes DEF CommandInv, This
      <3>3. set[c] = {} /\ LeftOf("add_scalar") = {}
        BY <2>1, <3>1, <3>2 DEF FailsAgain
      <3>4. UNCHANGED <<registered, set>>
        BY <1>11, <2>3, <3>3, UdfUnregisterDoes
      <3>5. FailsAgain(c)'
        BY <2>1, <3>2, <3>3, <3>4 DEF FailsAgain, LeftOf
      <3> QED
        BY <2>1, <3>1, <3>4, <3>5 DEF LateOf
    <2>4. CASE c = This /\ ~Late(c)
      BY <2>1, <2>4 DEF LateOf, Late, Barring
    <2> QED
      BY <2>2, <2>3, <2>4
  <1>12. CASE TimerWakes \/ \E s \in Sessions : Call(s) \/ CallEnds(s)
    <2>1. UNCHANGED <<registered, loaded, set, command, todo, failed, Left>>
      BY <1>12, SessionsKeep DEF Quiet
    <2>2. Late(c)' => Late(c)
      BY <1>12, SessionsKeep DEF Late, Barring
    <2> QED
      BY <1>0, <2>1, <2>2 DEF LateOf, FailsAgain, LeftOf
  <1>13. CASE UNCHANGED vars
    BY <1>0, <1>13 DEF LateOf, FailsAgain, LeftOf, Left, Late, Barring, vars, server,
                       statics, progress, history
  <1> QED
    BY <1>1, <1>2, <1>3, <1>4, <1>6, <1>7, <1>8, <1>9, <1>10, <1>11, <1>12, <1>13, NextIs

\* What deinit has passed is not registered.
LEMMA UninstallInvNext == ASSUME IInv, [Next]_vars PROVE UninstallInv'
  <1>0. TypeOK /\ UninstallInv /\ CommandInv
    BY DEF IInv
  <1>1. CASE command'.op # "uninstall" \/ failed'
    BY <1>1 DEF UninstallInv
  <1>2. ASSUME NEW c \in Components, InstallCommand(c) PROVE command'.op # "uninstall"
    BY <1>2, InstallCommandDoes
  <1>3. CASE InstallEnds \/ UninstallEnds
    BY <1>1, <1>3, InstallEndsDoes, UninstallEndsDoes
  <1>4. CASE AddScalar \/ RegistersMore
    BY <1>1, <1>4, AddScalarDoes, RegisterDoes DEF Stays
  <1>5. ASSUME NEW c \in Components, UninstallCommand(c) PROVE UninstallInv'
    <2>1. /\ command'.of = c /\ Left' = Range(DeinitSteps(c))
          /\ UNCHANGED <<set, registered, events>>
      BY <1>5, UninstallCommandDoes
    <2>2. LeftOf("delete_list")' # {}
      BY <2>1, DeinitFacts DEF LeftOf
    <2>3. \A n \in NotFunctions(c) : \E t \in Left' : t.what = n /\ t.do \in Undo
      BY <2>1, DeinitFacts
    <2> QED
      BY <2>1, <2>2, <2>3 DEF UninstallInv
  <1>6. CASE CleanupData
    <2>1. /\ command.op = "uninstall" /\ ~failed /\ command' = command
          /\ Left = {Head(todo)} \cup Left' /\ Kind = "cleanup_profiler_data"
          /\ UNCHANGED <<set, registered, events>>
      BY <1>6, CleanupDataDoes DEF Stays
    <2>2. LeftOf("delete_list")' = LeftOf("delete_list")
          /\ \A t \in Left : t.do \in Undo => t \in Left'
      BY <2>1 DEF LeftOf, Kind, Undo
    <2> QED
      BY <1>0, <2>1, <2>2 DEF UninstallInv, Barring
  <1>7. CASE UdfUnregister
    <2>1. CASE command.op = "install"
      BY <1>1, <1>7, <2>1, UdfUnregisterDoes DEF Stays
    <2>2. CASE command.op = "uninstall"
      <3>1. /\ ~failed /\ command' = command /\ This \in Components
            /\ Left = {Head(todo)} \cup Left' /\ Kind = "udf_unregister"
            /\ registered' \subseteq registered /\ set'[This] \subseteq set[This]
            /\ events' = events
        BY <1>7, <2>2, UdfUnregisterDoes DEF Stays, Becomes
      <3>2. LeftOf("delete_list")' = LeftOf("delete_list")
            /\ \A t \in Left : t.do \in Undo => t \in Left'
        BY <3>1 DEF LeftOf, Kind, Undo
      <3> QED
        BY <1>0, <2>2, <3>1, <3>2 DEF UninstallInv, Barring, This
    <2> QED
      BY <1>7, <2>1, <2>2, UdfUnregisterDoes
  <1>8. CASE DeleteList
    <2>1. /\ command.op = "uninstall" /\ ~failed /\ command' = command
          /\ UNCHANGED <<set, registered>>
      BY <1>8, DeleteListDoes DEF Stays
    <2>2. CASE ~failed'
      <3>1. /\ set[This] = {} /\ events' = events
            /\ Left = {Head(todo)} \cup Left' /\ Kind = "delete_list"
        BY <1>8, <2>2, DeleteListDoes
      <3>2. \A t \in Left : t.do \in Undo => t \in Left'
        BY <3>1 DEF Kind, Undo
      <3> QED
        BY <1>0, <2>1, <3>1, <3>2 DEF UninstallInv, Barring, This
    <2> QED
      BY <1>1, <2>2
  <1>9. CASE UnregistersMore
    <2>1. /\ command.op = "uninstall" /\ ~failed /\ command' = command
          /\ set' = set /\ Name \in NotFunctions(This) /\ This \in Components
          /\ \A t \in Left : t.do \in Undo
      BY <1>9, UnregisterDoes DEF Stays
    <2>2. set[This] = {}
      BY <1>0, <2>1 DEF UninstallInv, LeftOf, This, Undo
    <2>3. CASE registered' = registered \ {Name} /\ Left = {Head(todo)} \cup Left'
               /\ events' = events
      BY <1>0, <2>1, <2>2, <2>3 DEF UninstallInv, Barring, This, Name
    <2>4. CASE Becomes(events, events', This, events[This] \cup {"ignored failure"})
      BY <2>1, <2>2, <2>4 DEF UninstallInv, Barring, This, Becomes
    <2> QED
      BY <1>1, <1>9, <2>3, <2>4, UnregisterDoes
  <1>10. CASE TimerWakes \/ \E s \in Sessions : Call(s) \/ CallEnds(s)
    <2>1. UNCHANGED <<registered, set, command, failed, Left>>
      BY <1>10, SessionsKeep DEF Quiet
    <2>2. command.op = "uninstall" => events[command.of] \subseteq events'[command.of]
      BY <1>0, <1>10, SessionsKeep, CommandFacts
    <2> QED
      BY <1>0, <2>1, <2>2 DEF UninstallInv, Barring, LeftOf
  <1>11. CASE UNCHANGED vars
    BY <1>0, <1>11
    DEF UninstallInv, Barring, LeftOf, Left, vars, server, statics, progress, history
  <1> QED
    BY <1>1, <1>2, <1>3, <1>4, <1>5, <1>6, <1>7, <1>8, <1>9, <1>10, <1>11, NextIs

\* A component with its list.
HasAll(c) ==
  /\ Barring(c, {"list deleted"}) => VariablesOf[c] \subseteq registered
  /\ c \in deleted => c = "profiler" /\ ~Barring(c, {"list deleted"})

\* Nothing is taken from it by other commands.
LEMMA ListedStill ==
  ASSUME ListedInv, NEW c \in Components,
         Listed(c)' => /\ Listed(c)
                       /\ events'[c] \cap {"list deleted"} = events[c] \cap {"list deleted"}
                       /\ registered \cap VariablesOf[c] \subseteq registered'
                       /\ c \in deleted' => c \in deleted
  PROVE  Listed(c)' => HasAll(c)'
  BY DEF ListedInv, HasAll, Barring

\* A component keeps its list and its variables until deinit deletes the list.
LEMMA ListedInvNext == ASSUME IInv, [Next]_vars PROVE ListedInv'
  <1>0. TypeOK /\ ListedInv /\ CommandInv /\ InstallInv
    BY DEF IInv
  <1> SUFFICES ASSUME NEW c \in Components PROVE Listed(c)' => HasAll(c)'
    BY DEF ListedInv, HasAll
  <1>1. ASSUME NEW d \in Components, InstallCommand(d) PROVE Listed(c)' => HasAll(c)'
    <2>1. /\ d \notin loaded /\ command.op = "none" /\ command'.of = d
          /\ UNCHANGED <<loaded, registered>> /\ deleted' \subseteq deleted
          /\ Becomes(events, events', d, events[d] \ {"uninstall failed", "list deleted"})
      BY <1>1, InstallCommandDoes
    <2>2. command.of # c
      BY <1>0, <2>1, CommandFacts
    <2>3. c # d => events'[c] = events[c]
      BY <2>1 DEF Becomes
    <2> QED
      BY <1>0, <2>1, <2>2, <2>3, ListedStill DEF Listed
  <1>2. ASSUME NEW d \in Components, UninstallCommand(d) PROVE Listed(c)' => HasAll(c)'
    <2>1. command.op = "none" /\ UNCHANGED <<loaded, registered, deleted, events>>
      BY <1>2, UninstallCommandDoes
    <2>2. command.of # c
      BY <1>0, <2>1, CommandFacts
    <2> QED
      BY <1>0, <2>1, <2>2, ListedStill DEF Listed
  <1>3. CASE InstallEnds
    <2>1. /\ This \in Components /\ command.op = "install" /\ Left = {}
          /\ UNCHANGED <<registered, deleted>> /\ This \notin loaded
      BY <1>0, <1>3, InstallEndsDoes DEF CommandInv, This
    <2>2. CASE c = This /\ ~failed
      <3>1. c \notin deleted
        BY <1>0, <2>1, <2>2 DEF InstallInv, This
      <3>2. VariablesOf[c] \subseteq registered
        <4>1. ASSUME NEW n \in VariablesOf[c] PROVE n \in registered
          <5>1. PICK t \in Range(InitSteps[c]) : t.do = "register_variable" /\ t.what = n
            BY DEF VariablesOf, Registers
          <5> QED
            BY <1>0, <2>1, <2>2, <5>1 DEF InstallInv, This
        <4> QED
          BY <4>1
      <3> QED
        BY <2>1, <3>1, <3>2 DEF HasAll
    <2>3. CASE c = This /\ failed
      BY <1>3, <2>1, <2>3, InstallEndsDoes DEF Listed
    <2>4. CASE c # This
      <3>1. c \in loaded' => c \in loaded
        BY <1>3, <2>4, InstallEndsDoes
      <3>2. events'[c] = events[c]
        BY <1>3, <2>4, InstallEndsDoes DEF Becomes, Leaves
      <3> QED
        BY <1>0, <2>1, <2>4, <3>1, <3>2, ListedStill DEF Listed, This
    <2> QED
      BY <2>2, <2>3, <2>4
  <1>4. CASE UninstallEnds
    <2>1. /\ This \in Components /\ UNCHANGED <<registered, deleted>>
          /\ loaded' \subseteq loaded
          /\ failed \/ This \notin loaded'
      BY <1>4, UninstallEndsDoes
    <2>2. events'[c] \cap {"list deleted"} = events[c] \cap {"list deleted"}
      BY <1>4, UninstallEndsDoes DEF Becomes, Leaves
    <2> QED
      BY <1>0, <2>1, <2>2, ListedStill DEF Listed, This
  <1>5. CASE AddScalar \/ RegistersMore
    <2>1. /\ This \in Components /\ Stays /\ registered \subseteq registered'
          /\ deleted' = deleted /\ This \notin loaded
          /\ \A d \in Components \ {This} : events'[d] = events[d]
      BY <1>0, <1>5, AddScalarDoes, RegisterDoes DEF CommandInv, This, Becomes
    <2> QED
      BY <1>0, <2>1, ListedStill DEF Listed, Stays, This
  <1>6. CASE CleanupData
    <2>1. /\ Stays /\ ~failed' /\ Left' \subseteq Left
          /\ UNCHANGED <<registered, deleted, events>>
      BY <1>6, CleanupDataDoes
    <2> QED
      BY <1>0, <2>1, ListedStill DEF Listed, Stays, LeftOf
  <1>7. CASE UdfUnregister
    <2>1. /\ Stays /\ Left' \subseteq Left /\ UNCHANGED <<deleted, events>>
          /\ This \in Components /\ Name \in FunctionsOf[This]
          /\ registered \subseteq registered' \cup {Name} /\ (failed' => failed)
      BY <1>7, UdfUnregisterDoes
    <2>2. Name \notin VariablesOf[c]
      <3>1. Name \notin VariablesOf[This]
        BY <2>1, NameFacts DEF NotFunctions
      <3> QED
        BY <2>1, <3>1, OwnName
    <2> QED
      BY <1>0, <2>1, <2>2, ListedStill DEF Listed, Stays, LeftOf
  <1>8. CASE DeleteList
    <2>1. /\ This \in Components /\ Stays /\ registered' = registered
          /\ Head(todo) \in LeftOf("delete_list")
      BY <1>8, DeleteListDoes DEF LeftOf, Kind
    <2>2. events'[c] \cap {"list deleted"} = events[c] \cap {"list deleted"}
      BY <1>8, DeleteListDoes DEF Becomes
    <2>3. CASE c # This
      <3>1. c \in deleted' => c \in deleted
        BY <1>8, <2>3, DeleteListDoes
      <3> QED
        BY <1>0, <2>1, <2>2, <2>3, <3>1, ListedStill DEF Listed, Stays, This
    <2>4. CASE c = This /\ failed'
      <3>1. deleted' = deleted
        BY <1>8, <2>4, DeleteListDoes
      <3> QED
        BY <1>0, <2>1, <2>2, <2>4, <3>1, ListedStill DEF Listed, Stays
    <2>5. CASE c = This /\ ~failed'
      <3>1. \A t \in Left' : t.do \in Undo
        BY <1>8, <2>5, DeleteListDoes
      <3> QED
        BY <2>1, <2>5, <3>1 DEF Listed, LeftOf, Undo, Stays, This
    <2> QED
      BY <2>3, <2>4, <2>5
  <1>9. CASE UnregistersMore
    <2>1. /\ This \in Components /\ Stays /\ deleted' = deleted
          /\ registered \subseteq registered' \cup {Name}
          /\ \A d \in Components \ {This} : Name \notin VariablesOf[d]
      BY <1>9, UnregisterDoes, OwnName
    <2>2. CASE c # This
      <3>1. events'[c] = events[c]
        BY <1>9, <2>2, UnregisterDoes DEF Becomes
      <3> QED
        BY <1>0, <2>1, <2>2, <3>1, ListedStill DEF Listed, Stays, This
    <2>3. CASE c = This /\ ~failed'
      <3>1. \A t \in Left' : t.do \in Undo
        BY <1>9, <2>3, UnregisterDoes
      <3> QED
        BY <2>1, <2>3, <3>1 DEF Listed, LeftOf, Undo, Stays, This
    <2>4. CASE c = This /\ failed'
      <3>1. c = "profiler" /\ "list deleted" \in events'[c]
        BY <1>9, <2>4, UnregisterDoes DEF Becomes
      <3> QED
        BY <3>1 DEF HasAll, Barring
    <2> QED
      BY <2>2, <2>3, <2>4
  <1>10. CASE TimerWakes \/ \E s \in Sessions : Call(s) \/ CallEnds(s)
    <2>1. UNCHANGED <<loaded, registered, deleted, command, failed, Left>>
      BY <1>10, SessionsKeep DEF Quiet
    <2>2. events'[c] \cap {"list deleted"} = events[c] \cap {"list deleted"}
      BY <1>10, SessionsKeep
    <2> QED
      BY <1>0, <2>1, <2>2, ListedStill DEF Listed, LeftOf
  <1>11. CASE UNCHANGED vars
    BY <1>0, <1>11, ListedStill
    DEF Listed, LeftOf, Left, vars, server, statics, progress, history
  <1> QED
    BY <1>1, <1>2, <1>3, <1>4, <1>5, <1>6, <1>7, <1>8, <1>9, <1>10, <1>11, NextIs

-----------------------------------------------------------------------------
(* The invariant holds. *)

\* The invariant holds when the server starts: nothing is installed.
LEMMA Initially == Init => IInv
  <1> SUFFICES ASSUME Init PROVE IInv
    OBVIOUS
  <1>1. /\ command.op = "none" /\ command.of = "none" /\ "none" \notin Components
        /\ command = NoCommand
    BY DEF Init, NoCommand, Components
  <1>2. Left = {}
    BY DEF Init, Left, Range
  <1>3. /\ loaded = {} /\ registered = {} /\ deleted = {} /\ used \subseteq Components
        /\ \A c \in Components : set[c] = {} /\ events[c] = {}
        /\ rows = "none" /\ ~asleep /\ ~misused /\ ~failed /\ todo = <<>>
        /\ \A s \in Sessions : call[s] = NoCall
    BY DEF Init
  <1>4. TypeOK
    BY <1>1, <1>3 DEF Init, TypeOK
  <1>5. TodoInv
    BY <1>3 DEF TodoInv, InOrder
  <1>6. CommandInv /\ InstallInv /\ FailedInstallInv /\ UninstallInv
    BY <1>1, <1>3 DEF CommandInv, InstallInv, FailedInstallInv, UninstallInv
  <1>7. ListInv
    BY <1>3 DEF ListInv
  <1>8. LateInv
    BY <1>3 DEF LateInv, Barring
  <1>9. ListedInv
    BY <1>3 DEF ListedInv, Listed
  <1>10. UnloadedLeavesNothing /\ InstalledIsWhole
    BY <1>3 DEF UnloadedLeavesNothing, InstalledIsWhole
  <1>11. RecordsDeletedOnce /\ CallInv /\ RowsInv /\ AsleepInv
    BY <1>3 DEF RecordsDeletedOnce, CallInv, RowsInv, AsleepInv
  <1> QED
    BY <1>4, <1>5, <1>6, <1>7, <1>8, <1>9, <1>10, <1>11 DEF IInv

\* Every step keeps the invariant.
LEMMA Preserved == IInv /\ [Next]_vars => IInv'
  <1> SUFFICES ASSUME IInv, [Next]_vars PROVE IInv'
    OBVIOUS
  <1>1. TypeOK' /\ TodoInv' /\ CommandInv' /\ ListInv'
    BY TypeOKNext, TodoInvNext, CommandInvNext, ListInvNext
  <1>2. InstallInv' /\ FailedInstallInv' /\ LateInv' /\ UninstallInv' /\ ListedInv'
    BY InstallInvNext, FailedInstallNext, LateInvNext, UninstallInvNext, ListedInvNext
  <1>3. UnloadedLeavesNothing' /\ InstalledIsWhole' /\ RecordsDeletedOnce'
    BY UnloadedNext, WholeNext, RecordsNext
  <1>4. CallInv' /\ RowsInv' /\ AsleepInv'
    BY CallInvNext, RowsInvNext, AsleepInvNext
  <1> QED
    BY <1>1, <1>2, <1>3, <1>4 DEF IInv

\* The inductive invariant holds in every state: what the rest of the command
\* under way can still do, and what it has passed, explain what is registered.
THEOREM Invariance == Spec => []IInv
  BY Initially, Preserved, PTL DEF Spec

\* A function a session is inside is one of its component's, is registered,
\* and its component is in memory, unless it was called while init ran.
LEMMA CallFacts ==
  ASSUME IInv, NEW s \in Sessions, call[s] # NoCall
  PROVE  LET c == Owner[call[s]]
         IN  /\ c \in Components /\ call[s] \in FunctionsOf[c] \cap registered
             /\ Barring(c, {"late failure", "early call"}) => c \in loaded
  <1> DEFINE c == Owner[call[s]]
  <1>1. call[s] \in Functions
    <2>1. call[s] \in {NoCall} \cup UNION {FunctionsOf[d] : d \in used}
      BY DEF IInv, TypeOK
    <2>2. used \subseteq Components
      BY DEF IInv, TypeOK
    <2> QED
      BY <2>1, <2>2 DEF Functions
  <1>2. c \in Components /\ call[s] \in FunctionsOf[c]
    BY <1>1, NameFacts
  <1>3. /\ call[s] \in registered
        /\ command.op = "install" /\ command.of = c =>
             ~Barring(c, {"late failure", "early call"})
    BY <1>2 DEF IInv, CallInv
  <1>4. Barring(c, {"late failure", "early call"}) => c \in loaded
    <2> SUFFICES ASSUME Barring(c, {"late failure", "early call"}) PROVE c \in loaded
      OBVIOUS
    <2>1. InMemory(c)
      BY <1>2, <1>3 DEF IInv, UnloadedLeavesNothing
    <2>2. TypeOK /\ CommandInv
      BY DEF IInv
    <2>3. CASE command.of = c
      <3>1. command.op = "uninstall"
        BY <1>2, <1>3, <2>2, <2>3, CommandFacts
      <3> QED
        BY <2>2, <2>3, <3>1 DEF CommandInv
    <2> QED
      BY <2>1, <2>3 DEF InMemory
  <1> QED
    BY <1>2, <1>3, <1>4

\* With the invariant, running code is in memory.
LEMMA RunningFollows == IInv => RunningCodeIsInMemory
  <1> SUFFICES ASSUME IInv PROVE RunningCodeIsInMemory
    OBVIOUS
  <1>1. ASSUME NEW s \in Sessions, call[s] # NoCall
        PROVE  \/ InMemory(Owner[call[s]])
               \/ ~Barring(Owner[call[s]], {"late failure", "early call"})
    BY <1>1, CallFacts DEF InMemory
  <1>2. asleep => InMemory("memory") \/ ~Barring("memory", {"timer asleep"})
    BY DEF IInv, AsleepInv
  <1> QED
    BY <1>1, <1>2 DEF RunningCodeIsInMemory

\* With the invariant, what a function reads is registered: its component's
\* list has not been deleted, because it names the function.
LEMMA VariablesFollow == IInv => CallsFindVariables
  <1> SUFFICES ASSUME IInv, NEW s \in Sessions, call[s] # NoCall,
                      \A c \in {Owner[call[s]], "profiler"} :
                        Barring(c, {"late failure", "early call", "list deleted"})
               PROVE  \A c \in {Owner[call[s]], "profiler"} : VariablesOf[c] \subseteq registered
    BY DEF CallsFindVariables
  <1> DEFINE c == Owner[call[s]]
  <1>1. /\ TypeOK /\ CommandInv /\ ListInv /\ UninstallInv /\ ListedInv
    BY DEF IInv
  <1>2. /\ Barring(c, {"late failure", "early call"}) /\ Barring(c, {"list deleted"})
        /\ Barring("profiler", {"list deleted"})
    BY DEF Barring
  <1>3. c \in Components /\ call[s] \in FunctionsOf[c] \cap registered /\ c \in loaded
    BY <1>2, CallFacts
  <1>4. Listed(c)
    <2> SUFFICES ASSUME command.of = c, ~failed PROVE LeftOf("delete_list") # {}
      BY <1>3 DEF Listed
    <2>1. command.op = "uninstall"
      BY <1>1, <1>3, CommandFacts DEF CommandInv
    <2>2. set[c] # {}
      BY <1>1, <1>3 DEF ListInv
    <2> QED
      BY <1>1, <2>1, <2>2 DEF UninstallInv
  <1>5. VariablesOf[c] \subseteq registered
    BY <1>1, <1>2, <1>3, <1>4 DEF ListedInv
  <1>6. CASE c # "profiler"
    <2>1. "profiler" \in loaded /\ "profiler" \in Components
      BY <1>1, <1>3 DEF CommandInv, Components
    <2>2. command.of # "profiler"
      BY <1>1, <1>3, <1>6, <2>1, CommandFacts DEF CommandInv
    <2>3. Listed("profiler")
      BY <2>1, <2>2 DEF Listed
    <2> QED
      BY <1>1, <1>2, <1>5, <2>1, <2>3 DEF ListedInv
  <1> QED
    BY <1>5, <1>6

\* With the invariant, deinit finds its list.
LEMMA ListFollows == IInv => DeinitFindsList
  <1> SUFFICES ASSUME IInv, NEW c \in loaded, command.of # c, c \in deleted
               PROVE  c = "profiler" /\ ~Barring(c, {"list deleted"})
    BY DEF DeinitFindsList
  <1>1. c \in Components /\ Listed(c)
    BY DEF IInv, TypeOK, Listed
  <1> QED
    BY <1>1 DEF IInv, ListedInv

\* Every variable stays in its range; no command is under way while steps are left.
THEOREM TypeCorrect == Spec => []TypeOK
  BY Invariance, PTL DEF IInv

\* A component that is not in memory has left nothing registered, but for the
\* failures that init does not take back.
THEOREM NothingLeft == Spec => []UnloadedLeavesNothing
  BY Invariance, PTL DEF IInv

\* An installed component has everything registered and a list that tells
\* UNINSTALL, also a second one, what there is to unregister.
THEOREM InstalledWhole == Spec => []InstalledIsWhole
  BY Invariance, PTL DEF IInv

\* Calls and timers run code that is in memory, in every interleaving with
\* INSTALL and UNINSTALL.
THEOREM RunsInMemory == Spec => []RunningCodeIsInMemory
  BY Invariance, RunningFollows, PTL

\* A function finds the system variables it reads.
THEOREM VariablesFound == Spec => []CallsFindVariables
  BY Invariance, VariablesFollow, PTL

\* deinit, also a second one, finds the list of functions.
THEOREM ListFound == Spec => []DeinitFindsList
  BY Invariance, ListFollows, PTL

\* No record of the profiler's table is deleted twice.
THEOREM DeletedOnce == Spec => []RecordsDeletedOnce
  BY Invariance, PTL DEF IInv

\* A component whose init failed late stays out until the server restarts.
THEOREM LateIsFinal == Spec => []LateFailureIsFinal
  <1>1. IInv => LateFailureIsFinal
    BY DEF IInv, TypeOK, LateInv, LateFailureIsFinal
  <1> QED
    BY <1>1, Invariance, PTL

=============================================================================
