------------------------------ MODULE Lifecycle ------------------------------
(***************************************************************************)
(* INSTALL COMPONENT and UNINSTALL COMPONENT of the four components: what  *)
(* their init and deinit functions register with the server and take back, *)
(* step by step, while sessions call functions that are registered and     *)
(* timer threads of profiler_memory sleep.                                 *)
(*                                                                         *)
(* A command is the sequence of steps its component still has to do        *)
(* (todo); an action is the next step.  The server is external: it runs    *)
(* one command at a time, loads a component with fresh statics, unloads it *)
(* when init fails or deinit succeeds, keeps it when deinit fails (which   *)
(* the code's "some UDFs still in use" relies on), and does not uninstall  *)
(* a component whose services others use.  A name is registered once, a    *)
(* function in use is not unregistered; any other call may fail.           *)
(***************************************************************************)
EXTENDS FiniteSets, Sequences, SequencesExt

CONSTANTS Sessions,  \* client sessions
          MaxUsed,   \* bound: components one behaviour installs
          NoCall     \* the session is not inside a function

Components == {"profiler", "cpu", "memory", "jemalloc"}
NoCommand == [op |-> "none", of |-> "none"]
Events == {"early call", "late failure", "ignored failure",
           "uninstall failed", "list deleted", "timer asleep"}

VARIABLES
  used,        \* the components this server ever installs
  loaded,      \* the components that are installed
  registered,  \* names registered with the server
  set,         \* set[c]: the functions in c's udf_list
  deleted,     \* components whose pointer `list' is to a deleted object
  rows,        \* the records of profiler_array: "none", "live" or "dangling"
  command,     \* the command under way and its component
  todo,        \* the steps it still has to do
  failed,      \* it will return 1
  call,        \* call[s]: the function a session is inside
  asleep,      \* timer threads of profiler_memory sleep, one or more
  \* history
  events,      \* events[c]: what went wrong with c since it was loaded
  misused      \* a record that had been deleted was deleted again

server == <<loaded, registered>>
statics == <<set, deleted, rows>>
progress == <<command, todo, failed>>
users == <<call, asleep>>
history == <<events, misused>>
vars == <<used, server, statics, progress, users, history>>

-----------------------------------------------------------------------------
(* init and deinit of each component, as sequences of steps. *)

Steps(do, names) == [i \in DOMAIN names |-> [do |-> do, what |-> names[i]]]

\* The functions of each component, in the order they are registered in.
Udfs ==
  [profiler |-> <<"PROFILER_CLEANUP">>,
   cpu |-> <<"CPUPROF_START", "CPUPROF_STOP", "CPUPROF_REPORT">>,
   memory |-> <<"MEMPROF_START", "MEMPROF_STOP", "MEMPROF_DUMP",
                "MEMPROF_REPORT", "MEMPROF_DIFF">>,
   jemalloc |-> <<"MEMPROF_JEMALLOC_START", "MEMPROF_JEMALLOC_STOP",
                  "MEMPROF_JEMALLOC_DUMP", "MEMPROF_JEMALLOC_REPORT">>]

ProfilerInit ==
  Steps("add_scalar", Udfs["profiler"])
    \o Steps("register_variable", <<"dump_path", "pprof_binary">>)
    \o Steps("add_tables", <<"profiler_actions">>)

CpuInit ==
  Steps("add_scalar", Udfs["cpu"]) \o Steps("register_status", <<"cpu_status">>)

MemoryInit ==
  Steps("add_scalar", Udfs["memory"]) \o Steps("register_status", <<"memory_status">>)

JemallocInit ==
  Steps("add_scalar", Udfs["jemalloc"])
    \o Steps("register_status", <<"jemalloc_status">>)
    \o Steps("register_variable", <<"jeprof_binary">>)

InitSteps ==
  [c \in Components |-> CASE c = "profiler" -> ProfilerInit
                          [] c = "cpu" -> CpuInit
                          [] c = "memory" -> MemoryInit
                          [] c = "jemalloc" -> JemallocInit]

\* The names init registers with one kind of step.
Registers(c, do) == {step.what : step \in {t \in Range(InitSteps[c]) : t.do = do}}

FunctionsOf == [c \in Components |-> Registers(c, "add_scalar")]
VariablesOf == [c \in Components |-> Registers(c, "register_variable")]
Names == [c \in Components |-> {step.what : step \in Range(InitSteps[c])}]
Functions == UNION {FunctionsOf[c] : c \in Components}
Owner == [u \in Functions |-> CHOOSE c \in Components : u \in FunctionsOf[c]]

\* A session that is inside no function is told from one that is.
ASSUME NoCallIsNone == NoCall \notin Functions

\* udf_list::unregister, also called by the destructor, tries every function
\* that is in the list.
UnregisterSteps(c) == Steps("udf_unregister", Udfs[c])

\* A defective ProfilerDeinit: the variables go before the function using them.
VariablesFirst ==
  Steps("cleanup_profiler_data", <<"profiler_actions">>)
    \o Steps("unregister_variable", <<"dump_path", "pprof_binary">>)
    \o UnregisterSteps("profiler") \o Steps("delete_list", <<"profiler">>)
    \o Steps("delete_tables", <<"profiler_actions">>)

\* A defective ProfilerDeinit: the records are deleted again with the table.
CleanupTwice ==
  Steps("cleanup_profiler_data", <<"profiler_actions">>)
    \o UnregisterSteps("profiler") \o Steps("delete_list", <<"profiler">>)
    \o Steps("unregister_variable", <<"dump_path", "pprof_binary">>)
    \o Steps("delete_tables", <<"profiler_actions">>)
    \o Steps("cleanup_profiler_data", <<"profiler_actions">>)

ProfilerDeinit ==
  Steps("cleanup_profiler_data", <<"profiler_actions">>)
    \o UnregisterSteps("profiler") \o Steps("delete_list", <<"profiler">>)
    \o Steps("unregister_variable", <<"dump_path", "pprof_binary">>)
    \o Steps("delete_tables", <<"profiler_actions">>)

CpuDeinit ==
  UnregisterSteps("cpu") \o Steps("delete_list", <<"cpu">>)
    \o Steps("unregister_status", <<"cpu_status">>)

MemoryDeinit ==
  UnregisterSteps("memory") \o Steps("delete_list", <<"memory">>)
    \o Steps("unregister_status", <<"memory_status">>)

JemallocDeinit ==
  UnregisterSteps("jemalloc") \o Steps("delete_list", <<"jemalloc">>)
    \o Steps("unregister_status", <<"jemalloc_status">>)
    \o Steps("unregister_variable", <<"jeprof_binary">>)

DeinitSteps(c) ==
  CASE c = "profiler" -> ProfilerDeinit
    [] c = "cpu" -> CpuDeinit
    [] c = "memory" -> MemoryDeinit
    [] c = "jemalloc" -> JemallocDeinit

-----------------------------------------------------------------------------
Init ==
  /\ used \in {C \in SUBSET Components : "profiler" \in C /\ Cardinality(C) <= MaxUsed}
  /\ loaded = {}
  /\ registered = {}
  /\ set = [c \in Components |-> {}]
  /\ deleted = {}
  /\ rows = "none"
  /\ command = NoCommand
  /\ todo = <<>>
  /\ failed = FALSE
  /\ call = [s \in Sessions |-> NoCall]
  /\ asleep = FALSE
  /\ events = [c \in Components |-> {}]
  /\ misused = FALSE

-----------------------------------------------------------------------------
(* INSTALL COMPONENT *)

\* The server loads the library; the services it requires must be there.
InstallCommand(c) ==
  /\ command = NoCommand
  /\ c \in used \ loaded
  /\ c # "profiler" => "profiler" \in loaded
  /\ command' = [op |-> "install", of |-> c]
  /\ todo' = InitSteps[c]
  /\ set' = [set EXCEPT ![c] = {}]
  /\ deleted' = deleted \ {c}
  /\ rows' = IF c = "profiler" THEN "none" ELSE rows
  /\ events' = [events EXCEPT ![c] = @ \ {"uninstall failed", "list deleted"}]
  /\ misused' = (misused /\ c # "profiler")
  /\ UNCHANGED <<used, server, failed, users>>

\* c leaves the memory; nothing asks whether a timer thread still sleeps.
Unloaded(c) ==
  events' = IF c = "memory" /\ asleep
            THEN [events EXCEPT ![c] = @ \cup {"timer asleep"}] ELSE events

\* init has returned.
InstallEnds ==
  /\ command.op = "install" /\ todo = <<>>
  /\ IF failed
     THEN loaded' = loaded /\ Unloaded(command.of)
     ELSE /\ loaded' = loaded \cup {command.of}
          /\ events' = [events EXCEPT ![command.of] = @ \ {"early call"}]
  /\ command' = NoCommand
  /\ failed' = FALSE
  /\ UNCHANGED <<used, registered, statics, todo, users, misused>>

-----------------------------------------------------------------------------
(* The steps of init and deinit.  This is the component of the command and *)
(* Name what the next step is about.                                       *)

This == command.of
Name == Head(todo).what

Step(kind) ==
  /\ todo # <<>>
  /\ Head(todo).do = kind
  /\ UNCHANGED <<used, loaded, command, users>>

Advance == todo' = Tail(todo) /\ UNCHANGED failed

\* The function still does rest and returns 1.
ReturnError(rest) == todo' = rest /\ failed' = TRUE

Register == registered' = registered \cup {Name}
Unregister == registered' = registered \ {Name}
InUse(u) == \E s \in Sessions : call[s] = u

Note(what) ==
  /\ events' = [events EXCEPT ![This] = @ \cup what]
  /\ UNCHANGED misused

\* A defective AddScalar: the function is put in the list although the server
\* has not registered it.
AddScalarAnyway ==
  /\ Step("add_scalar")
  /\ set' = [set EXCEPT ![This] = @ \cup {Name}]
  /\ \/ Name \notin registered /\ Register /\ Advance
     \/ ReturnError(UnregisterSteps(This)) /\ UNCHANGED registered
  /\ UNCHANGED <<deleted, rows, history>>

\* A defective AddScalar: one list for all libraries, as the global name
\* `list' that they all define would be if they shared their symbols.
AddScalarShared ==
  /\ Step("add_scalar")
  /\ \/ /\ Name \notin registered /\ Register
        /\ set' = [set EXCEPT !["profiler"] = @ \cup {Name}]
        /\ Advance
     \/ ReturnError(UnregisterSteps(This)) /\ UNCHANGED <<registered, set>>
  /\ UNCHANGED <<deleted, rows, history>>

\* udf_list::add_scalar.  If it fails, init deletes the list and ends.
AddScalar ==
  /\ Step("add_scalar")
  /\ \/ /\ Name \notin registered /\ Register
        /\ set' = [set EXCEPT ![This] = @ \cup {Name}]
        /\ Advance
     \/ ReturnError(UnregisterSteps(This)) /\ UNCHANGED <<registered, set>>
  /\ UNCHANGED <<deleted, rows, history>>

\* register_status_variables: its result is ignored.
RegisterStatus ==
  /\ Step("register_status")
  /\ \/ Register /\ UNCHANGED history
     \/ Note({"ignored failure"}) /\ UNCHANGED registered
  /\ Advance
  /\ UNCHANGED statics

\* A defective RegisterVariable: the failure does not reach the result.
VariableFailureLost ==
  /\ Step("register_variable")
  /\ \/ Name \notin registered /\ Register /\ UNCHANGED history
     \/ Note({"late failure"}) /\ UNCHANGED registered
  /\ Advance
  /\ UNCHANGED statics

\* A failure is remembered in the result; init goes on.
RegisterVariable ==
  /\ Step("register_variable")
  /\ \/ Name \notin registered /\ Register /\ Advance /\ UNCHANGED history
     \/ ReturnError(Tail(todo)) /\ Note({"late failure"}) /\ UNCHANGED registered
  /\ UNCHANGED statics

\* init_profiler_data and add_tables.
AddTables ==
  /\ Step("add_tables")
  /\ rows' = "none"
  /\ \/ Name \notin registered /\ Register /\ Advance /\ UNCHANGED history
     \/ ReturnError(<<>>) /\ Note({"late failure"}) /\ UNCHANGED registered
  /\ UNCHANGED <<set, deleted>>

\* cleanup_profiler_data deletes every record and keeps the pointers.
CleanupData ==
  /\ Step("cleanup_profiler_data")
  /\ rows' = IF rows = "live" THEN "dangling" ELSE rows
  /\ misused' = (misused \/ rows = "dangling")
  /\ Advance
  /\ UNCHANGED <<registered, set, deleted, events>>

\* A defective UdfUnregister: it forgets functions the server keeps.
UdfForget ==
  /\ Step("udf_unregister")
  /\ set' = [set EXCEPT ![This] = @ \ {Name}]
  /\ IF Name \in set[This] /\ ~InUse(Name) THEN Unregister ELSE UNCHANGED registered
  /\ Advance
  /\ UNCHANGED <<deleted, rows, history>>

\* The server refuses to unregister a function that is in use.
UdfUnregister ==
  /\ Step("udf_unregister")
  /\ \/ /\ Name \in set[This] /\ ~InUse(Name)
        /\ Unregister
        /\ set' = [set EXCEPT ![This] = @ \ {Name}]
     \/ /\ Name \notin set[This] \/ InUse(Name)
        /\ UNCHANGED <<registered, set>>
  /\ Advance
  /\ UNCHANGED <<deleted, rows, history>>

\* A defective DeleteList: deinit deletes the list before it knows whether
\* it will fail.
DeleteListFirst ==
  /\ Step("delete_list")
  /\ deleted' = deleted \cup {This}
  /\ IF set[This] # {}
     THEN ReturnError(<<>>) /\ Note({"uninstall failed"})
     ELSE Advance /\ UNCHANGED history
  /\ UNCHANGED <<registered, set, rows>>

\* A defective DeleteList: functions still in use are not noticed.
DeleteListAnyway ==
  /\ Step("delete_list")
  /\ deleted' = deleted \cup {This}
  /\ Advance
  /\ UNCHANGED <<registered, set, rows, history>>

\* Functions still in the list end deinit with an error.
DeleteList ==
  /\ Step("delete_list")
  /\ IF set[This] # {}
     THEN /\ ReturnError(<<>>)
          /\ Note({"uninstall failed"})
          /\ UNCHANGED deleted
     ELSE /\ deleted' = deleted \cup {This}
          /\ Advance
          /\ UNCHANGED history
  /\ UNCHANGED <<registered, set, rows>>

\* unregister_status_variables: its result is ignored.
UnregisterStatus ==
  /\ Step("unregister_status")
  /\ \/ Unregister /\ UNCHANGED history
     \/ Note({"ignored failure"}) /\ UNCHANGED registered
  /\ Advance
  /\ UNCHANGED statics

\* Only the component profiler returns the error.
UnregisterVariable ==
  /\ Step("unregister_variable")
  /\ \/ Name \in registered /\ Unregister /\ Advance /\ UNCHANGED history
     \/ /\ This = "profiler"
        /\ ReturnError(<<>>)
        /\ Note({"uninstall failed", "list deleted"})
        /\ UNCHANGED registered
     \/ /\ This # "profiler"
        /\ Advance
        /\ Note({"ignored failure"})
        /\ UNCHANGED registered
  /\ UNCHANGED statics

DeleteTables ==
  /\ Step("delete_tables")
  /\ \/ Name \in registered /\ Unregister /\ Advance /\ UNCHANGED history
     \/ /\ ReturnError(<<>>)
        /\ Note({"uninstall failed", "list deleted"})
        /\ UNCHANGED registered
  /\ UNCHANGED statics

-----------------------------------------------------------------------------
(* UNINSTALL COMPONENT *)

\* The three profilers use services of the component profiler.
UninstallCommand(c) ==
  /\ command = NoCommand
  /\ c \in loaded
  /\ c = "profiler" => loaded = {"profiler"}
  /\ command' = [op |-> "uninstall", of |-> c]
  /\ todo' = DeinitSteps(c)
  /\ UNCHANGED <<used, server, statics, failed, users, history>>

\* deinit has returned.
UninstallEnds ==
  /\ command.op = "uninstall" /\ todo = <<>>
  /\ IF failed
     THEN UNCHANGED <<loaded, events>>
     ELSE loaded' = loaded \ {command.of} /\ Unloaded(command.of)
  /\ command' = NoCommand
  /\ failed' = FALSE
  /\ UNCHANGED <<used, registered, statics, todo, users, misused>>

-----------------------------------------------------------------------------
(* Sessions and timers *)

\* The library of c is in memory.
InMemory(c) == c \in loaded \/ command.of = c

\* A session enters a function that is registered, also while init runs.
Call(s) ==
  /\ call[s] = NoCall
  /\ \E u \in registered \cap Functions :
       /\ call' = [call EXCEPT ![s] = u]
       /\ events' = IF command = [op |-> "install", of |-> Owner[u]]
                    THEN [events EXCEPT ![Owner[u]] = @ \cup {"early call"}]
                    ELSE events
  /\ UNCHANGED <<used, server, statics, progress, asleep, misused>>

\* profiler_pfs.add, by code of component c that is in memory: it deletes the
\* record whose slot it takes.
AddRow(c) ==
  /\ InMemory(c)
  /\ rows' = IF rows = "none" THEN "live" ELSE rows
  /\ misused' = (misused \/ rows = "dangling")

\* The call ends, with a row in the table or (refused) without; a timed
\* memprof_start leaves a timer thread.  profiler_cleanup adds no row.
CallEnds(s) ==
  /\ call[s] # NoCall
  /\ call' = [call EXCEPT ![s] = NoCall]
  /\ \/ UNCHANGED <<rows, misused, asleep>>
     \/ /\ call[s] \notin FunctionsOf["profiler"]
        /\ AddRow(Owner[call[s]])
        /\ asleep' \in {asleep, asleep \/ call[s] = "MEMPROF_START"}
  /\ UNCHANGED <<used, server, set, deleted, progress, events>>

\* One timer wakes; others may sleep on.
TimerWakes ==
  /\ asleep
  /\ asleep' \in BOOLEAN
  /\ AddRow("memory") \/ (~InMemory("memory") /\ UNCHANGED <<rows, misused>>)
  /\ UNCHANGED <<used, server, set, deleted, progress, call, events>>

-----------------------------------------------------------------------------
Install == (\E c \in Components : InstallCommand(c)) \/ InstallEnds

Uninstall == (\E c \in Components : UninstallCommand(c)) \/ UninstallEnds

InitStep == AddScalar \/ RegisterStatus \/ RegisterVariable \/ AddTables

DeinitStep ==
  \/ CleanupData \/ UdfUnregister \/ DeleteList
  \/ UnregisterStatus \/ UnregisterVariable \/ DeleteTables

Next ==
  \/ Install \/ InitStep \/ DeinitStep \/ Uninstall
  \/ \E s \in Sessions : Call(s) \/ CallEnds(s)
  \/ TimerWakes

Spec == Init /\ [][Next]_vars

-----------------------------------------------------------------------------
(* Properties.  Each names what must not have happened before (events).    *)

Barring(c, causes) == events[c] \cap causes = {}

TypeOK ==
  /\ used \subseteq Components /\ loaded \subseteq used
  /\ registered \subseteq UNION {Names[c] : c \in used}
  /\ set \in [Components -> SUBSET Functions]
  /\ \A c \in Components : set[c] \subseteq FunctionsOf[c]
  /\ deleted \subseteq used
  /\ rows \in {"none", "live", "dangling"}
  /\ command = NoCommand \/ command \in [op : {"install", "uninstall"}, of : used]
  /\ command = NoCommand => todo = <<>> /\ ~failed
  /\ failed \in BOOLEAN
  /\ call \in [Sessions -> {NoCall} \cup UNION {FunctionsOf[c] : c \in used}]
  /\ asleep \in BOOLEAN
  /\ events \in [Components -> SUBSET Events]
  /\ misused \in BOOLEAN

\* A component that is not in memory has nothing registered that leads into
\* it, unless a variable or the table could not be registered (init does not
\* take back what it had registered), a function was called before a failing
\* init had ended, or a failure was ignored.
UnloadedLeavesNothing ==
  \A c \in Components : ~InMemory(c) =>
    /\ Barring(c, {"late failure", "early call"}) =>
         FunctionsOf[c] \cap registered = {}
    /\ Barring(c, {"late failure", "early call", "ignored failure"}) =>
         Names[c] \cap registered = {}

\* An installed component has registered all it should, and its list holds
\* exactly the functions that are registered, so that UNINSTALL can be tried
\* again after it has failed.
InstalledIsWhole ==
  \A c \in loaded : command.of # c =>
    /\ set[c] = FunctionsOf[c] \cap registered
    /\ Barring(c, {"ignored failure", "uninstall failed"}) => Names[c] \subseteq registered

\* Sessions and timers run code that is in memory, although UNINSTALL and
\* calls race: with the exceptions of UnloadedLeavesNothing for functions, and
\* unless profiler_memory left the memory while a timer slept.
RunningCodeIsInMemory ==
  /\ \A s \in Sessions : call[s] # NoCall =>
       LET c == Owner[call[s]]
       IN  InMemory(c) \/ ~Barring(c, {"late failure", "early call"})
  /\ asleep => InMemory("memory") \/ ~Barring("memory", {"timer asleep"})

\* A function finds the system variables it reads, those of the component
\* profiler too, unless it was called while init runs, or init or an
\* UNINSTALL of the component has failed half way.
CallsFindVariables ==
  \A s \in Sessions : call[s] # NoCall =>
    LET both == {Owner[call[s]], "profiler"}
    IN  (\A c \in both : Barring(c, {"late failure", "early call", "list deleted"}))
          => \A c \in both : VariablesOf[c] \subseteq registered

\* deinit, also when it is tried again, finds the list it unregisters: it is
\* deleted only when nothing but a variable or the table of the component
\* profiler can still fail.
DeinitFindsList ==
  \A c \in loaded : command.of # c /\ c \in deleted =>
    c = "profiler" /\ ~Barring(c, {"list deleted"})

\* No record is deleted twice, by calls, timers or deinit, unless an
\* UNINSTALL of the component profiler has failed and left the pointers.
RecordsDeletedOnce ==
  misused => ~Barring("profiler", {"uninstall failed"})

\* A component whose init failed late is not installed again: the functions
\* it left are in the way until the server restarts.
LateFailureIsFinal ==
  \A c \in loaded : Barring(c, {"late failure"})

=============================================================================
