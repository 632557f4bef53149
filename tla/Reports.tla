------------------------------- MODULE Reports -------------------------------
(***************************************************************************)
(* cpuprof_report(), memprof_report(), memprof_diff() and                  *)
(* memprof_jemalloc_report(): what a call decides from its arguments, how  *)
(* it gets the path of the tool from the component profiler, and which     *)
(* part of the tool's output it returns.                                   *)
(*                                                                         *)
(* A call is the sequence of steps it still has to do (todo); the steps    *)
(* work on locals, so one call at a time is enough.  When a report may     *)
(* start, and which dump is the last, are in CpuProfiler, JemallocProfiler *)
(* and DumpFiles.  The server, popen and the tool are external.  What the  *)
(* language leaves undefined, and an exception that nobody catches, end    *)
(* the call at "undefined".                                                *)
(***************************************************************************)
EXTENDS Integers, Sequences

CONSTANTS Half,      \* the least int is -Half (2^31); a BIGINT argument has more
          Numbers,   \* BIGINT arguments; a REAL stands here as the BIGINT
                     \* whose eight bytes it has
          Full,      \* those among them none of whose bytes is zero
          Buffer,    \* the size passed for every value of a variable
          MaxLength, \* bound: the longest value of a variable
          MaxLines,  \* bound: lines a tool writes
          Null       \* SQL's NULL

ASSUME HalfAssumption ==
  Half \in Nat \ {0} /\ Numbers \subseteq Int /\ Full \subseteq Numbers
ASSUME BufferAssumption == Buffer \in Nat /\ MaxLength \in Nat /\ MaxLines \in Nat

VARIABLES
  started,         \* memprof_start has set memprof_dump_path
  function, args,  \* the call
  todo,            \* the steps it still has to do
  at,              \* "idle", "called", "returned", "error" or "undefined"
  limit,
  report_type,
  buffer,          \* variable_value: "unfilled" or "filled"
  output,          \* the lines written by the tool
  text,            \* the lines returned
  \* history
  beyond,          \* an argument after the last was read
  pipeFailed,      \* popen returned no pipe
  lookFailed       \* a directory could not be listed, or a file not looked at

call == <<started, function, args>>
locals == <<limit, report_type, buffer, output, text>>
history == <<beyond, pipeFailed, lookFailed>>
vars == <<call, todo, at, locals, history>>

-----------------------------------------------------------------------------
(* Arguments *)

\* TEXT and DOT are compared without regard to case; "a file" exists, and
\* "unreachable" is a name whose file cannot be looked at: too long, or in a
\* directory that may not be searched.
Words == {"text", "dot", "a file", "unreachable", "other"}
ASSUME NullAssumption == Null \notin Numbers /\ Null \notin Words

\* The server passes a DECIMAL as a string.
Argument == [type : {"INT", "REAL"}, value : Numbers \cup {Null}]
              \cup [type : {"STRING"}, value : Words \cup {Null}]

\* To read a string through a null pointer, or on and on past the bytes of a
\* number, is undefined.
NoString == {Null, "overrun"}

\* args->arg_count.
Count == Len(args)

\* pprof_cpu_udf_init, pprof_mem_udf_init, ...: how many arguments they accept.
Arity == [cpuprof_report |-> 0..2, memprof_report |-> 0..2,
          memprof_diff |-> 2..4, memprof_jemalloc_report |-> 0..1]

\* args->args[i] taken for a string, whatever its type: what follows the last
\* argument may be anything, and so may the bytes of a number up to the first
\* that is zero.
StringAt(i) ==
  IF i > Count THEN Words \cup NoString
  ELSE IF args[i].type = "STRING" \/ args[i].value = Null THEN {args[i].value}
  ELSE IF args[i].value \in Full THEN {"overrun"}
  ELSE Words

\* A defective AsInt: the low bits as an unsigned number.
AsUnsigned(n) == n % (2 * Half)

\* The values of an int, and *((int *)args->args[i]): the low bits of a
\* BIGINT, as a signed number.
Ints == -Half..(Half - 1)
AsInt(n) == ((n + Half) % (2 * Half)) - Half

-----------------------------------------------------------------------------
(* The four functions as sequences of steps.  index is the argument a step *)
(* reads, needs the arg_count from which it does.                          *)

Read(do, index, needs) == [do |-> do, index |-> index, needs |-> needs]
Tool == <<[do |-> "get_mysqld"], [do |-> "get"], [do |-> "exec_pprof"]>>

\* A defective CpuReport: the type is read from one argument on.
CpuReportEarly == <<Read("limit", 1, 1), Read("type", 2, 1)>> \o Tool

CpuReport == <<Read("limit", 1, 1), Read("type", 2, 2)>> \o Tool

\* Its second argument is never accepted.
JemallocReport == <<Read("limit", 1, 1), Read("type", 2, 2)>> \o Tool

\* The type is the third argument, and read when there are two.
MemReport == <<Read("file", 1, 1), Read("limit", 2, 2), Read("type", 3, 2)>> \o Tool

\* The type is the fourth argument, and read when there are three.  With two
\* nothing sets it, not even to "text".
MemDiff ==
  <<Read("string", 1, 1), Read("string", 2, 1), Read("limit", 3, 3)>>
    \o (IF Count > 2 THEN <<Read("type", 4, 3)>> ELSE <<>>)
    \o <<Read("file", 1, 1), Read("file", 2, 1)>> \o Tool

StepsOf ==
  CASE function = "cpuprof_report" -> CpuReport
    [] function = "memprof_jemalloc_report" -> JemallocReport
    [] function = "memprof_report" -> MemReport
    [] function = "memprof_diff" -> MemDiff

-----------------------------------------------------------------------------
Init ==
  /\ started = FALSE
  /\ function \in DOMAIN Arity
  /\ args = <<>>
  /\ todo = <<>>
  /\ at = "idle"
  /\ limit = 0
  /\ report_type = "none"
  /\ buffer = "unfilled"
  /\ output = <<>>
  /\ text = <<>>
  /\ beyond = FALSE
  /\ pipeFailed = FALSE
  /\ lookFailed = FALSE

\* The init function accepts the number of arguments, and the call begins.
Call ==
  /\ at = "idle"
  /\ \E f \in DOMAIN Arity : \E n \in Arity[f] : \E a \in [1..n -> Argument] :
       function' = f /\ args' = a
  /\ started' \in {started, TRUE}
  /\ todo' = StepsOf'
  /\ at' = "called"
  /\ UNCHANGED <<locals, history>>

Step(do) ==
  /\ at = "called"
  /\ todo # <<>>
  /\ Head(todo).do = do
  /\ UNCHANGED call

Continue == todo' = Tail(todo) /\ UNCHANGED at
End(how) == todo' = <<>> /\ at' = how

Present == Count >= Head(todo).needs
Index == Head(todo).index

\* A defective ReadLimit: the type of the argument is not looked at.
ReadAnyLimit ==
  /\ Step("limit")
  /\ IF ~Present THEN Continue /\ UNCHANGED limit
     ELSE IF args[Index].type # "INT" \/ args[Index].value = Null
     THEN End("undefined") /\ UNCHANGED limit
     ELSE Continue /\ limit' = AsInt(args[Index].value)
  /\ UNCHANGED <<report_type, buffer, output, text, history>>

\* An integer, or an error.  The pointer of a NULL is null.
ReadLimit ==
  /\ Step("limit")
  /\ \/ ~Present /\ Continue /\ UNCHANGED limit
     \/ Present /\ args[Index].type # "INT" /\ End("error") /\ UNCHANGED limit
     \/ /\ Present /\ args[Index].type = "INT"
        /\ IF args[Index].value = Null
           THEN End("undefined") /\ UNCHANGED limit
           ELSE Continue /\ limit' = AsInt(args[Index].value)
  /\ UNCHANGED <<report_type, buffer, output, text, history>>

\* "text" by default; anything but TEXT and DOT is an error.
ReadType ==
  /\ Step("type")
  /\ \/ ~Present /\ Continue /\ report_type' = "text" /\ UNCHANGED beyond
     \/ /\ Present
        /\ beyond' = (beyond \/ Index > Count)
        /\ \E word \in StringAt(Index) :
             \/ word \in {"text", "dot"} /\ Continue /\ report_type' = word
             \/ word \in NoString /\ End("undefined") /\ UNCHANGED report_type
             \/ /\ word \in Words \ {"text", "dot"}
                /\ End("error") /\ UNCHANGED report_type
  /\ UNCHANGED <<limit, buffer, output, text, pipeFailed, lookFailed>>

\* The name of a dump is copied before anything is checked.
ReadString ==
  /\ Step("string")
  /\ \E word \in StringAt(Index) :
       IF word \in NoString THEN End("undefined") ELSE Continue
  /\ UNCHANGED <<locals, history>>

\* The last dump in the directory of memprof_dump_path, or none; to list the
\* directory throws if the path is empty, and may throw when it is not.
LastDump == IF started THEN {"a file", "unreachable", "other"} ELSE {Null}

\* The dump exists, or an error; std::filesystem::exists throws if it cannot
\* tell.
CheckFile ==
  /\ Step("file")
  /\ \E word \in IF Present THEN StringAt(Index) ELSE LastDump :
       /\ \/ word = "a file" /\ Continue
          \/ word \in NoString \cup {"unreachable"} /\ End("undefined")
          \/ word \in Words \ {"a file", "unreachable"} /\ End("error")
       /\ lookFailed' = (word = "unreachable")
  /\ UNCHANGED <<locals, beyond, pipeFailed>>

\* get_mysqld: through the pid file and /proc; each may be missing.
GetMysqld ==
  /\ Step("get_mysqld")
  /\ Continue \/ End("error")
  /\ UNCHANGED <<locals, history>>

\* A defective ReaderSize: the size of the array, without the - 1.
ReaderSizeWhole == Buffer + 1

\* get_profiler_variable: the server refuses a value that does not fit.
ReaderSize == Buffer
ReadsVariable(length) == length + 1 <= ReaderSize

\* profiler_var.get: of a buffer that is too short it reports success, and
\* does not fill it.
GetBinary ==
  /\ Step("get")
  /\ \E length \in 0..MaxLength :
       IF ReadsVariable(length)
       THEN /\ Continue
            /\ buffer' = IF Buffer < length + 1 THEN buffer ELSE "filled"
       ELSE End("error") /\ UNCHANGED buffer
  /\ UNCHANGED <<limit, report_type, output, text, history>>

\* limit_lines: lines are copied until there are max_lines of them.
LimitLines(input, max_lines) ==
  SubSeq(input, 1, IF max_lines < Len(input) THEN max_lines ELSE Len(input))

\* A defective Returned: the limit also cuts a graph in pieces.
ReturnedCut(lines) == IF limit > 0 THEN LimitLines(lines, limit) ELSE lines

Returned(lines) ==
  IF limit > 0 /\ report_type = "text" THEN LimitLines(lines, limit) ELSE lines

\* exec_pprof, limit_lines and the result, for which memory may be lacking.
\* Without a pipe it goes on to read from it.  A line is its number.
ExecPprof ==
  /\ Step("exec_pprof")
  /\ \/ /\ End("returned")
        /\ \E n \in 0..MaxLines : output' = [i \in 1..n |-> i]
        /\ text' = Returned(output')
        /\ UNCHANGED pipeFailed
     \/ End("error") /\ UNCHANGED <<output, text, pipeFailed>>
     \/ /\ End("undefined")
        /\ pipeFailed' = TRUE
        /\ UNCHANGED <<output, text>>
  /\ UNCHANGED <<limit, report_type, buffer, beyond, lookFailed>>

\* The client has the result or the error and may call again.
Done ==
  /\ at \in {"returned", "error"}
  /\ at' = "idle"
  /\ args' = <<>>
  /\ limit' = 0 /\ report_type' = "none" /\ buffer' = "unfilled"
  /\ output' = <<>> /\ text' = <<>>
  /\ beyond' = FALSE
  /\ UNCHANGED <<started, function, todo, pipeFailed, lookFailed>>

\* Nothing is said about what follows undefined behaviour.
Next ==
  \/ Call \/ ReadLimit \/ ReadType \/ ReadString \/ CheckFile
  \/ GetMysqld \/ GetBinary \/ ExecPprof \/ Done

Spec == Init /\ [][Next]_vars

-----------------------------------------------------------------------------
(* Properties *)

TypeOK ==
  /\ started \in BOOLEAN
  /\ function \in DOMAIN Arity
  /\ args \in Seq(Argument)
  /\ at \in {"idle", "called", "returned", "error", "undefined"}
  /\ at # "called" => todo = <<>>
  /\ limit \in Ints
  /\ report_type \in {"none", "text", "dot"}
  /\ buffer \in {"unfilled", "filled"}
  /\ output \in Seq(1..MaxLines) /\ text \in Seq(1..MaxLines)
  /\ beyond \in BOOLEAN /\ pipeFailed \in BOOLEAN /\ lookFailed \in BOOLEAN

\* The arguments as the error messages of the init functions describe them; the
\* one of memprof_jemalloc_report (jemalloc_memory.cc:456) names a type only,
\* and its number is read as a limit.
LimitIndex == [cpuprof_report |-> 1, memprof_jemalloc_report |-> 1,
               memprof_report |-> 2, memprof_diff |-> 3]
TypeIndex == [cpuprof_report |-> 2, memprof_jemalloc_report |-> 2,
              memprof_report |-> 3, memprof_diff |-> 4]
AskedLimit == IF LimitIndex[function] <= Count THEN args[LimitIndex[function]].value ELSE 0
AskedType ==
  IF TypeIndex[function] > Count THEN "text"
  ELSE LET arg == args[TypeIndex[function]]
       IN  IF arg.type = "STRING" THEN arg.value ELSE "none"

\* A report has the type asked for and as many lines as asked for, from the
\* first on; for DOT, or a limit of 0 or less, all of them.  Not so when the
\* limit does not fit in an int, when a type was read after the last argument
\* or as the bytes of a number, and of memprof_diff with two arguments.
ReportIsAsAsked ==
  at = "returned" /\ ~beyond /\ AskedLimit \in Ints /\ AskedType \in {"text", "dot"}
     /\ ~(function = "memprof_diff" /\ Count = 2) =>
    /\ report_type = AskedType
    /\ LET cut == AskedType = "text" /\ AskedLimit \in 1..Len(output)
       IN  text = SubSeq(output, 1, IF cut THEN AskedLimit ELSE Len(output))

\* Only memprof_report with two arguments and memprof_diff with three read an
\* argument they do not have.
ReadsOnlyItsArguments ==
  beyond => <<function, Count>> \in {<<"memprof_report", 2>>, <<"memprof_diff", 3>>}

\* A call is undefined only if an argument is NULL, if a number without a zero
\* byte stands where the name of a file or the type is read, without checking
\* that it is a string, if an argument the call does not have was read, if
\* std::filesystem throws, as it does for memprof_report() before the first
\* memprof_start, or without a pipe.  The limit is always checked: no number
\* and no string there is the cause.
UndefinedOnlyFor ==
  at = "undefined" =>
    \/ \E i \in 1..Count : args[i].value = Null
    \/ \E i \in 1..Count \ {LimitIndex[function]} :
         args[i].type # "STRING" /\ args[i].value \in Full
    \/ beyond
    \/ lookFailed
    \/ function = "memprof_report" /\ Count = 0 /\ ~started
    \/ pipeFailed

\* No caller uses a buffer that profiler_var.get has not filled, although get
\* reports success when the value is too long: what gets there always fits,
\* since both sides pass the same size.
BufferFilled ==
  at = "called" /\ todo # <<>> /\ Head(todo).do = "exec_pprof" => buffer = "filled"

=============================================================================
