---------------------------- MODULE ReportsProofs ----------------------------
(***************************************************************************)
(* Proofs about Reports, for ints of any size, any numbers as arguments    *)
(* and any lengths.                                                        *)
(***************************************************************************)
EXTENDS Reports, SequenceTheorems, TLAPS

-----------------------------------------------------------------------------
(* Helpers of the model. *)

\* What is read through a pointer to int is an int, and the number itself if
\* that is one.
LEMMA AsIntFacts ==
  ASSUME NEW n \in Int
  PROVE  AsInt(n) \in Ints /\ (n \in Ints => AsInt(n) = n)
  <1>1. AsInt(n) \in Ints
    BY HalfAssumption DEF AsInt, Ints
  <1>2. n \in Ints => AsInt(n) = n
    BY HalfAssumption DEF AsInt, Ints
  <1> QED
    BY <1>1, <1>2

\* Of the lines, limit_lines returns the first max_lines, or all.
LEMMA LimitLinesFacts ==
  ASSUME NEW S, NEW input \in Seq(S), NEW max_lines \in Nat
  PROVE  /\ LimitLines(input, max_lines) \in Seq(S)
         /\ max_lines > Len(input) => LimitLines(input, max_lines) = input
         /\ max_lines <= Len(input) => LimitLines(input, max_lines) = SubSeq(input, 1, max_lines)
  <1>1. /\ SubSeq(input, 1, Len(input)) = input
        /\ max_lines = Len(input) => SubSeq(input, 1, max_lines) = input
    BY SubSeqFull
  <1>2. Len(input) \in Nat /\ \A i \in 1..Len(input) : input[i] \in S
    BY LenProperties, ElementOfSeq
  <1>3. max_lines <= Len(input) => SubSeq(input, 1, max_lines) \in Seq(S)
    BY <1>2, SubSeqProperties
  <1>4. CASE max_lines < Len(input)
    <2>1. LimitLines(input, max_lines) = SubSeq(input, 1, max_lines)
      BY <1>4 DEF LimitLines
    <2> QED
      BY <1>2, <1>3, <1>4, <2>1
  <1>5. CASE ~(max_lines < Len(input))
    <2>1. LimitLines(input, max_lines) = input
      BY <1>1, <1>5 DEF LimitLines
    <2>2. max_lines <= Len(input) => max_lines = Len(input)
      BY <1>2, <1>5
    <2>3. max_lines <= Len(input) => SubSeq(input, 1, max_lines) = input
      BY <1>1, <2>2
    <2> QED
      BY <2>1, <2>3
  <1> QED
    BY <1>4, <1>5

-----------------------------------------------------------------------------
(* What the steps of the four functions have in common. *)

Kinds == {"limit", "type", "string", "file", "get_mysqld", "get", "exec_pprof"}
AnyStep == [do : Kinds] \cup [do : Kinds, index : 1..4, needs : 1..4]

\* The calls that read an argument they do not have, and the one that reads no
\* type.
ReadsBeyond == <<function, Count>> \in {<<"memprof_report", 2>>, <<"memprof_diff", 3>>}
NoTypeRead == function = "memprof_diff" /\ Count = 2

\* The argument a step reads is the one it should read, and is there.
Right(t) ==
  /\ t.do = "limit" => t.index = LimitIndex[function] /\ t.needs = LimitIndex[function]
  /\ t.do = "type" =>
       /\ t.index = TypeIndex[function] /\ t.needs \in 1..t.index
       /\ t.needs <= Count /\ Count < t.index => ReadsBeyond
  /\ t.do = "string" => t.index \in 1..Count /\ t.index # LimitIndex[function]
  /\ t.do = "file" =>
       /\ t.needs \in 1..4 /\ t.index # LimitIndex[function]
       /\ t.needs <= Count => t.index \in 1..Count
       /\ Count < t.needs => function = "memprof_report" /\ Count = 0

\* The tool runs last, after the limit, the type and the path were read.
RunsLast(q) ==
  \A i \in 1..Len(q) : q[i].do = "exec_pprof" =>
    /\ \E j \in 1..(i - 1) : q[j].do = "limit"
    /\ \E j \in 1..(i - 1) : q[j].do = "get"
    /\ NoTypeRead \/ \E j \in 1..(i - 1) : q[j].do = "type"

Planned(q) ==
  q \in Seq(AnyStep) /\ RunsLast(q) /\ \A i \in 1..Len(q) : Right(q[i])

\* The kinds of steps, one by one: the provers do not instantiate a lemma with
\* a string, so they are told which strings there are.
LEMMA KindsAre ==
  /\ "limit" \in Kinds /\ "type" \in Kinds /\ "string" \in Kinds /\ "file" \in Kinds
  /\ 1 \in 1..4 /\ 2 \in 1..4 /\ 3 \in 1..4 /\ 4 \in 1..4
  BY DEF Kinds

\* A step that reads an argument.
LEMMA ReadFacts ==
  ASSUME NEW do \in Kinds, NEW index \in 1..4, NEW needs \in 1..4
  PROVE  /\ Read(do, index, needs) \in AnyStep
         /\ Read(do, index, needs).do = do /\ Read(do, index, needs).index = index
         /\ Read(do, index, needs).needs = needs
  BY DEF Read, AnyStep

\* The steps every report ends with.
LEMMA ToolFacts ==
  /\ Tool \in Seq(AnyStep) /\ Len(Tool) = 3
  /\ Tool[1].do = "get_mysqld" /\ Tool[2].do = "get" /\ Tool[3].do = "exec_pprof"
  <1>1. \A k \in Kinds : [do |-> k] \in AnyStep
    BY DEF AnyStep
  <1>2. /\ [do |-> "get_mysqld"] \in AnyStep /\ [do |-> "get"] \in AnyStep
        /\ [do |-> "exec_pprof"] \in AnyStep
    BY <1>1 DEF Kinds
  <1> QED
    BY <1>2 DEF Tool

\* One sequence of steps after another.
LEMMA Joined ==
  ASSUME NEW p \in Seq(AnyStep), NEW q \in Seq(AnyStep)
  PROVE  /\ p \o q \in Seq(AnyStep) /\ Len(p \o q) = Len(p) + Len(q)
         /\ Len(p) \in Nat /\ Len(q) \in Nat
         /\ \A i \in 1..Len(p) : (p \o q)[i] = p[i]
         /\ \A i \in 1..Len(q) : (p \o q)[Len(p) + i] = q[i]
  <1>1. Len(p) \in Nat /\ Len(q) \in Nat
    OBVIOUS
  <1>2. /\ p \o q \in Seq(AnyStep) /\ Len(p \o q) = Len(p) + Len(q)
        /\ \A i \in 1 .. Len(p) + Len(q) :
             (p \o q)[i] = IF i <= Len(p) THEN p[i] ELSE q[i - Len(p)]
    BY ConcatProperties
  <1> QED
    BY <1>1, <1>2

\* The steps of cpuprof_report, and of memprof_jemalloc_report.
LEMMA CpuPlan ==
  ASSUME function \in {"cpuprof_report", "memprof_jemalloc_report"}, Count \in 0..2
  PROVE  Planned(CpuReport)
  <1> DEFINE a == Read("limit", 1, 1)
             b == Read("type", 2, 2)
             p == <<a, b>>
  <1>0. a \in AnyStep /\ a.do = "limit" /\ a.index = 1 /\ a.needs = 1
    BY DEF Read, AnyStep, Kinds
  <1>1. b \in AnyStep /\ b.do = "type" /\ b.index = 2 /\ b.needs = 2
    BY DEF Read, AnyStep, Kinds
  <1>2. LimitIndex[function] = 1 /\ TypeIndex[function] = 2
    BY DEF LimitIndex, TypeIndex
  <1> HIDE DEF a, b
  <1>3. p \in Seq(AnyStep) /\ Len(p) = 2 /\ p[1] = a /\ p[2] = b
    BY <1>0, <1>1
  <1>4. CpuReport = p \o Tool
    BY DEF CpuReport, a, b
  <1> HIDE DEF p
  <1> DEFINE q == CpuReport
  <1>5. /\ q \in Seq(AnyStep) /\ Len(q) = 5 /\ q[1] = a /\ q[2] = b
        /\ q[3] = Tool[1] /\ q[4] = Tool[2] /\ q[5] = Tool[3]
    <2>1. /\ q \in Seq(AnyStep) /\ Len(q) = Len(p) + Len(Tool)
          /\ \A i \in 1..Len(p) : q[i] = p[i]
          /\ \A i \in 1..Len(Tool) : q[Len(p) + i] = Tool[i]
      BY <1>3, <1>4, ToolFacts, Joined
    <2> HIDE DEF q
    <2> QED
      BY <1>3, <2>1, ToolFacts
  <1> HIDE DEF q
  <1>6. Right(a) /\ Right(b) /\ Right(Tool[1]) /\ Right(Tool[2]) /\ Right(Tool[3])
    BY <1>0, <1>1, <1>2, ToolFacts DEF Right
  <1>7. RunsLast(q)
    BY <1>0, <1>1, <1>5, ToolFacts DEF RunsLast
  <1> QED
    BY <1>5, <1>6, <1>7 DEF Planned, q

\* The steps of memprof_report.
LEMMA MemPlan ==
  ASSUME function = "memprof_report", Count \in 0..2
  PROVE  Planned(MemReport)
  <1> DEFINE a == Read("file", 1, 1)
             b == Read("limit", 2, 2)
             c == Read("type", 3, 2)
             p == <<a, b, c>>
  <1>1. a \in AnyStep /\ a.do = "file" /\ a.index = 1 /\ a.needs = 1
    BY DEF Read, AnyStep, Kinds
  <1>2. b \in AnyStep /\ b.do = "limit" /\ b.index = 2 /\ b.needs = 2
    BY DEF Read, AnyStep, Kinds
  <1>3. c \in AnyStep /\ c.do = "type" /\ c.index = 3 /\ c.needs = 2
    BY DEF Read, AnyStep, Kinds
  <1>4. LimitIndex[function] = 2 /\ TypeIndex[function] = 3
    BY DEF LimitIndex, TypeIndex
  <1> HIDE DEF a, b, c
  <1>5. p \in Seq(AnyStep) /\ Len(p) = 3 /\ p[1] = a /\ p[2] = b /\ p[3] = c
    BY <1>1, <1>2, <1>3
  <1>6. MemReport = p \o Tool
    BY DEF MemReport, a, b, c
  <1> HIDE DEF p
  <1> DEFINE q == MemReport
  <1>7. /\ q \in Seq(AnyStep) /\ Len(q) = 6 /\ q[1] = a /\ q[2] = b /\ q[3] = c
        /\ q[4] = Tool[1] /\ q[5] = Tool[2] /\ q[6] = Tool[3]
    <2>1. /\ q \in Seq(AnyStep) /\ Len(q) = Len(p) + Len(Tool)
          /\ \A i \in 1..Len(p) : q[i] = p[i]
          /\ \A i \in 1..Len(Tool) : q[Len(p) + i] = Tool[i]
      BY <1>5, <1>6, ToolFacts, Joined
    <2> HIDE DEF q
    <2> QED
      BY <1>5, <2>1, ToolFacts
  <1> HIDE DEF q
  <1>8. /\ Right(a) /\ Right(b) /\ Right(c)
        /\ Right(Tool[1]) /\ Right(Tool[2]) /\ Right(Tool[3])
    BY <1>1, <1>2, <1>3, <1>4, ToolFacts DEF Right, ReadsBeyond
  <1>9. RunsLast(q)
    BY <1>1, <1>2, <1>3, <1>7, ToolFacts DEF RunsLast
  <1> QED
    BY <1>7, <1>8, <1>9 DEF Planned, q

\* The steps of memprof_diff.
LEMMA DiffPlan ==
  ASSUME function = "memprof_diff", Count \in 2..4
  PROVE  Planned(MemDiff)
  <1> DEFINE a == Read("string", 1, 1)
             b == Read("string", 2, 1)
             c == Read("limit", 3, 3)
             d == Read("type", 4, 3)
             e == Read("file", 1, 1)
             f == Read("file", 2, 1)
             head == <<a, b, c>>
             type == IF Count > 2 THEN <<d>> ELSE <<>>
             files == <<e, f>>
  <1>1. a \in AnyStep /\ a.do = "string" /\ a.index = 1
    BY DEF Read, AnyStep, Kinds
  <1>2. b \in AnyStep /\ b.do = "string" /\ b.index = 2
    BY DEF Read, AnyStep, Kinds
  <1>3. c \in AnyStep /\ c.do = "limit" /\ c.index = 3 /\ c.needs = 3
    BY DEF Read, AnyStep, Kinds
  <1>4. d \in AnyStep /\ d.do = "type" /\ d.index = 4 /\ d.needs = 3
    BY DEF Read, AnyStep, Kinds
  <1>5. e \in AnyStep /\ e.do = "file" /\ e.index = 1 /\ e.needs = 1
    BY DEF Read, AnyStep, Kinds
  <1>6. f \in AnyStep /\ f.do = "file" /\ f.index = 2 /\ f.needs = 1
    BY DEF Read, AnyStep, Kinds
  <1>7. LimitIndex[function] = 3 /\ TypeIndex[function] = 4
    BY DEF LimitIndex, TypeIndex
  <1> HIDE DEF a, b, c, d, e, f
  <1>8. head \in Seq(AnyStep) /\ Len(head) = 3 /\ head[1] = a /\ head[2] = b /\ head[3] = c
    BY <1>1, <1>2, <1>3
  <1>9. /\ type \in Seq(AnyStep)
        /\ IF Count > 2 THEN Len(type) = 1 /\ type[1] = d ELSE Len(type) = 0
    <2>1. CASE Count > 2
      BY <1>4, <2>1
    <2>2. CASE ~(Count > 2)
      BY <2>2
    <2> QED
      BY <2>1, <2>2
  <1>10. files \in Seq(AnyStep) /\ Len(files) = 2 /\ files[1] = e /\ files[2] = f
    BY <1>5, <1>6
  <1>11. MemDiff = ((head \o type) \o files) \o Tool
    BY DEF MemDiff, a, b, c, d, e, f
  <1> HIDE DEF head, type, files
  <1> DEFINE p == head \o type
             r == p \o files
             q == MemDiff
  <1>12. /\ p \in Seq(AnyStep) /\ Len(p) = Len(head) + Len(type)
         /\ \A i \in 1..Len(head) : p[i] = head[i]
         /\ \A i \in 1..Len(type) : p[Len(head) + i] = type[i]
    BY <1>8, <1>9, Joined
  <1>13. q = r \o Tool
    BY <1>11
  <1> HIDE DEF p, q
  <1>14. /\ r \in Seq(AnyStep) /\ Len(r) = Len(p) + Len(files)
         /\ \A i \in 1..Len(p) : r[i] = p[i]
         /\ \A i \in 1..Len(files) : r[Len(p) + i] = files[i]
    BY <1>10, <1>12, Joined
  <1> HIDE DEF r
  <1>15. /\ q \in Seq(AnyStep) /\ Len(q) = Len(r) + Len(Tool)
         /\ \A i \in 1..Len(r) : q[i] = r[i]
         /\ \A i \in 1..Len(Tool) : q[Len(r) + i] = Tool[i]
    BY <1>13, <1>14, ToolFacts, Joined
  <1>16. /\ Right(a) /\ Right(b) /\ Right(c) /\ Right(e) /\ Right(f)
         /\ Right(Tool[1]) /\ Right(Tool[2]) /\ Right(Tool[3])
    BY <1>1, <1>2, <1>3, <1>5, <1>6, <1>7, ToolFacts DEF Right
  <1>17. Right(d)
    BY <1>4, <1>7 DEF Right, ReadsBeyond
  <1>18. CASE Count > 2
    <2>0. Len(type) = 1 /\ type[1] = d
      BY <1>9, <1>18
    <2>1. Len(p) = 4 /\ p[1] = a /\ p[2] = b /\ p[3] = c /\ p[4] = d
      BY <1>8, <1>12, <2>0
    <2>2. /\ Len(r) = 6 /\ r[1] = a /\ r[2] = b /\ r[3] = c /\ r[4] = d
          /\ r[5] = e /\ r[6] = f
      BY <1>10, <1>14, <2>1
    <2>3. /\ Len(q) = 9 /\ q[1] = a /\ q[2] = b /\ q[3] = c /\ q[4] = d
          /\ q[5] = e /\ q[6] = f /\ q[7] = Tool[1] /\ q[8] = Tool[2] /\ q[9] = Tool[3]
      BY <1>15, <2>2, ToolFacts
    <2>4. \A i \in 1..Len(q) : Right(q[i])
      BY <1>16, <1>17, <2>3
    <2>5. RunsLast(q)
      BY <1>1, <1>2, <1>3, <1>4, <1>5, <1>6, <2>3, ToolFacts DEF RunsLast
    <2> QED
      BY <1>15, <2>4, <2>5 DEF Planned, q
  <1>19. CASE ~(Count > 2)
    <2>1. Len(p) = 3 /\ p[1] = a /\ p[2] = b /\ p[3] = c
      BY <1>8, <1>9, <1>12, <1>19
    <2>2. Len(r) = 5 /\ r[1] = a /\ r[2] = b /\ r[3] = c /\ r[4] = e /\ r[5] = f
      BY <1>10, <1>14, <2>1
    <2>3. /\ Len(q) = 8 /\ q[1] = a /\ q[2] = b /\ q[3] = c
          /\ q[4] = e /\ q[5] = f /\ q[6] = Tool[1] /\ q[7] = Tool[2] /\ q[8] = Tool[3]
      BY <1>15, <2>2, ToolFacts
    <2>4. \A i \in 1..Len(q) : Right(q[i])
      BY <1>16, <2>3
    <2>5. NoTypeRead
      BY <1>19 DEF NoTypeRead
    <2>6. RunsLast(q)
      BY <1>1, <1>2, <1>3, <1>5, <1>6, <2>3, <2>5, ToolFacts DEF RunsLast
    <2> QED
      BY <1>15, <2>4, <2>6 DEF Planned, q
  <1> QED
    BY <1>18, <1>19

\* The steps of every call that is accepted.
LEMMA PlanFacts ==
  ASSUME function \in DOMAIN Arity, Count \in Arity[function]
  PROVE  Planned(StepsOf)
  <1>1. CASE function = "cpuprof_report"
    BY <1>1, CpuPlan DEF Arity, StepsOf
  <1>2. CASE function = "memprof_jemalloc_report"
    <2>1. Count \in 0..2 /\ StepsOf = CpuReport
      BY <1>2 DEF Arity, StepsOf, JemallocReport, CpuReport
    <2> QED
      BY <1>2, <2>1, CpuPlan
  <1>3. CASE function = "memprof_report"
    BY <1>3, MemPlan DEF Arity, StepsOf
  <1>4. CASE function = "memprof_diff"
    BY <1>4, DiffPlan DEF Arity, StepsOf
  <1> QED
    BY <1>1, <1>2, <1>3, <1>4 DEF Arity

\* The same after a call has begun.
LEMMA NextPlan ==
  function' \in DOMAIN Arity /\ Count' \in Arity[function'] => Planned(StepsOf)'
  <1>1. function \in DOMAIN Arity /\ Count \in Arity[function] => Planned(StepsOf)
    BY PlanFacts
  <1>2. (function \in DOMAIN Arity /\ Count \in Arity[function] => Planned(StepsOf))'
    BY <1>1, PTL
  <1> QED
    BY <1>2

-----------------------------------------------------------------------------
(* The inductive invariant. *)

\* An argument that may make a call undefined, read for a string.
BadArgument ==
  \/ \E i \in 1..Count : args[i].value = Null
  \/ \E i \in 1..Count \ {LimitIndex[function]} :
       args[i].type # "STRING" /\ args[i].value \in Full

\* How many steps are behind the call, and which.
Behind == Len(StepsOf) - Len(todo)
Passed(kind) == \E i \in 1..Behind : StepsOf[i].do = kind

\* What is left is the end of the call's steps.
TodoInv ==
  at = "called" =>
    /\ Count \in Arity[function]
    /\ todo \in Seq(AnyStep) /\ Len(todo) <= Len(StepsOf)
    /\ \A i \in 1..Len(todo) : todo[i] = StepsOf[Behind + i]

\* The limit and the type are the arguments'.
LimitRead ==
  IF LimitIndex[function] <= Count
  THEN LET arg == args[LimitIndex[function]]
       IN  arg.type = "INT" /\ arg.value \in Numbers /\ limit = AsInt(arg.value)
  ELSE limit = 0
TypeRead == beyond \/ AskedType = "none" \/ report_type = AskedType

\* What the steps behind the call have done.
CalledInv ==
  at = "called" =>
    /\ IF Passed("limit") THEN LimitRead ELSE limit = 0
    /\ Passed("type") => TypeRead
    /\ Passed("get") => buffer = "filled"

ReturnedInv ==
  at = "returned" => LimitRead /\ (NoTypeRead \/ TypeRead) /\ text = Returned(output)

IdleInv == at = "idle" => limit = 0 /\ ~beyond

IInv ==
  /\ TypeOK /\ TodoInv /\ CalledInv /\ ReturnedInv /\ IdleInv
  /\ ReadsOnlyItsArguments /\ UndefinedOnlyFor

-----------------------------------------------------------------------------
(* Facts about one step. *)

\* An argument that is there.
LEMMA ArgumentFacts ==
  ASSUME TypeOK, NEW i \in 1..Count
  PROVE  /\ args[i].type = "INT" => args[i].value \in Numbers \cup {Null}
         /\ args[i].type = "STRING" => StringAt(i) = {args[i].value}
         /\ StringAt(i) \cap NoString # {} =>
              \/ args[i].value = Null
              \/ args[i].type # "STRING" /\ args[i].value \in Full
  <1>1. args[i] \in Argument
    BY ElementOfSeq DEF TypeOK, Count
  <1>2. /\ args[i].type = "INT" => args[i].value \in Numbers \cup {Null}
        /\ args[i].type = "STRING" => args[i].value \in Words \cup {Null}
    <2>1. CASE args[i] \in [type : {"INT", "REAL"}, value : Numbers \cup {Null}]
      BY <2>1
    <2>2. CASE args[i] \in [type : {"STRING"}, value : Words \cup {Null}]
      BY <2>2
    <2> QED
      BY <1>1, <2>1, <2>2 DEF Argument
  <1>3. ~(i > Count) /\ Count \in Nat
    BY DEF TypeOK, Count
  <1>4. "overrun" \notin Words /\ Words \cap NoString = {}
    BY NullAssumption DEF Words, NoString
  <1>5. CASE args[i].type = "STRING" \/ args[i].value = Null
    <2>1. StringAt(i) = {args[i].value}
      BY <1>3, <1>5 DEF StringAt
    <2> QED
      BY <1>2, <1>4, <1>5, <2>1
  <1>6. CASE ~(args[i].type = "STRING" \/ args[i].value = Null)
    <2>1. StringAt(i) = IF args[i].value \in Full THEN {"overrun"} ELSE Words
      BY <1>3, <1>6 DEF StringAt
    <2> QED
      BY <1>2, <1>4, <1>6, <2>1
  <1> QED
    BY <1>5, <1>6

\* A string that cannot be read, where there is an argument and no limit.
LEMMA BadString ==
  ASSUME TypeOK, NEW i \in 1..Count, i # LimitIndex[function],
         StringAt(i) \cap NoString # {}
  PROVE  BadArgument
  BY ArgumentFacts DEF BadArgument

\* The next step is one of the call's, and takes the argument it should.
LEMMA StepFacts ==
  ASSUME IInv, at = "called", todo # <<>>
  PROVE  /\ Planned(StepsOf) /\ Behind \in Nat /\ Count \in Nat
         /\ Head(todo) = StepsOf[Behind + 1] /\ Right(Head(todo))
         /\ Tail(todo) \in Seq(AnyStep) /\ Len(Tail(todo)) = Len(todo) - 1
         /\ Len(todo) \in Nat \ {0} /\ Len(StepsOf) \in Nat
         /\ \A i \in 1..Len(Tail(todo)) : Tail(todo)[i] = todo[i + 1]
         /\ Head(todo).do = "exec_pprof" =>
              Passed("limit") /\ Passed("get") /\ (NoTypeRead \/ Passed("type"))
  <1>1. /\ todo \in Seq(AnyStep) /\ Len(todo) <= Len(StepsOf)
        /\ \A i \in 1..Len(todo) : todo[i] = StepsOf[Behind + i]
    BY DEF IInv, TodoInv
  <1>2. Planned(StepsOf)
    BY PlanFacts DEF IInv, TypeOK, TodoInv
  <1>3. Len(StepsOf) \in Nat /\ Len(todo) \in Nat \ {0} /\ Count \in Nat
    BY <1>1, <1>2, LenProperties, EmptySeq DEF Planned, IInv, TypeOK, Count
  <1>4. /\ Tail(todo) \in Seq(AnyStep) /\ Len(Tail(todo)) = Len(todo) - 1
        /\ \A i \in 1..Len(Tail(todo)) : Tail(todo)[i] = todo[i + 1]
    BY <1>1, HeadTailProperties
  <1>5. Behind \in Nat /\ Behind + 1 \in 1..Len(StepsOf)
    BY <1>1, <1>3 DEF Behind
  <1>6. Head(todo) = StepsOf[Behind + 1]
    BY <1>1, <1>3
  <1>7. Right(Head(todo))
    BY <1>2, <1>5, <1>6 DEF Planned
  <1>8. Head(todo).do = "exec_pprof" =>
          Passed("limit") /\ Passed("get") /\ (NoTypeRead \/ Passed("type"))
    <2>1. RunsLast(StepsOf) /\ (Behind + 1) - 1 = Behind
      BY <1>2, <1>5 DEF Planned
    <2> QED
      BY <1>5, <1>6, <2>1 DEF RunsLast, Passed
  <1> QED
    BY <1>1, <1>2, <1>3, <1>4, <1>5, <1>6, <1>7, <1>8

\* The call goes on with the next step.
LEMMA ContinueFacts ==
  ASSUME IInv, at = "called", todo # <<>>, Continue, UNCHANGED call
  PROVE  /\ at' = "called" /\ TodoInv'
         /\ Passed("limit")' <=> Passed("limit") \/ Head(todo).do = "limit"
         /\ Passed("type")' <=> Passed("type") \/ Head(todo).do = "type"
         /\ Passed("get")' <=> Passed("get") \/ Head(todo).do = "get"
  <1>1. StepsOf' = StepsOf /\ Count' = Count /\ UNCHANGED <<function, args>>
    BY DEF call, StepsOf, MemDiff, Count
  <1>2. todo' = Tail(todo) /\ at' = "called"
    BY DEF Continue
  <1>3. Behind' = Behind + 1 /\ Behind \in Nat
    BY <1>1, <1>2, StepFacts DEF Behind
  <1>4. TodoInv'
    <2>1. Count' \in Arity[function'] /\ todo' \in Seq(AnyStep)
      BY <1>1, <1>2, StepFacts DEF IInv, TodoInv
    <2>2. Len(todo') <= Len(StepsOf')
      BY <1>1, <1>2, StepFacts DEF IInv, TodoInv
    <2>3. ASSUME NEW i \in 1..Len(todo') PROVE todo'[i] = StepsOf'[Behind' + i]
      <3>1. i + 1 \in 1..Len(todo) /\ todo'[i] = todo[i + 1]
        BY <1>2, StepFacts
      <3>2. todo[i + 1] = StepsOf[Behind + (i + 1)]
        BY <3>1 DEF IInv, TodoInv
      <3>3. Behind + (i + 1) = Behind' + i
        BY <1>3
      <3> QED
        BY <1>1, <3>1, <3>2, <3>3
    <2> QED
      BY <2>1, <2>2, <2>3 DEF TodoInv
  <1>5. Head(todo) = StepsOf[Behind + 1]
    BY StepFacts
  <1>6. \A i : i \in 1..Behind' <=> i \in 1..Behind \/ i = Behind + 1
    BY <1>3
  <1>7. Passed("limit")' <=> Passed("limit") \/ Head(todo).do = "limit"
    BY <1>1, <1>5, <1>6 DEF Passed
  <1>8. Passed("type")' <=> Passed("type") \/ Head(todo).do = "type"
    BY <1>1, <1>5, <1>6 DEF Passed
  <1>9. Passed("get")' <=> Passed("get") \/ Head(todo).do = "get"
    BY <1>1, <1>5, <1>6 DEF Passed
  <1> QED
    BY <1>2, <1>4, <1>7, <1>8, <1>9

-----------------------------------------------------------------------------
(* Every action preserves the invariant. *)

\* What is said of the call does not change with its steps.
LEMMA SameCall ==
  ASSUME UNCHANGED call
  PROVE  /\ UNCHANGED <<started, function, args>> /\ Count' = Count
         /\ AskedLimit' = AskedLimit /\ AskedType' = AskedType
         /\ NoTypeRead' <=> NoTypeRead
         /\ BadArgument' <=> BadArgument
  BY DEF call, Count, AskedLimit, AskedType, NoTypeRead, BadArgument

\* What there is to show when a call goes on.
LEMMA GoesOn ==
  ASSUME IInv, at = "called", todo # <<>>, Continue, UNCHANGED <<call, pipeFailed>>,
         limit' \in Ints, report_type' \in {"none", "text", "dot"},
         buffer' \in {"unfilled", "filled"}, beyond' \in BOOLEAN,
         lookFailed' \in BOOLEAN, UNCHANGED <<output, text>>, CalledInv', ReadsOnlyItsArguments'
  PROVE  IInv'
  <1>1. at' = "called" /\ TodoInv'
    BY ContinueFacts
  <1>2. TypeOK'
    BY <1>1 DEF IInv, TypeOK, call
  <1>3. ReturnedInv' /\ IdleInv' /\ UndefinedOnlyFor'
    BY <1>1 DEF ReturnedInv, IdleInv, UndefinedOnlyFor
  <1> QED
    BY <1>1, <1>2, <1>3 DEF IInv

\* What there is to show when a call ends without a result.
LEMMA Fails ==
  ASSUME IInv, at = "called", NEW how \in {"error", "undefined"}, End(how), UNCHANGED call,
         UNCHANGED <<limit, report_type, buffer, output, text>>,
         beyond' \in BOOLEAN, pipeFailed' \in BOOLEAN, lookFailed' \in BOOLEAN,
         ReadsOnlyItsArguments', how = "undefined" => UndefinedOnlyFor'
  PROVE  IInv'
  <1>1. todo' = <<>> /\ at' = how
    BY DEF End
  <1>2. TypeOK'
    BY <1>1 DEF IInv, TypeOK, call
  <1>3. TodoInv' /\ CalledInv' /\ ReturnedInv' /\ IdleInv'
    BY <1>1 DEF TodoInv, CalledInv, ReturnedInv, IdleInv
  <1>4. UndefinedOnlyFor'
    BY <1>1 DEF UndefinedOnlyFor
  <1> QED
    BY <1>2, <1>3, <1>4 DEF IInv

\* The limit is read: after that it is the argument's.
LEMMA ReadLimitNext == ASSUME IInv, ReadLimit PROVE IInv'
  <1> DEFINE i == LimitIndex[function]
  <1>1. /\ at = "called" /\ todo # <<>> /\ Head(todo).do = "limit" /\ UNCHANGED call
        /\ UNCHANGED <<report_type, buffer, output, text, beyond, pipeFailed, lookFailed>>
    BY DEF ReadLimit, Step, history
  <1>2. /\ UNCHANGED <<function, args>> /\ Count' = Count /\ AskedType' = AskedType
    BY <1>1, SameCall
  <1>3. Index = i /\ (Present <=> i <= Count) /\ i \in 1..3 /\ Count \in Nat
    <2>1. Right(Head(todo)) /\ Count \in Nat
      BY <1>1, StepFacts
    <2>2. function \in DOMAIN Arity
      BY DEF IInv, TypeOK
    <2>3. i \in 1..3
      BY <2>2 DEF LimitIndex, Arity
    <2> QED
      BY <1>1, <2>1, <2>3 DEF Right, Index, Present
  <1>4. ReadsOnlyItsArguments'
    BY <1>1, <1>2 DEF IInv, ReadsOnlyItsArguments
  <1>5. /\ limit \in Ints /\ report_type \in {"none", "text", "dot"}
        /\ buffer \in {"unfilled", "filled"} /\ beyond \in BOOLEAN /\ pipeFailed \in BOOLEAN
        /\ lookFailed \in BOOLEAN
    BY DEF IInv, TypeOK
  <1>6. /\ Passed("type") => TypeRead
        /\ Passed("get") => buffer = "filled"
        /\ IF Passed("limit") THEN LimitRead ELSE limit = 0
    BY <1>1 DEF IInv, CalledInv
  <1>7. TypeRead' <=> TypeRead
    BY <1>1, <1>2 DEF TypeRead
  <1>8. CASE ~Present /\ Continue /\ UNCHANGED limit
    <2>1. limit = 0
      BY <1>3, <1>6, <1>8 DEF LimitRead
    <2>2. LimitRead'
      BY <1>2, <1>3, <1>8, <2>1 DEF LimitRead
    <2>3. CalledInv'
      BY <1>1, <1>6, <1>7, <1>8, <2>2, ContinueFacts DEF CalledInv
    <2> QED
      BY <1>1, <1>4, <1>5, <1>8, <2>3, GoesOn
  <1>9. CASE Present /\ args[Index].type # "INT" /\ End("error") /\ UNCHANGED limit
    BY <1>1, <1>4, <1>5, <1>9, Fails
  <1>10. CASE /\ Present /\ args[Index].type = "INT" /\ args[Index].value = Null
              /\ End("undefined") /\ UNCHANGED limit
    <2>1. UndefinedOnlyFor'
      BY <1>2, <1>3, <1>10 DEF UndefinedOnlyFor
    <2> QED
      BY <1>1, <1>4, <1>5, <1>10, <2>1, Fails
  <1>11. CASE /\ Present /\ args[Index].type = "INT" /\ args[Index].value # Null
              /\ Continue /\ limit' = AsInt(args[Index].value)
    <2>1. args[i].value \in Numbers /\ args[i].type = "INT"
      BY <1>3, <1>11, ArgumentFacts DEF IInv
    <2>2. limit' \in Ints
      BY <1>3, <1>11, <2>1, AsIntFacts, HalfAssumption
    <2>3. LimitRead'
      BY <1>2, <1>3, <1>11, <2>1 DEF LimitRead
    <2>4. CalledInv'
      BY <1>1, <1>6, <1>7, <1>11, <2>3, ContinueFacts DEF CalledInv
    <2> QED
      BY <1>1, <1>4, <1>5, <1>11, <2>2, <2>4, GoesOn
  <1> QED
    BY <1>8, <1>9, <1>10, <1>11 DEF ReadLimit

\* The type is read: after that it is the argument's, if that is there.
LEMMA ReadTypeNext == ASSUME IInv, ReadType PROVE IInv'
  <1> DEFINE i == TypeIndex[function]
  <1>1. /\ at = "called" /\ todo # <<>> /\ Head(todo).do = "type" /\ UNCHANGED call
        /\ UNCHANGED <<limit, buffer, output, text, pipeFailed, lookFailed>>
    BY DEF ReadType, Step
  <1>2. UNCHANGED <<function, args>> /\ Count' = Count /\ AskedType' = AskedType
    BY <1>1, SameCall
  <1>3. /\ Index = i /\ i \in 2..4 /\ Count \in Nat /\ i # LimitIndex[function]
        /\ i <= Count => Present
        /\ Present /\ i > Count => ReadsBeyond
    <2>1. Right(Head(todo)) /\ Count \in Nat
      BY <1>1, StepFacts
    <2>2. function \in DOMAIN Arity
      BY DEF IInv, TypeOK
    <2>3. i \in 2..4 /\ i # LimitIndex[function]
      BY <2>2 DEF TypeIndex, LimitIndex, Arity
    <2> QED
      BY <1>1, <2>1, <2>3 DEF Right, Index, Present
  <1>4. /\ limit \in Ints /\ report_type \in {"none", "text", "dot"}
        /\ buffer \in {"unfilled", "filled"} /\ beyond \in BOOLEAN /\ pipeFailed \in BOOLEAN
        /\ lookFailed \in BOOLEAN
    BY DEF IInv, TypeOK
  <1>5. /\ Passed("get") => buffer = "filled"
        /\ IF Passed("limit") THEN LimitRead ELSE limit = 0
    BY <1>1 DEF IInv, CalledInv
  <1>6. LimitRead' <=> LimitRead
    BY <1>1, <1>2 DEF LimitRead
  <1>7. ReadsOnlyItsArguments'
    <2>1. beyond' => beyond \/ (Present /\ Index > Count)
      BY DEF ReadType
    <2>2. beyond => ReadsBeyond
      BY DEF IInv, ReadsOnlyItsArguments, ReadsBeyond
    <2> QED
      BY <1>2, <1>3, <2>1, <2>2 DEF ReadsOnlyItsArguments, ReadsBeyond
  <1>8. ASSUME Continue, report_type' \in {"text", "dot"}, beyond' \in BOOLEAN, TypeRead'
        PROVE  IInv'
    <2>1. CalledInv'
      BY <1>1, <1>5, <1>6, <1>8, ContinueFacts DEF CalledInv
    <2> QED
      BY <1>1, <1>4, <1>7, <1>8, <2>1, GoesOn
  <1>9. CASE ~Present /\ Continue /\ report_type' = "text" /\ UNCHANGED beyond
    <2>1. AskedType = "text"
      BY <1>3, <1>9 DEF AskedType
    <2>2. TypeRead'
      BY <1>2, <1>9, <2>1 DEF TypeRead
    <2> QED
      BY <1>4, <1>8, <1>9, <2>2
  <1>10. ASSUME Present, beyond' = (beyond \/ Index > Count), NEW word \in StringAt(Index),
                \/ word \in {"text", "dot"} /\ Continue /\ report_type' = word
                \/ word \in NoString /\ End("undefined") /\ UNCHANGED report_type
                \/ End("error") /\ UNCHANGED report_type
         PROVE  IInv'
    <2>1. beyond' \in BOOLEAN
      BY <1>10
    <2>2. CASE word \in {"text", "dot"} /\ Continue /\ report_type' = word
      <3>1. TypeRead'
        <4> SUFFICES ASSUME ~beyond', AskedType # "none" PROVE report_type' = AskedType
          BY <1>2 DEF TypeRead
        <4>1. ~(Index > Count)
          BY <1>10
        <4>2. i <= Count
          BY <1>3, <4>1
        <4>3. args[i].type = "STRING" /\ AskedType = args[i].value
          BY <1>3, <4>2 DEF AskedType
        <4> QED
          BY <1>3, <2>2, <4>2, <4>3, ArgumentFacts DEF IInv
      <3> QED
        BY <1>8, <2>1, <2>2, <3>1
    <2>3. CASE word \in NoString /\ End("undefined") /\ UNCHANGED report_type
      <3>1. CASE Index > Count
        BY <1>1, <1>2, <1>4, <1>7, <1>10, <2>1, <2>3, <3>1, Fails DEF UndefinedOnlyFor
      <3>2. CASE ~(Index > Count)
        <4>1. i \in 1..Count
          BY <1>3, <3>2
        <4>2. BadArgument'
          BY <1>1, <1>3, <1>10, <2>3, <4>1, BadString, SameCall DEF IInv
        <4>3. UndefinedOnlyFor'
          BY <4>2 DEF UndefinedOnlyFor, BadArgument
        <4> QED
          BY <1>1, <1>4, <1>7, <2>1, <2>3, <4>3, Fails
      <3> QED
        BY <3>1, <3>2
    <2>4. CASE End("error") /\ UNCHANGED report_type
      BY <1>1, <1>4, <1>7, <2>1, <2>4, Fails
    <2> QED
      BY <1>10, <2>2, <2>3, <2>4
  <1> QED
    BY <1>9, <1>10 DEF ReadType

\* The other steps before the tool runs change no more than the buffer.
LEMMA PlainNext ==
  ASSUME IInv, at = "called", todo # <<>>, Continue, UNCHANGED call,
         UNCHANGED <<limit, report_type, output, text, beyond, pipeFailed>>,
         lookFailed' \in BOOLEAN, Head(todo).do \notin {"limit", "type"},
         buffer' \in {buffer, "filled"},
         Head(todo).do = "get" => buffer' = "filled"
  PROVE  IInv'
  <1>1. /\ UNCHANGED <<function, args>> /\ Count' = Count /\ AskedType' = AskedType
    BY SameCall
  <1>2. (LimitRead' <=> LimitRead) /\ (TypeRead' <=> TypeRead)
    BY <1>1 DEF LimitRead, TypeRead
  <1>3. /\ Passed("get") => buffer = "filled"
        /\ IF Passed("limit") THEN LimitRead ELSE limit = 0
        /\ Passed("type") => TypeRead
    BY DEF IInv, CalledInv
  <1>4. CalledInv'
    BY <1>2, <1>3, ContinueFacts DEF CalledInv
  <1>5. ReadsOnlyItsArguments'
    BY <1>1 DEF IInv, ReadsOnlyItsArguments
  <1> QED
    BY <1>1, <1>4, <1>5, GoesOn DEF IInv, TypeOK

\* A step that fails, or is undefined for a reason, and changes nothing.
LEMMA PlainFails ==
  ASSUME IInv, at = "called", NEW how \in {"error", "undefined"}, End(how), UNCHANGED call,
         UNCHANGED <<limit, report_type, buffer, output, text, beyond>>,
         pipeFailed' \in BOOLEAN, lookFailed' \in BOOLEAN,
         how = "undefined" =>
           \/ BadArgument
           \/ pipeFailed' \/ lookFailed'
           \/ function = "memprof_report" /\ Count = 0 /\ ~started
  PROVE  IInv'
  <1>1. /\ UNCHANGED <<started, function, args>> /\ Count' = Count
        /\ BadArgument' <=> BadArgument
    BY SameCall
  <1>2. ReadsOnlyItsArguments'
    BY <1>1 DEF IInv, ReadsOnlyItsArguments
  <1>3. how = "undefined" => UndefinedOnlyFor'
    BY <1>1 DEF UndefinedOnlyFor, BadArgument
  <1> QED
    BY <1>2, <1>3, Fails DEF IInv, TypeOK

\* The name of a dump is an argument that is there.
LEMMA ReadStringNext == ASSUME IInv, ReadString PROVE IInv'
  <1>1. /\ at = "called" /\ todo # <<>> /\ Head(todo).do = "string" /\ UNCHANGED call
        /\ UNCHANGED <<limit, report_type, buffer, output, text, history>>
    BY DEF ReadString, Step, locals
  <1>2. Index \in 1..Count /\ Index # LimitIndex[function]
    BY <1>1, StepFacts DEF Right, Index
  <1>0. UNCHANGED <<beyond, pipeFailed, lookFailed>> /\ lookFailed \in BOOLEAN
    BY <1>1 DEF history, IInv, TypeOK
  <1>3. CASE Continue
    BY <1>0, <1>1, <1>3, PlainNext
  <1>4. CASE StringAt(Index) \cap NoString # {} /\ End("undefined")
    <2>1. BadArgument
      BY <1>2, <1>4, BadString DEF IInv
    <2> QED
      BY <1>0, <1>1, <1>4, <2>1, PlainFails DEF IInv, TypeOK
  <1> QED
    BY <1>3, <1>4 DEF ReadString

\* The dump is an argument that is there, or the last one.
LEMMA CheckFileNext == ASSUME IInv, CheckFile PROVE IInv'
  <1>1. /\ at = "called" /\ todo # <<>> /\ Head(todo).do = "file" /\ UNCHANGED call
        /\ UNCHANGED <<limit, report_type, buffer, output, text, beyond, pipeFailed>>
    BY DEF CheckFile, Step, locals
  <1>2. PICK word \in IF Present THEN StringAt(Index) ELSE LastDump :
          /\ \/ Continue
             \/ word \in NoString \cup {"unreachable"} /\ End("undefined")
             \/ End("error")
          /\ lookFailed' = (word = "unreachable")
    BY DEF CheckFile
  <1>3. pipeFailed' \in BOOLEAN /\ lookFailed' \in BOOLEAN
    BY <1>1, <1>2 DEF IInv, TypeOK
  <1>4. CASE Continue
    BY <1>1, <1>3, <1>4, PlainNext
  <1>5. CASE End("error")
    BY <1>1, <1>3, <1>5, PlainFails
  <1>6. CASE word = "unreachable" /\ End("undefined")
    <2>1. lookFailed'
      BY <1>2, <1>6
    <2> QED
      BY <1>1, <1>3, <1>6, <2>1, PlainFails
  <1>7. CASE Present /\ word \in NoString /\ End("undefined")
    <2>1. Index \in 1..Count /\ Index # LimitIndex[function]
      BY <1>1, <1>7, StepFacts DEF Right, Index, Present
    <2>2. BadArgument
      BY <1>2, <1>7, <2>1, BadString DEF IInv
    <2> QED
      BY <1>1, <1>3, <1>7, <2>2, PlainFails
  <1>8. CASE ~Present /\ word \in NoString /\ End("undefined")
    <2>1. ~started
      <3>1. Words \cap NoString = {} /\ {"a file", "unreachable", "other"} \subseteq Words
        BY NullAssumption DEF Words, NoString
      <3> QED
        BY <1>2, <1>8, <3>1 DEF LastDump
    <2>2. Right(Head(todo)) /\ Count \in Nat
      BY <1>1, StepFacts
    <2>3. function = "memprof_report" /\ Count = 0
      BY <1>1, <1>8, <2>2 DEF Right, Present
    <2> QED
      BY <1>1, <1>3, <1>8, <2>1, <2>3, PlainFails
  <1> QED
    BY <1>2, <1>4, <1>5, <1>6, <1>7, <1>8

\* The paths of mysqld and of the tool.
LEMMA PathsNext == ASSUME IInv, GetMysqld \/ GetBinary PROVE IInv'
  <1>1. /\ at = "called" /\ todo # <<>> /\ UNCHANGED call
        /\ Head(todo).do \in {"get_mysqld", "get"}
        /\ UNCHANGED <<limit, report_type, output, text, history>>
    BY DEF GetMysqld, GetBinary, Step, locals
  <1>2. /\ pipeFailed' \in BOOLEAN /\ lookFailed' \in BOOLEAN
        /\ UNCHANGED <<beyond, pipeFailed>>
    BY <1>1 DEF IInv, TypeOK, history
  <1>3. CASE End("error") /\ UNCHANGED buffer
    BY <1>1, <1>2, <1>3, PlainFails
  <1>4. CASE GetMysqld /\ Continue
    <2>1. Head(todo).do = "get_mysqld" /\ buffer' = buffer
      BY <1>4 DEF GetMysqld, Step, locals
    <2> QED
      BY <1>1, <1>2, <1>4, <2>1, PlainNext
  <1>5. ASSUME NEW length \in 0..MaxLength, ReadsVariable(length), Continue,
               buffer' = IF Buffer < length + 1 THEN buffer ELSE "filled"
        PROVE  IInv'
    <2>1. buffer' = "filled"
      BY <1>5, BufferAssumption DEF ReadsVariable, ReaderSize
    <2> QED
      BY <1>1, <1>2, <1>5, <2>1, PlainNext
  <1>6. CASE GetMysqld
    BY <1>3, <1>4, <1>6 DEF GetMysqld, locals
  <1>7. CASE GetBinary
    BY <1>3, <1>5, <1>7 DEF GetBinary
  <1> QED
    BY <1>6, <1>7

\* The tool runs when everything has been read.
LEMMA ExecPprofNext == ASSUME IInv, ExecPprof PROVE IInv'
  <1>1. /\ at = "called" /\ todo # <<>> /\ Head(todo).do = "exec_pprof" /\ UNCHANGED call
        /\ UNCHANGED <<limit, report_type, buffer, beyond, lookFailed>>
        /\ pipeFailed \in BOOLEAN /\ lookFailed \in BOOLEAN
    BY DEF ExecPprof, Step, IInv, TypeOK
  <1>2. /\ UNCHANGED <<function, args, started>> /\ Count' = Count
        /\ AskedType' = AskedType /\ (NoTypeRead' <=> NoTypeRead)
    BY <1>1, SameCall
  <1>3. ReadsOnlyItsArguments'
    BY <1>1, <1>2 DEF IInv, ReadsOnlyItsArguments
  <1>4. CASE End("undefined") /\ pipeFailed' = TRUE /\ UNCHANGED <<output, text>>
    BY <1>1, <1>4, PlainFails
  <1>6. CASE End("error") /\ UNCHANGED <<output, text, pipeFailed>>
    BY <1>1, <1>6, PlainFails
  <1>5. CASE /\ End("returned")
             /\ \E n \in 0..MaxLines : output' = [i \in 1..n |-> i]
             /\ text' = Returned(output')
             /\ UNCHANGED pipeFailed
    <2>1. at' = "returned" /\ todo' = <<>>
      BY <1>5 DEF End
    <2>2. LimitRead /\ (NoTypeRead \/ TypeRead)
      <3>1. Passed("limit") /\ (NoTypeRead \/ Passed("type"))
        BY <1>1, StepFacts
      <3> QED
        BY <1>1, <3>1 DEF IInv, CalledInv
    <2>3. LimitRead' /\ (NoTypeRead' \/ TypeRead')
      BY <1>1, <1>2, <2>2 DEF LimitRead, TypeRead
    <2>4. text' = Returned(output)'
      BY <1>1, <1>5 DEF Returned
    <2>5. ReturnedInv'
      BY <2>3, <2>4 DEF ReturnedInv
    <2>6. output' \in Seq(1..MaxLines)
      <3>1. PICK n \in 0..MaxLines : output' = [i \in 1..n |-> i]
        BY <1>5
      <3>2. n \in Nat /\ \A i \in 1..n : i \in 1..MaxLines
        BY <3>1, BufferAssumption
      <3> QED
        BY <3>1, <3>2
    <2>7. text' \in Seq(1..MaxLines)
      <3>1. limit \in Ints
        BY DEF IInv, TypeOK
      <3>2. CASE limit > 0 /\ report_type = "text"
        <4>1. limit \in Nat /\ text' = LimitLines(output', limit)
          BY <1>5, <3>1, <3>2, HalfAssumption DEF Returned, Ints
        <4> QED
          BY <2>6, <4>1, LimitLinesFacts
      <3>3. CASE ~(limit > 0 /\ report_type = "text")
        BY <1>5, <2>6, <3>3 DEF Returned
      <3> QED
        BY <3>2, <3>3
    <2>8. TypeOK'
      BY <1>1, <1>2, <1>5, <2>1, <2>6, <2>7 DEF IInv, TypeOK
    <2>9. TodoInv' /\ CalledInv' /\ IdleInv' /\ UndefinedOnlyFor'
      BY <2>1 DEF TodoInv, CalledInv, IdleInv, UndefinedOnlyFor
    <2> QED
      BY <1>3, <2>5, <2>8, <2>9 DEF IInv
  <1> QED
    BY <1>4, <1>5, <1>6 DEF ExecPprof

\* A call begins with all steps of its function.
LEMMA CallNext == ASSUME IInv, Call PROVE IInv'
  <1>1. /\ at = "idle" /\ at' = "called" /\ todo' = StepsOf' /\ limit = 0 /\ ~beyond
        /\ UNCHANGED <<limit, report_type, buffer, output, text, beyond, pipeFailed, lookFailed>>
        /\ started' \in {started, TRUE}
    BY DEF Call, IInv, IdleInv, locals, history
  <1>0. PICK f \in DOMAIN Arity : \E n \in Arity[f] :
          function' = f /\ args' \in [1..n -> Argument]
    BY DEF Call
  <1>2. PICK n \in Arity[f] : function' = f /\ args' \in [1..n -> Argument]
    BY <1>0
  <1>3. n \in Nat
    BY <1>2 DEF Arity
  <1>4. args' \in Seq(Argument) /\ Count' = n
    BY <1>2, <1>3 DEF Count
  <1>5. Planned(StepsOf)'
    BY <1>2, <1>4, NextPlan
  <1>6. StepsOf' \in Seq(AnyStep) /\ Len(StepsOf') \in Nat
    BY <1>5, LenProperties DEF Planned
  <1>7. Behind' = 0
    BY <1>1, <1>6 DEF Behind
  <1>8. TodoInv'
    BY <1>1, <1>2, <1>4, <1>6, <1>7 DEF TodoInv
  <1>9. CalledInv'
    BY <1>1, <1>7 DEF CalledInv, Passed
  <1>10. TypeOK'
    BY <1>1, <1>2, <1>4 DEF IInv, TypeOK
  <1> QED
    BY <1>1, <1>8, <1>9, <1>10
    DEF IInv, ReturnedInv, IdleInv, ReadsOnlyItsArguments, UndefinedOnlyFor

\* The client may call again.
LEMMA DoneNext == ASSUME IInv, Done PROVE IInv'
  <1>1. /\ at' = "idle" /\ args' = <<>> /\ limit' = 0 /\ report_type' = "none"
        /\ buffer' = "unfilled" /\ output' = <<>> /\ text' = <<>> /\ beyond' = FALSE
        /\ UNCHANGED <<started, function, todo, pipeFailed, lookFailed>> /\ at # "called"
    BY DEF Done
  <1>2. 0 \in Ints
    BY HalfAssumption DEF Ints
  <1>3. args' \in Seq(Argument) /\ output' \in Seq(1..MaxLines) /\ text' \in Seq(1..MaxLines)
    BY <1>1
  <1>4. /\ todo = <<>> /\ started \in BOOLEAN /\ function \in DOMAIN Arity
        /\ pipeFailed \in BOOLEAN /\ lookFailed \in BOOLEAN
    BY <1>1 DEF IInv, TypeOK
  <1>5. TypeOK'
    BY <1>1, <1>2, <1>3, <1>4 DEF TypeOK
  <1> QED
    BY <1>1, <1>5
    DEF IInv, TodoInv, CalledInv, ReturnedInv, IdleInv, ReadsOnlyItsArguments, UndefinedOnlyFor

-----------------------------------------------------------------------------
(* The invariant holds. *)

\* It holds before the first call.
LEMMA Initially == Init => IInv
  <1> SUFFICES ASSUME Init PROVE IInv
    OBVIOUS
  <1>1. 0 \in Ints
    BY HalfAssumption DEF Ints
  <1>2. args \in Seq(Argument) /\ output \in Seq(1..MaxLines) /\ text \in Seq(1..MaxLines)
    BY DEF Init
  <1>3. TypeOK
    BY <1>1, <1>2 DEF Init, TypeOK
  <1> QED
    BY <1>3 DEF Init, IInv, TodoInv, CalledInv, ReturnedInv, IdleInv,
                ReadsOnlyItsArguments, UndefinedOnlyFor

\* Every step keeps it.
LEMMA Preserved == IInv /\ [Next]_vars => IInv'
  <1> SUFFICES ASSUME IInv, [Next]_vars PROVE IInv'
    OBVIOUS
  <1>1. CASE Call
    BY <1>1, CallNext
  <1>2. CASE ReadLimit
    BY <1>2, ReadLimitNext
  <1>3. CASE ReadType
    BY <1>3, ReadTypeNext
  <1>4. CASE ReadString
    BY <1>4, ReadStringNext
  <1>5. CASE CheckFile
    BY <1>5, CheckFileNext
  <1>6. CASE GetMysqld \/ GetBinary
    BY <1>6, PathsNext
  <1>7. CASE ExecPprof
    BY <1>7, ExecPprofNext
  <1>8. CASE Done
    BY <1>8, DoneNext
  <1>9. CASE UNCHANGED vars
    <2>1. /\ UNCHANGED <<call, todo, at, limit, report_type, buffer, output, text>>
          /\ UNCHANGED <<beyond, pipeFailed, lookFailed>>
      BY <1>9 DEF vars, locals, history
    <2>2. /\ UNCHANGED <<started, function, args>> /\ Count' = Count
          /\ AskedType' = AskedType /\ (NoTypeRead' <=> NoTypeRead)
      BY <2>1, SameCall
    <2>3. StepsOf' = StepsOf
      BY <2>2 DEF StepsOf, MemDiff
    <2>4. TypeOK'
      BY <2>1, <2>2 DEF IInv, TypeOK
    <2>5. TodoInv'
      BY <2>1, <2>2, <2>3 DEF IInv, TodoInv, Behind
    <2>6. (LimitRead' <=> LimitRead) /\ (TypeRead' <=> TypeRead)
      BY <2>1, <2>2 DEF LimitRead, TypeRead
    <2>7. /\ Passed("limit")' <=> Passed("limit")
          /\ Passed("type")' <=> Passed("type")
          /\ Passed("get")' <=> Passed("get")
      BY <2>1, <2>3 DEF Passed, Behind
    <2>8. CalledInv'
      BY <2>1, <2>6, <2>7 DEF IInv, CalledInv
    <2>9. ReturnedInv' /\ IdleInv'
      BY <2>1, <2>2, <2>6 DEF IInv, ReturnedInv, IdleInv, Returned
    <2>10. ReadsOnlyItsArguments' /\ UndefinedOnlyFor'
      BY <2>1, <2>2 DEF IInv, ReadsOnlyItsArguments, UndefinedOnlyFor
    <2> QED
      BY <2>4, <2>5, <2>8, <2>9, <2>10 DEF IInv
  <1> QED
    BY <1>1, <1>2, <1>3, <1>4, <1>5, <1>6, <1>7, <1>8, <1>9 DEF Next

\* The inductive invariant holds in every state: what is left of a call is the
\* end of its function's steps, and the locals are what the steps behind it
\* read from the arguments.
THEOREM Invariance == Spec => []IInv
  BY Initially, Preserved, PTL DEF Spec

\* Every variable stays in its range: the limit in that of an int.
THEOREM TypeCorrect == Spec => []TypeOK
  BY Invariance, PTL DEF IInv

\* With the invariant, a report has the type and the lines that were asked for.
LEMMA AskedFollows == IInv => ReportIsAsAsked
  <1> SUFFICES ASSUME IInv, at = "returned", ~beyond, AskedLimit \in Ints,
                      AskedType \in {"text", "dot"}, ~NoTypeRead
               PROVE  /\ report_type = AskedType
                      /\ LET cut == AskedType = "text" /\ AskedLimit \in 1..Len(output)
                         IN  text = SubSeq(output, 1,
                                           IF cut THEN AskedLimit ELSE Len(output))
    BY DEF ReportIsAsAsked, NoTypeRead
  <1>1. LimitRead /\ TypeRead /\ text = Returned(output) /\ output \in Seq(1..MaxLines)
    BY DEF IInv, ReturnedInv, TypeOK
  <1>2. report_type = AskedType
    BY <1>1 DEF TypeRead
  <1>3. limit = AskedLimit
    <2>1. CASE LimitIndex[function] <= Count
      <3>1. AskedLimit = args[LimitIndex[function]].value /\ limit = AsInt(AskedLimit)
        BY <1>1, <2>1 DEF LimitRead, AskedLimit
      <3>2. AskedLimit \in Int
        BY HalfAssumption DEF Ints
      <3> QED
        BY <3>1, <3>2, AsIntFacts
    <2>2. CASE ~(LimitIndex[function] <= Count)
      BY <1>1, <2>2 DEF LimitRead, AskedLimit
    <2> QED
      BY <2>1, <2>2
  <1>4. limit \in Int /\ Len(output) \in Nat /\ SubSeq(output, 1, Len(output)) = output
    BY <1>1, <1>3, HalfAssumption, LenProperties, SubSeqFull DEF Ints
  <1>5. CASE AskedType = "text" /\ AskedLimit \in 1..Len(output)
    <2>1. text = LimitLines(output, limit) /\ limit \in Nat /\ limit <= Len(output)
      BY <1>1, <1>2, <1>3, <1>4, <1>5 DEF Returned
    <2>2. text = SubSeq(output, 1, limit)
      BY <1>1, <2>1, LimitLinesFacts
    <2> QED
      BY <1>2, <1>3, <1>5, <2>2
  <1>6. CASE ~(AskedType = "text" /\ AskedLimit \in 1..Len(output))
    <2>1. text = output
      <3>1. CASE limit > 0 /\ report_type = "text"
        <4>1. text = LimitLines(output, limit) /\ limit \in Nat /\ limit > Len(output)
          BY <1>1, <1>2, <1>3, <1>4, <1>6, <3>1 DEF Returned
        <4> QED
          BY <1>1, <4>1, LimitLinesFacts
      <3>2. CASE ~(limit > 0 /\ report_type = "text")
        BY <1>1, <3>2 DEF Returned
      <3> QED
        BY <3>1, <3>2
    <2> QED
      BY <1>2, <1>4, <1>6, <2>1
  <1> QED
    BY <1>5, <1>6

\* With the invariant, the tool runs with a path that was filled in.
LEMMA FilledFollows == IInv => BufferFilled
  <1> SUFFICES ASSUME IInv, at = "called", todo # <<>>, Head(todo).do = "exec_pprof"
               PROVE  buffer = "filled"
    BY DEF BufferFilled
  <1>1. Passed("get")
    BY StepFacts
  <1> QED
    BY <1>1 DEF IInv, CalledInv

\* The client gets the report it asked for.
THEOREM AsAsked == Spec => []ReportIsAsAsked
  BY Invariance, AskedFollows, PTL

\* Two calls read an argument they do not have, and no others.
THEOREM OnlyTwoReadBeyond == Spec => []ReadsOnlyItsArguments
  BY Invariance, PTL DEF IInv

\* What can make a call undefined.
THEOREM UndefinedCalls == Spec => []UndefinedOnlyFor
  BY Invariance, PTL DEF IInv

\* The buffer that is passed to the tool was filled, whatever the length of
\* the variable's value.
THEOREM FilledBuffer == Spec => []BufferFilled
  BY Invariance, FilledFollows, PTL

=============================================================================
