------------------------------- MODULE Tools -------------------------------
(***************************************************************************)
(* The tool registry and the tools of crates/milona-tools: a map by name,  *)
(* the three native tools, and the client-side handle of a remote MCP tool *)
(* which may be registered under any name, a native tool's included.       *)
(*                                                                         *)
(* Arguments are a JSON object: a record of the fields that are present    *)
(* and have the type the tool asks for.  A float is the whole number of    *)
(* f64's smallest steps it consists of, of which Unit make 1; one beyond   *)
(* FloatMax is an infinity.  An instant is the day since the epoch and the *)
(* second of the day.                                                      *)
(***************************************************************************)
EXTENDS Integers, Sequences, FiniteSetsExt

CONSTANTS
  RemoteNames,       \* names McpClientTools are given
  Arguments,         \* the JSON objects tools are called with
  Instants,          \* what SystemTime::now() may answer, day -1 for before 1970
  IntMax,            \* i64::MAX
  Precision,         \* the bits of a float's significand: 53 for f64
  UnitExponent,      \* 1 is 2^UnitExponent smallest steps: 1074 for f64
  TopExponent,       \* the largest floats are 2^TopExponent steps apart: 2045
  MaxRegistrations   \* bound on the registrations after construction

ASSUME RangeAssumption ==
  /\ IntMax \in Nat /\ Precision \in Nat \ {0}
  /\ TopExponent \in Nat /\ UnitExponent \in 0..TopExponent

Unit == 2 ^ UnitExponent
Spacings == {2 ^ k : k \in 0..TopExponent}
FloatMax == (2 ^ Precision - 1) * 2 ^ TopExponent
Infinity == FloatMax + 1

(* The float nearest to n/d steps, n >= 0 and d > 0, the even one of two.  *)
(* Floats keep Precision bits, so they lie the further apart the larger    *)
(* they are.                                                               *)
Nearest(n, d) ==
  LET wide == {g \in Spacings : n < 2 ^ Precision * g * d}
      gap == d * (IF wide = {} THEN Max(Spacings) ELSE Min(wide))
      lower == n \div gap
      excess == 2 * (n % gap)
      count == IF excess > gap \/ (excess = gap /\ lower % 2 = 1) THEN lower + 1 ELSE lower
  IN Min({count * (gap \div d), Infinity})

Rounded(n, d) == IF n < 0 THEN -Nearest(-n, d) ELSE Nearest(n, d)

(* An argument is the float v.as_f64() gives for a JSON number: never an   *)
(* infinity.  A day has 86400 seconds.                                     *)
ASSUME InputAssumption ==
  /\ \A args \in Arguments : \A field \in {"a", "b"} \cap DOMAIN args :
       /\ args[field] \in -FloatMax..FloatMax
       /\ args[field] = Rounded(args[field], 1)
  /\ Instants \subseteq [day : Int, second : {x \in Nat : x < 86400}]

VARIABLES
  tools,       \* ToolRegistry.tools
  registered,  \* history: every registration, in order
  call,        \* the invocation being answered
  answer       \* its Result, until the caller has it

toolsVars == <<tools, registered, call, answer>>

Native(n) == [kind |-> "native", name |-> n]
Remote(n) == [kind |-> "remote", name |-> n]
NativeTools == {Native("echo"), Native("current_time"), Native("calculator")}
AllTools == NativeTools \cup {Remote(n) : n \in RemoteNames}

(* The names that are called: every name a tool may have.                  *)
ToolNames == {t.name : t \in AllTools}

Ok(content) == [outcome |-> "Ok", content |-> content]
Err(e) == [outcome |-> e, content |-> <<>>]

NoCall == [name |-> "", input |-> <<>>]
NoAnswer == Err("none")
Idle == answer.outcome = "none"

Has(arguments, field) == field \in DOMAIN arguments

-----------------------------------------------------------------------------
(* calculator.                                                             *)

(* f64 arithmetic: the exact result, rounded.                              *)
Apply(op, a, b) ==
  CASE op = "add" -> Rounded(a + b, 1)
    [] op = "sub" -> Rounded(a - b, 1)
    [] op = "mul" -> Rounded(a * b, Unit)
    [] op = "div" -> IF b > 0 THEN Rounded(a * Unit, b) ELSE Rounded(-a * Unit, -b)

(* `value as i64` saturates.                                               *)
AsI64(i) == IF i > IntMax THEN IntMax ELSE IF i < -IntMax - 1 THEN -IntMax - 1 ELSE i

IsWhole(v) == v \in -FloatMax..FloatMax /\ v % Unit = 0

(* A whole result is shown as an integer, any other as the float it is.    *)
format_result(v) ==
  IF IsWhole(v) THEN [shown |-> "integer", value |-> AsI64(v \div Unit)]
  ELSE [shown |-> "float", value |-> v]

calculator(args) ==
  IF \/ ~Has(args, "op") \/ ~Has(args, "a") \/ ~Has(args, "b")
     \/ args.op \notin {"add", "sub", "mul", "div"}
     \/ args.op = "div" /\ args.b = 0
  THEN Err("InvalidInput")
  ELSE Ok(format_result(Apply(args.op, args.a, args.b)))

-----------------------------------------------------------------------------
(* current_time.                                                           *)

\* Mutants: the century correction dropped; month 13 for January.
YearOfEra_NoCenturies(doe) == (doe - doe \div 1460 - doe \div 146096) \div 365
MonthOf_Unwrapped(mp) == mp + 3

YearOfEra(doe) == (doe - doe \div 1460 + doe \div 36524 - doe \div 146096) \div 365
MonthOf(mp) == IF mp < 10 THEN mp + 3 ELSE mp - 9

civil_from_days(days) ==
  LET z == days + 719468
      era == (IF z >= 0 THEN z ELSE z - 146096) \div 146097
      doe == z - era * 146097
      yoe == YearOfEra(doe)
      doy == doe - (365 * yoe + yoe \div 4 - yoe \div 100)
      mp == (5 * doy + 2) \div 153
      month == MonthOf(mp)
  IN [year |-> yoe + era * 400 + (IF month <= 2 THEN 1 ELSE 0),
      month |-> month,
      day |-> doy - (153 * mp + 2) \div 5 + 1]

format_rfc3339(now) ==
  [date |-> civil_from_days(now.day),
   time |-> <<now.second \div 3600, (now.second % 3600) \div 60, now.second % 60>>]

current_time(now) == IF now.day < 0 THEN Err("Other") ELSE Ok(format_rfc3339(now))

-----------------------------------------------------------------------------
echo(args) == IF Has(args, "message") THEN Ok(args.message) ELSE Err("InvalidInput")

(* `tool.invoke`: a remote tool is never reached, and the only tool that   *)
(* reads the clock does not read its arguments.                            *)
Invoked(tool, args) ==
  CASE tool.kind = "remote" -> Err("Unsupported")
    [] tool = Native("echo") -> echo(args)
    [] tool = Native("calculator") -> calculator(args)

NativeRegistry == [n \in {t.name : t \in NativeTools} |-> Native(n)]

ToolsInit ==
  /\ \/ tools = [n \in {} |-> Native(n)] /\ registered = <<>>
     \/ tools = NativeRegistry
        /\ registered = <<Native("echo"), Native("current_time"), Native("calculator")>>
  /\ call = NoCall
  /\ answer = NoAnswer

\* Mutant: the first registration of a name is kept.
Inserted_First(tool) ==
  [n \in DOMAIN tools \cup {tool.name} |-> IF n \in DOMAIN tools THEN tools[n] ELSE tool]

Inserted(tool) ==
  [n \in DOMAIN tools \cup {tool.name} |-> IF n = tool.name THEN tool ELSE tools[n]]

(* `register` borrows the registry mutably: no invocation is in progress.   *)
register(tool) ==
  /\ Idle /\ Len(registered) < MaxRegistrations
  /\ tools' = Inserted(tool)
  /\ registered' = Append(registered, tool)
  /\ UNCHANGED <<call, answer>>

Returned(name, input, result) ==
  /\ Idle
  /\ call' = [name |-> name, input |-> input]
  /\ answer' = result
  /\ UNCHANGED <<tools, registered>>

invoke(name, args) ==
  IF name \in DOMAIN tools
  THEN /\ tools[name] # Native("current_time")
       /\ Returned(name, args, Invoked(tools[name], args))
  ELSE Returned(name, args, Err("NotFound"))

invoke_current_time(now) ==
  /\ "current_time" \in DOMAIN tools /\ tools["current_time"] = Native("current_time")
  /\ Returned("current_time", now, current_time(now))

(* The caller has the result.                                              *)
Done ==
  /\ ~Idle
  /\ call' = NoCall /\ answer' = NoAnswer
  /\ UNCHANGED <<tools, registered>>

ToolsNext ==
  \/ \E tool \in AllTools : register(tool)
  \/ \E name \in ToolNames, args \in Arguments : invoke(name, args)
  \/ \E now \in Instants : invoke_current_time(now)
  \/ Done

ToolsSpec == ToolsInit /\ [][ToolsNext]_toolsVars

-----------------------------------------------------------------------------
(* Correctness.                                                            *)

Outcomes == {"none", "Ok", "NotFound", "InvalidInput", "Unsupported", "Other"}

(* Every variable has its type; the fields of a date and of a time are in  *)
(* the ranges RFC 3339 gives them (current_time.rs:53).                    *)
ToolsTypeOK ==
  /\ tools \in [DOMAIN tools -> AllTools] /\ DOMAIN tools \subseteq ToolNames
  /\ registered \in Seq(AllTools)
  /\ answer.outcome \in Outcomes
  /\ answer.outcome = "Ok" /\ call.name = "current_time" =>
       LET d == answer.content.date
           t == answer.content.time
       IN /\ d.month \in 1..12 /\ d.day \in 1..31
          /\ t[1] \in 0..23 /\ t[2] \in 0..59 /\ t[3] \in 0..59

(* The calendar, by its rule.                                              *)
IsLeap(y) == y % 4 = 0 /\ (y % 100 # 0 \/ y % 400 = 0)
DaysIn(y, m) ==
  IF m = 2 THEN (IF IsLeap(y) THEN 29 ELSE 28) ELSE IF m \in {4, 6, 9, 11} THEN 30 ELSE 31
LeapsBefore(y) == (y - 1) \div 4 - (y - 1) \div 100 + (y - 1) \div 400
DaysBefore(y, m) ==
  LET days == [k \in 1..12 |-> DaysIn(y, k)]
  IN 365 * (y - 1970) + LeapsBefore(y) - LeapsBefore(1970)
       + MapThenSumSet(LAMBDA k : days[k], 1..(m - 1))

(* The date answered, counted back day by day with the calendar's leap     *)
(* rule, is the day the clock read, and the time the second of that day    *)
(* (current_time.rs:43-72, whose arithmetic has no leap rule to read).     *)
DateIsExact ==
  answer.outcome = "Ok" /\ call.name = "current_time" =>
    LET d == answer.content.date
        t == answer.content.time
    IN /\ d.day \in 1..DaysIn(d.year, d.month)
       /\ DaysBefore(d.year, d.month) + d.day - 1 = call.input.day
       /\ 3600 * t[1] + 60 * t[2] + t[3] = call.input.second

(* The registrations under the name called.                                *)
RegisteredAs ==
  {i \in DOMAIN registered : registered[i].name = call.name}
Latest == registered[Max(RegisteredAs)]

(* An answer is the one of the tool registered last under the name         *)
(* (registry.rs:27-31), a remote tool's is never an answer at all          *)
(* (mcp.rs:46-48), and a name is not found only if nothing was ever        *)
(* registered under it.                                                    *)
LatestToolAnswers ==
  /\ answer.outcome \notin {"none", "NotFound"} => RegisteredAs # {}
  /\ answer.outcome = "NotFound" => RegisteredAs = {}
  /\ answer.outcome = "Unsupported" => Latest.kind = "remote"
  /\ answer.outcome \in {"Ok", "InvalidInput", "Other"} => Latest = Native(call.name)
=============================================================================
