--------------------------------- MODULE Agent ---------------------------------
(***************************************************************************)
(* The Agent's main(), agent/src/main.cpp, around its telemetry loop: the  *)
(* command line, the signals, the local server started before the loop and *)
(* stopped after it, and the wall clock that event ids are made from.      *)
(*                                                                         *)
(* The local server is reduced to whether its worker runs; IpcServer says  *)
(* when its stop() returns.  The server address is text nobody looks at.   *)
(***************************************************************************)
EXTENDS TelemetryRunner, Sequences, FiniteSetsExt

CONSTANTS
  MaxArgs,     \* bound: arguments on the command line
  MaxSetBacks  \* bound: how often the wall clock is set back

ASSUME AgentAssumption == MaxArgs \in Nat /\ MaxSetBacks \in Nat

VARIABLES
  phase,     \* how far main() is
  argv,      \* what of the command line it has not forgotten
  index,     \* the argument it looks at
  interval,  \* options.collection_interval, in ms
  ipc,       \* the local server's worker
  clock,     \* the wall clock, in steps of a CPU sample
  setBacks,
  stamps     \* for each cycle, the timestamp in its event ids

mainVars  == <<phase, argv, index, interval>>
clockVars == <<clock, setBacks, stamps>>
agentVars == <<vars, mainVars, ipc, clockVars>>

-----------------------------------------------------------------------------
(* The command line *)

Switches == {"--help", "--version", "--once"}
Valued == {"--server", "--interval-ms"}
\* Values stand for what main() tells apart: a long enough interval, one below
\* cpu_sample_interval, and text that is no positive number.
Numbers == {"2000", "100"}
Values == Numbers \cup {"text"}
Arguments == Switches \cup Valued \cup Values
cpu_sample_interval == 500

NoNumber == 0
parse_positive_milliseconds(text) ==
  CASE text = "2000" -> 2000 [] text = "100" -> 100 [] OTHER -> NoNumber

AgentInit ==
  /\ once = FALSE /\ stop = FALSE
  /\ pc = "test" /\ cycle = 0
  /\ snapshot = Empty /\ result = NoResult /\ slices = 0 /\ store = Empty
  /\ sent = {} /\ network = {} /\ accepted = {} /\ exitCode = 0
  /\ phase = "args"
  /\ argv \in UNION {[1 .. n -> Arguments] : n \in 0 .. MaxArgs}
  /\ index = 1 /\ interval = 5000
  /\ ipc = "none"
  /\ clock = 0 /\ setBacks = 0 /\ stamps = <<>>

NotRunning == <<once, stop, pc, cycle, snapshot, result, slices, store, netVars>>

Return(code) ==
  /\ phase' = "exited" /\ exitCode' = code
  /\ UNCHANGED <<NotRunning, argv, index, interval, ipc, clockVars>>

Argument == argv[index]
Reading == phase = "args" /\ index <= Len(argv)
HasValue == index < Len(argv)

HelpOrVersion ==
  /\ Reading /\ Argument \in {"--help", "--version"}
  /\ Return(0)

Once ==
  /\ Reading /\ Argument = "--once"
  /\ once' = TRUE /\ index' = index + 1
  /\ UNCHANGED <<stop, pc, cycle, snapshot, result, slices, store, netVars, exitCode,
                 phase, argv, interval, ipc, clockVars>>

\* Both options with a value take the next argument, whatever it looks like.
NextArgument(i) == i + 1
AfterValue(i) == i + 2

TakesValue ==
  /\ Reading /\ Argument \in Valued /\ HasValue
  /\ LET number == parse_positive_milliseconds(argv[index + 1]) IN
       /\ Argument = "--interval-ms" => number # NoNumber
       /\ interval' = IF Argument = "--interval-ms" THEN number ELSE interval
  /\ index' = AfterValue(index)
  /\ UNCHANGED <<NotRunning, exitCode, phase, argv, ipc, clockVars>>

\* An unknown argument, or an option at the end that lacks its value.
WrongArgument ==
  /\ Reading
  /\ Argument \in Values \/ (Argument \in Valued /\ ~HasValue)
  /\ Return(2)

\* The value is no positive integer, or the interval is shorter than a sample.
BadInterval ==
  /\ \/ /\ Reading /\ Argument = "--interval-ms" /\ HasValue
        /\ parse_positive_milliseconds(argv[index + 1]) = NoNumber
     \/ phase = "args" /\ index > Len(argv) /\ interval < cpu_sample_interval
  /\ Return(2)

-----------------------------------------------------------------------------
(* The life of the process *)

\* Objects, handlers and the local server, in this order; --once has neither.
Begin ==
  /\ phase = "args" /\ index > Len(argv) /\ interval >= cpu_sample_interval
  /\ phase' = "running"
  /\ argv' = <<>> /\ index' = 1 /\ interval' = 5000
  /\ ipc' = IF once THEN "none" ELSE "serving"
  /\ pc' = IF once THEN "collect" ELSE "test"
  /\ cycle' = IF once THEN 1 ELSE 0
  /\ UNCHANGED <<once, stop, snapshot, result, slices, store, netVars, exitCode,
                 clockVars>>

\* Wall-clock time passes in the CPU sample, which a failed first reading
\* skips, and in the pause; whatever RPCs take is no help to the ids.
TimePasses ==
  clock' \in IF pc = "collect" THEN IF "cpu" \in snapshot'.metrics THEN {clock + 1}
                                  ELSE {clock, clock + 1}
            ELSE IF pc = "sleep" /\ slices' < slices THEN {clock + 1}
            ELSE {clock}

\* "cpu-event-" or "memory-event-" before the timestamp of the cycle.
TimestampOnly(event) == stamps[event.cycle]
EventId(event) == <<event.metric, stamps[event.cycle]>>

RunnerWorks ==
  /\ phase = "running"
  /\ RunnerStep
  /\ TimePasses
  /\ stamps' = IF pc = "collect" THEN Append(stamps, clock') ELSE stamps
  /\ UNCHANGED <<mainVars, ipc, setBacks>>

\* The one-shot run ends with its exit code, the loop by stopping the server.
EndOfRun ==
  /\ phase = "running" /\ pc \in {"exit", "stopped"}
  /\ phase' = IF once THEN "exited" ELSE "stopping"
  /\ UNCHANGED <<vars, argv, index, interval, ipc, clockVars>>

\* ipc_server.stop() returns, main() leaves and its objects are destroyed.
StopReturned ==
  /\ phase = "stopping"
  /\ phase' = "exited" /\ ipc' = "joined"
  /\ UNCHANGED <<vars, argv, index, interval, clockVars>>

\* Ctrl+C: the handler sets the flag, once, for the C runtime uninstalls it
\* when it calls it.  Without a handler (before, with --once, the second time)
\* Ctrl+C kills.
CtrlC ==
  /\ phase \in {"args", "running", "stopping"}
  /\ IF phase # "args" /\ ~once /\ ~stop
     THEN Signal /\ UNCHANGED phase
     ELSE phase' = "killed" /\ UNCHANGED vars
  /\ UNCHANGED <<argv, index, interval, ipc, clockVars>>

Network ==
  /\ phase = "running"
  /\ ServerAccepts \/ RequestLost
  /\ UNCHANGED <<mainVars, ipc, clockVars>>

\* Somebody, or time synchronisation, sets the wall clock back.
ClockSetBack ==
  /\ setBacks < MaxSetBacks
  /\ setBacks' = setBacks + 1
  /\ clock' \in 0 .. clock - 1
  /\ UNCHANGED <<vars, mainVars, ipc, stamps>>

MainStep ==
  \/ HelpOrVersion \/ Once \/ TakesValue \/ WrongArgument \/ BadInterval
  \/ Begin \/ RunnerWorks \/ EndOfRun \/ StopReturned
AgentNext == MainStep \/ CtrlC \/ Network \/ ClockSetBack

AgentSpec == AgentInit /\ [][AgentNext]_agentVars
\* main() is scheduled, RPCs have deadlines, and stop() returns.
FairAgentSpec == AgentSpec /\ WF_agentVars(MainStep)

-----------------------------------------------------------------------------
(* What the usage text promises, without a loop over the arguments *)

\* Is argument i an option, or the value of the option before it?
IsOption(args) ==
  LET option[i \in 0 .. Len(args)] ==
        i = 0 \/ i = 1 \/ ~(option[i - 1] /\ args[i - 1] \in Valued)
  IN  {i \in 1 .. Len(args) : option[i]}
ValueGiven(args, i) == IF i < Len(args) THEN args[i + 1] ELSE "missing"
Refused(args) ==
  {i \in IsOption(args) :
     \/ args[i] \in Values
     \/ args[i] \in Valued /\ ValueGiven(args, i) = "missing"
     \/ args[i] = "--interval-ms" /\ ValueGiven(args, i) \notin Numbers}
Informs(args) == {i \in IsOption(args) : args[i] \in {"--help", "--version"}}
Intervals(args) == {i \in IsOption(args) : args[i] = "--interval-ms"}

\* What main() must do: run, or return 0 or 2.
Verdict(args) ==
  LET ends == Refused(args) \cup Informs(args) IN
    IF ends # {} THEN IF Min(ends) \in Informs(args) THEN "0" ELSE "2"
    ELSE IF Intervals(args) # {} /\ ValueGiven(args, Max(Intervals(args))) = "100"
    THEN "2" ELSE "run"

-----------------------------------------------------------------------------
(* Properties *)

\* The loop over argv decides as the usage text says, for every order,
\* repetition and omission of options and values, and values that look like
\* options: the first --help, --version or mistake counts, the last interval
\* counts, and a value is never taken for an option (lines 80-150).
VerdictStep ==
  phase = "args" /\ phase' # "args" /\ phase' # "killed" =>
    Verdict(argv) = IF phase' = "running" THEN "run"
                    ELSE IF exitCode' = 0 THEN "0" ELSE "2"
ParsesAsUsageSays == [][VerdictStep]_agentVars

\* No two events of a process have one id, in a cycle or across cycles, as
\* long as the clock only goes forward (telemetry_runner.cpp:64-68, 101, 126;
\* docs/tasks/WIN-001.md:94: ids are "unique within the process").
EventIdsUnique ==
  setBacks = 0 => \A e, f \in sent : EventId(e) = EventId(f) => e = f

\* Ctrl+C ends the process, whatever the server does, if the local server's
\* stop() returns (lines 188-206).
CtrlCEndsAgent == stop ~> phase \in {"exited", "killed"}

=============================================================================
