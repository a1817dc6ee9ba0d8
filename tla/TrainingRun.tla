------------------------------ MODULE TrainingRun ------------------------------
(***************************************************************************)
(* The command-line program: each invocation reads its options and perhaps *)
(* a profile, lists, inspects or simulates, and after the last tick writes *)
(* the documents it was asked for, one after the other, each in place.     *)
(* The process may be killed anywhere, and any file may refuse to be       *)
(* opened or written.  Between invocations somebody works on the casebook. *)
(*                                                                         *)
(* The lab is deterministic: what a document says follows from its kind,   *)
(* the scenario and the ticks (and the trend window of a report).          *)
(***************************************************************************)
EXTENDS DiagnosticCases

CONSTANTS
  Invocations,   \* command lines that are tried
  Scenarios,     \* ScenarioEngine::names
  DefaultTicks,  \* ticks of a run that names none  (source: 40)
  MaxTicks,      \* ticks that may be asked for  (source: 100000)
  ReadableTicks, \* frames of a session file of 50 MiB
  Files,         \* the files there are at first
  MaxRuns        \* bound: invocations

(* Every casebook was written by the program: there is none at first.      *)
ASSUME FilesAssumption ==
  /\ Files = [path \in Paths |-> Files[path]]
  /\ \A path \in Paths :
       IsDocument(Files[path]) => Files[path].kind # "casebook"

(* A command line says of each output where it goes, or that it does not.  *)
ASSUME InvocationsAssumption == \A o \in Invocations : "out" \in DOMAIN o

(* No exit code is None, which is that of a process that runs.             *)
ASSUME ExitCodesAssumption == None \notin {"success", "failure", "usage", "killed"}

VARIABLES
  phase,         \* where main is: idle, simulating, writing, open
  options,       \* its options, after the profile was read
  tick,          \* ticks simulated
  todo,          \* places, in Outputs, of what is left to write
  lost,          \* places of what was cut short when its file was closed
  exitCode,      \* of the last invocation
  runs,          \* number of invocations
  before         \* the files when it began

runVars == <<phase, options, tick, todo, lost, exitCode, runs, before>>
vars == <<disk, cases, runVars>>

------------------------------------------------------------------------------
Outputs == <<"session", "reportJson", "reportMd", "diagnosticJson", "diagnosticMd", "casebook">>

NoOptions == <<>>

(* Those that a profile can ask for.                                       *)
ProfileOutputs == {"session", "reportJson", "reportMd"}

(* RunProfile::readFile: a schema of its own, and ranges as on the command *)
(* line.                                                                   *)
GoodProfile(content) ==
  /\ IsDocument(content) /\ content.kind = "profile"
  /\ content.ticks \in 1..MaxTicks

(* What the command line does not say is taken from the profile.           *)
Merged(o, profile) ==
  [o EXCEPT
    !.scenario = IF @ = None THEN profile.scenario ELSE @,
    !.ticks = IF @ = None THEN profile.ticks ELSE @,
    !.out = [output \in DOMAIN @ |->
               IF @[output] = None /\ output \in ProfileOutputs
               THEN profile.out[output] ELSE @[output]]]

WithDefaults(o) ==
  [o EXCEPT !.scenario = IF @ = None THEN "nominal" ELSE @,
            !.ticks = IF @ = None THEN DefaultTicks ELSE @]

Effective(o) ==
  WithDefaults(IF o.profile = None THEN o ELSE Merged(o, disk[o.profile]))

(* The places of the outputs that were asked for, in the order main writes *)
(* them.                                                                   *)
Asked(o) == {i \in DOMAIN Outputs : o.out[Outputs[i]] # None}

(* LabReport::analyze.                                                     *)
TrendWindow(o, frames) == IF o.window = 0 \/ o.window > frames THEN frames ELSE o.window

(* The one case of a run, named for its last tick.                         *)
Case(o, frames) ==
  [ id |-> frames, state |-> "DETECTED", opened |-> frames, updated |-> frames,
    findings |-> <<o.scenario, frames>>, notes |-> <<"DETECTED">> ]

Document(o, frames, output) ==
  IF output = "casebook" THEN ToJson(<<Case(o, frames)>>)
  ELSE [ kind |-> output, scenario |-> o.scenario, frames |-> frames,
         window |-> IF output \in {"reportJson", "reportMd"} THEN TrendWindow(o, frames) ELSE 0 ]

(* SessionArchive::readFile.                                               *)
Inspectable(content) ==
  IsDocument(content) /\ content.kind = "session" /\ content.frames <= ReadableTicks

------------------------------------------------------------------------------
Ends(code) == phase' = "idle" /\ exitCode' = code

Invoked(o) ==
  /\ phase = "idle" /\ runs < MaxRuns
  /\ runs' = runs + 1 /\ before' = disk /\ lost' = {}
  /\ UNCHANGED <<disk, cases>>

(* CLI11_PARSE refuses a value out of range.                               *)
InRange(o) == o.ticks # None => o.ticks \in 1..MaxTicks

ProfileIsRead(o) ==
  InRange(o) /\ (o.profile # None => GoodProfile(disk[o.profile]))

EndsAtOnce(code) ==
  Ends(code) /\ options' = NoOptions /\ tick' = 0 /\ todo' = {}

RefuseOptions(o) == Invoked(o) /\ ~InRange(o) /\ EndsAtOnce("usage")

(* The profile comes first, also when nothing is to be simulated.          *)
RefuseProfile(o) == Invoked(o) /\ InRange(o) /\ ~ProfileIsRead(o) /\ EndsAtOnce("failure")

ListScenarios(o) == Invoked(o) /\ ProfileIsRead(o) /\ o.list /\ EndsAtOnce("success")

InspectSession(o) ==
  /\ Invoked(o) /\ ProfileIsRead(o) /\ ~o.list /\ o.inspect # None
  /\ EndsAtOnce(IF Inspectable(disk[o.inspect]) THEN "success" ELSE "failure")

RefuseScenario(o) ==
  /\ Invoked(o) /\ ProfileIsRead(o) /\ ~o.list /\ o.inspect = None
  /\ Effective(o).scenario \notin Scenarios
  /\ EndsAtOnce("failure")

StartSimulation(o) ==
  /\ Invoked(o) /\ ProfileIsRead(o) /\ ~o.list /\ o.inspect = None
  /\ Effective(o).scenario \in Scenarios
  /\ phase' = "simulating" /\ exitCode' = None
  /\ options' = Effective(o) /\ tick' = 0 /\ todo' = Asked(options')

StepUntilLast ==
  /\ phase = "simulating"
  /\ tick' = tick + 1
  /\ phase' = IF tick' + 1 >= options.ticks THEN "writing" ELSE phase
  /\ UNCHANGED <<disk, cases, options, todo, lost, exitCode, runs, before>>

Step ==
  /\ phase = "simulating"
  /\ tick' = tick + 1
  /\ phase' = IF tick' = options.ticks THEN "writing" ELSE phase
  /\ UNCHANGED <<disk, cases, options, todo, lost, exitCode, runs, before>>

------------------------------------------------------------------------------
(* What main writes next, and to which file.                               *)
Place == CHOOSE i \in todo : \A j \in todo : i <= j
Target == options.out[Outputs[Place]]

Leaves(content) == disk' = [disk EXCEPT ![Target] = content]

(* A stream that cannot be opened throws; one that can has truncated.      *)
OpenOutput ==
  /\ phase = "writing" /\ todo # {}
  /\ \/ Ends("failure") /\ UNCHANGED disk
     \/ phase' = "open" /\ Leaves(Garbage) /\ UNCHANGED exitCode
  /\ UNCHANGED <<cases, options, tick, todo, lost, runs, before>>

(* The stream has taken the document and says so; what it still holds in   *)
(* its buffer, all of a short document or the end of a long one, is        *)
(* written when it is closed, and nobody looks whether that succeeds.      *)
Written ==
  /\ \/ Leaves(Document(options, tick, Outputs[Place])) /\ UNCHANGED lost
     \/ Leaves(Garbage) /\ lost' = lost \cup {Place}
  /\ phase' = "writing" /\ todo' = todo \ {Place}
  /\ UNCHANGED exitCode

WriteOutputAndGoOn ==
  /\ phase = "open"
  /\ \/ Written
     \/ /\ Leaves(Garbage) /\ UNCHANGED <<lost, exitCode>>
        /\ phase' = "writing" /\ todo' = todo \ {Place}
  /\ UNCHANGED <<cases, options, tick, runs, before>>

(* A write that fails before that is reported, and the outputs after it    *)
(* are not tried.                                                          *)
WriteOutput ==
  /\ phase = "open"
  /\ \/ Written
     \/ Leaves(Garbage) /\ Ends("failure") /\ UNCHANGED <<todo, lost>>
  /\ UNCHANGED <<cases, options, tick, runs, before>>

Return ==
  /\ phase = "writing" /\ todo = {}
  /\ Ends("success")
  /\ UNCHANGED <<disk, cases, options, tick, todo, lost, runs, before>>

(* The process is killed, perhaps while a document is written.             *)
Kill ==
  /\ phase # "idle" /\ Ends("killed")
  /\ UNCHANGED <<disk, cases, options, tick, todo, lost, runs, before>>

(* The casebook is worked on when the program does not run; what is read   *)
(* before a run may be written back after it.  From then on nothing is     *)
(* kept of the last run but the files.                                     *)
WorkOnCases ==
  /\ phase = "idle" /\ CasesNext
  /\ EndsAtOnce(None) /\ lost' = {} /\ before' = disk'
  /\ UNCHANGED runs

Init ==
  /\ disk = Files /\ cases = <<>>
  /\ phase = "idle" /\ options = NoOptions /\ tick = 0 /\ todo = {} /\ lost = {}
  /\ exitCode = None /\ runs = 0 /\ before = disk

Next ==
  \/ \E o \in Invocations :
       \/ RefuseOptions(o) \/ RefuseProfile(o) \/ ListScenarios(o)
       \/ InspectSession(o) \/ RefuseScenario(o) \/ StartSimulation(o)
  \/ Step \/ OpenOutput \/ WriteOutput \/ Return \/ Kill
  \/ WorkOnCases

Spec == Init /\ [][Next]_vars

------------------------------------------------------------------------------
(* An invocation writes whole documents, of its own ticks, in the order    *)
(* the program promises them, and stops at the first write that is seen to *)
(* fail: whenever it ends, each document before that one is complete or    *)
(* was cut short when its file was closed, which nobody sees, all other    *)
(* files are as they were, and it has returned 0 only when its stream took *)
(* every document.  So 0 does not mean that all of them are in their       *)
(* files.  Documents that go to one file replace each other.               *)
RunWritesInOrder ==
  IF options = NoOptions THEN disk = before
  ELSE
    \E n \in 0..Len(Outputs) :
      LET written == {i \in Asked(options) : i <= n}
          Goes(i, path) == options.out[Outputs[i]] = path
      IN  /\ exitCode = "success" => written = Asked(options)
          /\ \A path \in Paths :
               \/ phase \in {"open", "idle"} /\ n + 1 \in Asked(options) /\ Goes(n + 1, path)
               \/ (\A i \in written : ~Goes(i, path)) /\ disk[path] = before[path]
               \/ \E i \in written :
                    /\ Goes(i, path) /\ \A j \in written : Goes(j, path) => j <= i
                    /\ \/ disk[path] = Document(options, options.ticks, Outputs[i])
                       \/ i \in lost /\ disk[path] = Garbage

(* No invocation touches a file before all of its ticks are simulated, so  *)
(* that one that is refused, or dies on the way, costs nothing.            *)
NothingWrittenBeforeTheEnd ==
  [][ disk' # disk =>
        /\ runs' = runs
        /\ phase # "idle" => tick = options.ticks ]_vars
==============================================================================
