----------------------------- MODULE MCTrainingRun -----------------------------
(***************************************************************************)
(* A small instance of TrainingRun: a profile that asks for documents of   *)
(* its own, one with ticks out of range, and command lines for every way   *)
(* main can go.                                                            *)
(***************************************************************************)
EXTENDS TrainingRun

SomePaths == {"good.json", "bad.json", "a", "b", "c"}

Profile(ticks) ==
  [ kind |-> "profile", scenario |-> "nominal", ticks |-> ticks,
    out |-> [session |-> "a", reportJson |-> None, reportMd |-> "b"] ]

SomeFiles ==
  [path \in SomePaths |->
     IF path = "good.json" THEN Profile(2)
     ELSE IF path = "bad.json" THEN Profile(0) ELSE None]

SomeScenarios == {"nominal", "thermal"}

Bare ==
  [ scenario |-> None, ticks |-> None, profile |-> None, window |-> 0,
    list |-> FALSE, inspect |-> None,
    out |-> [ session |-> None, reportJson |-> None, reportMd |-> None,
              diagnosticJson |-> None, diagnosticMd |-> None, casebook |-> None ] ]

SomeInvocations ==
  { [Bare EXCEPT !.ticks = 9, !.out.session = "a"],
    [Bare EXCEPT !.profile = "bad.json", !.list = TRUE],
    [Bare EXCEPT !.profile = "good.json", !.list = TRUE, !.out.session = "c"],
    [Bare EXCEPT !.inspect = "a"],
    [Bare EXCEPT !.scenario = "mistyped", !.out.session = "a"],
    [Bare EXCEPT !.profile = "good.json", !.scenario = "thermal", !.out.casebook = "c"],
    [Bare EXCEPT !.ticks = 3, !.window = 2, !.out.session = "a", !.out.reportJson = "b",
                 !.out.reportMd = "b", !.out.diagnosticMd = "good.json"],
    [Bare EXCEPT !.out.diagnosticJson = "b", !.out.casebook = "c"] }
==============================================================================
