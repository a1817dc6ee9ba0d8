----------------------------- MODULE LabSession ------------------------------
(***************************************************************************)
(* A session with one AvionicsLab object: any sequence of its public       *)
(* operations, as the CLI, the campaign runner, the tests and CockpitBridge *)
(* call them.  The object is not shared between threads.                   *)
(***************************************************************************)
EXTENDS AvionicsLab

CONSTANTS
  PlatformInputs, PresetInputs,  \* arguments tried on applyTrainingFault
  MaxTicks,    \* bound: the lab steps to at most this tick
  MaxEvents,   \* bound: the operator calls only while the log is shorter
  LastCall     \* bound: the operator calls only up to this tick

VARIABLE lab

Init == \E s \in ScenarioNames : lab = NewLab(s)

Step ==
  /\ lab.tick < MaxTicks
  /\ \E delta \in Deltas, w \in Waves : lab' = Stepped(lab, delta, w)

(* The operator's calls; each is logged, so MaxEvents bounds them.  A      *)
(* clear logs only after an apply, and needs no bound of its own.          *)
MayLog == Len(lab.log) < MaxEvents /\ lab.tick <= LastCall

Reset == MayLog /\ lab' = WasReset(lab)

SetScenario == MayLog /\ \E s \in ScenarioNames : lab' = WithScenario(lab, s)

ApplyTrainingFault ==
  /\ MayLog
  /\ \E platform \in PlatformInputs, preset \in PresetInputs :
       lab' = WithTrainingFault(lab, platform, preset)

ClearTrainingFaults == lab' = WithoutTrainingFaults(lab)

Next == Step \/ Reset \/ SetScenario \/ ApplyTrainingFault \/ ClearTrainingFaults

Spec == Init /\ [][Next]_lab

(* The cockpit's 250 ms timer (qml/Main.qml:242) never stops calling step:  *)
(* WF_lab(Step), with its ENABLED written out, for a step is possible at   *)
(* every tick below MaxTicks and always changes the lab.                   *)
FairSpec == Spec /\ ([]<>(lab.tick >= MaxTicks) \/ []<><<Step>>_lab)

------------------------------------------------------------------------------
TypeOK == LabType(lab)

(* Recorder and clock never drift apart, whatever resets and steps come.   *)
RecorderMatchesClock == FramesFollowClock(lab)

(* Alert history (first seen, last seen, active) is exactly what a reader  *)
(* would recompute from the recorded telemetry of the same session.        *)
AlertHistoryIsRecorded == AlertsFollowFrames(lab)

(* The count cached for change detection, the alert table and a fresh      *)
(* health evaluation of the bus (LabSnapshot) always agree.                *)
SnapshotIsConsistent == AlertsAreCurrent(lab)

(* The event log follows the number of alerts: since the last reset it has *)
(* a rise for each tick at which more was wrong than at the tick before, a *)
(* fall for each at which less was, and no other, as a reader would count  *)
(* them in the recorded telemetry.  An alert raised at the very tick at    *)
(* which another clears is in the alert table and leaves no entry.         *)
LogFollowsTelemetry == LogFollowsFrames(lab)

(* "Clear and Reset ... restore nominal generation" (docs/STAGES_801_850   *)
(* .md:25): a step taken with no training fault set, at a tick for which   *)
(* the scenario has no fault, leaves no issue, whatever was on the bus.    *)
StepStarted == lab'.tick = lab.tick + 1

QuietStepIsNominal ==
  [][ /\ StepStarted
      /\ lab.training = {}
      /\ ScenarioFaults(lab.scenario, lab.tick + 1) = {}
      => Issues(lab'.bus) = {} ]_lab

(* "Scenario faults remain isolated from operator-selected training        *)
(* faults" (docs/STAGES_801_850.md:22): whatever training faults are set,  *)
(* they hide no issue the scenario alone would raise at that tick.         *)
TrainingFaultsMaskNothing ==
  [][ StepStarted =>
        \A delta \in Deltas, w \in Waves : lab'.bus = SteppedBus(lab, delta, w)
          => Issues(GeneratedBus(lab, delta, w)) \subseteq Issues(lab'.bus) ]_lab

(* docs/ARCHITECTURE.md:22: "Fail-observable behavior: injected       *)
(* faults remain visible through health and alert layers."                 *)
InjectedFaultsAreVisible ==
  [][ StepStarted /\ lab.training # {} => ActiveKeys(lab'.alerts) # {} ]_lab

(* A thermal rise that nobody interrupts is eventually alerted.            *)
ThermalRiseIsAlerted ==
  <>[](lab.scenario = "thermal-rise" /\ lab.training = {})
    => <>("compute" \in ActiveKeys(lab.alerts))
==============================================================================
