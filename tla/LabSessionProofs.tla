-------------------------- MODULE LabSessionProofs ---------------------------
(***************************************************************************)
(* Theorems about LabSession, for every set of channels, waveform phase,   *)
(* step length and scenario window.                                        *)
(***************************************************************************)
EXTENDS LabSession, AvionicsLabProofs

------------------------------------------------------------------------------
(* The invariant of the session.                                           *)

Inv == LabInv(lab)

LEMMA InitInv == Init => Inv
BY NewLabInv DEF Init, Inv

LEMMA NextInv == Inv /\ [Next]_lab => Inv'
<1> SUFFICES ASSUME LabInv(lab), [Next]_lab
             PROVE  LabInv(lab')
  BY DEF Inv
<1>1. CASE Step
  BY <1>1, SteppedInv DEF Step
<1>2. CASE Reset
  BY <1>2, ResetInv DEF Reset
<1>3. CASE SetScenario
  BY <1>3, ScenarioInv DEF SetScenario
<1>4. CASE ApplyTrainingFault
  BY <1>4, TrainingInv DEF ApplyTrainingFault
<1>5. CASE ClearTrainingFaults
  BY <1>5, TrainingInv DEF ClearTrainingFaults
<1>6. CASE UNCHANGED lab
  BY <1>6
<1>7. QED
  BY <1>1, <1>2, <1>3, <1>4, <1>5, <1>6 DEF Next

(* Every session keeps the invariant: recorder, clock, bus, alert table,   *)
(* alert count and event log agree after any sequence of calls.            *)
THEOREM Invariance == Spec => []Inv
<1>1. Init => Inv
  BY InitInv
<1>2. Inv /\ [Next]_lab => Inv'
  BY NextInv
<1>3. QED
  BY <1>1, <1>2, PTL DEF Spec

(* Each variable of the lab keeps its type in every session.               *)
THEOREM TypeCorrect == Spec => []TypeOK
<1>1. Inv => TypeOK
  BY DEF Inv, LabInv, TypeOK
<1>2. QED
  BY <1>1, Invariance, PTL

(* Recorder and clock never drift apart: one frame per tick, in order.     *)
THEOREM RecorderTheorem == Spec => []RecorderMatchesClock
<1>1. Inv => RecorderMatchesClock
  BY DEF Inv, LabInv, RecorderMatchesClock
<1>2. QED
  BY <1>1, Invariance, PTL

(* The alert history is what the recorded telemetry says.                  *)
THEOREM AlertHistoryTheorem == Spec => []AlertHistoryIsRecorded
<1>1. Inv => AlertHistoryIsRecorded
  BY DEF Inv, LabInv, AlertHistoryIsRecorded
<1>2. QED
  BY <1>1, Invariance, PTL

(* The alert table, its cached count and the bus agree in every snapshot.  *)
THEOREM SnapshotTheorem == Spec => []SnapshotIsConsistent
<1>1. Inv => SnapshotIsConsistent
  BY DEF Inv, LabInv, SnapshotIsConsistent
<1>2. QED
  BY <1>1, Invariance, PTL

(* Since the last reset the log has one rise for each recorded tick with   *)
(* more issues than the tick before, and one fall for each with fewer.     *)
THEOREM LogTheorem == Spec => []LogFollowsTelemetry
<1>1. Inv => LogFollowsTelemetry
  BY DEF Inv, LabInv, LogFollowsTelemetry
<1>2. QED
  BY <1>1, Invariance, PTL

------------------------------------------------------------------------------
(* What one step may do to the bus.                                        *)

(* Only a step moves the clock on by one.                                  *)
LEMMA OnlyStepsTick ==
  ASSUME Inv, Next, StepStarted
  PROVE  \E d \in Deltas, w \in Waves : lab' = Stepped(lab, d, w)
<1>1. LabInv(lab) /\ IsLabRecord(lab) /\ lab.tick \in Nat
  BY DEF Inv, LabInv, LabType
<1>2. CASE Reset
  <2>1. lab'.tick = 0
    BY <1>2 DEF Reset, WasReset, NewLab
  <2>2. QED
    BY <1>1, <2>1 DEF StepStarted
<1>3. ASSUME lab'.tick = lab.tick
      PROVE  FALSE
  BY <1>1, <1>3 DEF StepStarted
<1>4. CASE SetScenario
  <2>1. PICK s \in ScenarioNames : lab' = WithScenario(lab, s)
    BY <1>4 DEF SetScenario
  <2>2. lab'.tick = lab.tick
    BY <1>1, <2>1 DEF WithScenario, IsLabRecord
  <2>3. QED
    BY <1>3, <2>2
<1>5. CASE ApplyTrainingFault
  <2>1. PICK p \in PlatformInputs, q \in PresetInputs : lab' = WithTrainingFault(lab, p, q)
    BY <1>5 DEF ApplyTrainingFault
  <2>2. lab'.tick = lab.tick
    BY <1>1, <2>1 DEF WithTrainingFault, IsLabRecord
  <2>3. QED
    BY <1>3, <2>2
<1>6. CASE ClearTrainingFaults
  <2>1. lab'.tick = lab.tick
    BY <1>1, <1>6 DEF ClearTrainingFaults, WithoutTrainingFaults, IsLabRecord
  <2>2. QED
    BY <1>3, <2>1
<1>7. QED
  BY <1>2, <1>4, <1>5, <1>6 DEF Next, Step

(* A step without a fault in force leaves no issue.                        *)
THEOREM QuietTheorem == Spec => QuietStepIsNominal
<1>1. Inv /\ [Next]_lab =>
        [ /\ StepStarted
          /\ lab.training = {}
          /\ ScenarioFaults(lab.scenario, lab.tick + 1) = {}
          => Issues(lab'.bus) = {} ]_lab
  <2> SUFFICES ASSUME Inv, Next, StepStarted, lab.training = {},
                      ScenarioFaults(lab.scenario, lab.tick + 1) = {}
               PROVE  Issues(lab'.bus) = {}
    OBVIOUS
  <2>1. PICK d \in Deltas, w \in Waves : lab' = Stepped(lab, d, w)
    BY OnlyStepsTick
  <2> DEFINE e == lab.elapsed + d
  <2>2. IsLabRecord(lab) /\ lab.bus \in Bus /\ e \in Nat
    BY TimingAssumption DEF Inv, LabInv, LabType
  <2>3. lab'.bus = SteppedBus(lab, d, w)
    <3>1. IsStepOf(lab, d, w, lab')
      BY <2>1, <2>2, SteppedFields
    <3>2. QED
      BY <3>1 DEF IsStepOf
  <2>4. SteppedBus(lab, d, w) = ApplyFaults(ApplyFaults(Publish(lab.bus, w, e), {}), {})
    BY DEF SteppedBus, GeneratedBus
  <2> HIDE DEF e
  <2>5. QED
    BY <2>2, <2>3, <2>4, NoFaultsNoIssues
<1>2. QED
  BY <1>1, Invariance, PTL DEF Spec, QuietStepIsNominal

(* Training faults invalidate, or push a channel over its limit: none of   *)
(* them can bring a bad channel back within it.                            *)
LEMMA TrainingFaultsOnlyAdd ==
  ASSUME NEW g \in [Channels -> Sample], NEW F, F \subseteq TrainingFaults,
         g["bus_voltage_v"].value <= 300
  PROVE  Issues(g) \subseteq Issues(ApplyFaults(g, F))
<1> DEFINE b == ApplyFaults(g, F)
           value(c) == IF Overrides(F, c) # {} THEN LastOf(Overrides(F, c)).value
                       ELSE IF Offsets(F, c) # {} THEN g[c].value + LastOf(Offsets(F, c)).value
                       ELSE g[c].value
<1>1. DOMAIN b = Channels /\ DOMAIN g = Channels
      /\ {"cpu_temp_c", "bus_voltage_v"} \subseteq Channels
  BY ChannelsAssumption DEF ApplyFaults
<1>2. ASSUME NEW c \in Channels
      PROVE  b[c].value = value(c) /\ (b[c].valid <=> g[c].valid /\ Invalidates(F, c) = {})
  BY <1>1, <1>2 DEF ApplyFaults
<1>3. AreFaults(F) /\ \A c : AreFaults(Overrides(F, c))
  BY TrainingFaultsType DEF AreFaults, Overrides
<1>4. \A c : Offsets(F, c) = {}
  BY DEF Offsets, TrainingFaults, FaultSpec
<1>5. \A c \in {"cpu_temp_c", "bus_voltage_v"} : Invalidates(F, c) = {}
  BY DEF Invalidates, TrainingFaults, FaultSpec
<1>6. \A f \in Overrides(F, "cpu_temp_c") : f.value = 910
  BY DEF Overrides, TrainingFaults, FaultSpec
<1>7. \A f \in Overrides(F, "bus_voltage_v") : f.value = 205
  BY DEF Overrides, TrainingFaults, FaultSpec
<1> HIDE DEF b
<1>8. value("cpu_temp_c") \in {910, g["cpu_temp_c"].value}
  <2>1. Overrides(F, "cpu_temp_c") # {} => LastOf(Overrides(F, "cpu_temp_c")).value = 910
    BY <1>3, <1>6, LastOfIsMember
  <2>2. QED
    BY <1>4, <2>1
<1>9. value("bus_voltage_v") \in {205, g["bus_voltage_v"].value}
  <2>1. Overrides(F, "bus_voltage_v") # {} => LastOf(Overrides(F, "bus_voltage_v")).value = 205
    BY <1>3, <1>7, LastOfIsMember
  <2>2. QED
    BY <1>4, <2>1
<1>10. /\ g["cpu_temp_c"].value \in Int /\ g["bus_voltage_v"].value \in Int
  BY <1>1 DEF Sample
<1> HIDE DEF value
<1>11. ASSUME NEW s \in Issues(g)
       PROVE  s \in Issues(b)
  <2>1. CASE s \in Channels /\ ~g[s].valid
    BY <1>1, <1>2, <2>1 DEF Issues
  <2>2. CASE s = "compute" /\ g["cpu_temp_c"].valid /\ g["cpu_temp_c"].value > 850
    <3>1. b["cpu_temp_c"].valid /\ b["cpu_temp_c"].value > 850
      BY <1>1, <1>2, <1>5, <1>8, <2>2
    <3>2. QED
      BY <1>1, <2>2, <3>1 DEF Issues
  <2>3. CASE s = "power" /\ g["bus_voltage_v"].valid /\ g["bus_voltage_v"].value < 220
    <3>1. b["bus_voltage_v"].valid /\ b["bus_voltage_v"].value < 220
      BY <1>1, <1>2, <1>5, <1>9, <2>3
    <3>2. QED
      BY <1>1, <2>3, <3>1 DEF Issues
  <2>4. QED
    BY <1>1, <1>10, <2>1, <2>2, <2>3 DEF Issues
<1>12. QED
  BY <1>11 DEF b

(* Whatever the operator injects, no issue of the scenario is hidden.      *)
THEOREM MaskTheorem == Spec => TrainingFaultsMaskNothing
<1>1. Inv /\ [Next]_lab =>
        [ StepStarted =>
            \A delta \in Deltas, w \in Waves : lab'.bus = SteppedBus(lab, delta, w)
              => Issues(GeneratedBus(lab, delta, w)) \subseteq Issues(lab'.bus) ]_lab
  <2> SUFFICES ASSUME Inv, NEW d \in Deltas, NEW w \in Waves,
                      lab'.bus = SteppedBus(lab, d, w)
               PROVE  Issues(GeneratedBus(lab, d, w)) \subseteq Issues(lab'.bus)
    OBVIOUS
  <2> DEFINE e == lab.elapsed + d
             P == Publish(lab.bus, w, e)
             S == ScenarioFaults(lab.scenario, lab.tick + 1)
             g == ApplyFaults(P, S)
  <2>1. /\ lab.bus \in Bus /\ lab.tick \in Nat /\ lab.training \subseteq TrainingFaults
        /\ e \in Nat
    BY TimingAssumption DEF Inv, LabInv, LabType
  <2> HIDE DEF e
  <2>2. P \in [Channels -> Sample] /\ P["bus_voltage_v"].value = 272
    BY <2>1, PublishType, NoFaultsNoIssues
  <2>3. AreFaults(S) /\ AreFaults(Overrides(S, "bus_voltage_v"))
    BY <2>1, ScenarioFaultsType DEF AreFaults, Overrides
  <2>4. \A f \in Overrides(S, "bus_voltage_v") : f.value = 208
    BY DEF Overrides, ScenarioFaults, FaultSpec
  <2>5. Offsets(S, "bus_voltage_v") = {}
    BY DEF Offsets, ScenarioFaults, FaultSpec
  <2>6. g \in [Channels -> Sample]
    BY <2>2, <2>3, ApplyFaultsType
  <2> HIDE DEF P, S
  <2>7. g["bus_voltage_v"].value \in {208, 272}
    <3>1. Overrides(S, "bus_voltage_v") # {} => LastOf(Overrides(S, "bus_voltage_v")).value = 208
      BY <2>3, <2>4, LastOfIsMember
    <3>2. "bus_voltage_v" \in DOMAIN P
      BY <2>2, ChannelsAssumption
    <3>3. g["bus_voltage_v"].value
            = IF Overrides(S, "bus_voltage_v") # {} THEN LastOf(Overrides(S, "bus_voltage_v")).value
              ELSE IF Offsets(S, "bus_voltage_v") # {}
                   THEN P["bus_voltage_v"].value + LastOf(Offsets(S, "bus_voltage_v")).value
                   ELSE P["bus_voltage_v"].value
      BY <3>2 DEF ApplyFaults
    <3>4. QED
      BY <2>2, <2>5, <3>1, <3>3
  <2> HIDE DEF g
  <2>8. Issues(g) \subseteq Issues(ApplyFaults(g, lab.training))
    BY <2>1, <2>6, <2>7, TrainingFaultsOnlyAdd
  <2>9. QED
    BY <2>8 DEF SteppedBus, GeneratedBus, e, P, S, g
<1>2. QED
  BY <1>1, Invariance, PTL DEF Spec, TrainingFaultsMaskNothing
==============================================================================
