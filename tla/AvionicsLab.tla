----------------------------- MODULE AvionicsLab -----------------------------
(***************************************************************************)
(* The simulation core: AvionicsLab and the parts it drives in order on    *)
(* every step -- SimulationClock, ScenarioEngine, two FaultInjectors, the  *)
(* SensorBus, SystemHealth, AlertManager, TelemetryRecorder, EventLog.     *)
(*                                                                         *)
(* The whole object is one record, and each public operation is an         *)
(* operator from a lab to the lab it leaves behind, so that callers which  *)
(* make several calls in one handler (CockpitBridge) compose them.         *)
(*                                                                         *)
(* Waveforms: a generated channel swings around a centre inside its        *)
(* nominal band, but fuel and battery, which drain as time goes by.  Of    *)
(* the swings only cpu_temp_c's can matter to a threshold (a rising offset *)
(* is added to it), so its phase is a nondeterministic member of Waves and *)
(* the others sit at their centre.                                         *)
(***************************************************************************)
EXTENDS PlatformCatalog, FiniteSets, Sequences

CONSTANTS
  Channels,        \* the channels on the bus: a subset of AllChannels
  Waves,           \* possible phases of the CPU temperature, in tenths
  Deltas,          \* step lengths, in units of 100 ms
  FuelRate, BatteryRate,    \* tenths of a percent drained in 1000 such units
                            \* (source: 2, 3)
  PowerFrom, PowerTo,       \* ticks of the power transient   (source: 15, 35)
  DropoutFrom, DropoutTo,   \* ticks of the sensor dropout    (source: 12, 28)
  ThermalFrom,              \* first tick of the thermal rise (source: 10)
  ThermalRate               \* its growth per tick, in tenths (source: 14)

AllChannels ==
  { "cpu_temp_c", "bus_voltage_v", "imu_pitch_deg", "imu_roll_deg", "altitude_m",
    "airspeed_kph", "hydraulic_pressure_pct", "fuel_level_pct",
    "jet_engine_core_pct", "turboprop_torque_pct", "prop_rpm_pct",
    "rotor_rpm_pct", "battery_soc_pct", "link_quality_pct", "nav_quality_pct" }

ASSUME ChannelsAssumption ==
  /\ Channels \subseteq AllChannels /\ IsFiniteSet(Channels)
  /\ {"cpu_temp_c", "bus_voltage_v"} \subseteq Channels

ASSUME TimingAssumption ==
  /\ Waves \subseteq -25..25
  /\ Deltas \subseteq Nat \ {0}     \* SimulationClock::advance refuses delta <= 0
  /\ FuelRate \in Nat /\ BatteryRate \in Nat
  /\ ThermalFrom \in Nat /\ ThermalRate \in Nat

------------------------------------------------------------------------------
(* SensorBus, ScenarioEngine and FaultInjector.                            *)

Sample == [value: Int, valid: BOOLEAN]

Centre ==
  [ c \in AllChannels |->
    CASE c = "cpu_temp_c" -> 580           [] c = "bus_voltage_v" -> 272
      [] c = "imu_pitch_deg" -> 0          [] c = "imu_roll_deg" -> 0
      [] c = "altitude_m" -> 24000         [] c = "airspeed_kph" -> 6400
      [] c = "hydraulic_pressure_pct" -> 940 [] c = "fuel_level_pct" -> 780
      [] c = "jet_engine_core_pct" -> 720  [] c = "turboprop_torque_pct" -> 680
      [] c = "prop_rpm_pct" -> 960         [] c = "rotor_rpm_pct" -> 1000
      [] c = "battery_soc_pct" -> 940      [] c = "link_quality_pct" -> 970
      [] c = "nav_quality_pct" -> 980 ]

(* What is left of a full store, rounded down: it is below a whole limit   *)
(* exactly when the level the program computes is.                         *)
Drained(full, rate, elapsed) == full + (-(rate * elapsed)) \div 1000

(* The value of a channel at a phase of the CPU temperature and a time.    *)
Level(c, w, elapsed) ==
  CASE c = "cpu_temp_c" -> Centre[c] + w
    [] c = "fuel_level_pct" -> Drained(Centre[c], FuelRate, elapsed)
    [] c = "battery_soc_pct" ->
         LET left == Drained(Centre[c], BatteryRate, elapsed)
         IN  IF left < 0 THEN 0 ELSE left
    [] OTHER -> Centre[c]

(* The bus is empty until the first step and after a reset.               *)
Bus == [{} -> Sample] \cup [Channels -> Sample]

EmptyBus == [c \in {} |-> [value |-> 0, valid |-> TRUE]]

(* ScenarioEngine::step publishes every channel, valid, over whatever an   *)
(* earlier step left on the bus.                                           *)
PublishKeepsValidity(bus, w, elapsed) ==
  [c \in DOMAIN bus \cup Channels |->
     IF c \in Channels
     THEN [value |-> Level(c, w, elapsed), valid |-> c \in DOMAIN bus => bus[c].valid]
     ELSE bus[c]]

Publish(bus, w, elapsed) ==
  [c \in DOMAIN bus \cup Channels |->
     IF c \in Channels THEN [value |-> Level(c, w, elapsed), valid |-> TRUE] ELSE bus[c]]

ThermalFaultDoesNotGrow(scenario, tick) ==
  IF scenario = "thermal-rise" /\ ThermalFrom <= tick
  THEN {FaultSpec("scenario-thermal", 0, "cpu_temp_c", "offset", ThermalRate)}
  ELSE {}

(* The fault the scenario sets at a tick, if any.                          *)
ScenarioFaults(scenario, tick) ==
  CASE scenario = "power-transient" /\ PowerFrom <= tick /\ tick <= PowerTo ->
         {FaultSpec("scenario-power", 0, "bus_voltage_v", "override", 208)}
    [] scenario = "sensor-dropout" /\ DropoutFrom <= tick /\ tick <= DropoutTo ->
         {FaultSpec("scenario-imu", 0, "imu_pitch_deg", "invalidate", 0)}
    [] scenario = "thermal-rise" /\ ThermalFrom <= tick ->
         {FaultSpec("scenario-thermal", 0, "cpu_temp_c", "offset",
                    (tick - (ThermalFrom - 1)) * ThermalRate)}
    [] OTHER -> {}

(* FaultInjector::apply: the faults of one injector, in id order, on the   *)
(* channels present.  Overrides of one channel overwrite each other, so    *)
(* the last decides; no injector of the program holds both an override and *)
(* an offset of one channel, nor two offsets of it.                        *)
Overrides(faults, c) == {f \in faults : f.sensor = c /\ f.mode = "override"}
Offsets(faults, c) == {f \in faults : f.sensor = c /\ f.mode = "offset"}
Invalidates(faults, c) == {f \in faults : f.sensor = c /\ f.mode = "invalidate"}
LastOf(faults) == CHOOSE f \in faults : \A g \in faults : g.rank <= f.rank

ApplyFaults(bus, faults) ==
  [c \in DOMAIN bus |->
    [ value |-> IF Overrides(faults, c) # {} THEN LastOf(Overrides(faults, c)).value
                ELSE IF Offsets(faults, c) # {}
                     THEN bus[c].value + LastOf(Offsets(faults, c)).value
                     ELSE bus[c].value,
      valid |-> bus[c].valid /\ Invalidates(faults, c) = {} ]]

(* FaultInjector::set keeps one fault per id.                              *)
SetFault(faults, f) == {g \in faults : g.id # f.id} \cup {f}

------------------------------------------------------------------------------
(* SystemHealth and AlertManager.  An issue is named by its subsystem: an  *)
(* invalid channel (a fault), "compute" or "power" (warnings); the detail  *)
(* text, the other half of an alert's key, is a function of it.            *)

Subsystems == Channels \cup {"compute", "power"}

Issues(bus) ==
  {c \in DOMAIN bus : ~bus[c].valid}
  \cup {s \in {"compute"} : /\ "cpu_temp_c" \in DOMAIN bus
                            /\ bus["cpu_temp_c"].valid
                            /\ bus["cpu_temp_c"].value > 850}
  \cup {s \in {"power"} : /\ "bus_voltage_v" \in DOMAIN bus
                          /\ bus["bus_voltage_v"].valid
                          /\ \/ bus["bus_voltage_v"].value < 220
                             \/ bus["bus_voltage_v"].value > 300}

Alert == [first: Nat, last: Nat, active: BOOLEAN]
IsAlertTable(alerts) ==
  DOMAIN alerts \subseteq Subsystems /\ alerts \in [DOMAIN alerts -> Alert]

NoAlerts == [k \in {} |-> [first |-> 0, last |-> 0, active |-> FALSE]]

UpdateForgetsFirst(alerts, issues, tick) ==
  [k \in DOMAIN alerts \cup issues |->
    [ first  |-> IF k \in issues THEN tick ELSE alerts[k].first,
      last   |-> IF k \in issues THEN tick ELSE alerts[k].last,
      active |-> k \in issues ]]

(* AlertManager::update.                                                   *)
UpdateAlerts(alerts, issues, tick) ==
  [k \in DOMAIN alerts \cup issues |->
    [ first  |-> IF k \in DOMAIN alerts THEN alerts[k].first ELSE tick,
      last   |-> IF k \in issues THEN tick ELSE alerts[k].last,
      active |-> k \in issues ]]

ActiveKeys(alerts) == {k \in DOMAIN alerts : alerts[k].active}

------------------------------------------------------------------------------
(* The lab.  An event of the log is named by what it reports.              *)

EventKinds == { "initialized", "reset", "scenario", "fault-applied", "fault-rejected",
                "faults-cleared", "alerts-up", "alerts-down" }

Frame == [sequence: Nat, simTime: Nat, sensors: [Channels -> Sample]]

NewLab(scenario) ==
  [ tick |-> 0, elapsed |-> 0, bus |-> EmptyBus, scenario |-> scenario,
    scenarioFaults |-> {}, training |-> {}, alerts |-> NoAlerts, frames |-> << >>,
    lastActive |-> 0, log |-> <<"initialized">> ]

(* AvionicsLab::step, in the order of its calls.                           *)
GeneratedBus(lab, delta, w) ==
  ApplyFaults(Publish(lab.bus, w, lab.elapsed + delta),
              ScenarioFaults(lab.scenario, lab.tick + 1))

SteppedBusOneInjector(lab, delta, w) ==
  ApplyFaults(Publish(lab.bus, w, lab.elapsed + delta),
              IF lab.training = {} THEN ScenarioFaults(lab.scenario, lab.tick + 1)
              ELSE lab.training)

SteppedBus(lab, delta, w) == ApplyFaults(GeneratedBus(lab, delta, w), lab.training)

SteppedAlerts(lab, delta, w) ==
  UpdateAlerts(lab.alerts, Issues(SteppedBus(lab, delta, w)), lab.tick + 1)

AlertEventSwapped(before, after) ==
  IF after > before THEN <<"alerts-down">>
  ELSE IF after < before THEN <<"alerts-up">> ELSE << >>

AlertEvent(before, after) ==
  IF after > before THEN <<"alerts-up">>
  ELSE IF after < before THEN <<"alerts-down">> ELSE << >>

SteppedCountsBeforeUpdate(lab, delta, w) ==
  LET active == Cardinality(ActiveKeys(lab.alerts)) IN
  [ lab EXCEPT
      !.tick = @ + 1, !.elapsed = @ + delta,
      !.bus = SteppedBus(lab, delta, w), !.alerts = SteppedAlerts(lab, delta, w),
      !.frames = Append(@, [ sequence |-> lab.tick + 1, simTime |-> lab.elapsed + delta,
                             sensors |-> SteppedBus(lab, delta, w) ]),
      !.log = @ \o AlertEvent(lab.lastActive, active),
      !.lastActive = active ]

Stepped(lab, delta, w) ==
  LET active == Cardinality(ActiveKeys(SteppedAlerts(lab, delta, w))) IN
  [ lab EXCEPT
      !.tick = @ + 1,
      !.elapsed = @ + delta,
      !.scenarioFaults = ScenarioFaults(lab.scenario, lab.tick + 1),
      !.bus = SteppedBus(lab, delta, w),
      !.alerts = SteppedAlerts(lab, delta, w),
      !.frames = Append(@, [ sequence |-> lab.tick + 1, simTime |-> lab.elapsed + delta,
                             sensors |-> SteppedBus(lab, delta, w) ]),
      !.log = @ \o AlertEvent(lab.lastActive, active),
      !.lastActive = active ]

ResetKeepsRecorder(lab) ==
  [ NewLab(lab.scenario) EXCEPT !.frames = lab.frames, !.log = Append(lab.log, "reset") ]

ResetToIdleScenario(lab) ==
  [ NewLab("idle") EXCEPT !.log = Append(lab.log, "reset") ]

(* AvionicsLab::reset.  The log and the scenario survive it.               *)
WasReset(lab) ==
  [ NewLab(lab.scenario) EXCEPT !.log = Append(lab.log, "reset") ]

WithScenario(lab, s) ==
  [ lab EXCEPT !.scenario = s, !.log = Append(@, "scenario") ]

WithTrainingFault(lab, platform, preset) ==
  IF Offered(platform, preset)
  THEN [ lab EXCEPT !.training = SetFault(@, Presets[preset]),
                    !.log = Append(@, "fault-applied") ]
  ELSE [ lab EXCEPT !.log = Append(@, "fault-rejected") ]

WithoutTrainingFaults(lab) ==
  IF lab.training = {} THEN lab
  ELSE [ lab EXCEPT !.training = {}, !.log = Append(@, "faults-cleared") ]

(* The LabSnapshot handed to the presentation layer.                       *)
SnapshotOf(lab) ==
  [ tick |-> lab.tick, simTime |-> lab.elapsed, scenario |-> lab.scenario,
    sensors |-> lab.bus, issues |-> Issues(lab.bus),
    alerts |-> ActiveKeys(lab.alerts) ]

------------------------------------------------------------------------------
(* What is true of a lab between two of its operations.                    *)

IsLabRecord(lab) ==
  lab = [ tick |-> lab.tick, elapsed |-> lab.elapsed, bus |-> lab.bus,
          scenario |-> lab.scenario, scenarioFaults |-> lab.scenarioFaults,
          training |-> lab.training, alerts |-> lab.alerts, frames |-> lab.frames,
          lastActive |-> lab.lastActive, log |-> lab.log ]

LabType(lab) ==
  /\ IsLabRecord(lab)
  /\ lab.tick \in Nat /\ lab.elapsed \in Nat
  /\ lab.bus \in Bus
  /\ lab.scenario \in ScenarioNames
  /\ lab.training \subseteq TrainingFaults
  /\ IsAlertTable(lab.alerts)
  /\ lab.frames \in Seq(Frame)
  /\ lab.lastActive \in Nat
  /\ lab.log \in Seq(EventKinds)

(* The recorder keeps step with the clock: frame i was taken at tick i, and *)
(* its simulation time is later than the frame's before it.                *)
FramesFollowClock(lab) ==
  /\ Len(lab.frames) = lab.tick
  /\ \A i \in 1..Len(lab.frames) :
       /\ lab.frames[i].sequence = i
       /\ lab.frames[i].simTime <= lab.elapsed
       /\ \A j \in 1..(i - 1) : lab.frames[j].simTime < lab.frames[i].simTime

(* The alert history is what the recorded frames say: an alert exists for  *)
(* exactly the issues some frame shows, was first and last seen at the     *)
(* first and last such frame, and is active iff the newest frame shows it. *)
AlertsFollowFrames(lab) ==
  /\ \A i \in 1..Len(lab.frames) :
       \A k \in Issues(lab.frames[i].sensors) :
         k \in DOMAIN lab.alerts /\ lab.alerts[k].first <= i /\ i <= lab.alerts[k].last
  /\ \A k \in DOMAIN lab.alerts :
       /\ lab.alerts[k].first \in 1..lab.tick /\ lab.alerts[k].last \in 1..lab.tick
       /\ k \in Issues(lab.frames[lab.alerts[k].first].sensors)
       /\ k \in Issues(lab.frames[lab.alerts[k].last].sensors)
       /\ lab.alerts[k].active <=> lab.alerts[k].last = lab.tick

(* The newest frame is what the bus shows.                                 *)
BusIsRecorded(lab) ==
  IF lab.tick = 0 THEN lab.bus = EmptyBus
  ELSE lab.bus = lab.frames[lab.tick].sensors

(* The cached alert count agrees with the alert table and, through the     *)
(* newest frame, with what SystemHealth says of the bus right now.         *)
AlertsAreCurrent(lab) ==
  /\ lab.lastActive = Cardinality(ActiveKeys(lab.alerts))
  /\ ActiveKeys(lab.alerts) = Issues(lab.bus)

(* The entries of a kind in the log that no reset follows, and the frames  *)
(* with more issues, and with fewer, than the one before.                  *)
Entries(log, kind) ==
  {i \in 1..Len(log) : log[i] = kind /\ \A j \in i..Len(log) : log[j] # "reset"}

IssueCount(frames, i) == IF i = 0 THEN 0 ELSE Cardinality(Issues(frames[i].sensors))

Rises(frames) ==
  {i \in 1..Len(frames) : IssueCount(frames, i) > IssueCount(frames, i - 1)}

Falls(frames) ==
  {i \in 1..Len(frames) : IssueCount(frames, i) < IssueCount(frames, i - 1)}

(* The log has one rise for each frame with more issues than the one       *)
(* before, one fall for each with fewer, and no other.                     *)
LogFollowsFrames(lab) ==
  /\ Cardinality(Entries(lab.log, "alerts-up")) = Cardinality(Rises(lab.frames))
  /\ Cardinality(Entries(lab.log, "alerts-down")) = Cardinality(Falls(lab.frames))
==============================================================================
