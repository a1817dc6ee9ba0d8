--------------------------- MODULE PlatformCatalog ---------------------------
(***************************************************************************)
(* The two constant catalogues of the laboratory: the training-fault       *)
(* presets (sim/TrainingFaultCatalog.cpp) and the aircraft platform        *)
(* profiles (platform/AircraftPlatformCatalog.cpp).  Texts, units and      *)
(* labels are left out; sensor values are integers in tenths of the        *)
(* channel's unit (20.5 V is 205).                                         *)
(***************************************************************************)
EXTENDS Integers

ScenarioNames == {"nominal", "power-transient", "sensor-dropout", "thermal-rise"}

PlatformIds == {"generic-jet", "generic-turboprop", "generic-helicopter", "generic-uav"}

FaultModes == {"invalidate", "override", "offset"}

(* A FaultSpec.  rank is the position of the fault's id in the id order in *)
(* which std::map iterates an injector's faults.                           *)
FaultSpec(id, rank, sensor, mode, value) ==
  [id |-> id, rank |-> rank, sensor |-> sensor, mode |-> mode, value |-> value]

TrainingFaults ==
  { FaultSpec("imu-dropout", 3, "imu_pitch_deg", "invalidate", 0),
    FaultSpec("low-power-bus", 6, "bus_voltage_v", "override", 205),
    FaultSpec("compute-hot", 1, "cpu_temp_c", "override", 910),
    FaultSpec("jet-engine-low", 4, "jet_engine_core_pct", "override", 480),
    FaultSpec("jet-hydraulic-low", 5, "hydraulic_pressure_pct", "override", 520),
    FaultSpec("turboprop-torque-low", 9, "turboprop_torque_pct", "override", 420),
    FaultSpec("turboprop-prop-rpm-low", 7, "prop_rpm_pct", "override", 780),
    FaultSpec("rotor-rpm-low", 8, "rotor_rpm_pct", "override", 820),
    FaultSpec("helicopter-hydraulic-low", 2, "hydraulic_pressure_pct", "override", 500),
    FaultSpec("uav-battery-low", 10, "battery_soc_pct", "override", 180),
    FaultSpec("uav-link-degrade", 11, "link_quality_pct", "override", 450),
    FaultSpec("uav-nav-degrade", 12, "nav_quality_pct", "override", 580) }

Presets ==
  [ p \in {f.id : f \in TrainingFaults} |-> CHOOSE f \in TrainingFaults : f.id = p ]

(* The presets each profile offers (faultPresetIds).                       *)
CommonPresets == {"imu-dropout", "low-power-bus", "compute-hot"}

PlatformPresets ==
  [ p \in PlatformIds |-> CommonPresets \cup
    CASE p = "generic-jet"        -> {"jet-engine-low", "jet-hydraulic-low"}
      [] p = "generic-turboprop"  -> {"turboprop-torque-low", "turboprop-prop-rpm-low"}
      [] p = "generic-helicopter" -> {"rotor-rpm-low", "helicopter-hydraulic-low"}
      [] p = "generic-uav"        -> {"uav-battery-low", "uav-link-degrade", "uav-nav-degrade"} ]

(* TrainingFaultCatalog::find(platform, preset): unknown platforms and     *)
(* presets outside the platform's profile are not offered.                 *)
Offered(platform, preset) ==
  /\ platform \in PlatformIds
  /\ preset \in PlatformPresets[platform]

(* A platform rule: finding `code` when channel's value is below limit.    *)
Rule(code, channel, limit, severity) ==
  [code |-> code, channel |-> channel, limit |-> limit, severity |-> severity]

PlatformRules ==
  [ p \in PlatformIds |->
    CASE p = "generic-jet" ->
           { Rule("NXP-JET-701", "jet_engine_core_pct", 550, "warning"),
             Rule("NXP-JET-702", "hydraulic_pressure_pct", 650, "fault") }
      [] p = "generic-turboprop" ->
           { Rule("NXP-TPR-701", "turboprop_torque_pct", 500, "warning"),
             Rule("NXP-TPR-702", "prop_rpm_pct", 850, "fault") }
      [] p = "generic-helicopter" ->
           { Rule("NXP-HEL-701", "rotor_rpm_pct", 900, "fault"),
             Rule("NXP-HEL-702", "hydraulic_pressure_pct", 600, "warning") }
      [] p = "generic-uav" ->
           { Rule("NXP-UAV-701", "battery_soc_pct", 250, "warning"),
             Rule("NXP-UAV-702", "link_quality_pct", 600, "fault"),
             Rule("NXP-UAV-703", "nav_quality_pct", 700, "warning") } ]
==============================================================================
