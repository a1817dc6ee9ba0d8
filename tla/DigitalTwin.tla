------------------------------ MODULE DigitalTwin ------------------------------
(***************************************************************************)
(* DigitalTwinModel::build: the state of every subsystem of a platform, as *)
(* the twin page draws it from the samples and health issues on screen.    *)
(* Percentages and counters, which follow from the states, are left out.   *)
(***************************************************************************)
EXTENDS PlatformCatalog

Node(id, channels) == [id |-> id, channels |-> channels]

CommonNodes ==
  { Node("power", {"bus_voltage_v"}), Node("compute", {"cpu_temp_c"}),
    Node("flight_sensors", {"altitude_m", "airspeed_kph", "imu_pitch_deg", "imu_roll_deg"}) }

Hydraulics == Node("hydraulics", {"hydraulic_pressure_pct"})
Fuel == Node("fuel", {"fuel_level_pct"})

(* The twinTopology of each profile.                                       *)
TwinTopology ==
  [ p \in PlatformIds |-> CommonNodes \cup
    CASE p = "generic-jet" ->
           {Hydraulics, Fuel, Node("propulsion", {"jet_engine_core_pct"})}
      [] p = "generic-turboprop" ->
           {Fuel, Node("propulsion", {"turboprop_torque_pct", "prop_rpm_pct"})}
      [] p = "generic-helicopter" ->
           {Hydraulics, Fuel, Node("rotor", {"rotor_rpm_pct"})}
      [] p = "generic-uav" ->
           { Node("energy", {"battery_soc_pct"}), Node("datalink", {"link_quality_pct"}),
             Node("navigation", {"nav_quality_pct"}) } ]

Observed(node, sensors) == node.channels \cap DOMAIN sensors

(* A subsystem's state: groupFor gives an issue to the node it names or    *)
(* whose channel it names (no channel is in two).  Issues of channels are  *)
(* faults, the others warnings; a state only escalates.                    *)
TwinState(node, sensors, issues) ==
  IF \/ \E c \in Observed(node, sensors) : ~sensors[c].valid
     \/ node.channels \cap issues # {}
  THEN "FAULT"
  ELSE IF node.id \in issues THEN "DEGRADED"
  ELSE IF Observed(node, sensors) = {} THEN "UNKNOWN"
  ELSE IF Observed(node, sensors) # node.channels THEN "DEGRADED"
  ELSE "NOMINAL"
==============================================================================
