--------------------------- MODULE MCCockpitBridge ---------------------------
(***************************************************************************)
(* Small instances of CockpitBridge: short scenario windows, few channels. *)
(***************************************************************************)
EXTENDS CockpitBridge

SmallChannels ==
  { "cpu_temp_c", "bus_voltage_v", "altitude_m", "airspeed_kph", "imu_pitch_deg",
    "imu_roll_deg", "jet_engine_core_pct", "link_quality_pct", "fuel_level_pct",
    "battery_soc_pct" }
OneWave == {0}
SeekInputs == {-1, 1, 9}
==============================================================================
