---------------------------- MODULE MCLabSession -----------------------------
(***************************************************************************)
(* Small instances of LabSession.  The scaled one shortens the scenario    *)
(* windows to a few ticks so that they interleave with every operation.    *)
(***************************************************************************)
EXTENDS LabSession

SmallChannels == {"cpu_temp_c", "bus_voltage_v", "imu_pitch_deg", "jet_engine_core_pct"}
OneWave == {0}
ColdestWave == {-25}
==============================================================================
