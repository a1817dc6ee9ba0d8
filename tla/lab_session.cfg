\* Every interleaving of the operations, scenario windows of a few ticks; the
\* timer goes on.
SPECIFICATION FairSpec
CONSTANTS
  Channels <- SmallChannels
  Waves <- ColdestWave
  Deltas = {1}
  FuelRate = 290000
  BatteryRate = 345000
  PowerFrom = 2
  PowerTo = 2
  DropoutFrom = 1
  DropoutTo = 2
  ThermalFrom = 2
  ThermalRate = 150
  PlatformInputs = {"generic-jet"}
  PresetInputs = {"imu-dropout", "compute-hot", "uav-link-degrade"}
  MaxTicks = 4
  MaxEvents = 5
  LastCall = 3
INVARIANTS RecorderMatchesClock AlertHistoryIsRecorded SnapshotIsConsistent LogFollowsTelemetry
PROPERTIES QuietStepIsNominal TrainingFaultsMaskNothing ThermalRiseIsAlerted
