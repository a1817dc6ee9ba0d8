\* Does leaving replay always show the live state?
SPECIFICATION Spec
CONSTANTS
  Channels <- SmallChannels
  Waves <- OneWave
  Deltas = {1}
  FuelRate = 290000
  BatteryRate = 345000
  PowerFrom = 2
  PowerTo = 2
  DropoutFrom = 2
  DropoutTo = 2
  ThermalFrom = 2
  ThermalRate = 150
  PresetInputs = {"imu-dropout", "uav-link-degrade"}
  Scenarios = {"unknown"}
  Platforms = {"generic-uav"}
  Seeks = {1}
  Windows = {}
  MaxTicks = 3
  MaxEvents = 4
  MaxScans = 2
  LastCall = 3
PROPERTIES LeavingReplayShowsLive
