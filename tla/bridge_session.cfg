\* Replay, scenarios, platforms, training faults and scans; the timer goes on.
SPECIFICATION FairSpec
CONSTANTS
  Channels <- SmallChannels
  Waves <- OneWave
  Deltas = {1}
  FuelRate = 290000
  BatteryRate = 345000
  PowerFrom = 2
  PowerTo = 2
  DropoutFrom = 2
  DropoutTo = 2
  ThermalFrom = 2
  ThermalRate = 150
  PresetInputs = {"imu-dropout", "jet-engine-low", "uav-link-degrade"}
  Scenarios = {"power-transient", "nominal", "unknown"}
  Platforms = {"generic-uav", "generic-jet"}
  Seeks <- SeekInputs
  Windows = {2}
  MaxTicks = 3
  MaxEvents = 4
  MaxScans = 2
  LastCall = 2
INVARIANTS ReplayShowsRecordedFrame DisplayIsOfThisSession TrendsAreCurrent HistoryAgreesWithSummary RecorderIsNeverDoubted
PROPERTIES ReplayLeavesLabAlone ScanFindsInjectedFaults NominalScanFindsDrainsOnly ScanExplainsTwin StaleDisplayHeals
