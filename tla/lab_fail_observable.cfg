\* One platform preset: does an injected fault reach the alert layer?
SPECIFICATION Spec
CONSTANTS
  Channels <- SmallChannels
  Waves <- OneWave
  Deltas = {1}
  FuelRate = 2
  BatteryRate = 3
  PowerFrom = 15
  PowerTo = 35
  DropoutFrom = 12
  DropoutTo = 28
  ThermalFrom = 10
  ThermalRate = 14
  PlatformInputs = {"generic-jet"}
  PresetInputs = {"compute-hot", "jet-engine-low"}
  MaxTicks = 4
  MaxEvents = 3
  LastCall = 3
PROPERTY InjectedFaultsAreVisible
