SPECIFICATION Spec
CONSTANTS
  Channels = {"altitude_m", "bus_voltage_v"}
  Samples <- SomeSamples
  SensorSets <- SomeSensorSets
  MaxFrames = 2
  MaxEdits = 2
INVARIANTS LossIsNoticed DamageIsNoticed IntactArchiveIsRead NothingIsSkipped
PROPERTY DecodingEnds
