-------------------------- MODULE MCTelemetryArchive --------------------------
(***************************************************************************)
(* Sessions of up to two frames with no sensor, one or both, and one       *)
(* sample of each sort the verifier tells apart.                           *)
(***************************************************************************)
EXTENDS TelemetryArchive

SomeSamples ==
  { [value |-> "in-range", unit |-> "own", valid |-> TRUE],
    [value |-> "in-range", unit |-> "other", valid |-> FALSE],
    [value |-> "nan", unit |-> "own", valid |-> TRUE] }

SomeSensorSets == SUBSET Channels
==============================================================================
