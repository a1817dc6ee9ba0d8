SPECIFICATION SourcesSpec
CONSTANTS
  Documents <- SomeDocuments
  Payloads <- SomePayloads
  Replays <- SomeReplays
  Forbidden <- SomeForbidden
  Modulus = 16
  Garbage = Garbage
  None = None
  MaxRows = 2
  Ttl = 1
  MaxNow = 3
  MaxInFlight = 1
PROPERTIES FreshWasObservedRecently
