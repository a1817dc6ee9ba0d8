\* Every handler, reply order, failing save, crash and restart.
SPECIFICATION Spec
CONSTANTS
  Payloads <- TwoProviders
  Garbage = Garbage
  None = None
  Sources = {"feed", "none", "demo", "full", "plates"}
  Feeds <- SomeFeeds
  DemoTracks <- OneDemo
  MaxTracks = 2
  Retention = 1
  MaxNow = 3
  MaxInFlight = 1
INVARIANTS StatusNamesFeed EnrichmentIsApplied OnePositionPerMoment TracksAreInHistory
PROPERTIES RecentHistoryIsKept
