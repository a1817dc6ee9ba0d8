---------------------------- MODULE PublicFlight -----------------------------
(***************************************************************************)
(* The public-flight half of the Qt bridge: the track feed, its enrichment *)
(* by a licensed provider, and the position history, with the two files    *)
(* that outlive the process.  Each handler runs to its end on the GUI      *)
(* thread; network replies arrive in any order, later than anything.       *)
(*                                                                         *)
(* A document of a feed is its format and its rows.  A row is the aircraft *)
(* and call sign it names (in their normal form, "" for none), whether it  *)
(* is a well-formed row with good coordinates, its position, its last      *)
(* contact (0 for none), the fields it fills and the sources it names for  *)
(* them.  A track is that, with the source of every field.  A provider's   *)
(* record is the aircraft or call sign it is for and the fields it fills.  *)
(* A save ends as it does in ProviderCache.                                *)
(***************************************************************************)
EXTENDS LastGoodCache, Integers, FiniteSets, Sequences

CONSTANTS
  Sources,       \* what a field may come from
  Feeds,         \* documents that a service or a file may hold
  MaxTracks,     \* tracks kept of a document  (source: 2000)
  DemoTracks,    \* the tracks of the synthetic feed
  Retention,     \* history kept, in units of the clock  (source: 60 minutes)
  MaxNow,        \* bound: last clock reading
  MaxInFlight    \* bound: unanswered requests of each kind

ASSUME RetentionAssumption == Retention \in Nat \ {0}
ASSUME FlightBounds == MaxNow \in Nat \ {0} /\ MaxInFlight \in Nat

Metadata == {"registration", "model"}
Fields == Metadata \cup {"flight"}

(* What a parser finds in a row; PublicFlightTrack and                     *)
(* AircraftEnrichmentRecord of the source.                                 *)
FlightRow ==
  [ icao: STRING, callsign: STRING, whole: BOOLEAN, placed: BOOLEAN, at: Nat,
    contact: Nat, filled: SUBSET Fields, metadata: Sources, route: Sources ]
FlightTrack ==
  [ icao: STRING, callsign: STRING, at: Nat, contact: Nat, fields: [Fields -> Sources],
    metadata: Sources, route: Sources ]
AircraftEnrichmentRecord == [icao: STRING, callsign: STRING, filled: SUBSET Fields]

ASSUME SourcesAssumption == {"feed", "none"} \subseteq Sources
ASSUME FeedsAssumption == \A document \in Feeds : document.rows \in Seq(FlightRow)
ASSUME ProvidersAssumption ==
  \A payload \in Payloads : payload \in [provider: Sources, records: Seq(AircraftEnrichmentRecord)]

(* PublicFlightFeed::demo sets no contact time.                            *)
ASSUME DemoAssumption ==
  /\ DemoTracks \in Seq(FlightTrack)
  /\ \A i \in DOMAIN DemoTracks : DemoTracks[i].contact = 0

VARIABLES
  now,           \* the wall clock
  running,       \* whether the process is up
  feed,          \* publicFlightFeed_: its kind, and its tracks by their place
  cache,         \* publicFlightProviderCache_
  history,       \* publicFlightHistory_: a set of points
  inflight,      \* number of unanswered feed and enrichment requests
  feedStatus,    \* publicFlightFeedStatus_
  enrichmentStatus, \* publicFlightEnrichmentStatus_, with the numbers in it
  historyStatus, \* publicFlightHistoryStatus_
  providerFile,  \* public-flight-provider-last-good.json
  historyFile    \* public-flight-history.json

process ==
  <<feed, cache, history, inflight, feedStatus, enrichmentStatus, historyStatus>>
files == <<providerFile, historyFile>>
vars == <<now, running, process, files>>

------------------------------------------------------------------------------
(* The rows a parser keeps: those with an aircraft and good coordinates,   *)
(* as long as there are not too many.                                      *)
Usable(rows) == {i \in DOMAIN rows : rows[i].whole /\ rows[i].placed /\ rows[i].icao # ""}
Before(i, rows) == Cardinality({j \in Usable(rows) : j < i})
KeptPlaces(rows) == {i \in Usable(rows) : Before(i, rows) < MaxTracks}

(* A row that is not well-formed is skipped among states; among tracks it  *)
(* refuses the document, unless the limit was reached before it.           *)
Parses(document) ==
  \/ document.format = "states"
  \/ /\ document.format = "tracks"
     /\ \A i \in DOMAIN document.rows :
          document.rows[i].whole \/ Before(i, document.rows) >= MaxTracks

(* parseOpenSkyState, which takes the call sign for the flight number, and *)
(* parseNormalizedTrack.                                                   *)
ParsedTrack(row, format) ==
  [ icao |-> row.icao, callsign |-> row.callsign, at |-> row.at, contact |-> row.contact,
    fields |-> [f \in Fields |->
      IF f \in (IF format = "tracks" THEN row.filled
                ELSE IF row.callsign = "" THEN {} ELSE {"flight"})
      THEN "feed" ELSE "none"],
    metadata |-> IF format = "tracks" THEN row.metadata ELSE "none",
    route |-> IF format = "tracks" THEN row.route ELSE "none" ]

(* PublicFlightFeed::parse, of a document it accepts.                      *)
Parsed(document) ==
  [i \in KeptPlaces(document.rows) |-> ParsedTrack(document.rows[i], document.format)]

------------------------------------------------------------------------------
HasMetadata(filled) == filled \cap Metadata # {}
HasRoute(filled) == filled \cap (Fields \ Metadata) # {}

First(places) == CHOOSE i \in places : \A j \in places : i <= j

(* The record that apply finds for a track: by its aircraft, or else by    *)
(* its call sign, and in either index the first one.                       *)
ForAircraft(track, records) == {i \in DOMAIN records : records[i].icao = track.icao}
ForCallsign(track, records) ==
  {i \in DOMAIN records : records[i].callsign = track.callsign /\ track.callsign # ""}

FilledFor(track, records) ==
  IF ForAircraft(track, records) # {}
  THEN records[First(ForAircraft(track, records))].filled
  ELSE IF ForCallsign(track, records) # {}
  THEN records[First(ForCallsign(track, records))].filled
  ELSE {}

(* copyIfPresent of every field, then provenance by group.                 *)
Enriched(track, provider, filled) ==
  [ track EXCEPT
      !.fields = [f \in Fields |-> IF f \in filled THEN provider ELSE @[f]],
      !.metadata = IF HasMetadata(filled) THEN provider ELSE @,
      !.route = IF HasRoute(filled) THEN provider ELSE @ ]

(* PublicFlightEnrichmentCache::apply, and the number it returns.          *)
Apply(tracks, payload) ==
  [ i \in DOMAIN tracks |->
      Enriched(tracks[i], payload.provider, FilledFor(tracks[i], payload.records)) ]

Applied(tracks, payload) ==
  Cardinality({i \in DOMAIN tracks : FilledFor(tracks[i], payload.records) # {}})

------------------------------------------------------------------------------
(* PublicFlightHistoryStore: prune, and the points record makes.  Of two   *)
(* tracks of an aircraft at one moment the later one is kept.              *)
Pruned(points, t) == {p \in points : p.epoch >= t - Retention}

Point(track, t) ==
  [ icao |-> track.icao, at |-> track.at,
    epoch |-> IF track.contact > 0 THEN track.contact ELSE t ]

SameMoment(p, q) == p.icao = q.icao /\ p.epoch = q.epoch

Points(tracks, t) ==
  { Point(tracks[i], t) : i \in
      { i \in DOMAIN tracks :
          \A j \in DOMAIN tracks :
            j > i => ~SameMoment(Point(tracks[i], t), Point(tracks[j], t)) } }

RecordedTwice(points, tracks, t) == Pruned(points \cup Points(tracks, t), t)

RecordedHalfAsLong(points, tracks, t) ==
  LET new == Points(tracks, t)
  IN  {p \in new \cup {q \in points : \A r \in new : ~SameMoment(q, r)} :
         p.epoch >= t - Retention \div 2}

Recorded(points, tracks, t) ==
  LET new == Points(tracks, t)
  IN  Pruned(new \cup {q \in points : \A r \in new : ~SameMoment(q, r)}, t)

WindowOpensLate(points, icao, minutes, t) ==
  LET bounded == IF minutes < 1 THEN 1 ELSE IF minutes > Retention THEN Retention ELSE minutes
  IN  {p \in points : p.icao = icao /\ p.epoch > t - bounded /\ p.epoch <= t}

(* window: what a page shows of an aircraft's history.                     *)
Window(points, icao, minutes, t) ==
  LET bounded == IF minutes < 1 THEN 1 ELSE IF minutes > Retention THEN Retention ELSE minutes
  IN  {p \in points : p.icao = icao /\ p.epoch >= t - bounded /\ p.epoch <= t}

(* PublicFlightHistoryStore::fromJson: a file cut short is refused.        *)
Loaded(content) == IF content \in {None, Garbage} THEN {} ELSE content

(* save() truncates the file before it writes, and what it wrote may still *)
(* be lost when the buffer is written at the close, which nothing checks.  *)
SaveHistory ==
  \/ historyFile' \in {history', Garbage} /\ historyStatus' = "persisted"
  \/ historyFile' \in {historyFile, Garbage} /\ historyStatus' = "write-error"

------------------------------------------------------------------------------
(* publicFlightEnrichmentStatus_: a line, and the numbers that two of them *)
(* have.                                                                   *)
Line(text) == [text |-> text, applied |-> 0, tracks |-> 0]
Counted(text, tracks, payload) ==
  [ text |-> text, applied |-> Applied(tracks, payload),
    tracks |-> Cardinality(DOMAIN tracks) ]

ForgetsToEnrich(kind, tracks, c) ==
  /\ feed' = [kind |-> kind, tracks |-> tracks]
  /\ history' = Recorded(history, tracks, now)
  /\ SaveHistory
  /\ enrichmentStatus' =
       IF Available(c) THEN Counted("enriched", tracks, c.payload) ELSE enrichmentStatus

(* applyPublicFlightEnrichmentAndRecord on new or current tracks.          *)
ApplyAndRecord(kind, tracks, c) ==
  LET shown == IF Available(c) THEN Apply(tracks, c.payload) ELSE tracks
  IN  /\ feed' = [kind |-> kind, tracks |-> shown]
      /\ history' = Recorded(history, shown, now)
      /\ SaveHistory
      /\ enrichmentStatus' =
           IF Available(c) THEN Counted("enriched", tracks, c.payload) ELSE enrichmentStatus

RefuseFeed ==
  /\ feedStatus' = "error"
  /\ UNCHANGED <<feed, cache, history, enrichmentStatus, historyStatus, files>>

(* What comes from a file or a reply: a document, or nothing that can be   *)
(* parsed.                                                                 *)
ReceiveFeed(kind) ==
  \/ RefuseFeed
  \/ \E document \in Feeds :
       IF Parses(document)
       THEN /\ ApplyAndRecord(kind, Parsed(document), cache)
            /\ feedStatus' = kind
            /\ UNCHANGED <<cache, providerFile>>
       ELSE RefuseFeed

(* A provider payload that was accepted: persisted, then applied.          *)
TakeEnrichment(payload) ==
  LET accepted == Accepted(cache, payload, FALSE)
  IN  /\ \/ cache' = WasPersisted(accepted) /\ providerFile' = payload
         \/ /\ cache' = WriteFailed(accepted)
            /\ providerFile' \in {providerFile, None, Garbage}
      /\ ApplyAndRecord(feed.kind, feed.tracks, accepted)
      /\ UNCHANGED feedStatus

RefuseEnrichment ==
  /\ cache' = Failed(cache)
  /\ enrichmentStatus' = Line(cache'.status)
  /\ UNCHANGED <<feed, history, feedStatus, historyStatus, files>>

ReceiveEnrichment ==
  RefuseEnrichment \/ \E payload \in Payloads : TakeEnrichment(payload)

------------------------------------------------------------------------------
LoadFeedFile ==
  /\ running
  /\ ReceiveFeed("imported")
  /\ UNCHANGED <<now, running, inflight>>

FetchReportsSuccess ==
  /\ running
  /\ inflight.feed < MaxInFlight
  /\ inflight' = [inflight EXCEPT !.feed = @ + 1] /\ feedStatus' = "https"
  /\ UNCHANGED <<now, running, feed, cache, history, enrichmentStatus, historyStatus, files>>

FetchFeed ==
  /\ running
  /\ \/ /\ inflight.feed < MaxInFlight
        /\ inflight' = [inflight EXCEPT !.feed = @ + 1] /\ feedStatus' = "fetching"
     \/ feedStatus' = "error" /\ UNCHANGED inflight        \* not an https URL
  /\ UNCHANGED <<now, running, feed, cache, history, enrichmentStatus, historyStatus, files>>

FeedReply ==
  /\ running /\ inflight.feed > 0
  /\ inflight' = [inflight EXCEPT !.feed = @ - 1]
  /\ ReceiveFeed("https")
  /\ UNCHANGED <<now, running>>

ResetDemo ==
  /\ running
  /\ ApplyAndRecord("demo", DemoTracks, cache)
  /\ feedStatus' = "demo"
  /\ UNCHANGED <<now, running, cache, inflight, providerFile>>

LoadEnrichmentFile ==
  /\ running
  /\ ReceiveEnrichment
  /\ UNCHANGED <<now, running, inflight>>

FetchEnrichment ==
  /\ running
  /\ \/ /\ inflight.enrichment < MaxInFlight
        /\ inflight' = [inflight EXCEPT !.enrichment = @ + 1]
        /\ enrichmentStatus' =
             Line(IF Available(cache) THEN "fetching-last-good" ELSE "fetching")
        /\ UNCHANGED <<feed, cache, history, feedStatus, historyStatus, files>>
     \/ RefuseEnrichment /\ UNCHANGED inflight             \* not an https URL
  /\ UNCHANGED <<now, running>>

EnrichmentReply ==
  /\ running /\ inflight.enrichment > 0
  /\ inflight' = [inflight EXCEPT !.enrichment = @ - 1]
  /\ ReceiveEnrichment
  /\ UNCHANGED <<now, running>>

------------------------------------------------------------------------------
(* The bridge's constructor: initializePublicFlightPersistence on the demo *)
(* feed.  It restores what the files hold.                                 *)
Started ==
  /\ cache' = IF providerFile = None THEN EmptyCache
              ELSE Accepted(EmptyCache, providerFile, TRUE)
  /\ feed' = [ kind |-> "demo",
               tracks |-> IF Available(cache') THEN Apply(DemoTracks, cache'.payload)
                          ELSE DemoTracks ]
  /\ enrichmentStatus' =
       IF providerFile = None THEN Line("no-provider")
       ELSE IF Available(cache') THEN Counted("restored", DemoTracks, cache'.payload)
       ELSE Line("restore-failed")
  /\ history' = Loaded(historyFile)
  /\ historyStatus' = IF historyFile = None THEN "ready"
                      ELSE IF historyFile = Garbage THEN "load-error" ELSE "loaded"
  /\ feedStatus' = "demo" /\ inflight' = [feed |-> 0, enrichment |-> 0]

Init ==
  /\ now = 1 /\ running = TRUE /\ providerFile = None /\ historyFile = None
  /\ feed = [kind |-> "demo", tracks |-> DemoTracks] /\ cache = EmptyCache
  /\ history = {} /\ historyStatus = "ready" /\ feedStatus = "demo"
  /\ enrichmentStatus = Line("no-provider")
  /\ inflight = [feed |-> 0, enrichment |-> 0]

(* The process dies at rest, or in a save that some handler is making: of  *)
(* the history, which leaves it truncated, or of a provider payload, which *)
(* leaves the old one, the new one, a part of it, or none.  Its last state *)
(* stays in view until the restart.                                        *)
Crash ==
  /\ running /\ running' = FALSE
  /\ historyFile' \in {historyFile, Garbage}
  /\ providerFile' \in Content
  /\ UNCHANGED <<now, process>>

Restart ==
  /\ ~running /\ running' = TRUE
  /\ Started
  /\ UNCHANGED <<now, files>>

Tick ==
  /\ now < MaxNow /\ now' = now + 1
  /\ UNCHANGED <<running, process, files>>

Next ==
  \/ LoadFeedFile \/ FetchFeed \/ FeedReply \/ ResetDemo
  \/ LoadEnrichmentFile \/ FetchEnrichment \/ EnrichmentReply
  \/ Crash \/ Restart \/ Tick

Spec == Init /\ [][Next]_vars

------------------------------------------------------------------------------
HistoryPoint == [icao: STRING, at: Nat, epoch: Nat]

(* What a status line, a cached provider and a point may be.               *)
TypeOK ==
  /\ now \in 1..MaxNow /\ running \in BOOLEAN
  /\ feed.kind \in {"demo", "imported", "https"}
  /\ DOMAIN feed.tracks \subseteq Nat
  /\ \A i \in DOMAIN feed.tracks : feed.tracks[i] \in FlightTrack
  /\ cache \in Cache /\ providerFile \in Content
  /\ history \subseteq HistoryPoint
  /\ historyFile \in {None, Garbage} \cup SUBSET HistoryPoint
  /\ inflight \in [feed: 0..MaxInFlight, enrichment: 0..MaxInFlight]
  /\ feedStatus \in {"demo", "imported", "https", "fetching", "error"}
  /\ historyStatus \in {"ready", "loaded", "load-error", "persisted", "write-error"}

(* A status line that names a feed names the one on the map, whichever     *)
(* replies, imports and resets overtook each other.                        *)
StatusNamesFeed ==
  feedStatus \in {"demo", "imported", "https"} => feedStatus = feed.kind

Shows(track, provider, filled) ==
  /\ \A f \in filled : track.fields[f] = provider
  /\ filled \cap Metadata # {} => track.metadata = provider
  /\ "flight" \in filled => track.route = provider

(* The first record the current provider has of an aircraft, and the first *)
(* it has of a call sign when it has none of the aircraft, is what every   *)
(* such track shows under the provider's name, however feed and provider   *)
(* came to be there; and a status line that counts tracks counts these.    *)
EnrichmentIsApplied ==
  Available(cache) =>
    LET records == cache.payload.records
        provider == cache.payload.provider
        tracks == feed.tracks
    IN  /\ \A r \in DOMAIN records, i \in DOMAIN tracks :
             /\ /\ records[r].icao = tracks[i].icao
                /\ \A q \in DOMAIN records : q < r => records[q].icao # records[r].icao
                => Shows(tracks[i], provider, records[r].filled)
             /\ /\ records[r].callsign = tracks[i].callsign /\ records[r].callsign # ""
                /\ \A q \in DOMAIN records :
                     /\ records[q].icao # tracks[i].icao
                     /\ q < r => records[q].callsign # records[r].callsign
                => Shows(tracks[i], provider, records[r].filled)
        /\ enrichmentStatus.text \in {"enriched", "restored"} =>
             enrichmentStatus = Counted(enrichmentStatus.text, tracks, cache.payload)

(* The history has one position of an aircraft for one moment, whichever   *)
(* feeds reported it, and after a restart too.                             *)
OnePositionPerMoment == \A p, q \in history : SameMoment(p, q) => p = q

(* What is on the map is in the history that its page asks for: a track    *)
(* that was heard of within the retention period has its position there,   *)
(* the last one the feed gave for that moment.  (A later row without a     *)
(* time of its own has that of the clock, and may replace it.)             *)
TracksAreInHistory ==
  \A i \in DOMAIN feed.tracks :
    LET track == feed.tracks[i]
    IN  /\ running /\ track.contact > 0
        /\ track.contact <= now /\ now - Retention <= track.contact
        /\ \A j \in DOMAIN feed.tracks :
             j > i => \/ feed.tracks[j].icao # track.icao
                      \/ feed.tracks[j].contact \notin {0, track.contact}
        => \E p \in Window(history, track.icao, Retention, now) :
             p.epoch = track.contact /\ p.at = track.at

(* No handler of a running process drops a moment of an aircraft that lies *)
(* within the retention period.                                            *)
RecentHistoryIsKept ==
  [][ running /\ running' =>
        \A p \in history : p.epoch >= now' - Retention =>
          \E q \in history' : SameMoment(p, q) ]_vars
==============================================================================
