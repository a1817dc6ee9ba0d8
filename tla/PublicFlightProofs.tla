--------------------------- MODULE PublicFlightProofs --------------------------
(***************************************************************************)
(* Proofs about PublicFlight, for every set of documents and providers and *)
(* every retention period.                                                 *)
(***************************************************************************)
EXTENDS PublicFlight, TLAPS

(* What relates the map, the provider and the history to each other, now   *)
(* and after a restart: the map and its tracks are of their types, a file  *)
(* has one position per moment if it is accepted, and the clock can only   *)
(* take positions away from those that TracksAreInHistory asks for.        *)
Tracks == UNION {[places -> FlightTrack] : places \in SUBSET Nat}

LastOfItsMoment(tracks, i) ==
  \A j \in DOMAIN tracks :
    j > i => \/ tracks[j].icao # tracks[i].icao
             \/ tracks[j].contact \notin {0, tracks[i].contact}

TracksWereRecorded ==
  \A i \in DOMAIN feed.tracks :
    /\ running /\ feed.tracks[i].contact > 0
    /\ now - Retention <= feed.tracks[i].contact
    /\ LastOfItsMoment(feed.tracks, i)
    => \E p \in history :
         /\ p.icao = feed.tracks[i].icao
         /\ p.epoch = feed.tracks[i].contact
         /\ p.at = feed.tracks[i].at

OnePosition(points) == \A p, q \in points : SameMoment(p, q) => p = q

HistoriesOK ==
  /\ OnePosition(history)
  /\ historyFile \notin {None, Garbage} => OnePosition(historyFile)

Inv ==
  /\ TypeOK /\ feed.tracks \in Tracks
  /\ StatusNamesFeed /\ HistoriesOK /\ TracksWereRecorded /\ EnrichmentIsApplied

------------------------------------------------------------------------------
(* Tracks as a parser or a provider leaves them.                           *)
LEMMA TracksAre ==
  ASSUME NEW tracks \in Tracks
  PROVE  /\ DOMAIN tracks \subseteq Nat
         /\ \A i \in DOMAIN tracks : tracks[i] \in FlightTrack
BY DEF Tracks

LEMMA DemoIsTracks == DemoTracks \in Tracks
<1>1. DemoTracks \in Seq(FlightTrack)
  BY DemoAssumption
<1>2. DOMAIN DemoTracks \subseteq Nat /\ DemoTracks \in [DOMAIN DemoTracks -> FlightTrack]
  BY <1>1
<1>3. QED
  BY <1>2 DEF Tracks

LEMMA ParsedIsTracks ==
  ASSUME NEW document \in Feeds
  PROVE  Parsed(document) \in Tracks
<1>1. document.rows \in Seq(FlightRow)
  BY FeedsAssumption
<1>2. KeptPlaces(document.rows) \subseteq DOMAIN document.rows
  BY DEF KeptPlaces, Usable
<1>3. \A i \in DOMAIN document.rows : document.rows[i] \in FlightRow /\ i \in Nat
  BY <1>1
<1>4. ASSUME NEW row \in FlightRow
      PROVE  ParsedTrack(row, document.format) \in FlightTrack
  <2> DEFINE filled(f) ==
        IF f \in (IF document.format = "tracks" THEN row.filled
                  ELSE IF row.callsign = "" THEN {} ELSE {"flight"})
        THEN "feed" ELSE "none"
  <2>1. [f \in Fields |-> filled(f)] \in [Fields -> Sources]
    BY SourcesAssumption
  <2>2. /\ row.icao \in STRING /\ row.callsign \in STRING /\ row.at \in Nat
        /\ row.contact \in Nat /\ row.metadata \in Sources /\ row.route \in Sources
    BY DEF FlightRow
  <2>3. \A g \in [Fields -> Sources], m \in Sources, t \in Sources :
          [ icao |-> row.icao, callsign |-> row.callsign, at |-> row.at,
            contact |-> row.contact, fields |-> g, metadata |-> m, route |-> t ] \in FlightTrack
    BY <2>2 DEF FlightTrack
  <2>4. /\ (IF document.format = "tracks" THEN row.metadata ELSE "none") \in Sources
        /\ (IF document.format = "tracks" THEN row.route ELSE "none") \in Sources
    BY <2>2, SourcesAssumption
  <2>5. QED
    BY <2>1, <2>3, <2>4 DEF ParsedTrack
<1>5. Parsed(document) \in [KeptPlaces(document.rows) -> FlightTrack]
  BY <1>2, <1>3, <1>4 DEF Parsed
<1>6. KeptPlaces(document.rows) \in SUBSET Nat
  BY <1>2, <1>3
<1>7. QED
  BY <1>5, <1>6 DEF Tracks

(* A provider fills fields and never moves a track.                        *)
LEMMA EnrichedIsTrack ==
  ASSUME NEW track \in FlightTrack, NEW provider \in Sources, NEW filled
  PROVE  /\ Enriched(track, provider, filled) \in FlightTrack
         /\ Enriched(track, provider, filled).icao = track.icao
         /\ Enriched(track, provider, filled).callsign = track.callsign
         /\ Enriched(track, provider, filled).at = track.at
         /\ Enriched(track, provider, filled).contact = track.contact
         /\ \A f \in filled \cap Fields : Enriched(track, provider, filled).fields[f] = provider
         /\ filled \cap Metadata # {} => Enriched(track, provider, filled).metadata = provider
         /\ "flight" \in filled => Enriched(track, provider, filled).route = provider
<1>1. /\ track.fields \in [Fields -> Sources]
      /\ track.metadata \in Sources /\ track.route \in Sources
  BY DEF FlightTrack
<1>2. [f \in Fields |-> IF f \in filled THEN provider ELSE track.fields[f]] \in [Fields -> Sources]
  BY <1>1
<1>3. "flight" \in Fields \ Metadata
  BY DEF Fields, Metadata
<1> DEFINE fields == [f \in Fields |-> IF f \in filled THEN provider ELSE track.fields[f]]
           metadata == IF HasMetadata(filled) THEN provider ELSE track.metadata
           route == IF HasRoute(filled) THEN provider ELSE track.route
<1>4. Enriched(track, provider, filled)
        = [track EXCEPT !.fields = fields, !.metadata = metadata, !.route = route]
  BY Zenon DEF Enriched
<1>5. /\ fields \in [Fields -> Sources] /\ metadata \in Sources /\ route \in Sources
      /\ \A f \in filled \cap Fields : fields[f] = provider
      /\ filled \cap Metadata # {} => metadata = provider
      /\ "flight" \in filled => route = provider
  BY <1>1, <1>2, <1>3 DEF HasMetadata, HasRoute
<1> HIDE DEF fields, metadata, route
<1>6. QED
  BY <1>1, <1>4, <1>5 DEF FlightTrack

LEMMA ApplyIsTracks ==
  ASSUME NEW tracks \in Tracks, NEW payload \in Payloads
  PROVE  /\ Apply(tracks, payload) \in Tracks
         /\ DOMAIN Apply(tracks, payload) = DOMAIN tracks
         /\ \A i \in DOMAIN tracks :
              /\ Apply(tracks, payload)[i] =
                   Enriched(tracks[i], payload.provider, FilledFor(tracks[i], payload.records))
              /\ Apply(tracks, payload)[i].icao = tracks[i].icao
              /\ Apply(tracks, payload)[i].callsign = tracks[i].callsign
<1>1. payload.provider \in Sources
  BY ProvidersAssumption
<1>2. /\ DOMAIN Apply(tracks, payload) = DOMAIN tracks
      /\ \A i \in DOMAIN tracks :
           Apply(tracks, payload)[i] =
             Enriched(tracks[i], payload.provider, FilledFor(tracks[i], payload.records))
  BY DEF Apply
<1>3. DOMAIN tracks \in SUBSET Nat /\ \A i \in DOMAIN tracks : tracks[i] \in FlightTrack
  BY TracksAre
<1>4. Apply(tracks, payload) \in [DOMAIN tracks -> FlightTrack]
  BY <1>1, <1>3, EnrichedIsTrack DEF Apply
<1>5. Apply(tracks, payload) \in Tracks
  BY <1>3, <1>4 DEF Tracks
<1>6. ASSUME NEW i \in DOMAIN tracks
      PROVE  /\ Apply(tracks, payload)[i].icao = tracks[i].icao
             /\ Apply(tracks, payload)[i].callsign = tracks[i].callsign
  <2>1. tracks[i] \in FlightTrack
    BY <1>3
  <2>2. QED
    BY <1>1, <1>2, <2>1, EnrichedIsTrack
<1>7. QED
  BY <1>2, <1>5, <1>6

(* Enriching enriched tracks counts the same tracks again.                 *)
LEMMA AppliedTwice ==
  ASSUME NEW tracks \in Tracks, NEW payload \in Payloads, NEW text
  PROVE  Counted(text, Apply(tracks, payload), payload) = Counted(text, tracks, payload)
<1>1. /\ DOMAIN Apply(tracks, payload) = DOMAIN tracks
      /\ \A i \in DOMAIN tracks :
           /\ Apply(tracks, payload)[i].icao = tracks[i].icao
           /\ Apply(tracks, payload)[i].callsign = tracks[i].callsign
  BY ApplyIsTracks
<1>2. ASSUME NEW i \in DOMAIN tracks
      PROVE  FilledFor(Apply(tracks, payload)[i], payload.records)
               = FilledFor(tracks[i], payload.records)
  BY <1>1 DEF FilledFor, ForAircraft, ForCallsign
<1>3. {i \in DOMAIN Apply(tracks, payload) :
          FilledFor(Apply(tracks, payload)[i], payload.records) # {}}
        = {i \in DOMAIN tracks : FilledFor(tracks[i], payload.records) # {}}
  BY <1>1, <1>2
<1>4. QED
  BY <1>1, <1>3 DEF Counted, Applied

(* What EnrichmentIsApplied says of a map and a payload.                   *)
Shown(tracks, payload) ==
  \A r \in DOMAIN payload.records, i \in DOMAIN tracks :
    /\ /\ payload.records[r].icao = tracks[i].icao
       /\ \A q \in DOMAIN payload.records :
            q < r => payload.records[q].icao # payload.records[r].icao
       => Shows(tracks[i], payload.provider, payload.records[r].filled)
    /\ /\ payload.records[r].callsign = tracks[i].callsign /\ payload.records[r].callsign # ""
       /\ \A q \in DOMAIN payload.records :
            /\ payload.records[q].icao # tracks[i].icao
            /\ q < r => payload.records[q].callsign # payload.records[r].callsign
       => Shows(tracks[i], payload.provider, payload.records[r].filled)

LEMMA FirstIs ==
  ASSUME NEW S \in SUBSET Nat, NEW r \in S, \A q \in S : ~(q < r)
  PROVE  First(S) = r
<1>1. \A q \in S : r <= q
  OBVIOUS
<1>2. First(S) \in S /\ \A q \in S : First(S) <= q
  BY <1>1 DEF First
<1>3. First(S) <= r /\ r <= First(S) /\ First(S) \in Nat
  BY <1>1, <1>2
<1>4. QED
  BY <1>3

(* What apply finds for a track is what a reader of the payload expects.   *)
LEMMA ApplyShows ==
  ASSUME NEW tracks \in Tracks, NEW payload \in Payloads
  PROVE  Shown(Apply(tracks, payload), payload)
<1> DEFINE records == payload.records
           shown == Apply(tracks, payload)
<1>1. payload.provider \in Sources /\ records \in Seq(AircraftEnrichmentRecord)
  BY ProvidersAssumption
<1>2. DOMAIN records \subseteq Nat /\ \A r \in DOMAIN records : records[r].filled \subseteq Fields
  <2>1. \A r \in DOMAIN records : r \in Nat /\ records[r] \in AircraftEnrichmentRecord
    BY <1>1
  <2>2. QED
    BY <2>1 DEF AircraftEnrichmentRecord
<1>3. /\ DOMAIN shown = DOMAIN tracks
      /\ \A i \in DOMAIN tracks :
           /\ shown[i] = Enriched(tracks[i], payload.provider, FilledFor(tracks[i], records))
           /\ shown[i].icao = tracks[i].icao /\ shown[i].callsign = tracks[i].callsign
  BY ApplyIsTracks
<1>4. ASSUME NEW i \in DOMAIN tracks, NEW r \in DOMAIN records,
             FilledFor(tracks[i], records) = records[r].filled
      PROVE  Shows(shown[i], payload.provider, records[r].filled)
  <2>1. tracks[i] \in FlightTrack
    BY TracksAre
  <2>2. \A f \in records[r].filled : f \in records[r].filled \cap Fields
    BY <1>2
  <2>3. shown[i] = Enriched(tracks[i], payload.provider, records[r].filled)
    BY <1>3, <1>4
  <2> HIDE DEF shown, records
  <2>4. QED
    BY <1>1, <2>1, <2>2, <2>3, EnrichedIsTrack DEF Shows
<1>5. ASSUME NEW r \in DOMAIN records, NEW i \in DOMAIN tracks,
             records[r].icao = shown[i].icao,
             \A q \in DOMAIN records : q < r => records[q].icao # records[r].icao
      PROVE  FilledFor(tracks[i], records) = records[r].filled
  <2> DEFINE S == ForAircraft(tracks[i], records)
  <2>1. S \in SUBSET Nat /\ r \in S /\ \A q \in S : ~(q < r)
    BY <1>2, <1>3, <1>5 DEF ForAircraft
  <2>2. First(S) = r
    BY <2>1, FirstIs
  <2>3. QED
    BY <2>1, <2>2 DEF FilledFor
<1>6. ASSUME NEW r \in DOMAIN records, NEW i \in DOMAIN tracks,
             records[r].callsign = shown[i].callsign, records[r].callsign # "",
             \A q \in DOMAIN records :
               /\ records[q].icao # shown[i].icao
               /\ q < r => records[q].callsign # records[r].callsign
      PROVE  FilledFor(tracks[i], records) = records[r].filled
  <2> DEFINE S == ForCallsign(tracks[i], records)
  <2>1. S \in SUBSET Nat /\ r \in S /\ \A q \in S : ~(q < r)
    BY <1>2, <1>3, <1>6 DEF ForCallsign
  <2>2. First(S) = r
    BY <2>1, FirstIs
  <2>3. ForAircraft(tracks[i], records) = {}
    BY <1>3, <1>6 DEF ForAircraft
  <2>4. QED
    BY <2>1, <2>2, <2>3 DEF FilledFor
<1>7. QED
  BY <1>3, <1>4, <1>5, <1>6 DEF Shown

------------------------------------------------------------------------------
(* The history store.                                                      *)
LEMMA PointIs ==
  ASSUME NEW track \in FlightTrack, NEW t \in Nat
  PROVE  /\ Point(track, t) \in HistoryPoint
         /\ Point(track, t).icao = track.icao /\ Point(track, t).at = track.at
         /\ Point(track, t).epoch = IF track.contact > 0 THEN track.contact ELSE t
BY DEF Point, HistoryPoint, FlightTrack

LEMMA PointsAre ==
  ASSUME NEW tracks \in Tracks, NEW t \in Nat
  PROVE  Points(tracks, t) \subseteq HistoryPoint /\ OnePosition(Points(tracks, t))
<1>1. DOMAIN tracks \subseteq Nat /\ \A i \in DOMAIN tracks : tracks[i] \in FlightTrack
  BY TracksAre
<1>2. Points(tracks, t) \subseteq HistoryPoint
  BY <1>1, PointIs DEF Points
<1>3. ASSUME NEW p \in Points(tracks, t), NEW q \in Points(tracks, t), SameMoment(p, q)
      PROVE  p = q
  <2>1. PICK i \in DOMAIN tracks :
          /\ p = Point(tracks[i], t)
          /\ \A j \in DOMAIN tracks :
               j > i => ~SameMoment(Point(tracks[i], t), Point(tracks[j], t))
    BY DEF Points
  <2>2. PICK j \in DOMAIN tracks :
          /\ q = Point(tracks[j], t)
          /\ \A k \in DOMAIN tracks :
               k > j => ~SameMoment(Point(tracks[j], t), Point(tracks[k], t))
    BY DEF Points
  <2>3. SameMoment(q, p)
    BY <1>3 DEF SameMoment
  <2>4. ~(j > i) /\ ~(i > j)
    BY <1>3, <2>1, <2>2, <2>3
  <2>5. i = j
    BY <1>1, <2>4
  <2>6. QED
    BY <2>1, <2>2, <2>5
<1>4. QED
  BY <1>2, <1>3 DEF OnePosition

(* record keeps one position per moment, drops no moment that is recent,   *)
(* and has the position of every track that is.                            *)
LEMMA RecordedIs ==
  ASSUME NEW points \in SUBSET HistoryPoint, NEW tracks \in Tracks, NEW t \in Nat
  PROVE  /\ Recorded(points, tracks, t) \subseteq HistoryPoint
         /\ OnePosition(points) => OnePosition(Recorded(points, tracks, t))
         /\ \A p \in points : p.epoch >= t - Retention =>
              \E q \in Recorded(points, tracks, t) : SameMoment(p, q)
         /\ \A i \in DOMAIN tracks :
              /\ tracks[i].contact > 0 /\ t - Retention <= tracks[i].contact
              /\ LastOfItsMoment(tracks, i)
              => \E p \in Recorded(points, tracks, t) :
                   /\ p.icao = tracks[i].icao /\ p.epoch = tracks[i].contact
                   /\ p.at = tracks[i].at
<1> DEFINE new == Points(tracks, t)
           recorded == Recorded(points, tracks, t)
<1>1. new \subseteq HistoryPoint /\ OnePosition(new)
  BY PointsAre
<1>2. recorded = {p \in new \cup {q \in points : \A r \in new : ~SameMoment(q, r)} :
                    p.epoch >= t - Retention}
  BY DEF Recorded, Pruned
<1>3. recorded \subseteq HistoryPoint
  BY <1>1, <1>2
<1> HIDE DEF new, recorded
<1>4. ASSUME OnePosition(points)
      PROVE  OnePosition(recorded)
  BY <1>1, <1>2, <1>4 DEF OnePosition, SameMoment
<1>5. ASSUME NEW p \in points, p.epoch >= t - Retention
      PROVE  \E q \in recorded : SameMoment(p, q)
  <2>1. CASE \A r \in new : ~SameMoment(p, r)
    <3>1. p \in recorded /\ SameMoment(p, p)
      BY <1>2, <1>5, <2>1 DEF SameMoment
    <3>2. QED
      BY <3>1
  <2>2. CASE \E r \in new : SameMoment(p, r)
    <3>1. PICK r \in new : SameMoment(p, r)
      BY <2>2
    <3>2. r.epoch = p.epoch
      BY <3>1 DEF SameMoment
    <3>3. r \in recorded
      BY <1>2, <1>5, <3>2
    <3>4. QED
      BY <3>1, <3>3
  <2>3. QED
    BY <2>1, <2>2
<1>6. ASSUME NEW i \in DOMAIN tracks,
             tracks[i].contact > 0, t - Retention <= tracks[i].contact,
             LastOfItsMoment(tracks, i)
      PROVE  \E p \in recorded :
               /\ p.icao = tracks[i].icao /\ p.epoch = tracks[i].contact
               /\ p.at = tracks[i].at
  <2> DEFINE p == Point(tracks[i], t)
  <2>1. DOMAIN tracks \subseteq Nat /\ \A j \in DOMAIN tracks : tracks[j] \in FlightTrack
    BY TracksAre
  <2>2. p.icao = tracks[i].icao /\ p.epoch = tracks[i].contact /\ p.at = tracks[i].at
    BY <1>6, <2>1, PointIs
  <2>3. ASSUME NEW j \in DOMAIN tracks, j > i
        PROVE  ~SameMoment(p, Point(tracks[j], t))
    <3>1. /\ Point(tracks[j], t).icao = tracks[j].icao
          /\ Point(tracks[j], t).epoch = IF tracks[j].contact > 0 THEN tracks[j].contact ELSE t
      BY <2>1, PointIs
    <3>2. \/ tracks[j].icao # tracks[i].icao
          \/ tracks[j].contact \notin {0, tracks[i].contact}
      BY <1>6, <2>3 DEF LastOfItsMoment
    <3>3. tracks[j].contact \in Nat
      BY <2>1 DEF FlightTrack
    <3>4. CASE tracks[j].icao # tracks[i].icao
      BY <2>2, <3>1, <3>4 DEF SameMoment
    <3>5. CASE tracks[j].contact \notin {0, tracks[i].contact}
      BY <2>2, <3>1, <3>3, <3>5 DEF SameMoment
    <3>6. QED
      BY <3>2, <3>4, <3>5
  <2>4. p \in new
    BY <2>3 DEF new, Points
  <2>5. p \in recorded
    BY <1>2, <1>6, <2>2, <2>4
  <2>6. QED
    BY <2>2, <2>5
<1>7. QED
  BY <1>3, <1>4, <1>5, <1>6 DEF recorded

------------------------------------------------------------------------------
(* What applyPublicFlightEnrichmentAndRecord leaves, of new or current     *)
(* tracks.                                                                 *)
LEMMA Recording ==
  ASSUME TypeOK, HistoriesOK, UNCHANGED <<now, running>>,
         NEW kind, NEW tracks \in Tracks, NEW c \in Cache, ApplyAndRecord(kind, tracks, c)
  PROVE  /\ feed'.kind = kind /\ feed'.tracks \in Tracks
         /\ history' \subseteq HistoryPoint
         /\ historyFile' \in {None, Garbage} \cup SUBSET HistoryPoint
         /\ historyStatus' \in {"persisted", "write-error"}
         /\ HistoriesOK'
         /\ TracksWereRecorded'
         /\ \A p \in history : p.epoch >= now - Retention =>
              \E q \in history' : SameMoment(p, q)
         /\ Available(c) =>
              /\ Shown(feed'.tracks, c.payload)
              /\ enrichmentStatus' = Counted("enriched", feed'.tracks, c.payload)
         /\ ~Available(c) => UNCHANGED enrichmentStatus
<1> DEFINE shown == IF Available(c) THEN Apply(tracks, c.payload) ELSE tracks
<1>1. /\ feed' = [kind |-> kind, tracks |-> shown]
      /\ history' = Recorded(history, shown, now)
      /\ SaveHistory
      /\ enrichmentStatus' =
           IF Available(c) THEN Counted("enriched", tracks, c.payload) ELSE enrichmentStatus
  BY DEF ApplyAndRecord
<1>2. Available(c) => c.payload \in Payloads
  BY DEF Cache, Available
<1>3. shown \in Tracks
  BY <1>2, ApplyIsTracks
<1>4. history \in SUBSET HistoryPoint /\ now \in Nat /\ OnePosition(history)
  BY FlightBounds DEF TypeOK, HistoriesOK
<1>5. /\ history' \subseteq HistoryPoint /\ OnePosition(history')
      /\ \A p \in history : p.epoch >= now - Retention =>
           \E q \in history' : SameMoment(p, q)
      /\ \A i \in DOMAIN shown :
           /\ shown[i].contact > 0 /\ now - Retention <= shown[i].contact
           /\ LastOfItsMoment(shown, i)
           => \E p \in history' :
                p.icao = shown[i].icao /\ p.epoch = shown[i].contact /\ p.at = shown[i].at
  BY <1>1, <1>3, <1>4, RecordedIs
<1>6. Available(c) => /\ Shown(shown, c.payload)
                      /\ Counted("enriched", tracks, c.payload)
                           = Counted("enriched", shown, c.payload)
  BY <1>2, ApplyShows, AppliedTwice
<1> HIDE DEF shown
<1>7. feed'.kind = kind /\ feed'.tracks = shown
  BY <1>1
<1>8. TracksWereRecorded'
  BY <1>5, <1>7 DEF TracksWereRecorded
<1>9. /\ historyFile' \in {None, Garbage} \cup SUBSET HistoryPoint
      /\ historyStatus' \in {"persisted", "write-error"}
      /\ HistoriesOK'
  BY <1>1, <1>5 DEF SaveHistory, HistoriesOK, TypeOK
<1>10. QED
  BY <1>1, <1>3, <1>5, <1>6, <1>7, <1>8, <1>9

------------------------------------------------------------------------------
LEMMA FailedIs ==
  ASSUME NEW c \in Cache
  PROVE  /\ Failed(c) \in Cache /\ Failed(c).payload = c.payload
         /\ Failed(c).status \in {"last-good", "unavailable"}
BY DEF Failed, Available, Cache, Statuses

LEMMA AcceptedIs ==
  ASSUME NEW payload \in Payloads, NEW fallback \in BOOLEAN, NEW c \in Cache
  PROVE  /\ Accepted(c, payload, fallback) \in Cache
         /\ Accepted(c, payload, fallback).payload = payload
         /\ WasPersisted(Accepted(c, payload, fallback)) \in Cache
         /\ WasPersisted(Accepted(c, payload, fallback)).payload = payload
         /\ WriteFailed(Accepted(c, payload, fallback)) \in Cache
         /\ WriteFailed(Accepted(c, payload, fallback)).payload = payload
<1>1. Accepted(c, payload, fallback)
        = [ payload |-> payload, fallback |-> fallback,
            status |-> IF fallback THEN "cache-fallback" ELSE "active" ]
  BY DEF Accepted
<1>2. Accepted(c, payload, fallback) \in Cache /\ Accepted(c, payload, fallback).payload = payload
  BY <1>1 DEF Cache, Statuses
<1>3. ASSUME NEW d \in Cache
      PROVE  /\ WasPersisted(d) \in Cache /\ WasPersisted(d).payload = d.payload
             /\ WriteFailed(d) \in Cache /\ WriteFailed(d).payload = d.payload
  BY DEF Cache, Statuses, WasPersisted, WriteFailed
<1>4. QED
  BY <1>2, <1>3

Numbered == {"enriched", "restored"}

EnrichedBy(payload, tracks, line) ==
  payload # None =>
    /\ Shown(tracks, payload)
    /\ line.text \in Numbered => line = Counted(line.text, tracks, payload)

------------------------------------------------------------------------------
(* A step that leaves the map, the history and the payload alone.          *)
LEMMA NothingMoved ==
  ASSUME Inv, UNCHANGED <<feed, history>>, historyFile' \in {historyFile, Garbage},
         running' => running,
         now' \in Nat, now' >= now, cache'.payload = cache.payload,
         \/ UNCHANGED enrichmentStatus
         \/ enrichmentStatus'.text \notin Numbered
  PROVE  /\ feed'.tracks \in Tracks
         /\ HistoriesOK' /\ TracksWereRecorded' /\ EnrichmentIsApplied'
<1>1. feed'.tracks \in Tracks /\ HistoriesOK'
  BY DEF Inv, HistoriesOK
<1>2. TracksWereRecorded'
  <2>1. ASSUME NEW i \in DOMAIN feed.tracks, running, feed.tracks[i].contact > 0,
               now' - Retention <= feed.tracks[i].contact, LastOfItsMoment(feed.tracks, i)
        PROVE  \E p \in history :
                 /\ p.icao = feed.tracks[i].icao
                 /\ p.epoch = feed.tracks[i].contact
                 /\ p.at = feed.tracks[i].at
    <3>1. feed.tracks[i].contact \in Nat /\ Retention \in Nat /\ now \in Nat
      BY TracksAre, RetentionAssumption, FlightBounds DEF Inv, TypeOK, FlightTrack
    <3>2. now - Retention <= feed.tracks[i].contact
      BY <2>1, <3>1
    <3>3. QED
      BY <2>1, <3>2 DEF Inv, TracksWereRecorded
  <2>2. QED
    BY <2>1 DEF TracksWereRecorded
<1>3. EnrichmentIsApplied'
  <2>1. EnrichmentIsApplied => EnrichedBy(cache.payload, feed.tracks, enrichmentStatus)
    BY DEF EnrichmentIsApplied, EnrichedBy, Available, Shown, Numbered
  <2>2. EnrichedBy(cache'.payload, feed'.tracks, enrichmentStatus') => EnrichmentIsApplied'
    BY DEF EnrichmentIsApplied, EnrichedBy, Available, Shown, Numbered
  <2>3. EnrichedBy(cache'.payload, feed'.tracks, enrichmentStatus')
    BY <2>1 DEF Inv, EnrichedBy
  <2>4. QED
    BY <2>2, <2>3
<1>4. QED
  BY <1>1, <1>2, <1>3

LEMMA RefuseFeedInv ==
  ASSUME Inv, RefuseFeed, UNCHANGED <<now, running>>,
         inflight' \in [feed: 0..MaxInFlight, enrichment: 0..MaxInFlight]
  PROVE  Inv'
<1>1. /\ feedStatus' = "error"
      /\ UNCHANGED <<feed, cache, history, enrichmentStatus, historyStatus, providerFile, historyFile>>
  BY DEF RefuseFeed, files
<1>2. now \in Nat /\ now' >= now
  BY FlightBounds DEF Inv, TypeOK
<1>3. TypeOK'
  BY <1>1 DEF Inv, TypeOK
<1>4. StatusNamesFeed'
  BY <1>1 DEF StatusNamesFeed
<1>5. QED
  BY <1>1, <1>2, <1>3, <1>4, NothingMoved DEF Inv

(* What is common to all handlers that record: a map of a kind of its own, *)
(* or the same map once more.                                              *)
LEMMA RecordInv ==
  ASSUME Inv, UNCHANGED <<now, running>>,
         inflight' \in [feed: 0..MaxInFlight, enrichment: 0..MaxInFlight],
         NEW kind \in {"demo", "imported", "https"}, NEW tracks \in Tracks,
         cache' \in Cache, providerFile' \in Content,
         NEW c \in Cache, ApplyAndRecord(kind, tracks, c), c.payload = cache'.payload,
         feedStatus' = kind \/ (UNCHANGED feedStatus /\ kind = feed.kind)
  PROVE  Inv'
<1>1. TypeOK /\ HistoriesOK
  BY DEF Inv
<1>2. /\ feed'.kind = kind /\ feed'.tracks \in Tracks
      /\ history' \subseteq HistoryPoint
      /\ historyFile' \in {None, Garbage} \cup SUBSET HistoryPoint
      /\ historyStatus' \in {"persisted", "write-error"}
      /\ HistoriesOK' /\ TracksWereRecorded'
      /\ Available(c) =>
           /\ Shown(feed'.tracks, c.payload)
           /\ enrichmentStatus' = Counted("enriched", feed'.tracks, c.payload)
  BY <1>1, Recording
<1>3. TypeOK'
  <2>1. DOMAIN feed'.tracks \subseteq Nat /\ \A i \in DOMAIN feed'.tracks : feed'.tracks[i] \in FlightTrack
    BY <1>2, TracksAre
  <2>2. QED
    BY <1>1, <1>2, <2>1 DEF TypeOK
<1>4. StatusNamesFeed'
  BY <1>2 DEF Inv, StatusNamesFeed
<1>5. EnrichmentIsApplied'
  <2>2. Counted("enriched", feed'.tracks, c.payload).text = "enriched"
    BY DEF Counted
  <2>3. EnrichedBy(cache'.payload, feed'.tracks, enrichmentStatus')
    BY <1>2, <2>2 DEF EnrichedBy, Available
  <2>4. EnrichedBy(cache'.payload, feed'.tracks, enrichmentStatus') => EnrichmentIsApplied'
    BY DEF EnrichmentIsApplied, EnrichedBy, Available, Shown, Numbered
  <2>5. QED
    BY <2>3, <2>4
<1>6. QED
  BY <1>2, <1>3, <1>4, <1>5 DEF Inv

LEMMA ReceiveFeedInv ==
  ASSUME Inv, UNCHANGED <<now, running>>,
         inflight' \in [feed: 0..MaxInFlight, enrichment: 0..MaxInFlight],
         NEW kind \in {"imported", "https"}, ReceiveFeed(kind)
  PROVE  Inv'
<1>1. CASE RefuseFeed
  BY <1>1, RefuseFeedInv
<1>2. ASSUME NEW document \in Feeds,
             ApplyAndRecord(kind, Parsed(document), cache), feedStatus' = kind,
             UNCHANGED <<cache, providerFile>>
      PROVE  Inv'
  <2>1. Parsed(document) \in Tracks
    BY ParsedIsTracks
  <2>2. /\ cache \in Cache /\ cache' \in Cache /\ providerFile' \in Content
        /\ cache.payload = cache'.payload
    BY <1>2 DEF Inv, TypeOK
  <2>3. kind \in {"demo", "imported", "https"}
    OBVIOUS
  <2>4. QED
    BY <1>2, <2>1, <2>2, <2>3, RecordInv
<1>3. QED
  BY <1>1, <1>2 DEF ReceiveFeed

LEMMA RefuseEnrichmentInv ==
  ASSUME Inv, RefuseEnrichment, UNCHANGED <<now, running>>,
         inflight' \in [feed: 0..MaxInFlight, enrichment: 0..MaxInFlight]
  PROVE  Inv'
<1>1. /\ cache' = Failed(cache) /\ enrichmentStatus' = Line(cache'.status)
      /\ UNCHANGED <<feed, history, feedStatus, historyStatus, providerFile, historyFile>>
  BY DEF RefuseEnrichment, files
<1>2. /\ cache' \in Cache /\ cache'.payload = cache.payload
      /\ cache'.status \in {"last-good", "unavailable"}
  BY <1>1, FailedIs DEF Inv, TypeOK
<1>3. enrichmentStatus'.text \notin Numbered
  BY <1>1, <1>2 DEF Line, Numbered
<1>4. now \in Nat /\ now' >= now
  BY FlightBounds DEF Inv, TypeOK
<1>5. TypeOK'
  BY <1>1, <1>2 DEF Inv, TypeOK
<1>6. StatusNamesFeed'
  BY <1>1 DEF Inv, StatusNamesFeed
<1>7. QED
  BY <1>1, <1>2, <1>3, <1>4, <1>5, <1>6, NothingMoved DEF Inv

LEMMA ReceiveEnrichmentInv ==
  ASSUME Inv, UNCHANGED <<now, running>>,
         inflight' \in [feed: 0..MaxInFlight, enrichment: 0..MaxInFlight],
         ReceiveEnrichment
  PROVE  Inv'
<1>1. CASE RefuseEnrichment
  BY <1>1, RefuseEnrichmentInv
<1>2. ASSUME NEW payload \in Payloads, TakeEnrichment(payload)
      PROVE  Inv'
  <2> DEFINE accepted == Accepted(cache, payload, FALSE)
  <2>1. /\ cache \in Cache /\ feed.tracks \in Tracks /\ providerFile \in Content
        /\ feed.kind \in {"demo", "imported", "https"}
    BY DEF Inv, TypeOK
  <2>2. /\ accepted \in Cache /\ accepted.payload = payload
        /\ WasPersisted(accepted) \in Cache /\ WasPersisted(accepted).payload = payload
        /\ WriteFailed(accepted) \in Cache /\ WriteFailed(accepted).payload = payload
    BY <2>1, AcceptedIs
  <2>3. /\ \/ cache' = WasPersisted(accepted) /\ providerFile' = payload
           \/ cache' = WriteFailed(accepted) /\ providerFile' \in {providerFile, None, Garbage}
        /\ ApplyAndRecord(feed.kind, feed.tracks, accepted)
        /\ UNCHANGED feedStatus
    BY <1>2 DEF TakeEnrichment
  <2> HIDE DEF accepted
  <2>4. cache' \in Cache /\ cache'.payload = payload /\ providerFile' \in Content
    BY <2>1, <2>2, <2>3 DEF Content
  <2>5. QED
    BY <2>1, <2>2, <2>3, <2>4, RecordInv
<1>3. QED
  BY <1>1, <1>2 DEF ReceiveEnrichment

------------------------------------------------------------------------------
LEMMA InitInv == Init => Inv
<1> SUFFICES ASSUME Init
             PROVE  Inv
  OBVIOUS
<1>1. feed.tracks \in Tracks /\ feed.kind = "demo"
  BY DemoIsTracks DEF Init
<1>2. ~Available(cache) /\ cache \in Cache
  BY DEF Init, EmptyCache, Available, Cache, Statuses
<1>3. DOMAIN feed.tracks \subseteq Nat /\ \A i \in DOMAIN feed.tracks : feed.tracks[i] \in FlightTrack
  BY <1>1, TracksAre
<1>4. TypeOK
  BY <1>1, <1>2, <1>3, FlightBounds DEF Init, TypeOK, Content
<1>5. TracksWereRecorded
  BY DemoAssumption DEF Init, TracksWereRecorded
<1>6. QED
  BY <1>1, <1>2, <1>4, <1>5
     DEF Init, Inv, StatusNamesFeed, HistoriesOK, OnePosition, EnrichmentIsApplied

(* A restart takes the map from the demo and all else from the files.      *)
LEMMA RestartInv == Inv /\ Restart => Inv'
<1> SUFFICES ASSUME Inv, Restart
             PROVE  Inv'
  OBVIOUS
<1> DEFINE tracks == IF Available(cache') THEN Apply(DemoTracks, cache'.payload) ELSE DemoTracks
<1>1. /\ cache' = IF providerFile = None THEN EmptyCache
                  ELSE Accepted(EmptyCache, providerFile, TRUE)
      /\ feed' = [kind |-> "demo", tracks |-> tracks]
      /\ enrichmentStatus' =
           IF providerFile = None THEN Line("no-provider")
           ELSE IF Available(cache') THEN Counted("restored", DemoTracks, cache'.payload)
           ELSE Line("restore-failed")
      /\ history' = Loaded(historyFile)
      /\ historyStatus' \in {"ready", "load-error", "loaded"}
      /\ feedStatus' = "demo" /\ inflight' = [feed |-> 0, enrichment |-> 0]
      /\ running' = TRUE /\ UNCHANGED <<now, providerFile, historyFile>>
  BY DEF Restart, Started, files
<1>2. EmptyCache \in Cache /\ ~Available(EmptyCache)
  BY DEF EmptyCache, Cache, Statuses, Available
<1>3. providerFile \in Content /\ historyFile \in {None, Garbage} \cup SUBSET HistoryPoint
  BY DEF Inv, TypeOK
<1>4. cache' \in Cache
  <2>1. CASE providerFile \in Payloads
    BY <1>1, <1>2, <2>1, PayloadsAssumption, AcceptedIs
  <2>2. CASE providerFile = None
    BY <1>1, <1>2, <2>2
  <2>3. CASE providerFile = Garbage
    BY <1>1, <1>2, <2>3, GarbageAssumption, FailedIs DEF Accepted
  <2>4. QED
    BY <1>3, <2>1, <2>2, <2>3 DEF Content
<1>5. Available(cache') => cache'.payload \in Payloads
  BY <1>4 DEF Cache, Available
<1>6. /\ tracks \in Tracks
      /\ \A i \in DOMAIN tracks : tracks[i].contact = 0
  <2>1. CASE Available(cache')
    <3>1. DOMAIN Apply(DemoTracks, cache'.payload) = DOMAIN DemoTracks
      BY <1>5, <2>1, DemoIsTracks, ApplyIsTracks
    <3>2. ASSUME NEW i \in DOMAIN DemoTracks
          PROVE  Apply(DemoTracks, cache'.payload)[i].contact = 0
      <4>1. /\ Apply(DemoTracks, cache'.payload)[i]
                 = Enriched(DemoTracks[i], cache'.payload.provider,
                            FilledFor(DemoTracks[i], cache'.payload.records))
            /\ DemoTracks[i] \in FlightTrack /\ DemoTracks[i].contact = 0
            /\ cache'.payload.provider \in Sources
        BY <1>5, <2>1, DemoIsTracks, TracksAre, ApplyIsTracks, DemoAssumption, ProvidersAssumption
      <4>2. QED
        BY <4>1, EnrichedIsTrack
    <3>3. QED
      BY <1>5, <2>1, <3>1, <3>2, DemoIsTracks, ApplyIsTracks
  <2>2. CASE ~Available(cache')
    BY <2>2, DemoIsTracks, DemoAssumption
  <2>3. QED
    BY <2>1, <2>2
<1>7. EnrichedBy(cache'.payload, tracks, enrichmentStatus')
  <2>1. CASE Available(cache')
    <3>1. /\ Shown(Apply(DemoTracks, cache'.payload), cache'.payload)
          /\ Counted("restored", DemoTracks, cache'.payload)
               = Counted("restored", Apply(DemoTracks, cache'.payload), cache'.payload)
      BY <1>5, <2>1, DemoIsTracks, ApplyShows, AppliedTwice
    <3>2. Counted("restored", DemoTracks, cache'.payload).text = "restored"
      BY DEF Counted
    <3>3. enrichmentStatus' = Counted("restored", DemoTracks, cache'.payload)
      BY <1>1, <1>2, <2>1
    <3>4. tracks = Apply(DemoTracks, cache'.payload)
      BY <2>1
    <3>5. QED
      BY <3>1, <3>2, <3>3, <3>4 DEF EnrichedBy
  <2>2. CASE ~Available(cache')
    BY <2>2 DEF EnrichedBy, Available
  <2>3. QED
    BY <2>1, <2>2
<1> HIDE DEF tracks
<1>8. EnrichmentIsApplied'
  <2>1. EnrichedBy(cache'.payload, feed'.tracks, enrichmentStatus') => EnrichmentIsApplied'
    BY DEF EnrichmentIsApplied, EnrichedBy, Available, Shown, Numbered
  <2>2. feed'.tracks = tracks
    BY <1>1
  <2>3. QED
    BY <1>7, <2>1, <2>2
<1>9. /\ history' \subseteq HistoryPoint /\ OnePosition(history')
      /\ historyFile' \notin {None, Garbage} => OnePosition(historyFile')
  BY <1>1, <1>3 DEF Loaded, Inv, HistoriesOK, OnePosition
<1>10. HistoriesOK'
  BY <1>9 DEF HistoriesOK
<1>11. TypeOK'
  <2>1. DOMAIN tracks \subseteq Nat /\ \A i \in DOMAIN tracks : tracks[i] \in FlightTrack
    BY <1>6, TracksAre
  <2>2. [feed |-> 0, enrichment |-> 0] \in [feed: 0..MaxInFlight, enrichment: 0..MaxInFlight]
    BY FlightBounds
  <2>3. QED
    BY <1>1, <1>3, <1>4, <1>9, <2>1, <2>2 DEF Inv, TypeOK
<1>12. TracksWereRecorded'
  BY <1>1, <1>6 DEF TracksWereRecorded
<1>13. StatusNamesFeed'
  BY <1>1 DEF StatusNamesFeed
<1>14. QED
  BY <1>1, <1>6, <1>8, <1>10, <1>11, <1>12, <1>13 DEF Inv

LEMMA NextInv == Inv /\ [Next]_vars => Inv'
<1> SUFFICES ASSUME Inv, [Next]_vars
             PROVE  Inv'
  OBVIOUS
<1> DEFINE Requests == [feed: 0..MaxInFlight, enrichment: 0..MaxInFlight]
<1>1. /\ inflight \in Requests /\ TypeOK
      /\ now \in Nat /\ MaxInFlight \in Nat
  BY FlightBounds DEF Inv, TypeOK
<1>2. /\ \A n \in 0..MaxInFlight : [inflight EXCEPT !.feed = n] \in Requests
      /\ \A n \in 0..MaxInFlight : [inflight EXCEPT !.enrichment = n] \in Requests
      /\ inflight.feed \in 0..MaxInFlight /\ inflight.enrichment \in 0..MaxInFlight
  BY <1>1
<1>3. CASE LoadFeedFile
  BY <1>1, <1>3, ReceiveFeedInv DEF LoadFeedFile
<1>4. CASE FetchFeed
  <2>1. inflight' \in Requests
    BY <1>1, <1>2, <1>4 DEF FetchFeed
  <2>2. /\ feedStatus' \in {"fetching", "error"}
        /\ UNCHANGED <<now, running, feed, cache, history, enrichmentStatus, historyStatus,
                       providerFile, historyFile>>
    BY <1>4 DEF FetchFeed, files
  <2>3. TypeOK' /\ StatusNamesFeed'
    BY <1>1, <2>1, <2>2 DEF TypeOK, StatusNamesFeed
  <2>4. QED
    BY <1>1, <2>2, <2>3, NothingMoved DEF Inv
<1>5. CASE FeedReply
  <2>1. inflight' \in Requests
    BY <1>1, <1>2, <1>5 DEF FeedReply
  <2>2. QED
    BY <1>5, <2>1, ReceiveFeedInv DEF FeedReply
<1>6. CASE ResetDemo
  <2>1. /\ ApplyAndRecord("demo", DemoTracks, cache) /\ feedStatus' = "demo"
        /\ UNCHANGED <<now, running, cache, inflight, providerFile>>
    BY <1>6 DEF ResetDemo
  <2>2. cache \in Cache /\ cache' \in Cache /\ cache.payload = cache'.payload
        /\ providerFile' \in Content /\ inflight' \in Requests
    BY <1>1, <2>1 DEF TypeOK
  <2>3. QED
    BY <2>1, <2>2, DemoIsTracks, RecordInv
<1>7. CASE LoadEnrichmentFile
  BY <1>1, <1>7, ReceiveEnrichmentInv DEF LoadEnrichmentFile
<1>8. CASE FetchEnrichment
  <2>1. CASE RefuseEnrichment /\ UNCHANGED inflight
    BY <1>1, <1>8, <2>1, RefuseEnrichmentInv DEF FetchEnrichment
  <2>2. CASE /\ inflight.enrichment < MaxInFlight
             /\ inflight' = [inflight EXCEPT !.enrichment = @ + 1]
             /\ enrichmentStatus' =
                  Line(IF Available(cache) THEN "fetching-last-good" ELSE "fetching")
             /\ UNCHANGED <<feed, cache, history, feedStatus, historyStatus, files>>
    <3>1. inflight' \in Requests
      BY <1>1, <1>2, <2>2
    <3>2. enrichmentStatus'.text \notin Numbered
      BY <2>2 DEF Line, Numbered
    <3>3. UNCHANGED <<now, running, providerFile, historyFile>>
      BY <1>8, <2>2 DEF FetchEnrichment, files
    <3>4. TypeOK' /\ StatusNamesFeed'
      BY <1>1, <2>2, <3>1, <3>3 DEF Inv, TypeOK, StatusNamesFeed
    <3>5. QED
      BY <1>1, <2>2, <3>2, <3>3, <3>4, NothingMoved DEF Inv
  <2>3. QED
    BY <1>8, <2>1, <2>2 DEF FetchEnrichment
<1>9. CASE EnrichmentReply
  <2>1. inflight' \in Requests
    BY <1>1, <1>2, <1>9 DEF EnrichmentReply
  <2>2. QED
    BY <1>9, <2>1, ReceiveEnrichmentInv DEF EnrichmentReply
<1>10. CASE Crash
  <2>1. /\ running' = FALSE /\ historyFile' \in {historyFile, Garbage}
        /\ providerFile' \in Content
        /\ UNCHANGED <<now, feed, cache, history, inflight, feedStatus, enrichmentStatus,
                       historyStatus>>
    BY <1>10 DEF Crash, process
  <2>2. TypeOK' /\ StatusNamesFeed'
    BY <1>1, <2>1 DEF Inv, TypeOK, StatusNamesFeed
  <2>3. now' \in Nat /\ now' >= now
    BY <1>1, <2>1
  <2>4. QED
    BY <2>1, <2>2, <2>3, NothingMoved DEF Inv
<1>11. CASE Restart
  BY <1>11, RestartInv
<1>12. CASE Tick
  <2>1. /\ now < MaxNow /\ now' = now + 1
        /\ UNCHANGED <<running, feed, cache, history, inflight, feedStatus, enrichmentStatus,
                       historyStatus, providerFile, historyFile>>
    BY <1>12 DEF Tick, process, files
  <2>2. now' \in 1..MaxNow /\ now' >= now /\ now' \in Nat
    BY <1>1, <2>1, FlightBounds DEF TypeOK
  <2>3. TypeOK' /\ StatusNamesFeed'
    BY <1>1, <2>1, <2>2 DEF Inv, TypeOK, StatusNamesFeed
  <2>4. QED
    BY <2>1, <2>2, <2>3, NothingMoved DEF Inv
<1>13. CASE UNCHANGED vars
  <2>1. UNCHANGED <<now, running, feed, cache, history, inflight, feedStatus, enrichmentStatus,
                    historyStatus, providerFile, historyFile>>
    BY <1>13 DEF vars, process, files
  <2>2. TypeOK' /\ StatusNamesFeed'
    BY <1>1, <2>1 DEF Inv, TypeOK, StatusNamesFeed
  <2>3. QED
    BY <1>1, <2>1, <2>2, NothingMoved DEF Inv
<1>14. QED
  BY <1>3, <1>4, <1>5, <1>6, <1>7, <1>8, <1>9, <1>10, <1>11, <1>12, <1>13 DEF Next

------------------------------------------------------------------------------
LEMMA Invariance == Spec => []Inv
BY InitInv, NextInv, PTL DEF Spec

(* Everything the flight half keeps is what it should be.                  *)
THEOREM TypeCorrect == Spec => []TypeOK
<1>1. Inv => TypeOK
  BY DEF Inv
<1>2. QED
  BY <1>1, Invariance, PTL

(* No order of replies, imports, resets and restarts makes the status line *)
(* name a feed that is not on the map.                                     *)
THEOREM StatusTheorem == Spec => []StatusNamesFeed
<1>1. Inv => StatusNamesFeed
  BY DEF Inv
<1>2. QED
  BY <1>1, Invariance, PTL

(* The map shows what the current provider says of its tracks, however     *)
(* both came to be there, and the status line counts them truly.           *)
THEOREM EnrichmentTheorem == Spec => []EnrichmentIsApplied
<1>1. Inv => EnrichmentIsApplied
  BY DEF Inv
<1>2. QED
  BY <1>1, Invariance, PTL

(* The history never has two positions of an aircraft for one moment.      *)
THEOREM OnePositionTheorem == Spec => []OnePositionPerMoment
<1>1. Inv => OnePositionPerMoment
  BY DEF Inv, HistoriesOK, OnePosition, OnePositionPerMoment
<1>2. QED
  BY <1>1, Invariance, PTL

(* What is on the map is in the window that its page shows.                *)
THEOREM TracksTheorem == Spec => []TracksAreInHistory
<1>1. ASSUME Inv
      PROVE  TracksAreInHistory
  <2>1. SUFFICES ASSUME NEW i \in DOMAIN feed.tracks, running, feed.tracks[i].contact > 0,
                        feed.tracks[i].contact <= now,
                        now - Retention <= feed.tracks[i].contact,
                        LastOfItsMoment(feed.tracks, i)
                 PROVE  \E p \in Window(history, feed.tracks[i].icao, Retention, now) :
                          p.epoch = feed.tracks[i].contact /\ p.at = feed.tracks[i].at
    BY DEF TracksAreInHistory, LastOfItsMoment
  <2>2. PICK p \in history : /\ p.icao = feed.tracks[i].icao
                             /\ p.epoch = feed.tracks[i].contact
                             /\ p.at = feed.tracks[i].at
    BY <1>1, <2>1 DEF Inv, TracksWereRecorded
  <2>3. feed.tracks[i].contact \in Nat /\ Retention \in Nat \ {0} /\ now \in Nat
    BY <1>1, TracksAre, RetentionAssumption, FlightBounds DEF Inv, TypeOK, FlightTrack
  <2>4. p \in Window(history, feed.tracks[i].icao, Retention, now)
    BY <2>1, <2>2, <2>3 DEF Window
  <2>5. QED
    BY <2>2, <2>4
<1>2. QED
  BY <1>1, Invariance, PTL

(* No step of a running process loses a recent moment of an aircraft: a    *)
(* recording keeps it or replaces its position, all other steps keep it.   *)
THEOREM RecentTheorem == Spec => RecentHistoryIsKept
<1> DEFINE Kept == \A p \in history : p.epoch >= now' - Retention =>
                     \E q \in history' : SameMoment(p, q)
<1>1. ASSUME Inv, [Next]_vars, running, running'
      PROVE  Kept
  <2>1. TypeOK /\ HistoriesOK /\ feed.tracks \in Tracks /\ cache \in Cache
    BY <1>1 DEF Inv, TypeOK
  <2>2. ASSUME UNCHANGED history
        PROVE  Kept
    BY <2>2 DEF SameMoment
  <2>3. ASSUME UNCHANGED <<now, running>>, NEW kind, NEW tracks \in Tracks, NEW c \in Cache,
               ApplyAndRecord(kind, tracks, c)
        PROVE  Kept
    BY <2>1, <2>3, Recording
  <2>4. ASSUME UNCHANGED <<now, running>>, NEW kind, ReceiveFeed(kind)
        PROVE  Kept
    <3>1. CASE RefuseFeed
      BY <2>2, <3>1 DEF RefuseFeed
    <3>2. ASSUME NEW document \in Feeds, ApplyAndRecord(kind, Parsed(document), cache)
          PROVE  Kept
      BY <2>1, <2>3, <2>4, <3>2, ParsedIsTracks
    <3>3. QED
      BY <2>4, <3>1, <3>2 DEF ReceiveFeed
  <2>5. ASSUME UNCHANGED <<now, running>>, ReceiveEnrichment
        PROVE  Kept
    <3>1. CASE RefuseEnrichment
      BY <2>2, <3>1 DEF RefuseEnrichment
    <3>2. ASSUME NEW payload \in Payloads, TakeEnrichment(payload)
          PROVE  Kept
      <4>1. Accepted(cache, payload, FALSE) \in Cache
        BY <2>1, AcceptedIs
      <4>2. ApplyAndRecord(feed.kind, feed.tracks, Accepted(cache, payload, FALSE))
        BY <3>2 DEF TakeEnrichment
      <4>3. QED
        BY <2>1, <2>3, <2>5, <4>1, <4>2
    <3>3. QED
      BY <2>5, <3>1, <3>2 DEF ReceiveEnrichment
  <2> HIDE DEF Kept
  <2>6. CASE LoadFeedFile
    BY <2>4, <2>6 DEF LoadFeedFile
  <2>7. CASE FeedReply
    BY <2>4, <2>7 DEF FeedReply
  <2>8. CASE ResetDemo
    BY <2>1, <2>3, <2>8, DemoIsTracks DEF ResetDemo
  <2>9. CASE LoadEnrichmentFile
    BY <2>5, <2>9 DEF LoadEnrichmentFile
  <2>10. CASE EnrichmentReply
    BY <2>5, <2>10 DEF EnrichmentReply
  <2>11. CASE FetchFeed
    BY <2>2, <2>11 DEF FetchFeed
  <2>12. CASE FetchEnrichment
    BY <2>2, <2>12 DEF FetchEnrichment, RefuseEnrichment
  <2>13. CASE Tick \/ UNCHANGED vars
    BY <2>2, <2>13 DEF Tick, vars, process
  <2>14. CASE Crash \/ Restart
    BY <1>1, <2>14 DEF Crash, Restart
  <2>15. QED
    BY <1>1, <2>6, <2>7, <2>8, <2>9, <2>10, <2>11, <2>12, <2>13, <2>14 DEF Next
<1>2. Inv /\ [Next]_vars => [running /\ running' => Kept]_vars
  BY <1>1
<1>3. QED
  BY <1>2, Invariance, PTL DEF Spec, RecentHistoryIsKept
==============================================================================
