------------------------------ MODULE Aerodrome ------------------------------
(***************************************************************************)
(* The aerodrome half of the Qt bridge: public METARs and licensed runway  *)
(* conditions, each with a cache, a cache file and a copy of the feed that *)
(* the pages show.  Each handler runs to its end on the GUI thread, and    *)
(* replies arrive whenever the network pleases, after a clear too.         *)
(*                                                                         *)
(* A document is its kind, whether it names its provider and license, its  *)
(* rows of weather and of runways, and an epoch: of the observation for a  *)
(* METAR, of its generation (0 if not given) for licensed conditions.  A   *)
(* row is its station, whether it can be used, and the times it carries (0 *)
(* if none).  The METAR parser wants an array, which names no provider and *)
(* has no runways, the other one an object, so neither accepts the other's *)
(* documents.  A save ends as it does in ProviderCache.                    *)
(***************************************************************************)
EXTENDS LastGoodCache, Integers, FiniteSets, Sequences, Functions

CONSTANTS
  Documents,     \* what a service, or a file, may hold
  MaxRows,       \* rows kept of each sort  (source: 1000 weather, 5000 runway)
  Ttl,           \* how long a row is fresh  (source: 3600 s, or the provider's)
  MaxNow,        \* bound: last clock reading
  MaxInFlight    \* bound: unanswered requests of each kind

ASSUME TtlAssumption == Ttl \in Nat \ {0}
ASSUME BoundsAssumption == MaxNow \in Nat \ {0} /\ MaxInFlight \in Nat
(* parseWeather and parseRunway: of a row, what the rest goes by.  A row   *)
(* that names no station cannot be used.                                   *)
Observation ==
  { row \in [icao : STRING, usable : BOOLEAN, cached : Nat, expires : Nat] :
      row.usable => row.icao # "" }

ASSUME DocumentsAssumption ==
  \A d \in Documents :
    d.at \in Nat /\ {d.weather, d.runways} \subseteq Seq(Observation)

Kinds == {"public", "licensed"}

VARIABLES
  now,           \* the wall clock
  running,       \* whether the process is up
  cache,         \* publicAerodromeWeatherCache_, licensedAerodromeConditionsCache_
  held,          \* the feed_ in each cache
  shown,         \* publicAerodromeWeather_ and licensedAerodromeConditions_
  inflight,      \* number of unanswered requests
  weatherStatus, \* aerodromeWeatherStatus_
  errorWords,    \* whether an error text in it has the word ACTIVE or LOADED
  runwayStatus,  \* runwayConditionStatus_
  file           \* the two cache files

statuses == <<weatherStatus, errorWords, runwayStatus>>
process == <<cache, held, shown, inflight, statuses>>
vars == <<now, running, process, file>>

------------------------------------------------------------------------------
PlacesWithoutSkipping(rows) == {i \in DOMAIN rows : i <= MaxRows}

(* The places of the rows a parser keeps: it skips a bad row and stops at  *)
(* the limit.  A feed has its rows at these places.                        *)
KeptPlaces(rows) ==
  LET usable == {i \in DOMAIN rows : rows[i].usable}
  IN  {i \in usable : Cardinality({j \in usable : j <= i}) <= MaxRows}

(* Whether a parser accepts a document, and acceptPayload the result.      *)
Parses(k, document) ==
  /\ document.kind = k
  /\ k = "licensed" => document.provenance
  /\ \/ KeptPlaces(document.weather) # {}
     \/ k = "licensed" /\ KeptPlaces(document.runways) # {}

ASSUME PayloadsParse == Payloads = {d \in Documents : Parses(d.kind, d)}

(* cachedAt, expiresAt and normalizeFreshness: what a row does not say of  *)
(* itself is taken from the provider, then from the clock.                 *)
CachedAt(row, generatedAt, t) ==
  IF row.cached > 0 THEN row.cached ELSE IF generatedAt > 0 THEN generatedAt ELSE t

ExpiresAt(row, cachedAt) == IF row.expires > 0 THEN row.expires ELSE cachedAt + Ttl

NormalizedTooSoon(row, generatedAt, t) ==
  LET cachedAt == CachedAt(row, generatedAt, t)
      expiresAt == ExpiresAt(row, cachedAt)
  IN  [ icao |-> row.icao, cachedAt |-> cachedAt, expiresAt |-> expiresAt,
        label |-> IF t < expiresAt THEN "FRESH" ELSE "STALE" ]

Normalized(row, generatedAt, t) ==
  LET cachedAt == CachedAt(row, generatedAt, t)
      expiresAt == ExpiresAt(row, cachedAt)
  IN  [ icao |-> row.icao, cachedAt |-> cachedAt, expiresAt |-> expiresAt,
        label |-> IF t <= expiresAt THEN "FRESH" ELSE "STALE" ]

(* The METAR parser says its provider generated the feed when it was       *)
(* parsed; the other one takes what the provider says.                     *)
GeneratedAt(k, payload, t) == IF k = "public" THEN t ELSE payload.at

NormalizedRows(rows, generatedAt, t) ==
  [i \in KeptPlaces(rows) |-> Normalized(rows[i], generatedAt, t)]

(* fromAviationWeatherMetarJson and parseNormalized, for an accepted one.  *)
Feed(k, payload, t) ==
  [ payload |-> payload,
    weather |-> NormalizedRows(payload.weather, GeneratedAt(k, payload, t), t),
    runways |-> NormalizedRows(payload.runways, GeneratedAt(k, payload, t), t) ]

NoFeed == [payload |-> None, weather |-> <<>>, runways |-> <<>>]

RowsOf(feed) == Range(feed.weather) \cup Range(feed.runways)

(* What a request may bring: the METAR service sends current observations; *)
(* Garbage is also a network error.                                        *)
Received == {d \in Documents : d.kind = "public" => d.at = now} \cup {Garbage}

Accepts(k, document) == document # Garbage /\ Parses(k, document)

(* Whether the text of a refusal may have the words that the data-source   *)
(* page looks for.  Those of the program have none; but it repeats what    *)
(* the network and the JSON parser say of Garbage, and these repeat the    *)
(* server, in its reason phrase or in the token that was read last.        *)
RefusalWords(document) == IF document = Garbage THEN BOOLEAN ELSE {FALSE}

HasWeather(k) == DOMAIN shown[k].weather # {}

------------------------------------------------------------------------------
(* AerodromeProviderCache::acceptPayload, which parses into a candidate    *)
(* before it replaces the feed.                                            *)
AcceptPayload(k, payload) ==
  /\ held' = [held EXCEPT ![k] = Feed(k, payload, now)]
  /\ shown' = [shown EXCEPT ![k] = held'[k]]

(* AerodromeProviderCache::persistLastGood, after acceptPayload.           *)
PersistLastGood(k, payload) ==
  LET accepted == Accepted(cache[k], payload, FALSE)
  IN  \/ /\ cache' = [cache EXCEPT ![k] = WasPersisted(accepted)]
         /\ file' = [file EXCEPT ![k] = payload]
      \/ /\ cache' = [cache EXCEPT ![k] = WriteFailed(accepted)]
         /\ \E c \in {file[k], None, Garbage} : file' = [file EXCEPT ![k] = c]

(* cacheStatus: the status line repeats that of the cache.                 *)
ShowStatus(k) ==
  IF k = "public"
  THEN weatherStatus' = cache'[k].status /\ UNCHANGED runwayStatus
  ELSE runwayStatus' = cache'[k].status /\ UNCHANGED <<weatherStatus, errorWords>>

RefuseDropsRows(k, words) ==
  /\ cache' = [cache EXCEPT ![k] = Failed(@)]
  /\ ShowStatus(k)
  /\ k = "public" => errorWords' \in words
  /\ shown' = [shown EXCEPT ![k] = NoFeed]
  /\ UNCHANGED <<held, file>>

(* A request, reply or file that is no good: noteRefreshFailure.           *)
Refuse(k, words) ==
  /\ cache' = [cache EXCEPT ![k] = Failed(@)]
  /\ ShowStatus(k)
  /\ k = "public" => errorWords' \in words
  /\ UNCHANGED <<held, shown, file>>

TakePublic(payload) ==
  /\ AcceptPayload("public", payload)
  /\ PersistLastGood("public", payload)
  /\ ShowStatus("public") /\ errorWords' = FALSE

TakeLicensedOverridesPublic(payload) ==
  /\ AcceptPayload("licensed", payload)
  /\ PersistLastGood("licensed", payload)
  /\ runwayStatus' = cache'["licensed"].status
  /\ weatherStatus' = IF HasWeather("licensed")' THEN "licensed" ELSE weatherStatus
  /\ errorWords' = (errorWords /\ ~HasWeather("licensed")')

(* Licensed weather is reported when there is no public weather.           *)
TakeLicensed(payload) ==
  /\ AcceptPayload("licensed", payload)
  /\ PersistLastGood("licensed", payload)
  /\ runwayStatus' = cache'["licensed"].status
  /\ IF HasWeather("licensed")' /\ ~HasWeather("public")
     THEN weatherStatus' = "licensed" /\ errorWords' = FALSE
     ELSE UNCHANGED <<weatherStatus, errorWords>>

PublicReceived ==
  \E document \in Received :
    IF Accepts("public", document) THEN TakePublic(document)
    ELSE Refuse("public", RefusalWords(document))

LicensedReceived ==
  \E document \in Received :
    IF Accepts("licensed", document) THEN TakeLicensed(document)
    ELSE Refuse("licensed", RefusalWords(document))

------------------------------------------------------------------------------
Sent(k) ==
  /\ inflight[k] < MaxInFlight
  /\ inflight' = [inflight EXCEPT ![k] = @ + 1]
  /\ UNCHANGED <<cache, held, shown, file>>

Answered(k) ==
  /\ inflight[k] > 0
  /\ inflight' = [inflight EXCEPT ![k] = @ - 1]

FetchingStatus(k) == IF Available(cache[k]) THEN "fetching-last-good" ELSE "fetching"

(* The station list may be refused.                                        *)
FetchPublicAerodromeWeather ==
  /\ running
  /\ \/ /\ Sent("public")
        /\ weatherStatus' = FetchingStatus("public") /\ errorWords' = FALSE
        /\ UNCHANGED runwayStatus
     \/ Refuse("public", {FALSE}) /\ UNCHANGED inflight
  /\ UNCHANGED <<now, running>>

PublicReply ==
  /\ running
  /\ Answered("public")
  /\ PublicReceived
  /\ UNCHANGED <<now, running>>

(* The address may be refused.                                             *)
FetchLicensedAerodromeConditions ==
  /\ running
  /\ \/ /\ Sent("licensed")
        /\ runwayStatus' = FetchingStatus("licensed") /\ UNCHANGED <<weatherStatus, errorWords>>
     \/ Refuse("licensed", {FALSE}) /\ UNCHANGED inflight
  /\ UNCHANGED <<now, running>>

LicensedReply ==
  /\ running
  /\ Answered("licensed")
  /\ LicensedReceived
  /\ UNCHANGED <<now, running>>

LoadAerodromeConditionFile ==
  /\ running
  /\ LicensedReceived
  /\ UNCHANGED <<now, running, inflight>>

ClearKeepsCaches ==
  /\ running
  /\ shown' = [k \in Kinds |-> NoFeed]
  /\ weatherStatus' = "not-loaded" /\ errorWords' = FALSE /\ runwayStatus' = "no-source"
  /\ \E removed \in SUBSET Kinds :
       file' = [k \in Kinds |-> IF k \in removed THEN None ELSE file[k]]
  /\ UNCHANGED <<now, running, cache, held, inflight>>

(* The results of removing the files are ignored.                          *)
ClearAerodromeConditions ==
  /\ running
  /\ shown' = [k \in Kinds |-> NoFeed] /\ held' = shown'
  /\ cache' = [k \in Kinds |-> EmptyCache]
  /\ weatherStatus' = "not-loaded" /\ errorWords' = FALSE /\ runwayStatus' = "no-source"
  /\ \E removed \in SUBSET Kinds :
       file' = [k \in Kinds |-> IF k \in removed THEN None ELSE file[k]]
  /\ UNCHANGED <<now, running, inflight>>

------------------------------------------------------------------------------
(* initializeAerodromePersistence on fresh objects, in the constructor.    *)
RestoreLastGood(k) ==
  IF file[k] = None THEN EmptyCache ELSE Accepted(EmptyCache, file[k], TRUE)

RestoredStatus(k, initial) ==
  IF file[k] = None THEN initial
  ELSE IF Available(cache'[k]) THEN "restored" ELSE "restore-failed"

InitializeWithoutLicensedWeather ==
  /\ cache' = [k \in Kinds |-> RestoreLastGood(k)]
  /\ held' = [ k \in Kinds |-> IF Available(cache'[k]) THEN Feed(k, file[k], now) ELSE NoFeed ]
  /\ shown' = held'
  /\ runwayStatus' = RestoredStatus("licensed", "no-source")
  /\ weatherStatus' = RestoredStatus("public", "not-loaded")
  /\ errorWords' \in IF weatherStatus' = "restore-failed" THEN BOOLEAN ELSE {FALSE}

InitializeAerodromePersistence ==
  /\ cache' = [k \in Kinds |-> RestoreLastGood(k)]
  /\ held' = [ k \in Kinds |-> IF Available(cache'[k]) THEN Feed(k, file[k], now) ELSE NoFeed ]
  /\ shown' = held'
  /\ runwayStatus' = RestoredStatus("licensed", "no-source")
  /\ weatherStatus' =
       IF ~HasWeather("public")' /\ HasWeather("licensed")'
       THEN "licensed-restored" ELSE RestoredStatus("public", "not-loaded")
  /\ errorWords' \in IF weatherStatus' = "restore-failed" THEN BOOLEAN ELSE {FALSE}

Init ==
  /\ now = 1 /\ running = TRUE
  /\ cache = [k \in Kinds |-> EmptyCache]
  /\ held = [k \in Kinds |-> NoFeed] /\ shown = held
  /\ inflight = [k \in Kinds |-> 0]
  /\ weatherStatus = "not-loaded" /\ errorWords = FALSE /\ runwayStatus = "no-source"
  /\ file = [k \in Kinds |-> None]

(* The process dies at rest, or while it saves one of the caches.          *)
Crash ==
  /\ running /\ running' = FALSE
  /\ \E k \in Kinds : \E c \in {file[k], None, Garbage} : file' = [file EXCEPT ![k] = c]
  /\ UNCHANGED <<now, process>>

Restart ==
  /\ ~running /\ running' = TRUE
  /\ InitializeAerodromePersistence
  /\ inflight' = [k \in Kinds |-> 0]
  /\ UNCHANGED <<now, file>>

Tick ==
  /\ now < MaxNow /\ now' = now + 1
  /\ UNCHANGED <<running, process, file>>

Next ==
  \/ FetchPublicAerodromeWeather \/ PublicReply
  \/ FetchLicensedAerodromeConditions \/ LicensedReply
  \/ LoadAerodromeConditionFile \/ ClearAerodromeConditions
  \/ Crash \/ Restart \/ Tick

Spec == Init /\ [][Next]_vars

------------------------------------------------------------------------------
(* The statuses that say there is a payload of that kind, that there is    *)
(* none, and that weather is taken from the licensed feed.                 *)
Held == {"persisted", "write-error", "last-good", "restored", "fetching-last-good"}
NotHeld == {"not-loaded", "no-source", "unavailable", "restore-failed", "fetching"}
FromLicensed == {"licensed", "licensed-restored"}

PayloadsOf(k) == {payload \in Payloads : payload.kind = k}

Feeds(k) == {NoFeed} \cup {Feed(k, payload, t) : payload \in PayloadsOf(k), t \in 1..now}

(* A feed is what the parser made of one document at one time.             *)
TypeOK ==
  /\ now \in 1..MaxNow /\ running \in BOOLEAN
  /\ cache \in [Kinds -> Cache]
  /\ DOMAIN held = Kinds /\ DOMAIN shown = Kinds
  /\ \A k \in Kinds : held[k] \in Feeds(k) /\ shown[k] \in Feeds(k)
  /\ inflight \in [Kinds -> 0..MaxInFlight]
  /\ weatherStatus \in Held \cup NotHeld \cup FromLicensed
  /\ errorWords \in BOOLEAN /\ runwayStatus \in Held \cup NotHeld
  /\ file \in [Kinds -> Content]
  /\ \A k \in Kinds : file[k] \in PayloadsOf(k) \cup {None, Garbage}

(* A page shows the very feed a cache would fall back on, after any mix of *)
(* replies, refusals, clears and restarts.                                 *)
ShownIsLastGood ==
  \A k \in Kinds : shown[k] = held[k] /\ shown[k].payload = cache[k].payload

(* A status line tells whether there is a payload of its kind, and one of  *)
(* a kind's own lines that says PERSISTED or STARTUP RESTORE that the file *)
(* has it.  A weather line that names the licensed source means that there *)
(* are no METARs and that this source has a payload: not that the payload  *)
(* has weather, nor that its file has it, for a licensed reply with        *)
(* runways only leaves such a line as it was.                              *)
StatusLinesMatchFeeds ==
  /\ \A k \in Kinds :
       LET status == IF k = "public" THEN weatherStatus ELSE runwayStatus
       IN  /\ status \in Held => shown[k] # NoFeed
           /\ status \in NotHeld => shown[k] = NoFeed
           /\ running /\ status \in {"persisted", "restored"} => file[k] = shown[k].payload
  /\ weatherStatus \in FromLicensed => shown["public"] = NoFeed /\ shown["licensed"] # NoFeed

(* While the process runs, rows change in two ways only: a clear empties   *)
(* both feeds and both lines, or a document that the parser accepts        *)
(* replaces all rows of its own kind, dropping those it does not name, and *)
(* leaves the other kind's alone.  A refused request, reply or file        *)
(* changes no row.                                                         *)
RowsChangeAsAWhole ==
  [][ running /\ running' /\ shown' # shown =>
        \/ /\ shown' = [k \in Kinds |-> NoFeed]
           /\ weatherStatus' = "not-loaded" /\ runwayStatus' = "no-source"
        \/ \E k \in Kinds : \E payload \in PayloadsOf(k) :
             /\ shown' = [shown EXCEPT ![k] = Feed(k, payload, now)]
             /\ ~cache'[k].fallback ]_vars

(* A row is called STALE only when it has expired, whatever times it and   *)
(* its provider carry.                                                     *)
StaleRowsHaveExpired ==
  \A k \in Kinds : \A row \in RowsOf(shown[k]) :
    row.label = "STALE" => row.expiresAt < now

(* docs/AIR-FORCE-MANAGEMENT-RESEARCH.md:169: "Every feed must expose      *)
(* source, freshness and confidence/provenance."  When a METAR is labelled *)
(* FRESH, its observation was not older than Ttl.                          *)
FreshWasObservedRecently ==
  [][ LET feed == shown'["public"]
      IN  feed # shown["public"] =>
            \A i \in DOMAIN feed.weather :
              feed.weather[i].label = "FRESH" => now <= feed.payload.at + Ttl ]_vars
==============================================================================
