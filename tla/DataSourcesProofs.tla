--------------------------- MODULE DataSourcesProofs ---------------------------
(***************************************************************************)
(* Proofs about the aerodrome pages and the data-source page next to       *)
(* them, for every set of documents and replays, lifetime and number of    *)
(* requests in flight: pages, caches, files and status lines agree, and a  *)
(* source page counts the rows that are there.                             *)
(***************************************************************************)
EXTENDS DataSources, FiniteSetTheorems, FunctionTheorems, WellFoundedInduction, TLAPS

------------------------------------------------------------------------------
(* The aerodrome pages by themselves.                                      *)
Inv == TypeOK /\ ShownIsLastGood /\ StatusLinesMatchFeeds

USE TtlAssumption, BoundsAssumption

------------------------------------------------------------------------------
(* What an accepted document makes of a feed.                              *)
LEMMA FeedOfPayload ==
  ASSUME NEW k \in Kinds, NEW payload \in PayloadsOf(k), NEW t
  PROVE  /\ Feed(k, payload, t).payload = payload
         /\ Feed(k, payload, t) # NoFeed
         /\ k = "public" => DOMAIN Feed(k, payload, t).weather # {}
<1>1. payload \in Payloads /\ payload # None /\ Parses(k, payload)
  BY PayloadsParse, PayloadsAssumption DEF PayloadsOf
<1>2. Feed(k, payload, t).payload = payload
  BY DEF Feed
<1>3. ASSUME k = "public"
      PROVE  DOMAIN Feed(k, payload, t).weather # {}
  <2>1. KeptPlaces(payload.weather) # {}
    BY <1>1, <1>3 DEF Parses
  <2>2. DOMAIN Feed(k, payload, t).weather = KeptPlaces(payload.weather)
    BY DEF Feed, NormalizedRows
  <2>3. QED
    BY <2>1, <2>2
<1>4. NoFeed.payload = None
  BY DEF NoFeed
<1>5. QED
  BY <1>1, <1>2, <1>3, <1>4

(* A page that has a feed has its payload, and METARs have rows.           *)
LEMMA ShownHasPayload ==
  ASSUME TypeOK, NEW k \in Kinds
  PROVE  /\ shown[k] # NoFeed <=> shown[k].payload # None
         /\ k = "public" => (HasWeather(k) <=> shown[k] # NoFeed)
<1>1. CASE shown[k] = NoFeed
  <2>1. NoFeed.payload = None /\ DOMAIN NoFeed.weather = {}
    BY DEF NoFeed
  <2>2. QED
    BY <1>1, <2>1 DEF HasWeather
<1>2. CASE shown[k] # NoFeed
  <2>1. PICK payload \in PayloadsOf(k), t \in 1..now : shown[k] = Feed(k, payload, t)
    BY <1>2 DEF TypeOK, Feeds
  <2>2. payload # None
    BY PayloadsAssumption DEF PayloadsOf
  <2>3. QED
    BY <1>2, <2>1, <2>2, FeedOfPayload DEF HasWeather
<1>3. QED
  BY <1>1, <1>2

(* The operations of a cache keep it one, and tell what it serves.         *)
LEMMA FailedCache ==
  ASSUME NEW c \in Cache
  PROVE  /\ Failed(c) \in Cache /\ Failed(c).payload = c.payload
         /\ Failed(c).status \in {"last-good", "unavailable"}
         /\ Failed(c).status = "last-good" <=> c.payload # None
BY DEF Cache, Failed, Available, Statuses

LEMMA AcceptedCache ==
  ASSUME NEW c \in Cache, NEW payload \in Payloads
  PROVE  LET persisted == WasPersisted(Accepted(c, payload, FALSE))
             failed == WriteFailed(Accepted(c, payload, FALSE))
         IN  /\ persisted \in Cache /\ failed \in Cache
             /\ persisted.payload = payload /\ failed.payload = payload
             /\ ~persisted.fallback /\ ~failed.fallback
             /\ persisted.status = "persisted" /\ failed.status = "write-error"
BY DEF Cache, Accepted, WasPersisted, WriteFailed, Statuses

------------------------------------------------------------------------------
(* The feeds known before a step are known after it.                       *)
LEMMA FeedsGrow ==
  ASSUME TypeOK, now' \in 1..MaxNow, now <= now', NEW k \in Kinds
  PROVE  Feeds(k) \subseteq Feeds(k)'
<1>1. now \in Nat /\ now' \in Nat
  BY DEF TypeOK
<1>2. 1..now \subseteq 1..now'
  BY <1>1
<1>3. QED
  BY <1>2 DEF Feeds, PayloadsOf

LEMMA FeedsKept ==
  ASSUME UNCHANGED now, NEW k \in Kinds
  PROVE  Feeds(k)' = Feeds(k)
BY DEF Feeds, PayloadsOf

LEMMA InitInv == Init => Inv
<1> SUFFICES ASSUME Init PROVE Inv
  OBVIOUS
<1>1. EmptyCache \in Cache /\ EmptyCache.payload = None /\ NoFeed.payload = None
  BY DEF EmptyCache, Cache, Statuses, NoFeed
<1>2. TypeOK
  <2>1. /\ weatherStatus \in NotHeld /\ runwayStatus \in NotHeld
        /\ errorWords \in BOOLEAN /\ running \in BOOLEAN
    BY DEF Init, NotHeld
  <2>2. \A k \in Kinds : held[k] \in Feeds(k) /\ shown[k] \in Feeds(k)
    BY DEF Init, Feeds
  <2>3. /\ cache \in [Kinds -> Cache] /\ DOMAIN held = Kinds /\ DOMAIN shown = Kinds
        /\ now \in 1..MaxNow /\ inflight \in [Kinds -> 0..MaxInFlight]
    BY <1>1 DEF Init
  <2>4. /\ file \in [Kinds -> Content]
        /\ \A k \in Kinds : file[k] \in PayloadsOf(k) \cup {None, Garbage}
    BY DEF Init, Content
  <2>5. QED
    BY <2>1, <2>2, <2>3, <2>4 DEF TypeOK
<1>3. QED
  BY <1>1, <1>2 DEF Inv, Init, ShownIsLastGood, StatusLinesMatchFeeds, Held, NotHeld, FromLicensed

(* A refused request, reply or file.                                       *)
LEMMA RefuseInv ==
  ASSUME Inv, running, NEW k \in Kinds, NEW words \in SUBSET BOOLEAN, Refuse(k, words),
         UNCHANGED <<now, running>>, inflight' \in [Kinds -> 0..MaxInFlight]
  PROVE  Inv'
<1>1. TypeOK /\ cache \in [Kinds -> Cache]
  BY DEF Inv, TypeOK
<1> DEFINE failed == Failed(cache[k])
<1>2. /\ failed \in Cache /\ failed.payload = cache[k].payload
      /\ failed.status \in {"last-good", "unavailable"}
      /\ failed.status = "last-good" <=> cache[k].payload # None
  BY <1>1, FailedCache
<1> HIDE DEF failed
<1>3. cache' = [cache EXCEPT ![k] = failed]
  BY DEF Refuse, failed
<1>4. cache' \in [Kinds -> Cache] /\ cache'[k] = failed
  BY <1>1, <1>2, <1>3
<1>5. \A j \in Kinds : cache'[j].payload = cache[j].payload
  BY <1>1, <1>2, <1>3
<1>6. failed.status = "last-good" <=> shown[k] # NoFeed
  BY <1>1, <1>2, ShownHasPayload DEF Inv, ShownIsLastGood
<1>7. TypeOK'
  <2>1. /\ weatherStatus' \in Held \cup NotHeld \cup FromLicensed
        /\ errorWords' \in BOOLEAN /\ runwayStatus' \in Held \cup NotHeld
    BY <1>1, <1>2, <1>4 DEF TypeOK, Refuse, ShowStatus, Held, NotHeld, Kinds
  <2>2. \A j \in Kinds : held'[j] \in Feeds(j)' /\ shown'[j] \in Feeds(j)'
    BY <1>1, FeedsKept DEF TypeOK, Refuse
  <2>3. QED
    BY <1>1, <1>4, <2>1, <2>2 DEF TypeOK, Refuse, PayloadsOf
<1>8. ShownIsLastGood'
  BY <1>5 DEF Inv, ShownIsLastGood, Refuse
<1>9. StatusLinesMatchFeeds'
  BY <1>2, <1>4, <1>6 DEF Inv, StatusLinesMatchFeeds, Refuse, ShowStatus, Held, NotHeld,
     FromLicensed, Kinds
<1>10. QED
  BY <1>7, <1>8, <1>9 DEF Inv

(* What an accepted document changes, whatever becomes of the save.        *)
LEMMA Taken ==
  ASSUME Inv, NEW k \in Kinds, NEW payload \in PayloadsOf(k),
         AcceptPayload(k, payload), PersistLastGood(k, payload), UNCHANGED now
  PROVE  /\ cache' \in [Kinds -> Cache] /\ file' \in [Kinds -> Content]
         /\ DOMAIN held' = Kinds /\ DOMAIN shown' = Kinds
         /\ \A j \in Kinds : /\ held'[j] \in Feeds(j)' /\ shown'[j] \in Feeds(j)'
                             /\ file'[j] \in PayloadsOf(j) \cup {None, Garbage}
         /\ ShownIsLastGood'
         /\ shown'[k] # NoFeed /\ ~cache'[k].fallback
         /\ k = "public" => HasWeather(k)'
         /\ cache'[k].status = "persisted" => file'[k] = shown'[k].payload
         /\ cache'[k].status \in {"persisted", "write-error"}
         /\ \A j \in Kinds \ {k} :
              cache'[j] = cache[j] /\ shown'[j] = shown[j] /\ file'[j] = file[j]
<1>1. /\ TypeOK /\ payload \in Payloads
      /\ cache \in [Kinds -> Cache] /\ file \in [Kinds -> Content]
      /\ DOMAIN held = Kinds /\ DOMAIN shown = Kinds
  BY DEF Inv, TypeOK, PayloadsOf
<1> DEFINE new == Feed(k, payload, now)
<1>2. /\ now \in 1..now
      /\ new.payload = payload /\ new # NoFeed
      /\ k = "public" => DOMAIN new.weather # {}
  BY <1>1, FeedOfPayload DEF TypeOK
<1>3. new \in Feeds(k)
  BY <1>1, <1>2 DEF Feeds
<1>4. held' = [held EXCEPT ![k] = new] /\ shown' = [shown EXCEPT ![k] = new]
  BY <1>1 DEF AcceptPayload
<1> HIDE DEF new
<1>5. \A j \in Kinds : held'[j] \in Feeds(j)' /\ shown'[j] \in Feeds(j)'
  BY <1>1, <1>3, <1>4, FeedsKept DEF TypeOK
<1> DEFINE persisted == WasPersisted(Accepted(cache[k], payload, FALSE))
           failed == WriteFailed(Accepted(cache[k], payload, FALSE))
<1>6. /\ persisted \in Cache /\ failed \in Cache
      /\ persisted.payload = payload /\ failed.payload = payload
      /\ ~persisted.fallback /\ ~failed.fallback
      /\ persisted.status = "persisted" /\ failed.status = "write-error"
  BY <1>1, AcceptedCache
<1>7. \/ /\ cache' = [cache EXCEPT ![k] = persisted]
         /\ file' = [file EXCEPT ![k] = payload]
      \/ /\ cache' = [cache EXCEPT ![k] = failed]
         /\ \E c \in {file[k], None, Garbage} : file' = [file EXCEPT ![k] = c]
  BY DEF PersistLastGood
<1> HIDE DEF persisted, failed
<1>8. PICK saved \in {persisted, failed}, c \in {file[k], payload, None, Garbage} :
        /\ cache' = [cache EXCEPT ![k] = saved]
        /\ file' = [file EXCEPT ![k] = c]
        /\ saved.status = "persisted" => c = payload
  BY <1>6, <1>7
<1>9. /\ cache' \in [Kinds -> Cache] /\ cache'[k] = saved
      /\ saved.payload = payload /\ ~saved.fallback
      /\ saved.status \in {"persisted", "write-error"}
      /\ \A j \in Kinds \ {k} : cache'[j] = cache[j]
  BY <1>1, <1>6, <1>8
<1>10. /\ file' \in [Kinds -> Content] /\ file'[k] = c
       /\ \A j \in Kinds \ {k} : file'[j] = file[j]
       /\ \A j \in Kinds : file'[j] \in PayloadsOf(j) \cup {None, Garbage}
  BY <1>1, <1>8 DEF TypeOK, Content
<1>11. ShownIsLastGood'
  BY <1>1, <1>2, <1>4, <1>9 DEF Inv, ShownIsLastGood
<1>12. QED
  BY <1>1, <1>2, <1>4, <1>5, <1>8, <1>9, <1>10, <1>11 DEF HasWeather

LEMMA PublicReceivedInv ==
  ASSUME Inv, running, PublicReceived, UNCHANGED <<now, running>>,
         inflight' \in [Kinds -> 0..MaxInFlight]
  PROVE  Inv'
<1> USE DEF Kinds
<1>1. ASSUME NEW document \in Received, Refuse("public", RefusalWords(document))
      PROVE  Inv'
  BY <1>1, RefuseInv DEF RefusalWords
<1>2. CASE \E document \in Received : Accepts("public", document) /\ TakePublic(document)
  <2>1. PICK document \in Received : Accepts("public", document) /\ TakePublic(document)
    BY <1>2
  <2>2. document \in PayloadsOf("public")
    BY <2>1, PayloadsParse DEF Accepts, Received, PayloadsOf, Parses
  <2>3. AcceptPayload("public", document) /\ PersistLastGood("public", document)
    BY <2>1 DEF TakePublic
  <2>4. weatherStatus' = cache'["public"].status /\ UNCHANGED runwayStatus /\ errorWords' = FALSE
    BY <2>1 DEF TakePublic, ShowStatus
  <2>5. TypeOK'
    BY <2>2, <2>3, <2>4, Taken DEF Inv, TypeOK, PayloadsOf, Held, NotHeld, FromLicensed
  <2>6. StatusLinesMatchFeeds'
    BY <2>2, <2>3, <2>4, Taken DEF Inv, StatusLinesMatchFeeds, Held, NotHeld, FromLicensed
  <2>7. QED
    BY <2>2, <2>3, <2>5, <2>6, Taken DEF Inv
<1>3. QED
  BY <1>1, <1>2 DEF PublicReceived

LEMMA LicensedReceivedInv ==
  ASSUME Inv, running, LicensedReceived, UNCHANGED <<now, running>>,
         inflight' \in [Kinds -> 0..MaxInFlight]
  PROVE  Inv'
<1> USE DEF Kinds
<1>1. ASSUME NEW document \in Received, Refuse("licensed", RefusalWords(document))
      PROVE  Inv'
  BY <1>1, RefuseInv DEF RefusalWords
<1>2. CASE \E document \in Received : Accepts("licensed", document) /\ TakeLicensed(document)
  <2>1. PICK document \in Received : Accepts("licensed", document) /\ TakeLicensed(document)
    BY <1>2
  <2>2. document \in PayloadsOf("licensed")
    BY <2>1, PayloadsParse DEF Accepts, Received, PayloadsOf, Parses
  <2>3. AcceptPayload("licensed", document) /\ PersistLastGood("licensed", document)
    BY <2>1 DEF TakeLicensed
  <2>4. /\ runwayStatus' = cache'["licensed"].status
        /\ \/ weatherStatus' = "licensed" /\ ~HasWeather("public") /\ errorWords' = FALSE
           \/ UNCHANGED <<weatherStatus, errorWords>>
    BY <2>1 DEF TakeLicensed
  <2>5. TypeOK'
    BY <2>2, <2>3, <2>4, Taken DEF Inv, TypeOK, PayloadsOf, Held, NotHeld, FromLicensed
  <2>6. ~HasWeather("public") => shown["public"] = NoFeed
    BY ShownHasPayload DEF Inv
  <2>7. StatusLinesMatchFeeds'
    BY <2>2, <2>3, <2>4, <2>6, Taken DEF Inv, StatusLinesMatchFeeds, Held, NotHeld, FromLicensed
  <2>8. QED
    BY <2>2, <2>3, <2>5, <2>7, Taken DEF Inv
<1>3. QED
  BY <1>1, <1>2 DEF LicensedReceived

(* What a new process makes of the two files.                              *)
LEMMA RestoreInv ==
  ASSUME Inv, Restart
  PROVE  Inv'
<1> USE DEF Kinds
<1>1. /\ TypeOK /\ now \in 1..now
      /\ UNCHANGED <<now, file>> /\ running' = TRUE
      /\ inflight' = [k \in Kinds |-> 0]
  BY DEF Inv, TypeOK, Restart
<1>2. ASSUME NEW k \in Kinds
      PROVE  /\ cache'[k] \in Cache
             /\ file[k] \in PayloadsOf(k) => /\ cache'[k].payload = file[k]
                                             /\ Available(cache'[k])
                                             /\ shown'[k] = Feed(k, file[k], now)
             /\ file[k] \notin PayloadsOf(k) => /\ cache'[k].payload = None
                                                /\ ~Available(cache'[k])
                                                /\ shown'[k] = NoFeed
             /\ held'[k] = shown'[k]
  <2>1. cache'[k] = RestoreLastGood(k)
    BY DEF Restart, InitializeAerodromePersistence
  <2>2. /\ held'[k] = IF Available(cache'[k]) THEN Feed(k, file[k], now) ELSE NoFeed
        /\ shown'[k] = held'[k]
    BY DEF Restart, InitializeAerodromePersistence
  <2>3. file[k] \in PayloadsOf(k) \cup {None, Garbage}
    BY <1>1 DEF TypeOK
  <2>4. CASE file[k] \in PayloadsOf(k)
    <3>1. file[k] \in Payloads /\ file[k] # None
      BY <2>4, PayloadsAssumption DEF PayloadsOf
    <3>2. cache'[k] = [payload |-> file[k], fallback |-> TRUE, status |-> "cache-fallback"]
      BY <2>1, <3>1 DEF RestoreLastGood, Accepted
    <3>3. QED
      BY <2>2, <2>4, <3>1, <3>2 DEF Cache, Statuses, Available
  <2>5. CASE file[k] \in {None, Garbage}
    <3>1. file[k] \notin Payloads
      BY <2>5, PayloadsAssumption, GarbageAssumption
    <3>2. cache'[k] = EmptyCache \/ cache'[k] = Failed(EmptyCache)
      BY <2>1, <3>1 DEF RestoreLastGood, Accepted
    <3>3. EmptyCache \in Cache /\ EmptyCache.payload = None
      BY DEF EmptyCache, Cache, Statuses
    <3>4. cache'[k] \in Cache /\ cache'[k].payload = None
      BY <3>2, <3>3, FailedCache
    <3>5. QED
      BY <2>2, <3>1, <3>4 DEF Available, PayloadsOf
  <2>6. QED
    BY <2>3, <2>4, <2>5
<1>3. /\ cache' \in [Kinds -> Cache]
      /\ DOMAIN held' = Kinds /\ DOMAIN shown' = Kinds
  BY <1>2 DEF Restart, InitializeAerodromePersistence
<1>4. ASSUME NEW k \in Kinds
      PROVE  /\ held'[k] \in Feeds(k)' /\ shown'[k] \in Feeds(k)'
             /\ shown'[k].payload = cache'[k].payload
             /\ file[k] \in PayloadsOf(k) <=> shown'[k] # NoFeed
             /\ file[k] \in PayloadsOf(k) => file[k] = shown'[k].payload
             /\ k = "public" => (HasWeather(k)' <=> shown'[k] # NoFeed)
             /\ HasWeather(k)' => shown'[k] # NoFeed
  <2>1. NoFeed.payload = None /\ DOMAIN NoFeed.weather = {}
    BY DEF NoFeed
  <2>2. QED
    BY <1>1, <1>2, <2>1, FeedOfPayload, FeedsKept DEF Feeds, HasWeather
<1>5. ASSUME NEW k \in Kinds, NEW initial \in {"not-loaded", "no-source"}
      PROVE  LET status == RestoredStatus(k, initial)
             IN  /\ status \in {initial, "restored", "restore-failed"}
                 /\ status = "restored" <=> file[k] \in PayloadsOf(k)
  BY <1>1, <1>2, PayloadsAssumption DEF RestoredStatus, PayloadsOf
<1>6. /\ runwayStatus' = RestoredStatus("licensed", "no-source")
      /\ \/ /\ weatherStatus' = "licensed-restored"
            /\ ~HasWeather("public")' /\ HasWeather("licensed")'
         \/ weatherStatus' = RestoredStatus("public", "not-loaded")
      /\ errorWords' \in BOOLEAN
  BY DEF Restart, InitializeAerodromePersistence
<1>7. /\ runwayStatus' \in {"no-source", "restored", "restore-failed"}
      /\ runwayStatus' = "restored" <=> shown'["licensed"] # NoFeed
      /\ weatherStatus' \in {"not-loaded", "restored", "restore-failed", "licensed-restored"}
      /\ weatherStatus' = "restored" <=> shown'["public"] # NoFeed
      /\ weatherStatus' = "licensed-restored" => shown'["licensed"] # NoFeed
  BY <1>4, <1>5, <1>6
<1>8. TypeOK'
  BY <1>1, <1>3, <1>4, <1>6, <1>7 DEF TypeOK, PayloadsOf, Held, NotHeld, FromLicensed
<1>9. ShownIsLastGood'
  BY <1>2, <1>4 DEF ShownIsLastGood
<1>10. StatusLinesMatchFeeds'
  BY <1>1, <1>4, <1>7 DEF StatusLinesMatchFeeds, Held, NotHeld, FromLicensed
<1>11. QED
  BY <1>8, <1>9, <1>10 DEF Inv

LEMMA SentInv ==
  ASSUME Inv, running, NEW k \in Kinds, Sent(k), UNCHANGED <<now, running>>,
         k = "public" => /\ weatherStatus' = FetchingStatus(k) /\ errorWords' = FALSE
                         /\ UNCHANGED runwayStatus,
         k = "licensed" => /\ runwayStatus' = FetchingStatus(k)
                           /\ UNCHANGED <<weatherStatus, errorWords>>
  PROVE  Inv'
<1>1. /\ TypeOK /\ inflight[k] \in 0..MaxInFlight /\ inflight[k] < MaxInFlight
      /\ inflight' = [inflight EXCEPT ![k] = inflight[k] + 1]
  BY DEF Inv, TypeOK, Sent
<1>2. inflight' \in [Kinds -> 0..MaxInFlight]
  BY <1>1 DEF TypeOK
<1>3. /\ FetchingStatus(k) \in {"fetching-last-good", "fetching"}
      /\ FetchingStatus(k) = "fetching-last-good" <=> shown[k] # NoFeed
  BY <1>1, ShownHasPayload DEF FetchingStatus, Available, Inv, ShownIsLastGood
<1>4. UNCHANGED <<now, running, cache, held, shown, file>>
  BY DEF Sent
<1>5. /\ weatherStatus' \in Held \cup NotHeld \cup FromLicensed
      /\ errorWords' \in BOOLEAN /\ runwayStatus' \in Held \cup NotHeld
  BY <1>1, <1>3 DEF TypeOK, Kinds, Held, NotHeld
<1>6. \A kind \in Kinds :
        /\ held'[kind] \in Feeds(kind)' /\ shown'[kind] \in Feeds(kind)'
        /\ file'[kind] \in PayloadsOf(kind)' \cup {None, Garbage}
  BY <1>1, <1>4, FeedsKept DEF TypeOK, PayloadsOf
<1>7. TypeOK'
  BY <1>1, <1>2, <1>4, <1>5, <1>6 DEF TypeOK
<1>8. StatusLinesMatchFeeds
  BY DEF Inv
<1>9. StatusLinesMatchFeeds'
  BY <1>3, <1>4, <1>8 DEF StatusLinesMatchFeeds, Kinds, Held, NotHeld, FromLicensed
<1>10. QED
  BY <1>4, <1>7, <1>9 DEF Inv, ShownIsLastGood

LEMMA ClearInv ==
  ASSUME Inv, ClearAerodromeConditions
  PROVE  Inv'
<1>1. EmptyCache \in Cache /\ EmptyCache.payload = None /\ NoFeed.payload = None
  BY DEF EmptyCache, Cache, Statuses, NoFeed
<1>2. PICK removed \in SUBSET Kinds :
        file' = [k \in Kinds |-> IF k \in removed THEN None ELSE file[k]]
  BY DEF ClearAerodromeConditions
<1>3. /\ file' \in [Kinds -> Content]
      /\ \A k \in Kinds : file'[k] \in PayloadsOf(k) \cup {None, Garbage}
  BY <1>2 DEF Inv, TypeOK, Content
<1>4. \A k \in Kinds : NoFeed \in Feeds(k)'
  BY DEF Feeds
<1>5. TypeOK'
  BY <1>1, <1>3, <1>4
  DEF Inv, TypeOK, ClearAerodromeConditions, PayloadsOf, Held, NotHeld, FromLicensed
<1>6. QED
  BY <1>1, <1>5
  DEF Inv, ShownIsLastGood, StatusLinesMatchFeeds, ClearAerodromeConditions, Held, NotHeld,
      FromLicensed

LEMMA AnsweredType ==
  ASSUME TypeOK, NEW k \in Kinds, Answered(k)
  PROVE  inflight' \in [Kinds -> 0..MaxInFlight]
<1>1. inflight[k] - 1 \in 0..MaxInFlight
  BY DEF TypeOK, Answered
<1>2. QED
  BY <1>1 DEF TypeOK, Answered

LEMMA StepInv == Inv /\ [Next]_vars => Inv'
<1> SUFFICES ASSUME Inv, [Next]_vars PROVE Inv'
  OBVIOUS
<1>1. TypeOK /\ "public" \in Kinds /\ "licensed" \in Kinds
  BY DEF Inv, Kinds
<1>2. CASE FetchPublicAerodromeWeather
  <2>1. CASE /\ Sent("public")
             /\ weatherStatus' = FetchingStatus("public") /\ errorWords' = FALSE
             /\ UNCHANGED runwayStatus
    BY <1>1, <1>2, <2>1, SentInv DEF FetchPublicAerodromeWeather
  <2>2. CASE Refuse("public", {FALSE}) /\ UNCHANGED inflight
    BY <1>1, <1>2, <2>2, RefuseInv DEF FetchPublicAerodromeWeather, TypeOK
  <2>3. QED
    BY <1>2, <2>1, <2>2 DEF FetchPublicAerodromeWeather
<1>3. CASE PublicReply
  BY <1>1, <1>3, AnsweredType, PublicReceivedInv DEF PublicReply
<1>4. CASE FetchLicensedAerodromeConditions
  <2>1. CASE /\ Sent("licensed")
             /\ runwayStatus' = FetchingStatus("licensed") /\ UNCHANGED <<weatherStatus, errorWords>>
    BY <1>1, <1>4, <2>1, SentInv DEF FetchLicensedAerodromeConditions
  <2>2. CASE Refuse("licensed", {FALSE}) /\ UNCHANGED inflight
    BY <1>1, <1>4, <2>2, RefuseInv DEF FetchLicensedAerodromeConditions, TypeOK
  <2>3. QED
    BY <1>4, <2>1, <2>2 DEF FetchLicensedAerodromeConditions
<1>5. CASE LicensedReply
  BY <1>1, <1>5, AnsweredType, LicensedReceivedInv DEF LicensedReply
<1>6. CASE LoadAerodromeConditionFile
  BY <1>1, <1>6, LicensedReceivedInv DEF LoadAerodromeConditionFile, TypeOK
<1>7. CASE ClearAerodromeConditions
  BY <1>7, ClearInv
<1>8. CASE Crash
  <2>1. PICK k \in Kinds : \E c \in {file[k], None, Garbage} : file' = [file EXCEPT ![k] = c]
    BY <1>8 DEF Crash
  <2>2. /\ file' \in [Kinds -> Content]
        /\ \A j \in Kinds : file'[j] \in PayloadsOf(j) \cup {None, Garbage}
    BY <1>1, <2>1 DEF TypeOK, Content
  <2>3. UNCHANGED <<now, cache, held, shown, inflight, statuses>> /\ ~running'
    BY <1>8 DEF Crash, process
  <2>4. \A j \in Kinds : PayloadsOf(j)' = PayloadsOf(j) /\ Feeds(j)' = Feeds(j)
    BY <2>3, FeedsKept DEF PayloadsOf
  <2>5. running' \in BOOLEAN
    BY <1>8 DEF Crash, process
  <2>6. TypeOK'
    BY <1>1, <2>2, <2>3, <2>4, <2>5 DEF TypeOK, statuses
  <2>7. QED
    BY <2>3, <2>6 DEF Inv, ShownIsLastGood, StatusLinesMatchFeeds, statuses
<1>9. CASE Restart
  BY <1>9, RestoreInv
<1>10. CASE Tick
  <2>1. now' \in 1..MaxNow /\ now <= now'
    BY <1>1, <1>10 DEF Tick, TypeOK
  <2>2. \A k \in Kinds : held[k] \in Feeds(k)' /\ shown[k] \in Feeds(k)'
    BY <1>1, <2>1, FeedsGrow DEF TypeOK
  <2>3. QED
    BY <1>1, <1>10, <2>1, <2>2
    DEF Inv, TypeOK, ShownIsLastGood, StatusLinesMatchFeeds, Tick, process, statuses, PayloadsOf
<1>11. CASE UNCHANGED vars
  BY <1>1, <1>11, FeedsKept
  DEF Inv, TypeOK, ShownIsLastGood, StatusLinesMatchFeeds, vars, process, statuses, PayloadsOf
<1>12. QED
  BY <1>2, <1>3, <1>4, <1>5, <1>6, <1>7, <1>8, <1>9, <1>10, <1>11 DEF Next

------------------------------------------------------------------------------
(* Every feed on a page or in a cache is what its parser made of one       *)
(* document of that kind, at most as late as now.                          *)
THEOREM TypeCorrect == Spec => []TypeOK
<1>1. Inv => TypeOK
  BY DEF Inv
<1>2. QED
  BY InitInv, StepInv, <1>1, PTL DEF Spec

(* Pages show what the caches would fall back on.                          *)
THEOREM PagesShowLastGood == Spec => []ShownIsLastGood
<1>1. Inv => ShownIsLastGood
  BY DEF Inv
<1>2. QED
  BY InitInv, StepInv, <1>1, PTL DEF Spec

(* The status lines tell whether there is a feed of their kind, and those  *)
(* that say so that its file has it; a weather line that names the         *)
(* licensed source tells that there are no METARs and that this source has *)
(* a feed, of weather or of runways.                                       *)
THEOREM StatusLinesMatch == Spec => []StatusLinesMatchFeeds
<1>1. Inv => StatusLinesMatchFeeds
  BY DEF Inv
<1>2. QED
  BY InitInv, StepInv, <1>1, PTL DEF Spec

(* A row that is labelled STALE has expired, for every lifetime and every  *)
(* time that rows and providers carry.                                     *)
THEOREM StaleIsExpired == Spec => []StaleRowsHaveExpired
<1>1. ASSUME TypeOK PROVE StaleRowsHaveExpired
  <2> SUFFICES ASSUME NEW k \in Kinds, NEW row \in RowsOf(shown[k]), row.label = "STALE"
               PROVE  row.expiresAt < now
    BY DEF StaleRowsHaveExpired
  <2>1. shown[k] # NoFeed
    BY DEF RowsOf, NoFeed, Range
  <2>2. PICK payload \in PayloadsOf(k), t \in 1..now : shown[k] = Feed(k, payload, t)
    BY <1>1, <2>1 DEF TypeOK, Feeds
  <2>3. payload \in Documents
    BY PayloadsParse DEF PayloadsOf
  <2> DEFINE generatedAt == GeneratedAt(k, payload, t)
  <2>4. /\ now \in Nat /\ t \in Nat /\ t <= now
        /\ generatedAt \in Nat
    BY <1>1, <2>3, DocumentsAssumption DEF TypeOK, GeneratedAt
  <2>5. PICK rows \in {payload.weather, payload.runways} :
          row \in Range(NormalizedRows(rows, generatedAt, t))
    BY <2>2 DEF RowsOf, Feed
  <2>6. PICK i \in KeptPlaces(rows) : row = Normalized(rows[i], generatedAt, t)
    BY <2>5 DEF Range, NormalizedRows
  <2>7. rows[i].cached \in Nat /\ rows[i].expires \in Nat
    <3>1. rows \in Seq(Observation) /\ i \in DOMAIN rows
      BY <2>3, <2>5, <2>6, DocumentsAssumption DEF KeptPlaces
    <3>2. rows[i] \in Observation
      BY <3>1
    <3>3. QED
      BY <3>2 DEF Observation
  <2>8. row.label = (IF t <= row.expiresAt THEN "FRESH" ELSE "STALE") /\ row.expiresAt \in Nat
    BY <2>4, <2>6, <2>7 DEF Normalized, CachedAt, ExpiresAt
  <2>9. QED
    BY <2>4, <2>8
<1>2. QED
  BY TypeCorrect, <1>1, PTL

(* While the process runs, rows change by a clear of both feeds, or by an  *)
(* accepted document, which replaces all rows of its kind and no other.    *)
THEOREM RowsAreReplaced == Spec => RowsChangeAsAWhole
<1> DEFINE Cleared == /\ shown' = [k \in Kinds |-> NoFeed]
                      /\ weatherStatus' = "not-loaded" /\ runwayStatus' = "no-source"
           Replaced == \E k \in Kinds : \E payload \in PayloadsOf(k) :
                         /\ shown' = [shown EXCEPT ![k] = Feed(k, payload, now)]
                         /\ ~cache'[k].fallback
<1>1. ASSUME Inv, [Next]_vars, running, running', shown' # shown
      PROVE  Cleared \/ Replaced
  <2>1. ASSUME NEW k \in Kinds, NEW payload \in PayloadsOf(k),
               AcceptPayload(k, payload), PersistLastGood(k, payload), UNCHANGED now
        PROVE  Replaced
    <3>1. ~cache'[k].fallback
      BY <1>1, <2>1, Taken
    <3>2. shown' = [shown EXCEPT ![k] = Feed(k, payload, now)]
      BY <1>1, <2>1 DEF AcceptPayload, Inv, TypeOK
    <3>3. QED
      BY <3>1, <3>2
  <2>2. ASSUME NEW k \in Kinds, NEW words, Refuse(k, words)
        PROVE  FALSE
    BY <1>1, <2>2 DEF Refuse
  <2>3. ASSUME PublicReceived, UNCHANGED now
        PROVE  Replaced
    <3>1. PICK document \in Received : Accepts("public", document) /\ TakePublic(document)
      BY <2>2, <2>3 DEF PublicReceived, Kinds
    <3>2. document \in PayloadsOf("public")
      BY <3>1, PayloadsParse DEF Accepts, Received, PayloadsOf, Parses
    <3>3. QED
      BY <2>1, <2>3, <3>1, <3>2 DEF TakePublic, Kinds
  <2>4. ASSUME LicensedReceived, UNCHANGED now
        PROVE  Replaced
    <3>1. PICK document \in Received : Accepts("licensed", document) /\ TakeLicensed(document)
      BY <2>2, <2>4 DEF LicensedReceived, Kinds
    <3>2. document \in PayloadsOf("licensed")
      BY <3>1, PayloadsParse DEF Accepts, Received, PayloadsOf, Parses
    <3>3. QED
      BY <2>1, <2>4, <3>1, <3>2 DEF TakeLicensed, Kinds
  <2>5. ~FetchPublicAerodromeWeather /\ ~FetchLicensedAerodromeConditions
    BY <1>1, <2>2 DEF FetchPublicAerodromeWeather, FetchLicensedAerodromeConditions, Sent, Kinds
  <2>6. ~Crash /\ ~Restart /\ ~Tick /\ ~UNCHANGED vars
    BY <1>1 DEF Crash, Restart, Tick, vars, process
  <2>7. CASE PublicReply
    BY <2>3, <2>7 DEF PublicReply
  <2>8. CASE LicensedReply \/ LoadAerodromeConditionFile
    BY <2>4, <2>8 DEF LicensedReply, LoadAerodromeConditionFile
  <2>9. CASE ClearAerodromeConditions
    BY <2>9 DEF ClearAerodromeConditions
  <2>10. QED
    BY <1>1, <2>5, <2>6, <2>7, <2>8, <2>9 DEF Next
<1>2. Inv /\ [Next]_vars =>
        [ running /\ running' /\ shown' # shown => Cleared \/ Replaced ]_vars
  BY <1>1
<1>3. QED
  BY InitInv, StepInv, <1>2, PTL DEF Spec, RowsChangeAsAWhole

------------------------------------------------------------------------------
(* Next to the data-source page.                                           *)
(* What the words of the weather line allow the page to conclude.          *)
Answer == {"persisted", "write-error"}

LineInv ==
  running =>
    /\ weatherStatus \in Answer => ~cache["public"].fallback
    /\ HasWeather("public") /\ ~cache["public"].fallback =>
         weatherStatus \in Answer \cup {"fetching-last-good"}
    /\ weatherStatus = "fetching-last-good" => inflight["public"] > 0
    /\ weatherStatus = "not-loaded" => ~HasWeather("licensed")
    /\ weatherStatus = "licensed" => cache["licensed"].status # "cache-fallback"

------------------------------------------------------------------------------
(* Two pages next to each other: the aerodrome half behaves as Aerodrome.  *)
LEMMA SourcesImplementAerodrome == SourcesSpec => Spec
<1>1. SourcesInit => Init
  BY DEF SourcesInit
<1>2. [SourcesNext]_allVars => [Next]_vars
  BY DEF SourcesNext, allVars
<1>3. QED
  BY <1>1, <1>2, PTL DEF SourcesSpec, Spec

LEMMA AerodromeInv == Spec => []Inv
BY InitInv, StepInv, PTL DEF Spec

LEMMA LineInvInit == Init => LineInv
BY DEF Init, LineInv, Answer, HasWeather, NoFeed, Kinds

LEMMA LineInvStep == Inv /\ Inv' /\ LineInv /\ [Next]_vars => LineInv'
<1> SUFFICES ASSUME Inv, Inv', LineInv, [Next]_vars
             PROVE  LineInv'
  OBVIOUS
<1> USE DEF Kinds, Answer
<1>1. TypeOK /\ TypeOK' /\ cache \in [Kinds -> Cache] /\ inflight["public"] \in Nat
  BY DEF Inv, TypeOK
<1>2. /\ HasWeather("public") <=> shown["public"] # NoFeed
      /\ HasWeather("public")' <=> shown'["public"] # NoFeed
      /\ HasWeather("public") <=> Available(cache["public"])
      /\ HasWeather("public")' <=> Available(cache'["public"])
  <2>1. /\ HasWeather("public") <=> shown["public"] # NoFeed
        /\ shown["public"] # NoFeed <=> shown["public"].payload # None
    BY <1>1, ShownHasPayload
  <2>2. /\ HasWeather("public")' <=> shown'["public"] # NoFeed
        /\ shown'["public"] # NoFeed <=> shown'["public"].payload # None
    <3>1. CASE shown'["public"] = NoFeed
      <4>1. NoFeed.payload = None /\ DOMAIN NoFeed.weather = {}
        BY DEF NoFeed
      <4>2. QED
        BY <3>1, <4>1 DEF HasWeather
    <3>2. CASE shown'["public"] # NoFeed
      <4>1. PICK payload \in PayloadsOf("public"), t \in 1..now' :
              shown'["public"] = Feed("public", payload, t)
        BY <1>1, <3>2 DEF TypeOK, Feeds, PayloadsOf
      <4>2. payload # None
        BY PayloadsAssumption DEF PayloadsOf
      <4>3. QED
        BY <3>2, <4>1, <4>2, FeedOfPayload DEF HasWeather
    <3>3. QED
      BY <3>1, <3>2
  <2>3. QED
    BY <2>1, <2>2 DEF Inv, ShownIsLastGood, Available
<1>3. ASSUME NEW k \in Kinds, NEW words, Refuse(k, words), UNCHANGED running,
             inflight'["public"] = inflight["public"] \/ k = "public"
      PROVE  LineInv'
  <2>1. /\ cache' = [cache EXCEPT ![k] = Failed(cache[k])] /\ UNCHANGED shown
        /\ Failed(cache[k]).status \in {"last-good", "unavailable"}
        /\ Failed(cache[k]).fallback <=> Available(cache[k])
        /\ Available(Failed(cache[k])) <=> Available(cache[k])
    BY <1>1, <1>3, FailedCache DEF Refuse, Failed, Cache, Available
  <2>2. \/ /\ k = "public" /\ weatherStatus' \in {"last-good", "unavailable"}
           /\ cache'["public"].fallback <=> Available(cache'["public"])
        \/ /\ k = "licensed" /\ UNCHANGED weatherStatus /\ cache'["public"] = cache["public"]
           /\ cache'["licensed"].status # "cache-fallback"
    <3>1. cache'[k] = Failed(cache[k]) /\ cache' \in [Kinds -> Cache]
      BY <1>1, <2>1 DEF TypeOK
    <3>2. CASE k = "public"
      BY <1>3, <2>1, <3>1, <3>2 DEF Refuse, ShowStatus
    <3>3. CASE k = "licensed"
      <4>1. cache'["public"] = cache["public"] /\ UNCHANGED weatherStatus
        BY <1>1, <1>3, <2>1, <3>3 DEF Refuse, ShowStatus
      <4>2. QED
        BY <2>1, <3>1, <3>3, <4>1
    <3>4. QED
      BY <3>2, <3>3
  <2>3. QED
    BY <1>2, <1>3, <2>1, <2>2 DEF LineInv, HasWeather
<1>4. ASSUME PublicReceived, UNCHANGED <<now, running>>
      PROVE  LineInv'
  <2>1. ASSUME NEW document \in Received,
               Accepts("public", document), TakePublic(document)
        PROVE  LineInv'
    <3>1. document \in PayloadsOf("public")
      BY <2>1, PayloadsParse DEF Accepts, Received, PayloadsOf, Parses
    <3>2. /\ AcceptPayload("public", document) /\ PersistLastGood("public", document)
          /\ weatherStatus' = cache'["public"].status
      BY <2>1 DEF TakePublic, ShowStatus
    <3>3. /\ ~cache'["public"].fallback
          /\ cache'["public"].status \in {"persisted", "write-error"}
      BY <1>4, <3>1, <3>2, Taken
    <3>4. QED
      BY <3>2, <3>3 DEF LineInv
  <2>2. ASSUME NEW document \in Received, Refuse("public", RefusalWords(document))
        PROVE  LineInv'
    BY <1>3, <1>4, <2>2
  <2>3. QED
    BY <1>4, <2>1, <2>2 DEF PublicReceived
<1>5. ASSUME LicensedReceived, UNCHANGED <<now, running>>,
             inflight'["public"] = inflight["public"]
      PROVE  LineInv'
  <2>1. ASSUME NEW document \in Received,
               Accepts("licensed", document), TakeLicensed(document)
        PROVE  LineInv'
    <3>1. document \in PayloadsOf("licensed")
      BY <2>1, PayloadsParse DEF Accepts, Received, PayloadsOf, Parses
    <3>2. /\ AcceptPayload("licensed", document) /\ PersistLastGood("licensed", document)
          /\ \/ weatherStatus' = "licensed" /\ ~HasWeather("public")
             \/ /\ UNCHANGED weatherStatus
                /\ ~HasWeather("licensed")' \/ HasWeather("public")
      BY <2>1 DEF TakeLicensed
    <3>3. /\ cache'["public"] = cache["public"] /\ shown'["public"] = shown["public"]
          /\ cache'["licensed"].status \in {"persisted", "write-error"}
      BY <1>5, <3>1, <3>2, Taken
    <3>4. HasWeather("public") => weatherStatus # "not-loaded"
      BY <1>2 DEF Inv, StatusLinesMatchFeeds, NotHeld
    <3>5. HasWeather("public")' <=> HasWeather("public")
      BY <3>3 DEF HasWeather
    <3>6. QED
      BY <1>5, <3>2, <3>3, <3>4, <3>5 DEF LineInv
  <2>2. ASSUME NEW document \in Received, Refuse("licensed", RefusalWords(document))
        PROVE  LineInv'
    BY <1>3, <1>5, <2>2
  <2>3. QED
    BY <1>5, <2>1, <2>2 DEF LicensedReceived
<1>6. CASE FetchPublicAerodromeWeather
  <2>1. CASE Sent("public") /\ weatherStatus' = FetchingStatus("public")
    <3>1. /\ weatherStatus' \in {"fetching", "fetching-last-good"}
          /\ HasWeather("public") => weatherStatus' = "fetching-last-good"
      BY <1>2, <2>1 DEF FetchingStatus
    <3>2. UNCHANGED <<cache, shown, running>> /\ inflight'["public"] = inflight["public"] + 1
      BY <1>1, <1>6, <2>1 DEF FetchPublicAerodromeWeather, Sent, TypeOK
    <3>3. QED
      BY <1>1, <3>1, <3>2 DEF LineInv, HasWeather
  <2>2. CASE Refuse("public", {FALSE}) /\ UNCHANGED inflight
    BY <1>3, <1>6, <2>2 DEF FetchPublicAerodromeWeather
  <2>3. QED
    BY <1>6, <2>1, <2>2 DEF FetchPublicAerodromeWeather
<1>7. CASE FetchLicensedAerodromeConditions
  <2>1. CASE Sent("licensed") /\ UNCHANGED weatherStatus
    <3>1. UNCHANGED <<cache, shown, running>> /\ inflight'["public"] = inflight["public"]
      BY <1>1, <1>7, <2>1 DEF FetchLicensedAerodromeConditions, Sent, TypeOK
    <3>2. QED
      BY <2>1, <3>1 DEF LineInv, HasWeather
  <2>2. CASE Refuse("licensed", {FALSE}) /\ UNCHANGED inflight
    BY <1>3, <1>7, <2>2 DEF FetchLicensedAerodromeConditions
  <2>3. QED
    BY <1>7, <2>1, <2>2 DEF FetchLicensedAerodromeConditions
<1>8. CASE PublicReply
  BY <1>4, <1>8 DEF PublicReply
<1>9. CASE LicensedReply
  BY <1>1, <1>5, <1>9 DEF LicensedReply, Answered, TypeOK
<1>10. CASE LoadAerodromeConditionFile
  BY <1>5, <1>10 DEF LoadAerodromeConditionFile
<1>11. CASE ClearAerodromeConditions
  BY <1>11 DEF ClearAerodromeConditions, LineInv, HasWeather, NoFeed
<1>12. CASE Crash
  BY <1>12 DEF Crash, LineInv
<1>13. CASE Restart
  <2>1. ~HasWeather("public")' /\ HasWeather("licensed")' => weatherStatus' = "licensed-restored"
    BY <1>13 DEF Restart, InitializeAerodromePersistence
  <2>2. weatherStatus' \in {"licensed-restored", "not-loaded", "restored", "restore-failed"}
    BY <1>13 DEF Restart, InitializeAerodromePersistence, RestoredStatus
  <2>3. Available(cache'["public"]) => cache'["public"].fallback
    <3>1. cache'["public"] = RestoreLastGood("public")
      BY <1>13 DEF Restart, InitializeAerodromePersistence
    <3>2. QED
      BY <3>1 DEF RestoreLastGood, Accepted, Failed, Available, EmptyCache
  <2>4. weatherStatus' = "not-loaded" => ~HasWeather("public")'
    BY <1>2 DEF Inv, StatusLinesMatchFeeds, NotHeld
  <2>5. QED
    BY <1>2, <2>1, <2>2, <2>3, <2>4 DEF LineInv
<1>14. CASE Tick \/ UNCHANGED vars
  BY <1>14 DEF Tick, vars, process, statuses, LineInv, HasWeather
<1>15. QED
  BY <1>6, <1>7, <1>8, <1>9, <1>10, <1>11, <1>12, <1>13, <1>14 DEF Next

(* A count above zero means that there are rows.                           *)
LEMMA CountedRows ==
  WeatherCount > 0 => HasWeather("public") \/ HasWeather("licensed")
<1> SUFFICES ASSUME ~HasWeather("public"), ~HasWeather("licensed")
             PROVE  ~(WeatherCount > 0)
  OBVIOUS
<1>1. Stations("public") \cup Stations("licensed") = {}
  BY DEF HasWeather, Stations, Range
<1>2. WeatherCount = 0
  BY <1>1, FS_EmptySet DEF WeatherCount
<1>3. QED
  BY <1>2

------------------------------------------------------------------------------
(* The page shows what parse makes of one good document.                   *)
ParsedInv ==
  \E document \in Replays \cup {Operations!Demo} :
    /\ Operations!Acceptable(document) /\ ~Operations!ContainsForbiddenKey(document)
    /\ airOperations = Operations!Parse(document)
    /\ airOperationsStatus = "demo" => document = Operations!Demo

LEMMA DemoIsWhole ==
  /\ Operations!Acceptable(Operations!Demo)
  /\ ~Operations!ContainsForbiddenKey(Operations!Demo)
BY DEF Operations!Acceptable, Operations!Demo, Operations!ContainsForbiddenKey,
       Operations!Keys, Operations!GoodTrack, Operations!GoodIncident

LEMMA ParsedIsWhole ==
  ASSUME NEW document \in Replays \cup {Operations!Demo},
         Operations!Acceptable(document), ~Operations!ContainsForbiddenKey(document),
         airOperations = Operations!Parse(document),
         airOperationsStatus = "demo" => document = Operations!Demo
  PROVE  OneWholeDocumentIsShown
<1>1. /\ airOperations.tracks = document.tracks
      /\ airOperations.incidents = document.incidents
      /\ airOperations.mode = document.mode
      /\ airOperations.summary = Operations!Summary(document)
  BY DEF Operations!Parse
<1>2. /\ airOperations.summary.trackCount = Len(document.tracks)
      /\ airOperations.summary.highOrAboveCount =
           Len(SelectSeq(document.tracks, Operations!IsHigh))
  BY <1>1 DEF Operations!Summary
<1>3. QED
  BY <1>1, <1>2 DEF OneWholeDocumentIsShown, Operations!OneWholeDocumentIsShown,
     Operations!Acceptable, Operations!ContainsForbiddenKey

(* Whatever is imported, the page shows every row of one acceptable        *)
(* document, which names no active control.                                *)
THEOREM WholeDocuments == SourcesSpec => []OneWholeDocumentIsShown
<1>1. SourcesInit => ParsedInv
  BY DemoIsWhole DEF SourcesInit, Operations!Init, ParsedInv
<1>2. ParsedInv /\ [SourcesNext]_allVars => ParsedInv'
  <2> SUFFICES ASSUME ParsedInv, [SourcesNext]_allVars
               PROVE  ParsedInv'
    OBVIOUS
  <2>1. CASE UNCHANGED operationsVars
    BY <2>1 DEF ParsedInv, operationsVars
  <2>2. ASSUME NEW content \in Replays \cup {Garbage},
               Operations!LoadAirOperationsReplay(content)
        PROVE  ParsedInv'
    <3>1. CASE /\ content # Garbage /\ ~Operations!ContainsForbiddenKey(content)
               /\ Operations!Acceptable(content)
      BY <2>2, <3>1 DEF Operations!LoadAirOperationsReplay, ParsedInv
    <3>2. CASE ~( /\ content # Garbage /\ ~Operations!ContainsForbiddenKey(content)
                  /\ Operations!Acceptable(content) )
      BY <2>2, <3>2 DEF Operations!LoadAirOperationsReplay, Operations!Reject, ParsedInv
    <3>3. QED
      BY <3>1, <3>2
  <2>3. CASE Operations!ResetAirOperationsDemo
    BY <2>3, DemoIsWhole DEF Operations!ResetAirOperationsDemo, ParsedInv
  <2>4. QED
    BY <2>1, <2>2, <2>3 DEF SourcesNext, allVars, operationsVars, Operations!Next
<1>3. ParsedInv => OneWholeDocumentIsShown
  BY ParsedIsWhole DEF ParsedInv
<1>4. QED
  BY <1>1, <1>2, <1>3, PTL DEF SourcesSpec

------------------------------------------------------------------------------
(* The rows of weather of a feed are at places of a document, and name     *)
(* their station.                                                          *)
LEMMA WeatherPlaces ==
  ASSUME TypeOK, NEW k \in Kinds
  PROVE  LET rows == shown[k].weather
         IN  /\ DOMAIN rows \subseteq Nat /\ IsFiniteSet(DOMAIN rows)
             /\ \A i \in DOMAIN rows : rows[i].icao # ""
<1>1. CASE shown[k] = NoFeed
  <2>1. DOMAIN NoFeed.weather = {}
    BY DEF NoFeed
  <2>2. QED
    BY <1>1, <2>1, FS_EmptySet
<1>2. CASE shown[k] # NoFeed
  <2>1. PICK payload \in PayloadsOf(k), t \in 1..now : shown[k] = Feed(k, payload, t)
    BY <1>2 DEF TypeOK, Feeds
  <2>2. payload.weather \in Seq(Observation)
    BY PayloadsParse, DocumentsAssumption DEF PayloadsOf
  <2>3. DOMAIN shown[k].weather = KeptPlaces(payload.weather)
    BY <2>1 DEF Feed, NormalizedRows
  <2>4. KeptPlaces(payload.weather) \subseteq 1..Len(payload.weather)
    BY <2>2 DEF KeptPlaces
  <2>5. DOMAIN shown[k].weather \subseteq Nat /\ IsFiniteSet(DOMAIN shown[k].weather)
    <3>1. Len(payload.weather) \in Nat
      BY <2>2
    <3>2. IsFiniteSet(1..Len(payload.weather))
      BY <3>1, FS_Interval
    <3>3. QED
      BY <2>3, <2>4, <3>1, <3>2, FS_Subset
  <2>6. ASSUME NEW i \in DOMAIN shown[k].weather
        PROVE  shown[k].weather[i].icao # ""
    <3>1. payload.weather[i] \in Observation /\ payload.weather[i].usable
      BY <2>2, <2>3, <2>6 DEF KeptPlaces
    <3>2. shown[k].weather[i].icao = payload.weather[i].icao
      BY <2>1, <2>3, <2>6 DEF Feed, NormalizedRows, Normalized
    <3>3. QED
      BY <3>1, <3>2 DEF Observation
  <2>7. QED
    BY <2>5, <2>6
<1>3. QED
  BY <1>1, <1>2

LEMMA LeastPlace ==
  ASSUME NEW P \in SUBSET Nat, P # {}
  PROVE  \E i \in P : \A j \in P : i <= j
<1>1. PICK i \in P : \A j \in P : ~(<<j, i>> \in OpToRel(<, Nat))
  BY NatLessThanWellFounded, WFMin
<1>2. \A j \in P : ~(j < i)
  BY <1>1 DEF OpToRel
<1>3. QED
  BY <1>2

(* Each station that was not seen has one row, and only such stations do.  *)
LEMMA FirstOfStation ==
  ASSUME TypeOK, NEW k \in Kinds, NEW seen
  PROVE  LET icao(i) == shown[k].weather[i].icao
         IN  /\ FirstPlaces(k, seen) \subseteq DOMAIN shown[k].weather
             /\ \A i \in FirstPlaces(k, seen) : icao(i) \in Stations(k) \ seen
             /\ \A s \in Stations(k) \ seen : \E i \in FirstPlaces(k, seen) : icao(i) = s
             /\ \A i, j \in FirstPlaces(k, seen) : icao(i) = icao(j) => i = j
<1> DEFINE rows == shown[k].weather
<1>1. DOMAIN rows \subseteq Nat /\ \A i \in DOMAIN rows : rows[i].icao # ""
  BY WeatherPlaces
<1>2. Stations(k) = {rows[i].icao : i \in DOMAIN rows}
  BY DEF Stations, Range
<1>3. FirstPlaces(k, seen) =
        { i \in DOMAIN rows : /\ rows[i].icao \notin seen \cup {""}
                              /\ \A j \in DOMAIN rows : j < i => rows[j].icao # rows[i].icao }
  BY DEF FirstPlaces
<1> HIDE DEF rows
<1>4. ASSUME NEW s \in Stations(k) \ seen
      PROVE  \E i \in FirstPlaces(k, seen) : rows[i].icao = s
  <2> DEFINE places == {i \in DOMAIN rows : rows[i].icao = s}
  <2>1. places \subseteq Nat /\ places # {}
    BY <1>1, <1>2
  <2>2. PICK i \in places : \A j \in places : i <= j
    BY <2>1, LeastPlace
  <2>3. ASSUME NEW j \in DOMAIN rows, j < i, rows[j].icao = s
        PROVE  FALSE
    <3>1. j \in places /\ i \in Nat /\ j \in Nat
      BY <1>1, <2>3
    <3>2. QED
      BY <2>2, <2>3, <3>1
  <2>4. QED
    BY <1>1, <1>3, <1>4, <2>2, <2>3
<1>5. ASSUME NEW i \in FirstPlaces(k, seen), NEW j \in FirstPlaces(k, seen),
             rows[i].icao = rows[j].icao
      PROVE  i = j
  <2>1. i \in Nat /\ j \in Nat /\ ~(i < j) /\ ~(j < i)
    BY <1>1, <1>3, <1>5
  <2>2. QED
    BY <2>1
<1>6. QED
  BY <1>2, <1>3, <1>4, <1>5 DEF rows

(* The table has one row for each station of the two feeds.                *)
LEMMA RowsAreStations ==
  ASSUME TypeOK
  PROVE  LET stations == Stations("public") \cup Stations("licensed")
         IN  IsFiniteSet(stations) /\ Cardinality(WeatherRows) = Cardinality(stations)
<1> DEFINE stations == Stations("public") \cup Stations("licensed")
           public == FirstPlaces("public", {})
           licensed == FirstPlaces("licensed", Stations("public"))
           icao == [row \in WeatherRows |-> shown[row[1]].weather[row[2]].icao]
<1> USE DEF Kinds
<1>1. WeatherRows = ({"public"} \X public) \cup ({"licensed"} \X licensed)
  BY DEF WeatherRows
<1>2. IsFiniteSet(WeatherRows)
  <2>1. IsFiniteSet(DOMAIN shown["public"].weather) /\ IsFiniteSet(DOMAIN shown["licensed"].weather)
    BY WeatherPlaces
  <2>2. IsFiniteSet(public) /\ IsFiniteSet(licensed)
    BY <2>1, FS_Subset, FirstOfStation
  <2>3. IsFiniteSet({"public"}) /\ IsFiniteSet({"licensed"})
    BY FS_Singleton
  <2>4. IsFiniteSet({"public"} \X public) /\ IsFiniteSet({"licensed"} \X licensed)
    BY <2>2, <2>3, FS_Product
  <2>5. QED
    BY <1>1, <2>4, FS_Union
<1>3. \A i \in public : shown["public"].weather[i].icao \in Stations("public")
  BY FirstOfStation
<1>4. \A i \in licensed :
        shown["licensed"].weather[i].icao \in Stations("licensed") \ Stations("public")
  BY FirstOfStation
<1>5. \A row \in WeatherRows :
        \/ /\ row[1] = "public" /\ row[2] \in public /\ row = <<"public", row[2]>>
           /\ icao[row] = shown["public"].weather[row[2]].icao
        \/ /\ row[1] = "licensed" /\ row[2] \in licensed /\ row = <<"licensed", row[2]>>
           /\ icao[row] = shown["licensed"].weather[row[2]].icao
  BY <1>1
<1>6. icao \in [WeatherRows -> stations]
  BY <1>3, <1>4, <1>5
<1>7. ASSUME NEW a \in WeatherRows, NEW b \in WeatherRows, icao[a] = icao[b]
      PROVE  a = b
  <2>1. a[1] = b[1]
    BY <1>3, <1>4, <1>5, <1>7
  <2>2. /\ \A i, j \in public :
             shown["public"].weather[i].icao = shown["public"].weather[j].icao => i = j
        /\ \A i, j \in licensed :
             shown["licensed"].weather[i].icao = shown["licensed"].weather[j].icao => i = j
    BY FirstOfStation
  <2> HIDE DEF public, licensed, icao
  <2>3. CASE a[1] = "public"
    <3>1. /\ a[2] \in public /\ icao[a] = shown["public"].weather[a[2]].icao
          /\ b[2] \in public /\ icao[b] = shown["public"].weather[b[2]].icao
      BY <1>5, <2>1, <2>3
    <3>2. a[2] = b[2]
      BY <1>7, <2>2, <3>1
    <3>3. QED
      BY <1>5, <2>1, <2>3, <3>2
  <2>4. CASE a[1] = "licensed"
    <3>1. /\ a[2] \in licensed /\ icao[a] = shown["licensed"].weather[a[2]].icao
          /\ b[2] \in licensed /\ icao[b] = shown["licensed"].weather[b[2]].icao
      BY <1>5, <2>1, <2>4
    <3>2. a[2] = b[2]
      BY <1>7, <2>2, <3>1
    <3>3. QED
      BY <1>5, <2>1, <2>4, <3>2
  <2>5. QED
    BY <1>5, <2>3, <2>4
<1>8. ASSUME NEW s \in stations
      PROVE  \E row \in WeatherRows : icao[row] = s
  <2>1. CASE s \in Stations("public")
    <3>1. PICK i \in public : shown["public"].weather[i].icao = s
      BY <2>1, FirstOfStation
    <3>2. <<"public", i>> \in WeatherRows
      BY <1>1
    <3>3. QED
      BY <3>1, <3>2
  <2>2. CASE s \notin Stations("public")
    <3>1. PICK i \in licensed : shown["licensed"].weather[i].icao = s
      BY <2>2, FirstOfStation
    <3>2. <<"licensed", i>> \in WeatherRows
      BY <1>1
    <3>3. QED
      BY <3>1, <3>2
  <2>3. QED
    BY <2>1, <2>2
<1>9. icao \in Bijection(WeatherRows, stations)
  BY <1>6, <1>7, <1>8, Fun_IsBij
<1>10. ExistsBijection(WeatherRows, stations)
  BY <1>9 DEF ExistsBijection
<1>11. QED
  BY <1>2, <1>10, FS_Bijection

(* The page counts the stations as the table lists them, whatever the two  *)
(* feeds have in common and however often they name a station, and it      *)
(* names the provider of the first row.                                    *)
THEOREM PageCountsRows == SourcesSpec => []RecordsAreRows
<1>1. ASSUME TypeOK PROVE RecordsAreRows
  <2> SUFFICES ASSUME WeatherCount > 0
               PROVE  /\ WeatherRow.records = Cardinality(WeatherRows)
                      /\ \E row \in WeatherRows :
                           /\ row[1] = WeatherRow.source
                           /\ row[1] = "licensed" =>
                                \A other \in WeatherRows : other[1] = "licensed"
    BY DEF RecordsAreRows
  <2> USE DEF Kinds
  <2>1. WeatherRow.records = WeatherCount /\ WeatherRow.source = WeatherSource
    BY DEF WeatherRow
  <2>2. WeatherRow.records = Cardinality(WeatherRows)
    BY <1>1, <2>1, RowsAreStations DEF WeatherCount
  <2>3. \A k \in Kinds : HasWeather(k) <=> Stations(k) # {}
    BY DEF HasWeather, Stations, Range
  <2>4. CASE HasWeather("public")
    <3>1. PICK i \in FirstPlaces("public", {}) : TRUE
      BY <1>1, <2>3, <2>4, FirstOfStation
    <3>2. <<"public", i>> \in WeatherRows /\ WeatherSource = "public"
      BY <2>4 DEF WeatherRows, WeatherSource
    <3>3. QED
      BY <2>1, <2>2, <3>2
  <2>5. CASE ~HasWeather("public")
    <3>1. HasWeather("licensed") /\ Stations("public") = {}
      BY <2>3, <2>5, CountedRows
    <3>2. PICK i \in FirstPlaces("licensed", Stations("public")) : TRUE
      BY <1>1, <2>3, <3>1, FirstOfStation
    <3>3. FirstPlaces("public", {}) = {}
      BY <1>1, <3>1, FirstOfStation
    <3>4. <<"licensed", i>> \in WeatherRows /\ WeatherSource = "licensed"
      BY <2>5, <3>1 DEF WeatherRows, WeatherSource
    <3>5. \A other \in WeatherRows : other[1] = "licensed"
      BY <3>3 DEF WeatherRows
    <3>6. QED
      BY <2>1, <2>2, <3>4, <3>5
  <2>6. QED
    BY <2>4, <2>5
<1>2. QED
  BY SourcesImplementAerodrome, TypeCorrect, <1>1, PTL

------------------------------------------------------------------------------
(* Rows of METARs are counted.                                             *)
LEMMA CountsRows == TypeOK /\ HasWeather("public") => WeatherCount > 0
<1> SUFFICES ASSUME TypeOK, HasWeather("public")
             PROVE  WeatherCount > 0
  OBVIOUS
<1> DEFINE stations == Stations("public") \cup Stations("licensed")
<1>1. stations # {}
  BY DEF HasWeather, Stations, Range
<1>2. IsFiniteSet(stations)
  BY RowsAreStations
<1>3. Cardinality(stations) \in Nat /\ Cardinality(stations) # 0
  BY <1>1, <1>2, FS_CardinalityType, FS_EmptySet
<1>4. QED
  BY <1>3 DEF WeatherCount

(* Unless the line repeats an error text that has one of the words, the    *)
(* page calls METARs LIVE exactly when they came with the last answer of   *)
(* the service, a request that is out aside, and licensed weather only     *)
(* when it was not merely restored.                                        *)
THEOREM LiveIsLive == SourcesSpec => []LiveWeatherIsLive
<1> DEFINE live == WeatherRow.freshness = "LIVE"
<1>1. Inv /\ LineInv => LiveWeatherIsLive
  <2> SUFFICES ASSUME Inv, LineInv, running, ~errorWords
               PROVE  /\ HasWeather("public") /\ live => ~cache["public"].fallback
                      /\ /\ HasWeather("public") /\ ~cache["public"].fallback
                         /\ inflight["public"] = 0
                         => live
                      /\ ~HasWeather("public") /\ live =>
                           cache["licensed"].status # "cache-fallback"
    BY DEF LiveWeatherIsLive
  <2>1. ASSUME live
        PROVE  /\ HasWeather("public") \/ HasWeather("licensed")
               /\ weatherStatus \in {"persisted", "write-error", "licensed", "not-loaded"}
    BY <2>1, CountedRows DEF WeatherRow, ContainsActiveOrLoaded
  <2>2. /\ HasWeather("public") => weatherStatus \notin NotHeld \cup FromLicensed
        /\ ~HasWeather("public") => weatherStatus \notin Held
    BY ShownHasPayload DEF Inv, StatusLinesMatchFeeds, Kinds
  <2>3. ASSUME HasWeather("public"), ~cache["public"].fallback, inflight["public"] = 0
        PROVE  live
    <3>1. weatherStatus \in {"persisted", "write-error"}
      BY <2>3 DEF LineInv, Answer
    <3>2. WeatherCount > 0
      BY <2>3, CountsRows DEF Inv
    <3>3. QED
      BY <3>1, <3>2 DEF WeatherRow, ContainsActiveOrLoaded
  <2>4. QED
    BY <2>1, <2>2, <2>3 DEF LineInv, Answer, Held, NotHeld, FromLicensed
<1>2. Spec => []LineInv
  BY AerodromeInv, LineInvInit, LineInvStep, PTL DEF Spec
<1>3. QED
  BY SourcesImplementAerodrome, AerodromeInv, <1>1, <1>2, PTL
==============================================================================
