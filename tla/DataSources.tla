------------------------------ MODULE DataSources ------------------------------
(***************************************************************************)
(* The rows that the data-source page shows for the feeds of the aerodrome *)
(* and air-operations pages: dataSourceRows reads, at any moment, state    *)
(* that the handlers of two components leave behind, and has to agree with *)
(* what their own pages show.                                              *)
(***************************************************************************)
EXTENDS Aerodrome

CONSTANTS
  Replays, Forbidden, Modulus   \* as Documents, Forbidden, Modulus of AirOperations

ASSUME ModulusAssumption == Modulus \in Nat \ {0}
ASSUME ReplaysAssumption == Garbage \notin Replays

VARIABLES airOperations, airOperationsStatus

Operations ==
  INSTANCE AirOperations WITH Documents <- Replays, status <- airOperationsStatus

operationsVars == <<airOperations, airOperationsStatus>>
allVars == <<vars, operationsVars>>

------------------------------------------------------------------------------
Stations(k) == {row.icao : row \in Range(shown[k].weather)}

WeatherCountByFeed == Cardinality(Stations("public")) + Cardinality(Stations("licensed"))

(* aerodromeWeatherCount, over both feeds.                                 *)
WeatherCount == Cardinality(Stations("public") \cup Stations("licensed"))

(* aerodromeWeatherRows: the places of the rows it lists.  Public rows     *)
(* come first, and a station that was seen is skipped.                     *)
FirstPlaces(k, seen) ==
  LET rows == shown[k].weather
  IN  { i \in DOMAIN rows :
          /\ rows[i].icao \notin seen \cup {""}
          /\ \A j \in DOMAIN rows : j < i => rows[j].icao # rows[i].icao }

WeatherRows ==
  ({"public"} \X FirstPlaces("public", {}))
    \cup ({"licensed"} \X FirstPlaces("licensed", Stations("public")))

(* aerodromeWeatherSource: the provider that is named over the rows.       *)
WeatherSource ==
  IF HasWeather("public") THEN "public"
  ELSE IF HasWeather("licensed") THEN "licensed" ELSE "NONE"

(* The weather lines that contain ACTIVE or LOADED: NOT LOADED does, and   *)
(* any that repeats an error text may.                                     *)
ContainsActiveOrLoaded ==
  weatherStatus \in {"persisted", "write-error", "licensed", "not-loaded"} \/ errorWords

(* forceManagement_.bases().                                               *)
Bases == 3

(* The weather row of dataSourceRows.                                      *)
WeatherRow ==
  IF WeatherCount > 0
  THEN [ source |-> WeatherSource, mode |-> weatherStatus, records |-> WeatherCount,
         freshness |-> IF ContainsActiveOrLoaded THEN "LIVE" ELSE "CHECK STATUS" ]
  ELSE [ source |-> "FORCE TRAINING SNAPSHOT", mode |-> weatherStatus, records |-> Bases,
         freshness |-> "SYNTHETIC FALLBACK" ]

------------------------------------------------------------------------------
SourcesInit == Init /\ Operations!Init

SourcesNext ==
  \/ Next /\ UNCHANGED operationsVars
  \/ Operations!Next /\ running /\ UNCHANGED vars

SourcesSpec == SourcesInit /\ [][SourcesNext]_allVars

------------------------------------------------------------------------------
(* One whole document of the air-operations page, next to everything else. *)
OneWholeDocumentIsShown == Operations!OneWholeDocumentIsShown

(* Unless the weather line repeats an error text with one of the words,    *)
(* METARs are called LIVE only when they came with the last answer of the  *)
(* service, not after a refused refresh or a restore, and always when they *)
(* did and no request is out.  Licensed weather is called LIVE only when   *)
(* an answer or a file was accepted since the start, not when it is merely *)
(* restored; a later refusal does not take it back.  The page goes by the  *)
(* words of a line that several handlers write.                            *)
LiveWeatherIsLive ==
  LET live == WeatherRow.freshness = "LIVE"
  IN  running /\ ~errorWords =>
        /\ HasWeather("public") /\ live => ~cache["public"].fallback
        /\ HasWeather("public") /\ ~cache["public"].fallback /\ inflight["public"] = 0 => live
        /\ ~HasWeather("public") /\ live => cache["licensed"].status # "cache-fallback"

(* The page counts the stations as the table lists them, although each     *)
(* goes over the two feeds in its own way, and names the provider of the   *)
(* first row.                                                              *)
RecordsAreRows ==
  WeatherCount > 0 =>
    /\ WeatherRow.records = Cardinality(WeatherRows)
    /\ \E row \in WeatherRows :
         /\ row[1] = WeatherRow.source
         /\ row[1] = "licensed" => \A other \in WeatherRows : other[1] = "licensed"
==============================================================================
