---------------------------- MODULE LastGoodCache ----------------------------
(***************************************************************************)
(* The in-memory half of PublicFlightProviderCache and                     *)
(* AerodromeProviderCache, which share one design: the last payload that   *)
(* was accepted, whether it is a fallback, and the status line.            *)
(*                                                                         *)
(* A content is a member of Payloads when the parser accepts it; Garbage   *)
(* stands for every other: empty, over the size limit, malformed, half     *)
(* written, without provider or records.  All are refused the same way.    *)
(***************************************************************************)
CONSTANTS
  Payloads,      \* contents the parser accepts
  Garbage,       \* any content it refuses
  None           \* no payload; also: no file

ASSUME PayloadsAssumption == None \notin Payloads
ASSUME GarbageAssumption == Garbage \notin Payloads \cup {None}

(* What a cache file can hold.                                             *)
Content == Payloads \cup {None, Garbage}

Statuses ==
  { "none", "active", "cache-fallback", "last-good", "unavailable", "persisted",
    "write-error" }

Cache == [payload: Payloads \cup {None}, fallback: BOOLEAN, status: Statuses]

EmptyCache == [payload |-> None, fallback |-> FALSE, status |-> "none"]

Available(cache) == cache.payload # None

FailedDropsPayload(cache) ==
  [payload |-> None, fallback |-> FALSE, status |-> "unavailable"]

(* markRefreshFailure.                                                     *)
Failed(cache) ==
  [ cache EXCEPT !.fallback = Available(cache),
                 !.status = IF Available(cache) THEN "last-good" ELSE "unavailable" ]

AcceptedUnparsed(cache, content, fallback) ==
  IF content # None
  THEN [ payload |-> content, fallback |-> fallback,
         status |-> IF fallback THEN "cache-fallback" ELSE "active" ]
  ELSE Failed(cache)

(* acceptPayload; with fallback, restoreLastGood of a file's content.      *)
Accepted(cache, content, fallback) ==
  IF content \in Payloads
  THEN [ payload |-> content, fallback |-> fallback,
         status |-> IF fallback THEN "cache-fallback" ELSE "active" ]
  ELSE Failed(cache)

(* The two ends of persistLastGood.                                        *)
WasPersisted(cache) == [cache EXCEPT !.status = "persisted"]
WriteFailed(cache) == [cache EXCEPT !.status = "write-error"]
==============================================================================
