---------------------------- MODULE ProviderCache ----------------------------
(***************************************************************************)
(* A provider cache and its file, one file-system call at a time, with the *)
(* process crashing between any two of them.  CockpitBridge persists right *)
(* after every accepted refresh and, being on the GUI thread, lets nothing *)
(* else in before persistLastGood returns.                                 *)
(*                                                                         *)
(* Model of the file system: a write or copy that fails, or a process that *)
(* dies in one, leaves Garbage; a remove or rename happens or does not.    *)
(* Power loss, which may reorder completed writes, is not modelled.        *)
(***************************************************************************)
EXTENDS LastGoodCache

CONSTANT CanClear  \* TRUE for the aerodrome caches, which can be cleared

ASSUME ClearAssumption == CanClear \in BOOLEAN

VARIABLES
  cache,         \* the object, see LastGoodCache
  disk,          \* the cache file and its ".tmp" sibling
  pc,            \* where persistLastGood is, or "idle", or "down"
  promised       \* history variable: the payload last reported to be on disk

vars == <<cache, disk, pc, promised>>

Init ==
  /\ cache = EmptyCache /\ disk = [file |-> None, tmp |-> None]
  /\ pc = "idle" /\ promised = None

------------------------------------------------------------------------------
(* refreshFromFile, refreshFromJson and noteRefreshFailure, as the bridge  *)
(* calls them: an accepted payload goes on to be persisted.                *)
Refresh ==
  /\ pc = "idle"
  /\ \E content \in Payloads \cup {Garbage} :
       /\ cache' = Accepted(cache, content, FALSE)
       /\ pc' = IF content \in Payloads THEN "open" ELSE "idle"
  /\ UNCHANGED <<disk, promised>>

GiveUp ==
  /\ cache' = WriteFailed(cache) /\ pc' = "idle" /\ UNCHANGED promised

(* persistLastGood opens the temporary file, truncating it ...             *)
OpenTemporary ==
  /\ pc = "open"
  /\ \/ /\ disk' = [disk EXCEPT !.tmp = Garbage]
        /\ pc' = "write" /\ UNCHANGED <<cache, promised>>
     \/ GiveUp /\ UNCHANGED disk

(* ... writes and flushes it ...                                           *)
WriteTemporary ==
  /\ pc = "write"
  /\ \/ /\ disk' = [disk EXCEPT !.tmp = cache.payload]
        /\ pc' = "remove" /\ UNCHANGED <<cache, promised>>
     \/ GiveUp /\ UNCHANGED disk

(* ... removes the old file, ignoring any error ...                        *)
RemoveOld ==
  /\ pc = "remove"
  /\ disk' \in {disk, [disk EXCEPT !.file = None]}
  /\ pc' = "rename" /\ UNCHANGED <<cache, promised>>

Done ==
  /\ cache' = WasPersisted(cache) /\ pc' = "idle" /\ promised' = cache.payload

(* ... and renames the temporary file to it, or else ...                   *)
Rename ==
  /\ pc = "rename"
  /\ \/ disk' = [file |-> disk.tmp, tmp |-> None] /\ Done
     \/ pc' = "copy" /\ UNCHANGED <<disk, cache, promised>>

CopyOverwrites ==
  /\ pc = "copy"
  /\ \/ disk' = [disk EXCEPT !.file = disk.tmp] /\ pc' = "tidy"
     \/ disk' = [disk EXCEPT !.file = Garbage] /\ pc' = "tidy"
     \/ UNCHANGED disk /\ pc' = "tidy-failed"
  /\ UNCHANGED <<cache, promised>>

(* ... copies it, after which ...                                          *)
Copy ==
  /\ pc = "copy"
  /\ \/ disk' = [disk EXCEPT !.file = disk.tmp] /\ pc' = "tidy"
     \/ disk' = [disk EXCEPT !.file = Garbage] /\ pc' = "tidy-failed"
     \/ UNCHANGED disk /\ pc' = "tidy-failed"
  /\ UNCHANGED <<cache, promised>>

(* ... it removes the temporary file, copied or not.                       *)
Tidy ==
  /\ pc \in {"tidy", "tidy-failed"}
  /\ disk' \in {disk, [disk EXCEPT !.tmp = None]}
  /\ IF pc = "tidy" THEN Done ELSE GiveUp

------------------------------------------------------------------------------
(* clearAerodromeConditions; the result of removing the file is ignored.   *)
Clear ==
  /\ CanClear /\ pc = "idle"
  /\ cache' = EmptyCache /\ promised' = None
  /\ disk' \in {disk, [disk EXCEPT !.file = None]}
  /\ UNCHANGED pc

(* The process ends, in the middle of a save or at rest.                   *)
Crash ==
  /\ pc # "down"
  /\ pc' = "down" /\ cache' = EmptyCache
  /\ UNCHANGED <<disk, promised>>

RestartFromTemporary ==
  /\ pc = "down" /\ pc' = "idle"
  /\ cache' = IF disk.tmp = None THEN EmptyCache
              ELSE Accepted(EmptyCache, disk.tmp, TRUE)
  /\ promised' = cache'.payload
  /\ UNCHANGED disk

(* The bridge's constructor restores the file, if there is one.            *)
Restart ==
  /\ pc = "down" /\ pc' = "idle"
  /\ cache' = IF disk.file = None THEN EmptyCache
              ELSE Accepted(EmptyCache, disk.file, TRUE)
  /\ promised' = cache'.payload
  /\ UNCHANGED disk

Next ==
  \/ Refresh \/ OpenTemporary \/ WriteTemporary \/ RemoveOld \/ Rename \/ Copy \/ Tidy
  \/ Clear \/ Crash \/ Restart

Spec == Init /\ [][Next]_vars

------------------------------------------------------------------------------
TypeOK ==
  /\ cache \in Cache /\ disk \in [file: Content, tmp: Content]
  /\ pc \in { "idle", "open", "write", "remove", "rename", "copy", "tidy",
              "tidy-failed", "down" }
  /\ promised \in Payloads \cup {None}

(* The cache keeps the promise of LastKnownGood, whose saved copy is what  *)
(* a restart would accept from the file.                                   *)
Promise == INSTANCE LastKnownGood WITH
  active <- cache.payload,
  saved <- IF disk.file \in Payloads THEN disk.file ELSE None,
  up <- pc # "down"

KeepsLastKnownGood == Promise!Spec

(* Whenever the status line says PERSISTED, or that the cache was restored *)
(* from its file, the file holds exactly the payload in use.               *)
PersistedIsOnDisk ==
  cache.status \in {"persisted", "cache-fallback"} => disk.file = cache.payload

(* Once a payload was reported saved, a running process has one to serve,  *)
(* whatever refreshes were refused and however its saves failed.           *)
RunningProcessServesLastGood ==
  pc # "down" /\ promised # None => Available(cache)

(* tests/test_public_flight_provider_cache.cpp:78: "A fresh process can    *)
(* restore the persisted last-known-good provider."  So a file a restart   *)
(* accepts must be there whenever the process ends after such a report.    *)
LastGoodSurvivesCrash ==
  pc = "down" /\ promised # None => disk.file \in Payloads
==============================================================================
