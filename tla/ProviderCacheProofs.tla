------------------------- MODULE ProviderCacheProofs -------------------------
(***************************************************************************)
(* Theorems about ProviderCache, for any set of payloads: what holds of    *)
(* cache, disk and report at every moment, crashes and failing writes      *)
(* included, and that the cache implements LastKnownGood.                  *)
(***************************************************************************)
EXTENDS ProviderCache, TLAPS

Saving == {"open", "write", "remove", "rename", "copy", "tidy", "tidy-failed"}

(* While a save is under way the cache holds the payload being saved, its  *)
(* status is the one the refresh left, and once written the temporary file *)
(* holds that payload too.                                                 *)
SaveInProgress ==
  /\ pc \in Saving => Available(cache) /\ cache.status = "active"
  /\ pc \in {"remove", "rename", "copy"} => disk.tmp = cache.payload
  /\ pc = "tidy" => disk.file = cache.payload

(* A process that is down remembers nothing.                               *)
Down == pc = "down" => cache = EmptyCache

Inv ==
  /\ TypeOK
  /\ SaveInProgress
  /\ Down
  /\ PersistedIsOnDisk
  /\ RunningProcessServesLastGood

LEMMA CacheOperationsType ==
  ASSUME NEW c \in Cache, NEW x \in Content, NEW b \in BOOLEAN
  PROVE  /\ Accepted(c, x, b) \in Cache /\ Failed(c) \in Cache
         /\ WasPersisted(c) \in Cache /\ WriteFailed(c) \in Cache
         /\ EmptyCache \in Cache
<1>1. Failed(c) \in Cache
  BY DEF Failed, Cache, Statuses, Available
<1>2. Accepted(c, x, b) \in Cache
  BY <1>1 DEF Accepted, Cache, Statuses
<1>3. WasPersisted(c) \in Cache /\ WriteFailed(c) \in Cache /\ EmptyCache \in Cache
  BY DEF WasPersisted, WriteFailed, EmptyCache, Cache, Statuses
<1> QED
  BY <1>1, <1>2, <1>3

LEMMA Initially == Init => Inv
  BY DEF Init, Inv, TypeOK, SaveInProgress, Down, PersistedIsOnDisk, EmptyCache, Cache,
         RunningProcessServesLastGood, Statuses, Content, Saving, Available

LEMMA RefreshKeepsInv == Inv /\ Refresh => Inv'
<1> SUFFICES ASSUME Inv, Refresh
             PROVE  Inv'
  OBVIOUS
<1>1. PICK content \in Payloads \cup {Garbage} :
        /\ cache' = Accepted(cache, content, FALSE)
        /\ pc' = IF content \in Payloads THEN "open" ELSE "idle"
  BY DEF Refresh
<1>2. pc = "idle" /\ disk' = disk /\ promised' = promised
  BY DEF Refresh
<1>3. content \in Content
  BY DEF Content
<1>4. cache' \in Cache
  BY <1>1, <1>3, CacheOperationsType DEF Inv, TypeOK
<1>5. TypeOK'
  BY <1>1, <1>2, <1>4 DEF Inv, TypeOK
<1>6. CASE content \in Payloads
  <2>1. cache' = [payload |-> content, fallback |-> FALSE, status |-> "active"]
    BY <1>1, <1>6 DEF Accepted
  <2>2. pc' = "open" /\ cache'.payload # None /\ cache'.status = "active"
    <3>1. pc' = "open"
      BY <1>1, <1>6
    <3>2. cache'.payload = content /\ cache'.status = "active"
      BY <2>1
    <3>3. content # None
      BY <1>6, PayloadsAssumption
    <3> QED
      BY <3>1, <3>2, <3>3
  <2>3. SaveInProgress' /\ Down' /\ PersistedIsOnDisk'
    BY <2>2 DEF SaveInProgress, Down, PersistedIsOnDisk, Available, Saving
  <2>4. RunningProcessServesLastGood'
    BY <2>2 DEF RunningProcessServesLastGood, Available
  <2> QED
    BY <1>5, <2>3, <2>4 DEF Inv
<1>7. CASE content \notin Payloads
  <2>1. cache' = Failed(cache) /\ pc' = "idle"
    BY <1>1, <1>7 DEF Accepted
  <2>2. cache'.payload = cache.payload /\ cache'.status \in {"last-good", "unavailable"}
    BY <2>1 DEF Failed, Inv, TypeOK, Cache
  <2> QED
    BY <1>2, <1>5, <2>1, <2>2
    DEF Inv, SaveInProgress, Down, PersistedIsOnDisk, RunningProcessServesLastGood,
        Available, Saving
<1> QED
  BY <1>6, <1>7

(* A save that gives up, from any of its steps, whatever it leaves on disk. *)
LEMMA GiveUpKeepsInv ==
  ASSUME Inv, pc \in Saving, GiveUp, disk' \in [file: Content, tmp: Content]
  PROVE  Inv'
<1>1. cache' = WriteFailed(cache) /\ pc' = "idle" /\ promised' = promised
  BY DEF GiveUp
<1>2. cache' \in Cache
  BY <1>1, CacheOperationsType DEF Inv, TypeOK, Content
<1>3. cache'.payload = cache.payload /\ cache'.status = "write-error"
  BY <1>1 DEF WriteFailed, Inv, TypeOK, Cache
<1>4. Available(cache)
  BY DEF Inv, SaveInProgress
<1> QED
  BY <1>1, <1>2, <1>3, <1>4
  DEF Inv, TypeOK, SaveInProgress, Down, PersistedIsOnDisk, RunningProcessServesLastGood,
      Available, Saving

(* A save that ends well, having left its payload in the file.             *)
LEMMA DoneKeepsInv ==
  ASSUME Inv, pc \in Saving, Done, disk' \in [file: Content, tmp: Content],
         disk'.file = cache.payload
  PROVE  Inv'
<1>1. cache' = WasPersisted(cache) /\ pc' = "idle" /\ promised' = cache.payload
  BY DEF Done
<1>2. cache' \in Cache
  BY <1>1, CacheOperationsType DEF Inv, TypeOK, Content
<1>3. cache'.payload = cache.payload /\ cache'.status = "persisted"
  BY <1>1 DEF WasPersisted, Inv, TypeOK, Cache
<1>4. Available(cache)
  BY DEF Inv, SaveInProgress
<1> QED
  BY <1>1, <1>2, <1>3, <1>4
  DEF Inv, TypeOK, SaveInProgress, Down, PersistedIsOnDisk, RunningProcessServesLastGood,
      Available, Saving, Cache

(* A step within a save changes only the disk and the program counter.     *)
LEMMA StepWithinSaveKeepsInv ==
  ASSUME Inv, pc \in Saving, pc' \in Saving, UNCHANGED <<cache, promised>>,
         disk' \in [file: Content, tmp: Content],
         pc' \in {"remove", "rename", "copy"} => disk'.tmp = cache.payload,
         pc' = "tidy" => disk'.file = cache.payload
  PROVE  Inv'
<1>1. cache' = cache /\ promised' = promised
  OBVIOUS
<1>2. pc # "down" /\ pc' # "down"
  BY DEF Saving
<1>3. TypeOK'
  BY <1>1 DEF Inv, TypeOK, Saving
<1>4. SaveInProgress'
  BY <1>1 DEF Inv, SaveInProgress, Available
<1>5. PersistedIsOnDisk'
  BY <1>1 DEF Inv, SaveInProgress, Down, PersistedIsOnDisk
<1>6. RunningProcessServesLastGood' /\ Down'
  BY <1>1, <1>2 DEF Inv, RunningProcessServesLastGood, Available, Down
<1> QED
  BY <1>3, <1>4, <1>5, <1>6 DEF Inv

LEMMA SaveKeepsInv ==
  ASSUME Inv,
         OpenTemporary \/ WriteTemporary \/ RemoveOld \/ Rename \/ Copy \/ Tidy
  PROVE  Inv'
<1> disk \in [file: Content, tmp: Content] /\ cache.payload \in Content
  BY DEF Inv, TypeOK, Cache, Content
<1>1. CASE OpenTemporary
  <2> pc \in Saving
    BY <1>1 DEF OpenTemporary, Saving
  <2>1. CASE GiveUp /\ UNCHANGED disk
    BY <2>1, GiveUpKeepsInv
  <2>2. CASE /\ disk' = [disk EXCEPT !.tmp = Garbage]
             /\ pc' = "write" /\ UNCHANGED <<cache, promised>>
    <3>1. disk' \in [file: Content, tmp: Content]
      BY <2>2 DEF Content
    <3> QED
      BY <2>2, <3>1, StepWithinSaveKeepsInv DEF Saving
  <2> QED
    BY <1>1, <2>1, <2>2 DEF OpenTemporary
<1>2. CASE WriteTemporary
  <2> pc \in Saving
    BY <1>2 DEF WriteTemporary, Saving
  <2>1. CASE GiveUp /\ UNCHANGED disk
    BY <2>1, GiveUpKeepsInv
  <2>2. CASE /\ disk' = [disk EXCEPT !.tmp = cache.payload]
             /\ pc' = "remove" /\ UNCHANGED <<cache, promised>>
    <3>1. disk' \in [file: Content, tmp: Content] /\ disk'.tmp = cache.payload
      BY <2>2
    <3> QED
      BY <2>2, <3>1, StepWithinSaveKeepsInv DEF Saving
  <2> QED
    BY <1>2, <2>1, <2>2 DEF WriteTemporary
<1>3. CASE RemoveOld
  <2>1. disk.tmp = cache.payload /\ pc \in Saving /\ pc' = "rename"
    BY <1>3 DEF RemoveOld, Inv, SaveInProgress, Saving
  <2>2. disk' \in [file: Content, tmp: Content] /\ disk'.tmp = disk.tmp
    BY <1>3 DEF RemoveOld, Content
  <2>3. UNCHANGED <<cache, promised>>
    BY <1>3 DEF RemoveOld
  <2> QED
    BY <2>1, <2>2, <2>3, StepWithinSaveKeepsInv DEF Saving
<1>4. CASE Rename
  <2>1. disk.tmp = cache.payload /\ pc \in Saving
    BY <1>4 DEF Rename, Inv, SaveInProgress, Saving
  <2>2. CASE disk' = [file |-> disk.tmp, tmp |-> None] /\ Done
    <3>1. disk' \in [file: Content, tmp: Content] /\ disk'.file = cache.payload
      BY <2>1, <2>2 DEF Content
    <3> QED
      BY <2>1, <2>2, <3>1, DoneKeepsInv
  <2>3. CASE pc' = "copy" /\ UNCHANGED <<disk, cache, promised>>
    BY <2>1, <2>3, StepWithinSaveKeepsInv DEF Saving
  <2> QED
    BY <1>4, <2>2, <2>3 DEF Rename
<1>5. CASE Copy
  <2>1. disk.tmp = cache.payload /\ pc \in Saving
    BY <1>5 DEF Copy, Inv, SaveInProgress, Saving
  <2>2. UNCHANGED <<cache, promised>>
    BY <1>5 DEF Copy
  <2>3. /\ pc' \in {"tidy", "tidy-failed"} /\ disk' \in [file: Content, tmp: Content]
        /\ pc' = "tidy" => disk'.file = cache.payload
    BY <1>5, <2>1 DEF Copy, Content
  <2> QED
    BY <2>1, <2>2, <2>3, StepWithinSaveKeepsInv DEF Saving
<1>6. CASE Tidy
  <2>1. /\ pc \in Saving /\ disk' \in [file: Content, tmp: Content]
        /\ disk'.file = disk.file
    BY <1>6 DEF Tidy, Saving, Content
  <2>2. CASE pc = "tidy"
    <3>1. Done /\ disk.file = cache.payload
      BY <1>6, <2>2 DEF Tidy, Inv, SaveInProgress
    <3> QED
      BY <2>1, <3>1, DoneKeepsInv
  <2>3. CASE pc # "tidy"
    <3>1. GiveUp
      BY <1>6, <2>3 DEF Tidy
    <3> QED
      BY <2>1, <3>1, GiveUpKeepsInv
  <2> QED
    BY <2>2, <2>3
<1> QED
  BY <1>1, <1>2, <1>3, <1>4, <1>5, <1>6

LEMMA ClearKeepsInv == Inv /\ Clear => Inv'
<1> SUFFICES ASSUME Inv, Clear
             PROVE  Inv'
  OBVIOUS
<1>1. disk' \in [file: Content, tmp: Content]
  BY DEF Clear, Inv, TypeOK, Content
<1> QED
  BY <1>1 DEF Clear, Inv, TypeOK, SaveInProgress, Down, PersistedIsOnDisk, EmptyCache, Cache,
              Statuses, RunningProcessServesLastGood, Saving, Available

LEMMA CrashKeepsInv == Inv /\ Crash => Inv'
  BY DEF Crash, Inv, TypeOK, SaveInProgress, Down, PersistedIsOnDisk, EmptyCache, Cache,
         Statuses, RunningProcessServesLastGood, Saving, Available

LEMMA RestartKeepsInv == Inv /\ Restart => Inv'
<1> SUFFICES ASSUME Inv, Restart
             PROVE  Inv'
  OBVIOUS
<1>1. pc' = "idle" /\ promised' = cache'.payload /\ disk' = disk
  BY DEF Restart
<1>2. disk.file \in Content /\ EmptyCache.payload = None
  BY DEF Inv, TypeOK, EmptyCache
<1>3. CASE disk.file \in Payloads
  <2>1. cache' = [payload |-> disk.file, fallback |-> TRUE, status |-> "cache-fallback"]
    BY <1>3, PayloadsAssumption DEF Restart, Accepted
  <2> QED
    BY <1>1, <1>3, <2>1, PayloadsAssumption
    DEF Inv, TypeOK, SaveInProgress, Down, PersistedIsOnDisk, Cache, Statuses,
        RunningProcessServesLastGood, Saving, Available
<1>4. CASE disk.file \notin Payloads
  <2>1. cache' \in {EmptyCache, Failed(EmptyCache)}
    BY <1>4 DEF Restart, Accepted
  <2>2. /\ cache' \in Cache /\ cache'.payload = None
        /\ cache'.status \in {"none", "unavailable"}
    <3>1. EmptyCache \in Cache /\ EmptyCache.payload = None /\ EmptyCache.status = "none"
      BY DEF EmptyCache, Cache, Statuses
    <3>2. Available(EmptyCache) = FALSE
      BY <3>1 DEF Available
    <3>3. Failed(EmptyCache) = [EmptyCache EXCEPT !.fallback = FALSE, !.status = "unavailable"]
      BY <3>2 DEF Failed
    <3>4. CASE cache' = EmptyCache
      BY <3>1, <3>4
    <3>5. CASE cache' = Failed(EmptyCache)
      <4>1. cache' = [payload |-> None, fallback |-> FALSE, status |-> "unavailable"]
        BY <3>3, <3>5 DEF EmptyCache
      <4>2. cache'.payload = None /\ cache'.status = "unavailable"
        BY <4>1
      <4>3. cache' \in Cache
        BY <4>1 DEF Cache, Statuses
      <4> QED
        BY <4>2, <4>3
    <3> QED
      BY <2>1, <3>4, <3>5
  <2> QED
    BY <1>1, <2>2
    DEF Inv, TypeOK, SaveInProgress, Down, PersistedIsOnDisk, Cache,
        RunningProcessServesLastGood, Saving, Available
<1> QED
  BY <1>3, <1>4

LEMMA StepKeepsInv == Inv /\ [Next]_vars => Inv'
<1> SUFFICES ASSUME Inv, [Next]_vars
             PROVE  Inv'
  OBVIOUS
<1>1. CASE UNCHANGED vars
  BY <1>1 DEF vars, Inv, TypeOK, SaveInProgress, Down, PersistedIsOnDisk,
              RunningProcessServesLastGood, Available
<1>2. CASE Refresh
  BY <1>2, RefreshKeepsInv
<1>3. CASE OpenTemporary \/ WriteTemporary \/ RemoveOld \/ Rename \/ Copy \/ Tidy
  BY <1>3, SaveKeepsInv
<1>4. CASE Clear
  BY <1>4, ClearKeepsInv
<1>5. CASE Crash
  BY <1>5, CrashKeepsInv
<1>6. CASE Restart
  BY <1>6, RestartKeepsInv
<1> QED
  BY <1>1, <1>2, <1>3, <1>4, <1>5, <1>6 DEF Next

(* The inductive invariant holds in every behaviour of the cache.          *)
THEOREM Invariance == Spec => []Inv
  BY Initially, StepKeepsInv, PTL DEF Spec

(* A file is never read as a payload unless the parser accepts it, and the *)
(* cache never holds anything else.                                        *)
THEOREM TypeCorrect == Spec => []TypeOK
<1>1. Inv => TypeOK
  BY DEF Inv
<1> QED
  BY <1>1, Invariance, PTL

(* A status line that says PERSISTED (persistLastGood) or CACHE FALLBACK   *)
(* (restoreLastGood) is true of the file at that moment.                   *)
THEOREM PersistedTheorem == Spec => []PersistedIsOnDisk
<1>1. Inv => PersistedIsOnDisk
  BY DEF Inv
<1> QED
  BY <1>1, Invariance, PTL

(* While the process runs, its payload changes only when a refresh accepts *)
(* the new one, and when it is cleared.                                    *)
OnlyAcceptedReplaces ==
  pc # "down" /\ pc' # "down" /\ cache'.payload # cache.payload
    => \/ pc = "idle" /\ cache'.payload \in Payloads /\ ~cache'.fallback
       \/ Clear

LEMMA PayloadStays == Inv /\ [Next]_vars => OnlyAcceptedReplaces
<1> SUFFICES ASSUME Inv, [Next]_vars, pc # "down", pc' # "down",
                    cache'.payload # cache.payload
             PROVE  \/ pc = "idle" /\ cache'.payload \in Payloads /\ ~cache'.fallback
                    \/ Clear
  BY DEF OnlyAcceptedReplaces
<1>1. cache \in Cache
  BY DEF Inv, TypeOK
<1>2. /\ Failed(cache).payload = cache.payload
      /\ WasPersisted(cache).payload = cache.payload
      /\ WriteFailed(cache).payload = cache.payload
  BY <1>1 DEF Failed, WasPersisted, WriteFailed, Cache
<1>3. CASE UNCHANGED vars
  BY <1>3 DEF vars
<1>4. CASE Refresh
  <2>1. PICK content \in Payloads \cup {Garbage} : cache' = Accepted(cache, content, FALSE)
    BY <1>4 DEF Refresh
  <2>2. content \in Payloads
    BY <2>1, <1>2 DEF Accepted
  <2> QED
    BY <1>4, <2>1, <2>2 DEF Accepted, Refresh
<1>5. CASE OpenTemporary \/ WriteTemporary \/ RemoveOld \/ Rename \/ Copy \/ Tidy
  BY <1>2, <1>5
  DEF OpenTemporary, WriteTemporary, RemoveOld, Rename, Copy, Tidy, GiveUp, Done
<1>6. CASE Crash \/ Restart
  BY <1>6 DEF Crash, Restart
<1> QED
  BY <1>3, <1>4, <1>5, <1>6 DEF Next

(* Neither a refused refresh nor a failed save takes the last good payload *)
(* from a running process (markRefreshFailure, persistLastGood): it has    *)
(* one once it reported one saved, and replaces the one it has only by one *)
(* that the parser accepted since, until it is cleared.                    *)
THEOREM ServesLastGoodTheorem ==
  Spec => []RunningProcessServesLastGood /\ [][OnlyAcceptedReplaces]_vars
<1>1. Inv => RunningProcessServesLastGood
  BY DEF Inv
<1>2. Inv /\ [Next]_vars => [OnlyAcceptedReplaces]_vars
  BY PayloadStays
<1> QED
  BY <1>1, <1>2, Invariance, PTL DEF Spec

------------------------------------------------------------------------------
(* Refinement.                                                             *)

SavedCopy == IF disk.file \in Payloads THEN disk.file ELSE None

LEMMA RefinesInit == Init => Promise!Init
<1> SUFFICES ASSUME Init PROVE Promise!Init
  OBVIOUS
<1>1. cache.payload = None /\ disk.file = None /\ pc # "down"
  BY DEF Init, EmptyCache
<1> QED
  BY <1>1, PayloadsAssumption DEF Promise!Init

(* Each file-system call of a save replaces the saved copy by the active   *)
(* payload, loses it, or leaves it.                                        *)
LEMMA SaveRefines ==
  ASSUME Inv, pc \in Saving, pc' # "down", cache'.payload = cache.payload,
         \/ disk'.file = disk.file
         \/ disk'.file \in {None, Garbage, cache.payload}
  PROVE  [Promise!Next]_(Promise!vars)
<1>1. cache.payload \in Payloads
  BY DEF Inv, TypeOK, SaveInProgress, Available, Cache
<1>2. None \notin Payloads /\ Garbage \notin Payloads
  BY PayloadsAssumption, GarbageAssumption
<1>3. cache.payload # None
  BY <1>1, <1>2
<1>0. pc # "down"
  BY DEF Saving
<1>4. CASE disk'.file = disk.file
  BY <1>0, <1>4 DEF Promise!vars
<1>5. CASE disk'.file \in {None, Garbage}
  <2>1. Promise!Lose
    BY <1>0, <1>2, <1>3, <1>5 DEF Promise!Lose
  <2> QED
    BY <2>1 DEF Promise!Next
<1>6. CASE disk'.file = cache.payload
  <2>1. Promise!Save
    BY <1>0, <1>1, <1>3, <1>6 DEF Promise!Save
  <2> QED
    BY <2>1 DEF Promise!Next
<1> QED
  BY <1>4, <1>5, <1>6

LEMMA RefinesStep == Inv /\ [Next]_vars => [Promise!Next]_(Promise!vars)
<1> SUFFICES ASSUME Inv, [Next]_vars
             PROVE  [Promise!Next]_(Promise!vars)
  OBVIOUS
<1>1. CASE UNCHANGED vars
  BY <1>1 DEF vars, Promise!vars
<1>2. CASE Refresh
  <2>1. PICK content \in Payloads \cup {Garbage} :
          cache' = Accepted(cache, content, FALSE)
    BY <1>2 DEF Refresh
  <2>2. disk' = disk /\ pc # "down" /\ pc' # "down"
    BY <1>2 DEF Refresh
  <2>3. CASE content \in Payloads
    <3>1. cache'.payload \in Payloads
      BY <2>1, <2>3 DEF Accepted
    <3>2. Promise!Accept
      BY <2>2, <3>1 DEF Promise!Accept
    <3> QED
      BY <3>2 DEF Promise!Next
  <2>4. CASE content \notin Payloads
    <3>1. cache'.payload = cache.payload
      BY <2>1, <2>4 DEF Accepted, Failed, Inv, TypeOK, Cache
    <3> QED
      BY <2>2, <3>1 DEF Promise!vars
  <2> QED
    BY <2>3, <2>4
<1>3. CASE OpenTemporary \/ WriteTemporary \/ RemoveOld \/ Rename \/ Copy \/ Tidy
  <2>1. pc \in Saving
    BY <1>3 DEF OpenTemporary, WriteTemporary, RemoveOld, Rename, Copy, Tidy, Saving
  <2>2. cache'.payload = cache.payload
    <3> cache \in Cache
      BY DEF Inv, TypeOK
    <3>1. cache' \in {cache, WriteFailed(cache), WasPersisted(cache)}
      BY <1>3 DEF OpenTemporary, WriteTemporary, RemoveOld, Rename, Copy, Tidy, GiveUp, Done
    <3> QED
      BY <3>1 DEF WriteFailed, WasPersisted, Cache
  <2>3. disk'.file = disk.file \/ disk'.file \in {None, Garbage, cache.payload}
    <3> disk \in [file: Content, tmp: Content]
      BY DEF Inv, TypeOK
    <3>1. CASE OpenTemporary \/ WriteTemporary \/ RemoveOld \/ Tidy
      BY <3>1 DEF OpenTemporary, WriteTemporary, RemoveOld, Tidy
    <3>2. CASE Rename \/ Copy
      <4>1. disk.tmp = cache.payload
        BY <3>2 DEF Rename, Copy, Inv, SaveInProgress
      <4> QED
        BY <3>2, <4>1 DEF Rename, Copy
    <3> QED
      BY <1>3, <3>1, <3>2
  <2>4. pc' # "down"
    BY <1>3 DEF OpenTemporary, WriteTemporary, RemoveOld, Rename, Copy, Tidy, GiveUp, Done
  <2> QED
    BY <2>1, <2>2, <2>3, <2>4, SaveRefines
<1>4. CASE Clear
  <2>1. cache'.payload = None /\ (disk'.file = disk.file \/ disk'.file = None)
    BY <1>4 DEF Clear, EmptyCache, Inv, TypeOK
  <2>2. pc # "down" /\ pc' # "down"
    BY <1>4 DEF Clear
  <2>3. Promise!Clear
    BY <1>4, <2>1, <2>2, PayloadsAssumption DEF Clear, Promise!Clear
  <2> QED
    BY <2>3 DEF Promise!Next
<1>5. CASE Crash
  <2>1. Promise!Crash
    BY <1>5 DEF Crash, EmptyCache, Promise!Crash
  <2> QED
    BY <2>1 DEF Promise!Next
<1>6. CASE Restart
  <2>1. disk' = disk
    BY <1>6 DEF Restart
  <2>2. pc = "down" /\ pc' # "down"
    BY <1>6 DEF Restart
  <2>3. cache'.payload = SavedCopy
    BY <1>6, PayloadsAssumption DEF Restart, Accepted, Failed, EmptyCache, SavedCopy
  <2>4. Promise!Restart
    BY <2>1, <2>2, <2>3 DEF Promise!Restart, SavedCopy
  <2> QED
    BY <2>4 DEF Promise!Next
<1> QED
  BY <1>1, <1>2, <1>3, <1>4, <1>5, <1>6 DEF Next

(* persistLastGood, acceptPayload and markRefreshFailure together keep the *)
(* promise of LastKnownGood under every failure and crash.                 *)
THEOREM Refinement == Spec => KeepsLastKnownGood
<1>1. Init => Promise!Init
  BY RefinesInit
<1>2. Inv /\ [Next]_vars => [Promise!Next]_(Promise!vars)
  BY RefinesStep
<1> QED
  BY <1>1, <1>2, Invariance, PTL DEF Spec, KeepsLastKnownGood, Promise!Spec
==============================================================================
