---------------------------- MODULE AirOperations ----------------------------
(***************************************************************************)
(* The air-operations picture of the Qt bridge: a demo, or a replay that   *)
(* was imported from a file of another system.  An import is parsed into a *)
(* snapshot of its own, and takes the place of the old one only when all   *)
(* of it is good.                                                          *)
(*                                                                         *)
(* A document is what the JSON parser returns; Garbage stands for a file   *)
(* that cannot be read, is no JSON, or has a field of a wrong type.  The   *)
(* keys of a document are those at its top and those anywhere below.  A    *)
(* track is its threat level and whether its identifier, coordinates and   *)
(* confidence are good; an incident is whether its identifiers are there.  *)
(***************************************************************************)
EXTENDS Integers, Sequences

CONSTANTS
  Documents,     \* documents that can be imported
  Garbage,       \* any other content of a file
  Forbidden,     \* keys that name an active control
  Modulus        \* values of an unsigned count  (source: 2^64)

VARIABLES
  airOperations, \* airOperations_: the snapshot on the page
  status         \* airOperationsStatus_

vars == <<airOperations, status>>

------------------------------------------------------------------------------
(* The keys of an object and of all it contains.                           *)
Keys(document) == document.topKeys \cup document.deepKeys

ForbidsTopOnly(document) == document.topKeys \cap Forbidden # {}

(* containsForbiddenKey, for validatePayloadSafety.                        *)
ContainsForbiddenKey(document) == Keys(document) \cap Forbidden # {}

GoodTrack(track) == track.identified /\ track.inRange
GoodIncident(incident) == incident.identified

AcceptableInPart(document) ==
  /\ document.schema /\ document.source
  /\ document.mode \in {"simulation-replay", "awareness-only"}

(* What parse demands of a document; it throws at the first thing wrong.   *)
Acceptable(document) ==
  /\ document.schema /\ document.source
  /\ document.mode \in {"simulation-replay", "awareness-only"}
  /\ \A i \in DOMAIN document.tracks : GoodTrack(document.tracks[i])
  /\ \A i \in DOMAIN document.incidents : GoodIncident(document.incidents[i])

IsHigh(track) == track.level \in {"High", "Critical"}

(* The summary is counted from the rows, but for the observations: those   *)
(* are the document's own number, read as an unsigned one.                 *)
SummaryAsDeclared(document) ==
  [ trackCount |-> Len(document.tracks), incidentCount |-> Len(document.incidents),
    highOrAboveCount |-> document.high,
    observations |-> document.observations % Modulus ]

Summary(document) ==
  [ trackCount |-> Len(document.tracks), incidentCount |-> Len(document.incidents),
    highOrAboveCount |-> Len(SelectSeq(document.tracks, IsHigh)),
    observations |-> document.observations % Modulus ]

(* parse: the snapshot of a document.                                      *)
Parse(document) ==
  [ mode |-> document.mode, tracks |-> document.tracks, incidents |-> document.incidents,
    summary |-> Summary(document) ]

Demo ==
  [ schema |-> TRUE, source |-> TRUE, mode |-> "simulation-replay",
    topKeys |-> {}, deepKeys |-> {},
    tracks |-> << [identified |-> TRUE, inRange |-> TRUE, level |-> "High"],
                  [identified |-> TRUE, inRange |-> TRUE, level |-> "None"],
                  [identified |-> TRUE, inRange |-> TRUE, level |-> "Low"] >>,
    incidents |-> << [identified |-> TRUE] >>, high |-> 1, observations |-> 48 ]

------------------------------------------------------------------------------
Init == airOperations = Parse(Demo) /\ status = "demo"

(* A document that is refused leaves the page as it was.                   *)
Reject == status' = "rejected" /\ UNCHANGED airOperations

LoadAirOperationsReplay(content) ==
  IF /\ content # Garbage
     /\ ~ContainsForbiddenKey(content)
     /\ Acceptable(content)
  THEN airOperations' = Parse(content) /\ status' = "imported"
  ELSE Reject

ResetAirOperationsDemo ==
  airOperations' = Parse(Demo) /\ status' = "demo"

Next ==
  \/ \E content \in Documents \cup {Garbage} : LoadAirOperationsReplay(content)
  \/ ResetAirOperationsDemo

Spec == Init /\ [][Next]_vars

------------------------------------------------------------------------------
(* The page shows every row of one document that names no active control  *)
(* anywhere in it, none skipped and none left over from another; all rows  *)
(* are good, and the numbers above the rows are those of the rows.         *)
OneWholeDocumentIsShown ==
  \E document \in Documents \cup {Demo} :
    /\ status = "demo" => document = Demo
    /\ Keys(document) \cap Forbidden = {}
    /\ airOperations.tracks = document.tracks
    /\ airOperations.incidents = document.incidents
    /\ airOperations.mode = document.mode
    /\ \A i \in DOMAIN airOperations.tracks : GoodTrack(airOperations.tracks[i])
    /\ \A i \in DOMAIN airOperations.incidents : GoodIncident(airOperations.incidents[i])
    /\ airOperations.summary.trackCount = Len(airOperations.tracks)
    /\ airOperations.summary.highOrAboveCount =
         Len(SelectSeq(airOperations.tracks, IsHigh))
==============================================================================
