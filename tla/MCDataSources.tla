----------------------------- MODULE MCDataSources -----------------------------
(***************************************************************************)
(* A small instance of DataSources.  The METARs, one for every clock       *)
(* reading, have a bad row and a station twice; of the licensed documents  *)
(* one has more rows than are kept and rows with times of their own, one   *)
(* has runways only, one does not name its license and one has no row that *)
(* can be used.                                                            *)
(***************************************************************************)
EXTENDS DataSources

Row(icao) == [icao |-> icao, usable |-> TRUE, cached |-> 0, expires |-> 0]
BadRow == [icao |-> "", usable |-> FALSE, cached |-> 0, expires |-> 0]
DatedRow(icao) == [icao |-> icao, usable |-> TRUE, cached |-> 1, expires |-> 2]

Metar(t) ==
  [ kind |-> "public", provenance |-> FALSE, at |-> t,
    weather |-> <<BadRow, Row("HECA"), Row("HECA")>>, runways |-> <<>> ]

Licensed(provenance, t, weather, runways) ==
  [ kind |-> "licensed", provenance |-> provenance, at |-> t,
    weather |-> weather, runways |-> runways ]

SomeDocuments ==
  {Metar(t) : t \in 1..MaxNow}
    \cup
  { [Metar(1) EXCEPT !.weather = <<BadRow>>],
    Licensed(TRUE, 1, <<DatedRow("HEGN"), BadRow, Row("HECA"), Row("HESH")>>, <<Row("HECA")>>),
    Licensed(TRUE, 0, <<BadRow>>, <<Row("HECA"), BadRow>>),
    Licensed(FALSE, 1, <<Row("HECA")>>, <<>>),
    Licensed(TRUE, 1, <<BadRow>>, <<BadRow>>) }

SomePayloads == {d \in SomeDocuments : Parses(d.kind, d)}

(* Replays: one that is acceptable, and one for each thing that can be     *)
(* wrong, most with rows of its own.                                       *)
Track(level) == [identified |-> TRUE, inRange |-> TRUE, level |-> level]
Replay ==
  [ schema |-> TRUE, source |-> TRUE, mode |-> "awareness-only", topKeys |-> {}, deepKeys |-> {},
    tracks |-> <<Track("Critical"), Track("None")>>, incidents |-> <<[identified |-> TRUE]>>,
    high |-> 0, observations |-> 0 - 1 ]

SomeReplays ==
  { Replay,
    [Replay EXCEPT !.schema = FALSE, !.tracks = <<Track("High")>>],
    [Replay EXCEPT !.source = FALSE, !.tracks = <<Track("High")>>],
    [Replay EXCEPT !.mode = "live"],
    [Replay EXCEPT !.topKeys = {"engagement"}, !.incidents = <<>>],
    [Replay EXCEPT !.deepKeys = {"engagement"}, !.tracks = <<Track("None")>>],
    [Replay EXCEPT !.tracks = <<Track("High"), [Track("None") EXCEPT !.identified = FALSE]>>],
    [Replay EXCEPT !.tracks = <<[Track("None") EXCEPT !.inRange = FALSE]>>],
    [Replay EXCEPT !.incidents = <<[identified |-> TRUE], [identified |-> FALSE]>>] }

SomeForbidden == {"engagement"}
==============================================================================
