---------------------------- MODULE MCPublicFlight ---------------------------
(***************************************************************************)
(* A small instance of PublicFlight.  One document of states has a row     *)
(* that is not well-formed, one without a position, an aircraft twice at   *)
(* one moment and a row beyond the limit; one document of tracks has a bad *)
(* row.  The synthetic aircraft has no contact time.  One provider knows   *)
(* the aircraft, twice, the other one its call sign, twice.                *)
(***************************************************************************)
EXTENDS PublicFlight

Row(icao, callsign, at, contact) ==
  [ icao |-> icao, callsign |-> callsign, whole |-> TRUE, placed |-> TRUE, at |-> at,
    contact |-> contact, filled |-> {}, metadata |-> "none", route |-> "none" ]

BadRow == [Row("", "", 0, 0) EXCEPT !.whole = FALSE]

States ==
  [ format |-> "states",
    rows |-> << Row("a1", "c1", 1, 1), BadRow, [Row("a1", "c1", 3, 1) EXCEPT !.placed = FALSE],
                Row("a1", "c1", 2, 1), Row("a2", "c1", 1, 2) >> ]

BadTracks == [format |-> "tracks", rows |-> <<Row("a1", "c1", 1, 1), BadRow>>]

SomeFeeds == {States, BadTracks}

OneDemo ==
  << [ icao |-> "a1", callsign |-> "c1", at |-> 0, contact |-> 0,
       fields |-> [f \in Fields |-> "demo"], metadata |-> "demo", route |-> "demo" ] >>

Record(icao, callsign, filled) == [icao |-> icao, callsign |-> callsign, filled |-> filled]

FullProvider ==
  [ provider |-> "full",
    records |-> <<Record("a1", "", Fields), Record("a1", "", {"registration"})>> ]
PlateProvider ==
  [ provider |-> "plates",
    records |-> <<Record("", "c1", {"registration"}), Record("a2", "c1", {"flight"})>> ]

TwoProviders == {FullProvider, PlateProvider}
==============================================================================
