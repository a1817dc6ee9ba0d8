---------------------------- MODULE LastKnownGood ----------------------------
(***************************************************************************)
(* What a last-known-good cache promises.  While the process is up, the    *)
(* active payload changes only to one that was accepted: a refused refresh *)
(* or a failed save never takes it away.  The saved copy changes only to   *)
(* the active payload, and can be lost only while an active payload is at  *)
(* hand to replace it.  A process that starts serves exactly what was saved. *)
(***************************************************************************)
CONSTANTS Payloads, None, CanClear

VARIABLES active, saved, up

vars == <<active, saved, up>>

Init == active = None /\ saved = None /\ up = TRUE

Accept == up /\ up' /\ active' \in Payloads /\ UNCHANGED saved

Save == up /\ up' /\ active # None /\ saved' = active /\ UNCHANGED active

Lose == up /\ up' /\ active # None /\ saved' = None /\ UNCHANGED active

Clear == CanClear /\ up /\ up' /\ active' = None /\ saved' \in {saved, None}

Crash == up /\ ~up' /\ active' = None /\ UNCHANGED saved

Restart == ~up /\ up' /\ active' = saved /\ UNCHANGED saved

Next == Accept \/ Save \/ Lose \/ Clear \/ Crash \/ Restart

Spec == Init /\ [][Next]_vars
==============================================================================
