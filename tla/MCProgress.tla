----------------------------- MODULE MCProgress -----------------------------
(* Instances of Progress for TLC. *)
EXTENDS Progress, TLC

Alike == Permutations(Seats) \cup Permutations(Beacons)
=============================================================================
