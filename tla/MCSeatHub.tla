------------------------------ MODULE MCSeatHub ------------------------------
(* Instances of SeatHub for TLC.  Usernames are model values; handles too. *)
EXTENDS SeatHub, TLC

CONSTANTS ann, bob, blank, a1, a2, b1, u1, null

\* Ann is an admin; nobody's handles are another's.
ApartCands == ann :> <<a1, a2>> @@ bob :> <<b1>> @@ blank :> <<u1>>
\* "ann" and "ann-": one base handle for both.
SharedCands == ann :> <<a1, a2>> @@ bob :> <<a1, a2>> @@ blank :> <<u1>>

AnnSeated == a1 :> ann
BothSeated == a1 :> ann @@ b1 :> bob
SharedSeated == a1 :> ann @@ a2 :> bob

Symmetry == Permutations(Threads) \cup Permutations(Pods)
==============================================================================
