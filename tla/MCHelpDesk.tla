----------------------------- MODULE MCHelpDesk -----------------------------
(* Instances of HelpDesk for TLC. *)
EXTENDS HelpDesk, TLC

CONSTANTS ann, bob, cyd, annSeat, bobSeat, noseat

BothSeated == ann :> annSeat @@ bob :> bobSeat
\* bob and cyd have no seat.
OneSeated == ann :> annSeat @@ bob :> noseat @@ cyd :> noseat

Symmetry == Permutations(Chats) \cup Permutations(Ends)
=============================================================================
