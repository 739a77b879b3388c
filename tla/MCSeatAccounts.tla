--------------------------- MODULE MCSeatAccounts ---------------------------
(* Instances of SeatAccounts for TLC: the names that are compared only are symmetric. *)
EXTENDS SeatAccounts, TLC

Names == Permutations(Uids) \cup Permutations(Toks) \cup Permutations(Keys) \cup Permutations(Subs) \cup Permutations(Doors)
=============================================================================
