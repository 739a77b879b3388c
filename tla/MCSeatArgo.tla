----------------------------- MODULE MCSeatArgo -----------------------------
(* Instances of SeatArgo for TLC.  Ann publishes; Bob's Jobs change the lists beside hers. *)
EXTENDS SeatArgo, TLC

CONSTANTS ann, bob, agent, service

AnnPublishes == ann :> {agent, service} @@ bob :> {}
=============================================================================
