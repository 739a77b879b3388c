------------------------------ MODULE MCCalmHub ------------------------------
(* The instances of MCSeatHub, with CalmHub's specification. *)
EXTENDS MCSeatHub, CalmHub
==============================================================================
