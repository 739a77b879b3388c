---------------------------- MODULE MCOciPublish ----------------------------
(* Instances of OciPublish for TLC: two versions of a content that have a layer in common. *)
EXTENDS OciPublish, TLC

CONSTANTS one, two, config1, config2, layer

TwoVersions == one :> {config1, layer} @@ two :> {config2, layer}
OwnConfigs == one :> config1 @@ two :> config2
Alike == Permutations(Artifacts) \cup Permutations(Publishers)
=============================================================================
