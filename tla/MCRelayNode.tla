---------------------------- MODULE MCRelayNode ----------------------------
(* Instances of RelayNode for TLC.  Peers differ in nothing but their key.   *)
EXTENDS RelayNode, TLC

KeySymmetry == Permutations(Keys)

=============================================================================
