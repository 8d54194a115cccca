-------------------------- MODULE MCRuntimeBridge --------------------------
(* Instances of the bridge: see the cfg files for their sizes. *)
EXTENDS RuntimeBridge
=============================================================================
