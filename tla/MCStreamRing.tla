---------------------------- MODULE MCStreamRing ----------------------------
(* Instances of StreamRing for TLC. *)
EXTENDS StreamRing
=============================================================================
