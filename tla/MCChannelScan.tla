--------------------------- MODULE MCChannelScan ---------------------------
(* Instances of ChannelScan for TLC. *)
EXTENDS ChannelScan, TLC

CONSTANTS bcast, cable, vsb, qam

MCMapOf == (bcast :> vsb) @@ (cable :> qam)
MCMapOf1 == (bcast :> vsb)

Symmetry == Permutations(Conns) \cup Permutations(Freqs)
=============================================================================
