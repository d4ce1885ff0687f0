----------------------------- MODULE MCUdpPush -----------------------------
(* Instances of UdpPush for TLC. *)
EXTENDS UdpPush, TLC

CONSTANTS c1, m1

MCFreqOf == (c1 :> m1)

\* Connections and push threads are interchangeable.
Symmetry == Permutations(Conns) \cup Permutations(Pushes)
=============================================================================
