------------------------------ MODULE MCTuner ------------------------------
(* Instances of Tuner for TLC. *)
EXTENDS Tuner, TLC

CONSTANTS c1, c2, m1, m2

MCFreqOf == (c1 :> m1) @@ (c2 :> m2)
MCFreqOf1 == (c1 :> m1)

\* The two muxes of MCFreqOf, each with its channel, exchanged.
SwapMuxes == (c1 :> c2) @@ (c2 :> c1) @@ (m1 :> m2) @@ (m2 :> m1)

\* Threads, timers and descriptors are interchangeable, and so are the muxes.
Symmetry ==
  Permutations(Proc) \cup Permutations(Timers) \cup Permutations(Fds)
    \cup {SwapMuxes}
=============================================================================
