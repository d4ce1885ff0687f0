---------------------------- MODULE MCChannelDb ----------------------------
(* A small instance of ChannelDb: a broadcast mux with three channels, one  *)
(* of them hidden, and a cable mux that repeats one of the numbers and has  *)
(* a second program without a table entry.                                  *)
EXTENDS ChannelDb, TLC

CONSTANTS A, B, R, f1, f2, s1, s2

MCKeys == {A, B, R}
MCMuxes == {f1, f2}
MCPrograms == {1, 2}
MCPat == (f1 :> {1, 2}) @@ (f2 :> {1, 2})
MCEntry(k, n, h) == [key |-> k, program |-> n, hidden |-> h]
MCVct == (f1 :> <<MCEntry(A, 1, FALSE), MCEntry(R, 2, TRUE), MCEntry(B, 2, FALSE)>>)
      @@ (f2 :> <<MCEntry(A, 1, FALSE)>>)
Symmetry == Permutations({s1, s2})
MCQam == {f2}
MCRawKey == (f1 :> (1 :> R @@ 2 :> R)) @@ (f2 :> (1 :> A @@ 2 :> R))
=============================================================================
