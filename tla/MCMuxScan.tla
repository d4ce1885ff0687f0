----------------------------- MODULE MCMuxScan -----------------------------
(* Instances of MuxScan for TLC. *)
EXTENDS MuxScan, TLC

CONSTANTS m1, m2

Stream(t, p) == [type |-> t, pid |-> p]
Entry(k, n, h) == [key |-> k, program |-> n, hidden |-> h]

(* Two muxes that share program numbers.  m1's table has two sections, one   *)
(* entry is hidden and one program has no video; m2's PAT and table have     *)
(* more entries than there is room for.                                      *)
MCAir ==
  (m1 :> [pat |-> <<[program |-> 0, pid |-> 16], [program |-> 3, pid |-> 48],
                    [program |-> 4, pid |-> 64]>>,
          pmt |-> (3 :> <<Stream("mpeg2", 49), Stream("ac3", 52), Stream("ac3", 53)>>)
                  @@ (4 :> <<Stream("aac", 68)>>),
          vct |-> <<<<Entry(<<2, 1>>, 3, FALSE)>>,
                    <<Entry(<<2, 2>>, 4, TRUE)>>>>])
  @@
  (m2 :> [pat |-> <<[program |-> 3, pid |-> 80], [program |-> 4, pid |-> 48],
                    [program |-> 5, pid |-> 96]>>,
          pmt |-> (3 :> <<Stream("other", 7), Stream("h264", 81)>>)
                  @@ (4 :> <<Stream("mpeg2", 50), Stream("ac3", 51)>>)
                  @@ (5 :> <<>>),
          vct |-> <<<<Entry(<<7, 1>>, 3, FALSE), Entry(<<7, 2>>, 4, FALSE)>>,
                    <<Entry(<<7, 3>>, 5, FALSE), Entry(<<7, 4>>, 3, FALSE)>>>>])

\* The numbers at and next to the ends of every range, and two frequencies, one
\* of them of no plan; the proofs cover the numbers between.
MCNumbers ==
  UNION {{r[k] - 1, r[k], r[k] + 1} : r \in UNION {Range(maps[m]) : m \in DOMAIN maps},
                                      k \in {1, 2}}
    \cup {57000000, 60000000}
=============================================================================
