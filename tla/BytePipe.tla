----------------------------- MODULE BytePipe -----------------------------
(***************************************************************************)
(* What dvb_stream promises its consumer: the captured bytes, in order,    *)
(* none lost, none repeated, never more than the capacity in between.      *)
(* Bytes are numbered as they are captured, modulo K.                      *)
(***************************************************************************)
EXTENDS Integers, Sequences

CONSTANTS
  Cap,  \* how many bytes the pipe holds
  K     \* modulus of the numbering, larger than what is ever under way

VARIABLES
  q,    \* the bytes in the pipe, oldest first
  next, \* the number of the byte that goes in next
  got   \* the bytes the consumer received last

vars == <<q, next, got>>

\* n consecutive bytes starting with number b.
Run(b, n) == [i \in 1..n |-> (b + i - 1) % K]

Init == q = <<>> /\ next = 0 /\ got = <<>>

Put(n) ==
  /\ Len(q) + n <= Cap
  /\ q' = q \o Run(next, n)
  /\ next' = (next + n) % K
  /\ UNCHANGED got

Get(n) ==
  /\ n <= Len(q)
  /\ got' = SubSeq(q, 1, n)
  /\ q' = SubSeq(q, n + 1, Len(q))
  /\ UNCHANGED next

\* A new stream starts from an empty pipe.
Open == q' = <<>> /\ next' = 0 /\ got' = <<>>

Next == Open \/ \E n \in 1..Cap : Put(n) \/ Get(n)

Spec == Init /\ [][Next]_vars
=============================================================================
