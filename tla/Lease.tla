------------------------------- MODULE Lease -------------------------------
(* What the tuner pool promises its users, whoever they are and however they *)
(* pick a slot: a slot has at most one owner, a user owns at most one slot,  *)
(* and a slot changes hands only through being free.                         *)
CONSTANTS
  Slots,  \* the tuners of the pool
  Users,  \* whoever may claim one
  None    \* no owner

VARIABLE owner

Init == owner = [s \in Slots |-> None]

Acquire(u, s) ==
  /\ owner[s] = None
  /\ \A r \in Slots : owner[r] # u
  /\ owner' = [owner EXCEPT ![s] = u]

Release(u, s) ==
  /\ owner[s] = u
  /\ owner' = [owner EXCEPT ![s] = None]

Next == \E u \in Users, s \in Slots : Acquire(u, s) \/ Release(u, s)

Spec == Init /\ [][Next]_owner
=============================================================================
