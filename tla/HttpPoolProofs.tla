--------------------------- MODULE HttpPoolProofs ---------------------------
(* Proofs about HttpPool, for any number of tuners, connections, clients and *)
(* other users.                                                              *)
EXTENDS HttpPool, TLAPS

USE HttpPoolAssumption

\* The steps of a connection thread and of the others, one by one.
LEMMA NextCases ==
  ASSUME [Next]_vars
  PROVE  \/ \E c \in Conns, p \in Peers \cup {None}, r \in Tuners \cup {AnyTuner} :
              Request(c, p, r)
         \/ /\ Observe
            /\ \/ \E c \in Conns :
                    \/ Look(c) \/ ClaimAwaited(c) \/ WaitTimeout(c) \/ Sweep(c)
                    \/ Take(c) \/ Refused(c) \/ NotePeer(c) \/ OpenStream(c)
                    \/ EndStream(c) \/ Detach(c) \/ Free(c)
               \/ \E u \in Others : OtherFree(u) \/ \E t \in Tuners : OtherClaim(u, t)
         \/ UNCHANGED vars
  BY DEF Next, Step, Observed

\* The initial state.
LEMMA InitInv == Init => IInv
<1> SUFFICES ASSUME Init PROVE IInv
  OBVIOUS
<1>1. TypeOK
  BY DEF Init, TypeOK, Tuners, Users, Points, AnyTuner
<1>2. HoldInv /\ NotedInv /\ FieldsAreOwners
  BY DEF Init, HoldInv, NotedInv, FieldsAreOwners, Owning, Tuners, Users
<1>3. SweepInv /\ RefusedOnlyWhenBusy /\ LookInv
  BY DEF Init, SweepInv, RefusedOnlyWhenBusy, LookInv
<1> QED
  BY <1>1, <1>2, <1>3 DEF IInv

\* Where the loops over the tuners start and go on.
LEMMA LoopIndex ==
  0 \in Tuners /\ \A k \in Tuners : k + 1 < N => k + 1 \in Tuners
  BY DEF Tuners

\* The type invariant: the loops stay inside the pool, and only tuners that were
\* claimed are written to.
LEMMA TypeStep == IInv /\ [Next]_vars => TypeOK'
<1> SUFFICES ASSUME IInv, [Next]_vars PROVE TypeOK'
  OBVIOUS
<1> USE DEF IInv, TypeOK
<1>a. ASSUME Observe
      PROVE  /\ free_since' \in [Conns -> SUBSET Tuners]
             /\ own_since' \in [Conns -> SUBSET Tuners]
  BY <1>a DEF Observe, FreeTuners, Serving
<1>1. ASSUME NEW c \in Conns, NEW p \in Peers \cup {None},
             NEW r \in Tuners \cup {AnyTuner}, Request(c, p, r)
      PROVE  TypeOK'
  BY <1>1 DEF Request, slots, Points, FreeTuners, Serving, Tuners, AnyTuner
<1>2. ASSUME NEW c \in Conns, Observe, Look(c) PROVE TypeOK'
  BY <1>2, <1>a, LoopIndex DEF Look, NextTuner, slots, Points
<1>3. ASSUME NEW c \in Conns, Observe, ClaimAwaited(c) PROVE TypeOK'
  BY <1>3, <1>a DEF ClaimAwaited, Claim, Points, Users
<1>4. ASSUME NEW c \in Conns, Observe, WaitTimeout(c) PROVE TypeOK'
  BY <1>4, <1>a, LoopIndex DEF WaitTimeout, slots, Points
<1>5. ASSUME NEW c \in Conns, Observe, Sweep(c) PROVE TypeOK'
  <2>1. CASE Claim(c, i[c]) /\ pc' = [pc EXCEPT ![c] = "note"] /\ UNCHANGED i
    BY <1>5, <1>a, <2>1 DEF Sweep, Claim, Points, Users
  <2>2. CASE NextTuner(c, "refused") /\ UNCHANGED <<busy, slot>>
    BY <1>5, <1>a, <2>2, LoopIndex DEF Sweep, NextTuner, Points
  <2> QED
    BY <1>5, <2>1, <2>2 DEF Sweep
<1>6. ASSUME NEW c \in Conns, Observe, Take(c) PROVE TypeOK'
  <2>1. CASE ~busy[request[c]]
    <3>1. request[c] \in Tuners
      BY <1>6, <2>1 DEF Take, SweepInv
    <3> QED
      BY <1>6, <1>a, <2>1, <3>1 DEF Take, Claim, Points, Users
  <2>2. CASE busy[request[c]]
    BY <1>6, <1>a, <2>2 DEF Take, Claim, Points, Users
  <2> QED
    BY <2>1, <2>2
<1>7. ASSUME NEW c \in Conns, Observe, Refused(c) PROVE TypeOK'
  BY <1>7, <1>a, LoopIndex DEF Refused, Ended, slots, Points
<1>8. ASSUME NEW c \in Conns, Observe, NotePeer(c) PROVE TypeOK'
  BY <1>8, <1>a DEF NotePeer, Points
<1>9. ASSUME NEW c \in Conns, Observe, OpenStream(c) PROVE TypeOK'
  BY <1>9, <1>a DEF OpenStream, Points
<1>10. ASSUME NEW c \in Conns, Observe, EndStream(c) PROVE TypeOK'
  BY <1>10, <1>a DEF EndStream, slots, Points
<1>11. ASSUME NEW c \in Conns, Observe, Detach(c) PROVE TypeOK'
  BY <1>11, <1>a DEF Detach, Points
<1>12. ASSUME NEW c \in Conns, Observe, Free(c) PROVE TypeOK'
  BY <1>12, <1>a, LoopIndex DEF Free, FreeSlot, Ended, Points, Users
<1>13. ASSUME NEW u \in Others, Observe, OtherFree(u) PROVE TypeOK'
  BY <1>13, <1>a DEF OtherFree, FreeSlot, Users
<1>14. ASSUME NEW u \in Others, NEW t \in Tuners, Observe, OtherClaim(u, t)
       PROVE  TypeOK'
  BY <1>14, <1>a DEF OtherClaim, Claim, Users
<1>15. CASE UNCHANGED vars
  BY <1>15 DEF vars
<1> QED
  BY NextCases, <1>1, <1>2, <1>3, <1>4, <1>5, <1>6, <1>7, <1>8, <1>9, <1>10,
     <1>11, <1>12, <1>13, <1>14, <1>15

\* busy is the claim of one user.
OneOwner ==
  /\ \A u, v \in Users : slot[u] = slot[v] /\ slot[u] # None => u = v
  /\ \A t \in Tuners : busy[t] <=> \E u \in Users : slot[u] = t

\* A claim keeps it so: nobody had the tuner.
LEMMA ClaimOwns ==
  ASSUME TypeOK, OneOwner, NEW u \in Users, NEW t \in Tuners, slot[u] = None,
         Claim(u, t)
  PROVE  OneOwner'
<1>0. slot \in [Users -> Tuners \cup {None}] /\ busy \in [Tuners -> BOOLEAN]
  BY DEF TypeOK
<1>1. \A v \in Users : slot[v] # t
  BY DEF OneOwner, Claim
<1>2. \A v \in Users : slot'[v] = IF v = u THEN t ELSE slot[v]
  BY <1>0 DEF Claim
<1>3. \A s \in Tuners : busy'[s] <=> s = t \/ busy[s]
  BY <1>0 DEF Claim
<1>5. ASSUME NEW s \in Tuners PROVE busy'[s] <=> \E v \in Users : slot'[v] = s
  <2>1. busy[s] <=> \E v \in Users : slot[v] = s
    BY DEF OneOwner
  <2>2. CASE s = t
    <3>1. slot'[u] = s
      BY <1>2, <2>2
    <3>2. busy'[s]
      BY <1>3, <2>2
    <3> QED
      BY <3>1, <3>2
  <2>3. CASE s # t
    <3>1. s # None
      BY DEF Tuners
    <3> QED
      BY <1>1, <1>2, <1>3, <2>1, <2>3, <3>1
  <2> QED
    BY <2>2, <2>3
<1>6. ASSUME NEW v \in Users, NEW w \in Users, slot'[v] = slot'[w], slot'[v] # None
      PROVE  v = w
  BY <1>1, <1>2, <1>6 DEF OneOwner
<1> QED
  BY <1>5, <1>6 DEF OneOwner

\* So does a release: the tuner had no other user.
LEMMA FreeOwns ==
  ASSUME TypeOK, OneOwner, NEW u \in Users, slot[u] # None,
         FreeSlot(slot[u]), slot' = [slot EXCEPT ![u] = None]
  PROVE  OneOwner'
<1>0. slot \in [Users -> Tuners \cup {None}] /\ busy \in [Tuners -> BOOLEAN]
  BY DEF TypeOK
<1>1. slot[u] \in Tuners
  BY <1>0
<1>2. \A v \in Users : slot'[v] = IF v = u THEN None ELSE slot[v]
  BY <1>0
<1>3. \A s \in Tuners : busy'[s] <=> s # slot[u] /\ busy[s]
  BY <1>0, <1>1 DEF FreeSlot
<1>4. \A s \in Tuners : s # None
  BY DEF Tuners
<1>5. ASSUME NEW s \in Tuners PROVE busy'[s] <=> \E v \in Users : slot'[v] = s
  <2>0. busy[s] <=> \E v \in Users : slot[v] = s
    BY DEF OneOwner
  <2>1. CASE s = slot[u]
    BY <2>1, <1>1, <1>2, <1>3, <1>4 DEF OneOwner
  <2>2. CASE s # slot[u]
    BY <2>0, <2>2, <1>2, <1>3, <1>4
  <2> QED
    BY <2>1, <2>2
<1>6. ASSUME NEW v \in Users, NEW w \in Users, slot'[v] = slot'[w], slot'[v] # None
      PROVE  v = w
  BY <1>2, <1>6 DEF OneOwner
<1> QED
  BY <1>5, <1>6 DEF OneOwner

\* busy stays the claim of one user at a time, who has it exactly between claim
\* and release.
LEMMA HoldStep == IInv /\ [Next]_vars => HoldInv'
<1> SUFFICES ASSUME IInv, [Next]_vars PROVE HoldInv'
  OBVIOUS
<1> USE DEF IInv, TypeOK, HoldInv, Owning
<1>a. ASSUME NEW c \in Conns, NEW t \in Tuners, Claim(c, t), pc[c] \notin Owning,
             pc' = [pc EXCEPT ![c] = "note"]
      PROVE  HoldInv'
  <2>1. OneOwner'
    BY <1>a, ClaimOwns DEF OneOwner, Users
  <2>2. \A d \in Conns : slot'[d] # None <=> pc'[d] \in Owning
    BY <1>a DEF Claim, Users, Tuners
  <2> QED
    BY <2>1, <2>2 DEF OneOwner
<1>b. ASSUME NEW c \in Conns, UNCHANGED <<busy, slot>>,
             pc' = [pc EXCEPT ![c] = pc'[c]], pc[c] \in Owning <=> pc'[c] \in Owning
      PROVE  HoldInv'
  BY <1>b DEF Users
<1>1. ASSUME NEW c \in Conns, NEW p \in Peers \cup {None},
             NEW r \in Tuners \cup {AnyTuner}, Request(c, p, r)
      PROVE  HoldInv'
  BY <1>1, <1>b DEF Request, slots
<1>2. ASSUME NEW c \in Conns, Look(c) PROVE HoldInv'
  BY <1>2, <1>b DEF Look, NextTuner, slots
<1>3. ASSUME NEW c \in Conns, ClaimAwaited(c) PROVE HoldInv'
  BY <1>3, <1>a DEF ClaimAwaited
<1>4. ASSUME NEW c \in Conns, WaitTimeout(c) PROVE HoldInv'
  BY <1>4, <1>b DEF WaitTimeout, slots
<1>5. ASSUME NEW c \in Conns, Sweep(c) PROVE HoldInv'
  BY <1>5, <1>a, <1>b DEF Sweep, NextTuner
<1>6. ASSUME NEW c \in Conns, Take(c) PROVE HoldInv'
  BY <1>6, <1>a, <1>b DEF Take, SweepInv
<1>7. ASSUME NEW c \in Conns, Refused(c) PROVE HoldInv'
  BY <1>7, <1>b DEF Refused, Ended, slots
<1>8. ASSUME NEW c \in Conns, NotePeer(c) \/ OpenStream(c) \/ EndStream(c) \/ Detach(c)
      PROVE  HoldInv'
  BY <1>8, <1>b DEF NotePeer, OpenStream, EndStream, Detach, slots
<1>9. ASSUME NEW c \in Conns, Free(c) PROVE HoldInv'
  <2>1. OneOwner'
    BY <1>9, FreeOwns DEF Free, OneOwner, Users
  <2>2. \A d \in Conns : slot'[d] # None <=> pc'[d] \in Owning
    BY <1>9 DEF Free, Ended, Users
  <2> QED
    BY <2>1, <2>2 DEF OneOwner
<1>c. ASSUME NEW u \in Others, OneOwner', UNCHANGED pc,
             slot' = [slot EXCEPT ![u] = slot'[u]]
      PROVE  HoldInv'
  BY <1>c DEF OneOwner, Users
<1>10. ASSUME NEW u \in Others, OtherFree(u) PROVE HoldInv'
  <2>1. OneOwner'
    BY <1>10, FreeOwns DEF OtherFree, OneOwner, Users
  <2> QED
    BY <1>10, <2>1, <1>c DEF OtherFree, Users
<1>11. ASSUME NEW u \in Others, NEW t \in Tuners, OtherClaim(u, t) PROVE HoldInv'
  <2>1. OneOwner'
    BY <1>11, ClaimOwns DEF OtherClaim, OneOwner, Users
  <2> QED
    BY <1>11, <2>1, <1>c DEF OtherClaim, Claim, Users
<1>12. CASE UNCHANGED vars
  BY <1>12 DEF vars
<1> QED
  BY NextCases, <1>1, <1>2, <1>3, <1>4, <1>5, <1>6, <1>7, <1>8, <1>9, <1>10,
     <1>11, <1>12

\* A tuner that somebody else has is not the one c has.
LEMMA OthersSlot ==
  ASSUME HoldInv, NEW u \in Users, NEW v \in Users, u # v, slot[u] # None
  PROVE  slot[v] # slot[u]
  BY DEF HoldInv

\* The recorded client is the owner's from NotePeer to the release.
LEMMA NotedStep == IInv /\ [Next]_vars => NotedInv'
<1> SUFFICES ASSUME IInv, [Next]_vars, NEW d \in Conns, pc'[d] \in Owning \ {"note"}
             PROVE  http_peer_addr'[slot'[d]] = peer'[d]
  BY DEF NotedInv
<1> USE DEF Owning
<1>0. /\ slot \in [Users -> Tuners \cup {None}] /\ pc \in [Conns -> Points]
      /\ peer \in [Conns -> Peers \cup {None}] /\ d \in Users
      /\ http_peer_addr \in [Tuners -> Peers \cup {None}]
      /\ \A c \in Conns : slot[c] # None <=> pc[c] \in Owning
      /\ pc[d] \in Owning \ {"note"} => http_peer_addr[slot[d]] = peer[d]
  BY DEF IInv, TypeOK, HoldInv, NotedInv, Users
<1>a. CASE UNCHANGED http_peer_addr /\ pc[d] \in Owning \ {"note"}
             /\ slot'[d] = slot[d] /\ peer'[d] = peer[d]
  BY <1>a, <1>0
<1>1. ASSUME NEW c \in Conns, NEW p \in Peers \cup {None},
             NEW r \in Tuners \cup {AnyTuner}, Request(c, p, r)
      PROVE  http_peer_addr'[slot'[d]] = peer'[d]
  BY <1>1, <1>a, <1>0 DEF Request, slots
<1>2. ASSUME NEW c \in Conns, Look(c) PROVE http_peer_addr'[slot'[d]] = peer'[d]
  BY <1>2, <1>a, <1>0 DEF Look, NextTuner, slots
<1>3. ASSUME NEW c \in Conns, ClaimAwaited(c) \/ Sweep(c) \/ Take(c)
      PROVE  http_peer_addr'[slot'[d]] = peer'[d]
  BY <1>3, <1>a, <1>0 DEF ClaimAwaited, Sweep, Take, Claim, NextTuner
<1>4. ASSUME NEW c \in Conns, WaitTimeout(c)
      PROVE  http_peer_addr'[slot'[d]] = peer'[d]
  BY <1>4, <1>a, <1>0 DEF WaitTimeout, slots
<1>5. ASSUME NEW c \in Conns, Refused(c)
      PROVE  http_peer_addr'[slot'[d]] = peer'[d]
  BY <1>5, <1>a, <1>0 DEF Refused, Ended, slots
<1>6. ASSUME NEW c \in Conns, OpenStream(c) \/ EndStream(c) \/ Detach(c)
      PROVE  http_peer_addr'[slot'[d]] = peer'[d]
  BY <1>6, <1>a, <1>0 DEF OpenStream, EndStream, Detach, slots
<1>7. ASSUME NEW c \in Conns, NotePeer(c)
      PROVE  http_peer_addr'[slot'[d]] = peer'[d]
  <2>1. CASE c = d
    BY <1>7, <2>1, <1>0 DEF NotePeer
  <2>2. CASE c # d
    <3>1. slot[c] # slot[d] /\ pc[d] \in Owning \ {"note"}
      BY <1>7, <2>2, <1>0, OthersSlot DEF NotePeer, Users, IInv
    <3> QED
      BY <1>7, <3>1, <1>0 DEF NotePeer
  <2> QED
    BY <2>1, <2>2
<1>8. ASSUME NEW c \in Conns, Free(c)
      PROVE  http_peer_addr'[slot'[d]] = peer'[d]
  <2>1. c # d
    BY <1>8, <1>0 DEF Free, Ended
  <2>2. slot[c] # slot[d] /\ pc[d] \in Owning \ {"note"}
    BY <1>8, <2>1, <1>0, OthersSlot DEF Free, Ended, Users, IInv
  <2> QED
    BY <1>8, <2>1, <2>2, <1>0 DEF Free, FreeSlot, Ended, Users
<1>9. ASSUME NEW u \in Others, OtherFree(u)
      PROVE  http_peer_addr'[slot'[d]] = peer'[d]
  <2>1. u # d /\ u \in Users
    BY DEF Users
  <2>2. slot[u] # slot[d] /\ pc[d] \in Owning \ {"note"}
    BY <1>9, <2>1, <1>0, OthersSlot DEF OtherFree, IInv
  <2> QED
    BY <1>9, <2>1, <2>2, <1>0 DEF OtherFree, FreeSlot
<1>10. ASSUME NEW u \in Others, NEW t \in Tuners, OtherClaim(u, t)
       PROVE  http_peer_addr'[slot'[d]] = peer'[d]
  <2>1. u # d
    OBVIOUS
  <2> QED
    BY <1>10, <2>1, <1>a, <1>0 DEF OtherClaim, Claim
<1>11. CASE UNCHANGED vars
  BY <1>11, <1>a DEF vars
<1> QED
  BY NextCases, <1>1, <1>2, <1>3, <1>4, <1>5, <1>6, <1>7, <1>8, <1>9, <1>10, <1>11

\* A thread that is serving goes on with what it has, or releases the slot.
LEMMA ServingStays ==
  ASSUME IInv, [Next]_vars, NEW c \in Conns,
         pc[c] \in {"open", "stream", "close", "free"}
  PROVE  \/ /\ slot'[c] = slot[c] /\ peer'[c] = peer[c]
            /\ pc'[c] \in {"open", "stream", "close", "free"}
            /\ pc'[c] = pc[c] \/ OpenStream(c) \/ EndStream(c) \/ Detach(c)
         \/ Free(c)
<1> DEFINE Stays == /\ slot'[c] = slot[c] /\ peer'[c] = peer[c]
                    /\ pc'[c] \in {"open", "stream", "close", "free"}
                    /\ pc'[c] = pc[c] \/ OpenStream(c) \/ EndStream(c) \/ Detach(c)
<1>0. /\ slot \in [Users -> Tuners \cup {None}] /\ pc \in [Conns -> Points]
      /\ peer \in [Conns -> Peers \cup {None}] /\ Conns \subseteq Users
  BY DEF IInv, TypeOK, Users
<1>1. ASSUME NEW d \in Conns, NEW p \in Peers \cup {None},
             NEW r \in Tuners \cup {AnyTuner}, Request(d, p, r)
      PROVE  Stays
  BY <1>0, <1>1 DEF Request
<1>2. ASSUME NEW d \in Conns, Look(d) PROVE Stays
  BY <1>0, <1>2 DEF Look, NextTuner
<1>3. ASSUME NEW d \in Conns, ClaimAwaited(d) \/ Sweep(d) \/ Take(d) PROVE Stays
  BY <1>0, <1>3 DEF ClaimAwaited, Sweep, Take, Claim, NextTuner
<1>4. ASSUME NEW d \in Conns, WaitTimeout(d) \/ Refused(d) \/ NotePeer(d) PROVE Stays
  BY <1>0, <1>4 DEF WaitTimeout, Refused, Ended, NotePeer
<1>5. ASSUME NEW d \in Conns, OpenStream(d) \/ EndStream(d) \/ Detach(d) PROVE Stays
  BY <1>0, <1>5 DEF OpenStream, EndStream, Detach
<1>6. ASSUME NEW d \in Conns, Free(d) PROVE Stays \/ Free(c)
  <2>1. CASE d # c
    BY <1>0, <1>6, <2>1 DEF Free, Ended
  <2>2. CASE d = c
    BY <1>6, <2>2
  <2> QED
    BY <2>1, <2>2
<1>7. ASSUME NEW u \in Others, OtherFree(u) PROVE Stays
  BY <1>0, <1>7 DEF OtherFree
<1>8. ASSUME NEW u \in Others, NEW t \in Tuners, OtherClaim(u, t) PROVE Stays
  BY <1>0, <1>8 DEF OtherClaim, Claim
<1>9. ASSUME UNCHANGED vars PROVE Stays
  BY <1>9 DEF vars
<1> HIDE DEF Stays
<1>10. Stays \/ Free(c)
  BY NextCases, <1>1, <1>2, <1>3, <1>4, <1>5, <1>6, <1>7, <1>8, <1>9
<1> QED
  BY <1>10 DEF Stays

\* What a slot records is its owner's.
LEMMA FieldsStep == IInv /\ [Next]_vars => FieldsAreOwners'
<1> SUFFICES ASSUME IInv, [Next]_vars PROVE FieldsAreOwners'
  OBVIOUS
<1> DEFINE PeerOf(t, c) == /\ slot[c] = t /\ peer[c] = http_peer_addr[t]
                           /\ pc[c] \in {"open", "stream", "close", "free"}
           StreamOf(t, c) == slot[c] = t /\ pc[c] \in {"stream", "close"}
<1>0. /\ slot \in [Users -> Tuners \cup {None}] /\ pc \in [Conns -> Points]
      /\ peer \in [Conns -> Peers \cup {None}] /\ Conns \subseteq Users
      /\ http_peer_addr \in [Tuners -> Peers \cup {None}]
      /\ active_stream \in [Tuners -> Conns \cup {None}] /\ None \notin Conns
      /\ \A c \in Conns : slot[c] # None <=> pc[c] \in Owning
  BY DEF IInv, TypeOK, HoldInv, Users
<1>1. ASSUME NEW t \in Tuners, http_peer_addr'[t] # None
      PROVE  \E c \in Conns : PeerOf(t, c)'
  <2>1. ASSUME NEW c \in Conns, NotePeer(c), slot[c] = t PROVE PeerOf(t, c)'
    BY <2>1, <1>0 DEF NotePeer
  <2>2. CASE ~ \E c \in Conns : NotePeer(c) /\ slot[c] = t
    <3>1. http_peer_addr[t] # None /\ http_peer_addr'[t] = http_peer_addr[t]
      BY <1>0, <1>1, <2>2, NextCases DEF vars, slots, Request, Look, ClaimAwaited,
         WaitTimeout, Sweep, Take, Refused, NotePeer, OpenStream, EndStream, Detach,
         Free, FreeSlot, OtherFree, OtherClaim
    <3>2. PICK c \in Conns : PeerOf(t, c)
      BY <3>1 DEF IInv, FieldsAreOwners
    <3>3. ~Free(c)
      BY <1>0, <1>1, <3>2 DEF Free, FreeSlot
    <3> QED
      BY <3>1, <3>2, <3>3, ServingStays
  <2> QED
    BY <2>1, <2>2
<1>2. ASSUME NEW t \in Tuners, active_stream'[t] # None
      PROVE  StreamOf(t, active_stream[t])'
  <2>1. ASSUME NEW c \in Conns, OpenStream(c), slot[c] = t, active_stream'[t] = c
        PROVE  StreamOf(t, c)'
    BY <2>1, <1>0, <1>2 DEF OpenStream
  <2>2. CASE ~ \E c \in Conns : OpenStream(c) /\ slot[c] = t /\ active_stream'[t] = c
    <3>1. active_stream[t] # None /\ active_stream'[t] = active_stream[t]
      BY <1>0, <1>2, <2>2, NextCases DEF vars, slots, Request, Look, ClaimAwaited,
         WaitTimeout, Sweep, Take, Refused, NotePeer, OpenStream, EndStream, Detach,
         Free, OtherFree, OtherClaim
    <3>2. active_stream[t] \in Conns /\ StreamOf(t, active_stream[t])
      BY <3>1, <1>0 DEF IInv, FieldsAreOwners
    <3>3. ~Free(active_stream[t]) /\ ~Detach(active_stream[t])
      BY <1>0, <1>2, <3>2 DEF Free, Detach
    <3>4. ~OpenStream(active_stream[t])
      BY <3>2 DEF OpenStream
    <3>5. EndStream(active_stream[t]) => pc'[active_stream[t]] = "close"
      BY <1>0, <3>2 DEF EndStream
    <3> QED
      BY <3>1, <3>2, <3>3, <3>4, <3>5, ServingStays
  <2> QED
    BY <2>1, <2>2
<1> QED
  BY <1>1, <1>2 DEF FieldsAreOwners

\* What has been free, or the client's, all along only gets less.
LEMMA HistoryShrinks ==
  ASSUME Observe, NEW d \in Conns
  PROVE  /\ free_since'[d] \subseteq free_since[d] \cap {t \in Tuners : ~busy'[t]}
         /\ own_since'[d] \subseteq own_since[d] \cap Serving(peer'[d], pc', slot', peer')
  BY DEF Observe, FreeTuners

\* A tuner that serves the client is one that Mine recognises.
LEMMA ServingIsMine ==
  ASSUME IInv, NEW p, NEW t \in Serving(p, pc, slot, peer)
  PROVE  busy[t] /\ http_peer_addr[t] = p
<1>1. PICK e \in Conns : /\ slot[e] = t /\ peer[e] = p
                         /\ pc[e] \in {"open", "stream", "close", "free"}
  BY DEF Serving
<1>2. t \in Tuners /\ e \in Users
  BY DEF Serving, Users
<1> QED
  BY <1>1, <1>2 DEF IInv, HoldInv, NotedInv, Owning

\* Searches leave nothing behind: one request's view of it.
Searched(d) ==
  /\ pc[d] \in {"look", "wait", "sweep"} => request[d] = AnyTuner
  /\ pc[d] = "take" => request[d] # AnyTuner
  /\ pc[d] = "sweep" => \A t \in free_since[d] : t >= i[d]
  /\ pc[d] = "refused" => IF request[d] = AnyTuner THEN free_since[d] = {}
                          ELSE request[d] \notin free_since[d]
  /\ pc[d] = "look" => \A t \in own_since[d] : t >= i[d]
  /\ pc[d] = "sweep" /\ peer[d] # None => own_since[d] = {} \/ gave_up[d]

\* No search for a tuner passes one over.
LEMMA SearchStep ==
  ASSUME IInv, [Next]_vars, NEW d \in Conns
  PROVE  Searched(d)'
<1>0. /\ Searched(d) /\ pc \in [Conns -> Points] /\ i \in [Conns -> Tuners]
      /\ request \in [Conns -> Tuners \cup {AnyTuner}] /\ busy \in [Tuners -> BOOLEAN]
      /\ peer \in [Conns -> Peers \cup {None}] /\ gave_up \in [Conns -> BOOLEAN]
      /\ free_since \in [Conns -> SUBSET Tuners]
      /\ own_since \in [Conns -> SUBSET Tuners]
  BY DEF IInv, TypeOK, SweepInv, RefusedOnlyWhenBusy, LookInv, Searched
<1>1. \A t \in Tuners : t \in 0 .. N - 1
  BY DEF Tuners
<1>a. ASSUME Observe, pc'[d] = pc[d], request'[d] = request[d], i'[d] = i[d],
             peer'[d] = peer[d], gave_up'[d] = gave_up[d]
      PROVE  Searched(d)'
  BY <1>a, <1>0, HistoryShrinks DEF Searched
<1>b. ASSUME Observe, pc'[d] \in Owning \cup {"idle", "wait"}, pc'[d] = "wait" => request'[d] = AnyTuner
      PROVE  Searched(d)'
  BY <1>b DEF Searched, Owning
<1>2. ASSUME NEW c \in Conns, NEW p \in Peers \cup {None},
             NEW r \in Tuners \cup {AnyTuner}, Request(c, p, r)
      PROVE  Searched(d)'
  <2>1. CASE c # d
    BY <1>0, <1>2, <2>1 DEF Request, Searched
  <2>2. CASE c = d
    <3>1. \A t \in free_since'[d] \cup own_since'[d] : t >= 0
      BY <1>0, <1>1, <1>2, <2>2 DEF Request, FreeTuners, Serving
    <3> QED
      BY <1>0, <1>2, <2>2, <3>1 DEF Request, Searched
  <2> QED
    BY <2>1, <2>2
<1>3. ASSUME NEW c \in Conns, Observe, Look(c) PROVE Searched(d)'
  <2>1. CASE c # d
    BY <1>0, <1>3, <2>1, <1>a DEF Look, NextTuner
  <2>2. CASE c = d /\ Mine(c)
    BY <1>0, <1>3, <2>2, <1>b DEF Look, Searched
  <2>3. CASE c = d /\ ~Mine(c)
    <3>1. i[d] \notin own_since'[d]
      <4> SUFFICES ASSUME i[d] \in own_since'[d] PROVE FALSE
        OBVIOUS
      <4>1. i[d] \in Serving(peer'[d], pc', slot', peer')
        BY <1>3, HistoryShrinks
      <4>2. i[d] \in Serving(peer[d], pc, slot, peer)
        BY <1>0, <1>3, <2>3, <4>1 DEF Serving, Look, NextTuner
      <4> QED
        BY <4>2, <2>3, ServingIsMine DEF Mine
    <3>2. \A t \in own_since'[d] : t \in Tuners /\ t >= i[d] /\ t # i[d]
      BY <1>0, <1>3, <2>3, <3>1, HistoryShrinks DEF Look, Searched
    <3>3. \A t \in free_since'[d] : t \in Tuners
      BY <1>0, <1>3, HistoryShrinks
    <3>4. CASE i[d] + 1 < N
      BY <1>0, <1>1, <1>3, <2>3, <3>2, <3>4 DEF Look, NextTuner, Searched
    <3>5. CASE ~(i[d] + 1 < N)
      <4>1. own_since'[d] = {}
        BY <1>0, <1>1, <3>2, <3>5
      <4>2. pc'[d] = "sweep" /\ i'[d] = 0 /\ request'[d] = AnyTuner
        BY <1>0, <1>3, <2>3, <3>5 DEF Look, NextTuner, Searched
      <4> QED
        BY <1>1, <3>3, <4>1, <4>2 DEF Searched
    <3> QED
      BY <3>4, <3>5
  <2> QED
    BY <2>1, <2>2, <2>3
<1>4. ASSUME NEW c \in Conns, Observe, ClaimAwaited(c) PROVE Searched(d)'
  BY <1>0, <1>4, <1>a, <1>b DEF ClaimAwaited, Owning
<1>5. ASSUME NEW c \in Conns, Observe, WaitTimeout(c) PROVE Searched(d)'
  <2>1. CASE c # d
    BY <1>0, <1>5, <2>1, <1>a DEF WaitTimeout
  <2>2. CASE c = d
    <3>1. \A t \in free_since'[d] : t >= 0
      BY <1>0, <1>1, <1>5, HistoryShrinks
    <3> QED
      BY <1>0, <1>5, <2>2, <3>1 DEF WaitTimeout, Searched
  <2> QED
    BY <2>1, <2>2
<1>6. ASSUME NEW c \in Conns, Observe, Sweep(c) PROVE Searched(d)'
  <2>1. CASE c # d
    BY <1>0, <1>6, <2>1, <1>a DEF Sweep, NextTuner
  <2>2. CASE c = d /\ pc'[d] = "note"
    BY <1>6, <2>2, <1>b DEF Owning
  <2>3. CASE c = d /\ pc'[d] # "note"
    <3>1. busy[i[d]] /\ UNCHANGED busy /\ NextTuner(d, "refused") /\ pc[d] = "sweep"
      BY <1>0, <1>6, <2>3 DEF Sweep
    <3>2. \A t \in free_since'[d] : t \in Tuners /\ t >= i[d] /\ t # i[d]
      BY <1>0, <1>6, <3>1, HistoryShrinks DEF Searched
    <3>3. peer[d] # None => own_since'[d] = {} \/ gave_up[d]
      BY <1>0, <1>6, <3>1, HistoryShrinks DEF Searched
    <3>4. CASE i[d] + 1 < N
      BY <1>0, <1>1, <1>6, <2>3, <3>1, <3>2, <3>3, <3>4 DEF Sweep, NextTuner, Searched
    <3>5. CASE ~(i[d] + 1 < N)
      <4>1. free_since'[d] = {}
        BY <1>0, <1>1, <3>2, <3>5
      <4>2. pc'[d] = "refused" /\ request'[d] = AnyTuner
        BY <1>0, <1>6, <2>3, <3>1, <3>5 DEF Sweep, NextTuner, Searched
      <4> QED
        BY <4>1, <4>2 DEF Searched
    <3> QED
      BY <3>4, <3>5
  <2> QED
    BY <2>1, <2>2, <2>3
<1>7. ASSUME NEW c \in Conns, Observe, Take(c) PROVE Searched(d)'
  <2>1. CASE c # d
    BY <1>0, <1>7, <2>1, <1>a DEF Take
  <2>2. CASE c = d /\ pc'[d] = "note"
    BY <1>7, <2>2, <1>b DEF Owning
  <2>3. CASE c = d /\ pc'[d] # "note"
    BY <1>0, <1>7, <2>3, HistoryShrinks DEF Take, Searched
  <2> QED
    BY <2>1, <2>2, <2>3
<1>8. ASSUME NEW c \in Conns, Observe, Refused(c) PROVE Searched(d)'
  BY <1>0, <1>8, <1>a, <1>b DEF Refused, Ended
<1>9. ASSUME NEW c \in Conns, Observe,
             NotePeer(c) \/ OpenStream(c) \/ EndStream(c) \/ Detach(c)
      PROVE  Searched(d)'
  BY <1>0, <1>9, <1>a, <1>b DEF NotePeer, OpenStream, EndStream, Detach, Owning
<1>10. ASSUME NEW c \in Conns, Observe, Free(c) PROVE Searched(d)'
  BY <1>0, <1>10, <1>a, <1>b DEF Free, Ended
<1>11. ASSUME NEW u \in Others, Observe, OtherFree(u) PROVE Searched(d)'
  BY <1>11, <1>a DEF OtherFree
<1>12. ASSUME NEW u \in Others, NEW t \in Tuners, Observe, OtherClaim(u, t)
       PROVE  Searched(d)'
  BY <1>12, <1>a DEF OtherClaim
<1>13. CASE UNCHANGED vars
  BY <1>0, <1>13 DEF vars, Searched
<1> QED
  BY NextCases, <1>2, <1>3, <1>4, <1>5, <1>6, <1>7, <1>8, <1>9, <1>10, <1>11,
     <1>12, <1>13

\* One step keeps the inductive invariant.
LEMMA InvStep == IInv /\ [Next]_vars => IInv'
<1> SUFFICES ASSUME IInv, [Next]_vars PROVE IInv'
  OBVIOUS
<1>1. \A d \in Conns : Searched(d)'
  BY SearchStep
<1>2. SweepInv' /\ RefusedOnlyWhenBusy' /\ LookInv'
  BY <1>1 DEF Searched, SweepInv, RefusedOnlyWhenBusy, LookInv
<1> QED
  BY <1>2, TypeStep, HoldStep, NotedStep, FieldsStep DEF IInv

\* The inductive invariant holds of every reachable state of the pool.
THEOREM Inductive == Spec => []IInv
  BY InitInv, InvStep, PTL DEF Spec

\* A 503 is honest: no tuner that the request could have had was free from its
\* arrival to the refusal (tuner_pool_claim_free, claim_for_peer).
THEOREM HonestRefusal == Spec => []RefusedOnlyWhenBusy
<1>1. IInv => RefusedOnlyWhenBusy
  BY DEF IInv
<1> QED
  BY <1>1, Inductive, PTL

\* A thread that ends its sweep with a claim was sweeping, with nothing of its
\* client's left to wait for or after the wait.
LEMMA AffinityStep ==
  IInv /\ [Next]_vars =>
    [\A c \in Conns :
       pc[c] = "sweep" /\ pc'[c] = "note" /\ peer[c] # None =>
         own_since[c] = {} \/ gave_up[c]]_vars
  BY DEF IInv, LookInv

\* Client affinity (claim_for_peer): the recorded address and stream are the
\* owner's, and a client does not get a second tuner while its own is still being
\* given up, unless the wait for it has timed out.
THEOREM AffinityHolds == Spec => Affinity
<1>1. IInv => TypeOK /\ FieldsAreOwners
  BY DEF IInv
<1>2. Spec => [](TypeOK /\ FieldsAreOwners)
  BY <1>1, Inductive, PTL
<1>3. Spec => AffinityKept
  BY AffinityStep, Inductive, PTL DEF Spec, AffinityKept
<1> QED
  BY <1>2, <1>3 DEF Affinity

-----------------------------------------------------------------------------
\* The owner of a tuner is the user that has it.
LEMMA OwnerIs ==
  IInv => /\ Owner \in [Tuners -> Users \cup {None}]
          /\ \A t \in Tuners, u \in Users : Owner[t] = u <=> slot[u] = t
<1> SUFFICES ASSUME IInv PROVE /\ Owner \in [Tuners -> Users \cup {None}]
                               /\ \A t \in Tuners, u \in Users :
                                    Owner[t] = u <=> slot[u] = t
  OBVIOUS
<1>1. \A u, v \in Users : slot[u] = slot[v] /\ slot[u] # None => u = v
  BY DEF IInv, HoldInv
<1>2. \A t \in Tuners : t # None
  BY DEF Tuners
<1>3. ASSUME NEW t \in Tuners
      PROVE  /\ Owner[t] \in Users \cup {None}
             /\ \A u \in Users : Owner[t] = u <=> slot[u] = t
  <2>1. CASE \E u \in Users : slot[u] = t
    <3>1. Owner[t] = CHOOSE u \in Users : slot[u] = t
      BY <2>1 DEF Owner
    <3>2. Owner[t] \in Users /\ slot[Owner[t]] = t
      BY <2>1, <3>1
    <3> QED
      BY <1>1, <1>2, <3>2
  <2>2. CASE ~ \E u \in Users : slot[u] = t
    BY <2>2 DEF Owner
  <2> QED
    BY <2>1, <2>2
<1>4. Owner \in [Tuners -> Users \cup {None}]
  BY <1>3 DEF Owner
<1> QED
  BY <1>3, <1>4

\* What a step does to the claims.
LEMMA SlotStep ==
  ASSUME IInv, [Next]_vars
  PROVE  \/ slot' = slot
         \/ \E u \in Users, t \in Tuners :
              /\ slot[u] = None /\ ~busy[t] /\ slot' = [slot EXCEPT ![u] = t]
         \/ \E u \in Users :
              slot[u] \in Tuners /\ slot' = [slot EXCEPT ![u] = None]
<1> DEFINE Takes == \E u \in Users, t \in Tuners :
              /\ slot[u] = None /\ ~busy[t] /\ slot' = [slot EXCEPT ![u] = t]
           Gives == \E u \in Users :
              slot[u] \in Tuners /\ slot' = [slot EXCEPT ![u] = None]
<1>0. /\ slot \in [Users -> Tuners \cup {None}] /\ i \in [Conns -> Tuners]
      /\ request \in [Conns -> Tuners \cup {AnyTuner}] /\ Conns \subseteq Users
      /\ \A c \in Conns : slot[c] # None <=> pc[c] \in Owning
      /\ \A c \in Conns : pc[c] = "take" => request[c] \in Tuners
  BY DEF IInv, TypeOK, HoldInv, SweepInv, Users
<1>1. ASSUME NEW c \in Conns, ClaimAwaited(c) \/ Sweep(c)
      PROVE  slot' = slot \/ Takes
  <2>1. slot[c] = None
    BY <1>0, <1>1 DEF ClaimAwaited, Sweep, Owning
  <2>2. slot' = slot \/ Claim(c, i[c])
    BY <1>1 DEF ClaimAwaited, Sweep
  <2> QED
    BY <1>0, <2>1, <2>2 DEF Claim
<1>2. ASSUME NEW c \in Conns, Take(c) PROVE slot' = slot \/ Takes
  <2>1. slot[c] = None /\ request[c] \in Tuners
    BY <1>0, <1>2 DEF Take, Owning
  <2>2. slot' = slot \/ Claim(c, request[c])
    BY <1>2 DEF Take
  <2> QED
    BY <1>0, <2>1, <2>2 DEF Claim
<1>3. ASSUME NEW c \in Conns, Free(c) PROVE Gives
  BY <1>0, <1>3 DEF Free, Owning
<1>4. ASSUME NEW u \in Others, OtherFree(u) PROVE Gives
  BY <1>0, <1>4 DEF OtherFree, Users
<1>5. ASSUME NEW u \in Others, NEW t \in Tuners, OtherClaim(u, t) PROVE Takes
  BY <1>5 DEF OtherClaim, Claim, Users
<1>6. ASSUME NEW c \in Conns,
             \/ Look(c) \/ WaitTimeout(c) \/ Refused(c) \/ NotePeer(c)
             \/ OpenStream(c) \/ EndStream(c) \/ Detach(c)
      PROVE  slot' = slot
  BY <1>6 DEF Look, WaitTimeout, Refused, NotePeer, OpenStream, EndStream, Detach
<1>7. ASSUME NEW c \in Conns, NEW p \in Peers \cup {None},
             NEW r \in Tuners \cup {AnyTuner}, Request(c, p, r)
      PROVE  slot' = slot
  BY <1>7 DEF Request
<1>8. ASSUME UNCHANGED vars PROVE slot' = slot
  BY <1>8 DEF vars
<1> HIDE DEF Takes, Gives
<1>9. slot' = slot \/ Takes \/ Gives
  BY NextCases, <1>1, <1>2, <1>3, <1>4, <1>5, <1>6, <1>7, <1>8
<1> QED
  BY <1>9 DEF Takes, Gives

\* A step of the pool is a step of the lease or leaves it alone.
LEMMA LeaseStep ==
  ASSUME IInv, IInv', [Next]_vars
  PROVE  [Pool!Next]_Owner
<1>0. /\ Owner \in [Tuners -> Users \cup {None}]
      /\ \A t \in Tuners, u \in Users : Owner[t] = u <=> slot[u] = t
  BY OwnerIs
<1>1. (IInv => /\ Owner \in [Tuners -> Users \cup {None}]
               /\ \A t \in Tuners, u \in Users : Owner[t] = u <=> slot[u] = t)'
  BY OwnerIs, PTL
<1>2. /\ Owner' \in [Tuners -> Users \cup {None}]
      /\ \A t \in Tuners, u \in Users : Owner'[t] = u <=> slot'[u] = t
  BY <1>1
<1>3. slot \in [Users -> Tuners \cup {None}] /\ None \notin Tuners /\ None \notin Users
  BY DEF IInv, TypeOK, Tuners
<1>4. CASE slot' = slot
  <2>1. \A t \in Tuners : Owner'[t] = Owner[t]
    BY <1>0, <1>2, <1>4
  <2>2. Owner' = Owner
    BY <1>0, <1>2, <2>1
  <2> QED
    BY <2>2
<1>5. ASSUME NEW u \in Users, NEW t \in Tuners, slot[u] = None, ~busy[t],
             slot' = [slot EXCEPT ![u] = t]
      PROVE  Pool!Next
  <2>1. \A v \in Users : slot[v] # t
    BY <1>5 DEF IInv, HoldInv
  <2>2. Owner[t] = None /\ \A r \in Tuners : Owner[r] # u
    BY <1>0, <1>3, <1>5, <2>1
  <2>3. \A r \in Tuners : Owner'[r] = IF r = t THEN u ELSE Owner[r]
    <3> SUFFICES ASSUME NEW r \in Tuners
                 PROVE  Owner'[r] = IF r = t THEN u ELSE Owner[r]
      OBVIOUS
    <3>1. slot'[u] = t /\ \A v \in Users : v # u => slot'[v] = slot[v]
      BY <1>3, <1>5
    <3>2. CASE r = t
      BY <1>2, <3>1, <3>2
    <3>3. CASE r # t
      <4>1. \A v \in Users : slot'[v] = r <=> slot[v] = r
        BY <1>3, <1>5, <3>1, <3>3
      <4> QED
        BY <1>0, <1>2, <3>3, <4>1
    <3> QED
      BY <3>2, <3>3
  <2>4. Owner' = [Owner EXCEPT ![t] = u]
    BY <1>0, <1>2, <2>3
  <2>5. Pool!Acquire(u, t)
    BY <2>2, <2>4 DEF Pool!Acquire
  <2> QED
    BY <2>5 DEF Pool!Next
<1>6. ASSUME NEW u \in Users, slot[u] \in Tuners, slot' = [slot EXCEPT ![u] = None]
      PROVE  Pool!Next
  <2> DEFINE t == slot[u]
  <2>1. Owner[t] = u
    BY <1>0, <1>6
  <2>2. slot'[u] = None /\ \A v \in Users : v # u => slot'[v] = slot[v]
    BY <1>3, <1>6
  <2>3. \A r \in Tuners : Owner'[r] = IF r = t THEN None ELSE Owner[r]
    <3> SUFFICES ASSUME NEW r \in Tuners
                 PROVE  Owner'[r] = IF r = t THEN None ELSE Owner[r]
      OBVIOUS
    <3>1. CASE r = t
      <4>1. \A v \in Users : slot'[v] # r
        BY <1>0, <1>3, <1>6, <2>1, <2>2, <3>1
      <4> QED
        BY <1>2, <3>1, <4>1
    <3>2. CASE r # t
      <4>1. \A v \in Users : slot'[v] = r <=> slot[v] = r
        BY <1>3, <2>2, <3>2
      <4> QED
        BY <1>0, <1>2, <3>2, <4>1
    <3> QED
      BY <3>1, <3>2
  <2>4. Owner' = [Owner EXCEPT ![t] = None]
    BY <1>0, <1>2, <2>3
  <2>5. Pool!Release(u, t)
    BY <2>1, <2>4 DEF Pool!Release
  <2> QED
    BY <1>6, <2>5 DEF Pool!Next
<1> QED
  BY SlotStep, <1>4, <1>5, <1>6

\* The pool implements Lease: whoever asks, and by whichever of the ways to look
\* for a free tuner, a slot has one owner at a time and changes hands only through
\* being free (tuner_try_claim, tuner_release).
THEOREM PoolIsLease == Spec => IsLease
<1>1. Init => Pool!Init
  <2> SUFFICES ASSUME Init PROVE Owner = [t \in Tuners |-> None]
    BY DEF Pool!Init
  <2>1. \A t \in Tuners : ~ \E u \in Users : slot[u] = t
    BY DEF Init, Tuners
  <2> QED
    BY <2>1 DEF Owner
<1>2. IInv /\ IInv' /\ [Next]_vars => [Pool!Next]_Owner
  BY LeaseStep
<1> QED
  BY <1>1, <1>2, Inductive, PTL DEF Spec, IsLease, Pool!Spec
=============================================================================
