-------------------------- MODULE StreamRingProofs --------------------------
(* Theorems about StreamRing, for every capacity, chunk and read size and    *)
(* any number of control connections.                                        *)
EXTENDS StreamRing, SequenceTheorems, TLAPS

\* The initial state satisfies the invariant.
LEMMA InitInv == Init => IInv
<1> SUFFICES ASSUME Init PROVE IInv
  OBVIOUS
<1> USE StreamRingAssumption DEF Init
<1>1. TypeOK
  <2>1. ring \in [0..(Cap - 1) -> Nat] /\ gpc \in [Pollers -> {"idle", "get"}]
    OBVIOUS
  <2>2. /\ head \in 0..(Cap - 1) /\ tail \in 0..(Cap - 1) /\ fill \in 0..Cap
        /\ rest \in 0..MaxChunk /\ next \in Nat
    OBVIOUS
  <2> QED
    BY <2>1, <2>2, Zenon DEF TypeOK, OwnerPcs
<1>2. OwnerInv
  BY DEF OwnerInv
<1>3. NoSleeperForgotten
  BY DEF NoSleeperForgotten
<1>4. RingInv
  BY DEF RingInv
<1> QED
  BY <1>1, <1>2, <1>3, <1>4 DEF IInv

\* Every step preserves the type invariant.
LEMMA TypeStep == TypeOK /\ [Next]_vars => TypeOK'
<1> SUFFICES ASSUME TypeOK, [Next]_vars PROVE TypeOK'
  OBVIOUS
<1> USE StreamRingAssumption
    DEF TypeOK, OwnerPcs, Least, ringVars, flagVars, readVars
<1>1. ASSUME NEW n \in 1..MaxChunk, Capture(n) PROVE TypeOK'
  BY <1>1 DEF Capture
<1>2. ASSUME LeaveLoop PROVE TypeOK'
  BY <1>2 DEF LeaveLoop
<1>3. ASSUME DeviceFails PROVE TypeOK'
  BY <1>3 DEF DeviceFails
<1>4. ASSUME Copy PROVE TypeOK'
  BY <1>4 DEF Copy, SignalNotEmpty, Written
<1>5. ASSUME CopyWaits PROVE TypeOK'
  BY <1>5 DEF CopyWaits
<1>6. ASSUME CopyDrops PROVE TypeOK'
  BY <1>6 DEF CopyDrops
<1>7. ASSUME SetEof PROVE TypeOK'
  BY <1>7 DEF SetEof, SignalNotEmpty
<1>8. ASSUME Open PROVE TypeOK'
  BY <1>8 DEF Open
<1>9. ASSUME SetStream PROVE TypeOK'
  BY <1>9 DEF SetStream
<1>10. ASSUME NEW len \in 1..MaxRead, Read(len) PROVE TypeOK'
  BY <1>10 DEF Read, SignalNotFull
<1>11. ASSUME ReadWaits PROVE TypeOK'
  BY <1>11 DEF ReadWaits
<1>12. ASSUME Leave PROVE TypeOK'
  BY <1>12 DEF Leave
<1>13. ASSUME Detach PROVE TypeOK'
  BY <1>13 DEF Detach
<1>14. ASSUME Teardown PROVE TypeOK'
  BY <1>14 DEF Teardown, SignalNotFull
<1>15. ASSUME JoinReader PROVE TypeOK'
  BY <1>15 DEF JoinReader
<1>16. ASSUME JoinStats PROVE TypeOK'
  BY <1>16 DEF JoinStats
<1>17. ASSUME Free PROVE TypeOK'
  BY <1>17 DEF Free
<1>18. ASSUME StatsRead PROVE TypeOK'
  BY <1>18 DEF StatsRead
<1>19. ASSUME StatsStep PROVE TypeOK'
  BY <1>19 DEF StatsStep
<1>20. ASSUME NEW g \in Pollers, GetBegin(g) PROVE TypeOK'
  BY <1>20 DEF GetBegin
<1>21. ASSUME NEW g \in Pollers, GetEnd(g) PROVE TypeOK'
  BY <1>21 DEF GetEnd
<1>22. CASE UNCHANGED vars
  BY <1>22 DEF vars
<1> HIDE DEF TypeOK, OwnerInv, NoSleeperForgotten
<1> QED
  BY <1>1, <1>2, <1>3, <1>4, <1>5, <1>6, <1>7, <1>8, <1>9, <1>10, <1>11,
     <1>12, <1>13, <1>14, <1>15, <1>16, <1>17, <1>18, <1>19, <1>20, <1>21,
     <1>22
     DEF Next, ReaderStep, OwnerStep

\* Every step keeps the struct's state in line with where its owner is.
LEMMA OwnerStepInv == TypeOK /\ OwnerInv /\ [Next]_vars => OwnerInv'
<1> SUFFICES ASSUME TypeOK, OwnerInv, [Next]_vars PROVE OwnerInv'
  OBVIOUS
<1> USE StreamRingAssumption
    DEF TypeOK, OwnerInv, OwnerPcs, TunerUnlocked, ringVars, flagVars, readVars
<1>1. ASSUME NEW n \in 1..MaxChunk, Capture(n) PROVE OwnerInv'
  BY <1>1 DEF Capture
<1>2. ASSUME LeaveLoop PROVE OwnerInv'
  BY <1>2 DEF LeaveLoop
<1>3. ASSUME DeviceFails PROVE OwnerInv'
  BY <1>3 DEF DeviceFails
<1>4. ASSUME Copy PROVE OwnerInv'
  BY <1>4 DEF Copy, SignalNotEmpty, Written
<1>5. ASSUME CopyWaits PROVE OwnerInv'
  BY <1>5 DEF CopyWaits
<1>6. ASSUME CopyDrops PROVE OwnerInv'
  BY <1>6 DEF CopyDrops
<1>7. ASSUME SetEof PROVE OwnerInv'
  BY <1>7 DEF SetEof, SignalNotEmpty
<1>8. ASSUME Open PROVE OwnerInv'
  BY <1>8 DEF Open
<1>9. ASSUME SetStream PROVE OwnerInv'
  BY <1>9 DEF SetStream
<1>10. ASSUME NEW len \in 1..MaxRead, Read(len) PROVE OwnerInv'
  BY <1>10 DEF Read, SignalNotFull
<1>11. ASSUME ReadWaits PROVE OwnerInv'
  BY <1>11 DEF ReadWaits
<1>12. ASSUME Leave PROVE OwnerInv'
  BY <1>12 DEF Leave
<1>13. ASSUME Detach PROVE OwnerInv'
  BY <1>13 DEF Detach
<1>14. ASSUME Teardown PROVE OwnerInv'
  BY <1>14 DEF Teardown, SignalNotFull
<1>15. ASSUME JoinReader PROVE OwnerInv'
  BY <1>15 DEF JoinReader
<1>16. ASSUME JoinStats PROVE OwnerInv'
  BY <1>16 DEF JoinStats
<1>17. ASSUME Free PROVE OwnerInv'
  BY <1>17 DEF Free
<1>18. ASSUME StatsRead PROVE OwnerInv'
  BY <1>18 DEF StatsRead
<1>19. ASSUME StatsStep PROVE OwnerInv'
  BY <1>19 DEF StatsStep
<1>20. ASSUME NEW g \in Pollers, GetBegin(g) PROVE OwnerInv'
  BY <1>20 DEF GetBegin
<1>21. ASSUME NEW g \in Pollers, GetEnd(g) PROVE OwnerInv'
  BY <1>21 DEF GetEnd
<1>22. CASE UNCHANGED vars
  BY <1>22 DEF vars
<1> HIDE DEF TypeOK, OwnerInv, NoSleeperForgotten
<1> QED
  BY <1>1, <1>2, <1>3, <1>4, <1>5, <1>6, <1>7, <1>8, <1>9, <1>10, <1>11,
     <1>12, <1>13, <1>14, <1>15, <1>16, <1>17, <1>18, <1>19, <1>20, <1>21,
     <1>22
     DEF Next, ReaderStep, OwnerStep

\* Every step that makes a condition true wakes who sleeps on it.
LEMMA SleepStep == TypeOK /\ OwnerInv /\ NoSleeperForgotten /\ [Next]_vars => NoSleeperForgotten'
<1> SUFFICES ASSUME TypeOK, OwnerInv, NoSleeperForgotten, [Next]_vars PROVE NoSleeperForgotten'
  OBVIOUS
<1> USE StreamRingAssumption
    DEF TypeOK, OwnerInv, NoSleeperForgotten, Least, ringVars, flagVars, readVars
<1>1. ASSUME NEW n \in 1..MaxChunk, Capture(n) PROVE NoSleeperForgotten'
  BY <1>1 DEF Capture
<1>2. ASSUME LeaveLoop PROVE NoSleeperForgotten'
  BY <1>2 DEF LeaveLoop
<1>3. ASSUME DeviceFails PROVE NoSleeperForgotten'
  BY <1>3 DEF DeviceFails
<1>4. ASSUME Copy PROVE NoSleeperForgotten'
  BY <1>4 DEF Copy, SignalNotEmpty, Written
<1>5. ASSUME CopyWaits PROVE NoSleeperForgotten'
  BY <1>5 DEF CopyWaits
<1>6. ASSUME CopyDrops PROVE NoSleeperForgotten'
  BY <1>6 DEF CopyDrops
<1>7. ASSUME SetEof PROVE NoSleeperForgotten'
  BY <1>7 DEF SetEof, SignalNotEmpty
<1>8. ASSUME Open PROVE NoSleeperForgotten'
  BY <1>8 DEF Open
<1>9. ASSUME SetStream PROVE NoSleeperForgotten'
  BY <1>9 DEF SetStream
<1>10. ASSUME NEW len \in 1..MaxRead, Read(len) PROVE NoSleeperForgotten'
  BY <1>10 DEF Read, SignalNotFull
<1>11. ASSUME ReadWaits PROVE NoSleeperForgotten'
  BY <1>11 DEF ReadWaits
<1>12. ASSUME Leave PROVE NoSleeperForgotten'
  BY <1>12 DEF Leave
<1>13. ASSUME Detach PROVE NoSleeperForgotten'
  BY <1>13 DEF Detach
<1>14. ASSUME Teardown PROVE NoSleeperForgotten'
  BY <1>14 DEF Teardown, SignalNotFull
<1>15. ASSUME JoinReader PROVE NoSleeperForgotten'
  BY <1>15 DEF JoinReader
<1>16. ASSUME JoinStats PROVE NoSleeperForgotten'
  BY <1>16 DEF JoinStats
<1>17. ASSUME Free PROVE NoSleeperForgotten'
  BY <1>17 DEF Free
<1>18. ASSUME StatsRead PROVE NoSleeperForgotten'
  BY <1>18 DEF StatsRead
<1>19. ASSUME StatsStep PROVE NoSleeperForgotten'
  BY <1>19 DEF StatsStep
<1>20. ASSUME NEW g \in Pollers, GetBegin(g) PROVE NoSleeperForgotten'
  BY <1>20 DEF GetBegin
<1>21. ASSUME NEW g \in Pollers, GetEnd(g) PROVE NoSleeperForgotten'
  BY <1>21 DEF GetEnd
<1>22. CASE UNCHANGED vars
  BY <1>22 DEF vars
<1> HIDE DEF TypeOK, OwnerInv, NoSleeperForgotten
<1> QED
  BY <1>1, <1>2, <1>3, <1>4, <1>5, <1>6, <1>7, <1>8, <1>9, <1>10, <1>11,
     <1>12, <1>13, <1>14, <1>15, <1>16, <1>17, <1>18, <1>19, <1>20, <1>21,
     <1>22
     DEF Next, ReaderStep, OwnerStep

-----------------------------------------------------------------------------
(* The ring *)

\* The place n bytes after place p of the array.
Wrap(p, n) == (p + n) % Cap

\* It is in the array, at most once around.
LEMMA WrapIs ==
  ASSUME NEW p \in 0..(Cap - 1), NEW n \in 0..Cap
  PROVE  Wrap(p, n) = IF p + n < Cap THEN p + n ELSE p + n - Cap
<1>1. Cap \in Nat \ {0}
  BY StreamRingAssumption
<1> QED
  BY <1>1 DEF Wrap

\* What Copy does to the indices.
LEMMA CopyMoves ==
  ASSUME TypeOK, RingInv, Copy
  PROVE  \E n \in 1..Cap :
           /\ n <= Cap - fill /\ n <= rest
           /\ n < rest => fill + n = Cap
           /\ ring' = Written(n, next)
           /\ head' = IF head + n < Cap THEN head + n ELSE head + n - Cap
           /\ fill' = fill + n /\ rest' = rest - n
           /\ next' = (next + n) % K /\ tail' = tail /\ got' = got
           /\ rpc' = IF rest = n THEN "poll" ELSE "full"
<1> DEFINE n == Least(rest, Cap - fill)
<1>1. /\ fill \in 0..Cap /\ fill < Cap /\ rest \in 0..MaxChunk /\ rest > 0
      /\ head \in 0..(Cap - 1) /\ Cap \in Nat /\ MaxChunk \in Nat
  BY StreamRingAssumption DEF TypeOK, RingInv, Copy
<1>2. /\ n \in 1..Cap /\ n <= Cap - fill /\ n <= rest
      /\ n < rest => fill + n = Cap
  BY <1>1 DEF Least
<1>3. /\ ring' = Written(n, next) /\ head' = Wrap(head, n)
      /\ fill' = fill + n /\ rest' = rest - n
      /\ next' = (next + n) % K /\ tail' = tail /\ got' = got
      /\ rpc' = IF rest = n THEN "poll" ELSE "full"
  BY DEF Copy, Wrap
<1> HIDE DEF n
<1>4. n \in 0..Cap
  BY <1>2
<1>5. Wrap(head, n) = IF head + n < Cap THEN head + n ELSE head + n - Cap
  BY <1>1, <1>4, WrapIs
<1> QED
  BY <1>2, <1>3, <1>5

\* What Read does to the indices.
LEMMA ReadMoves ==
  ASSUME TypeOK, NEW len \in 1..MaxRead, Read(len)
  PROVE  \E n \in 1..Cap :
           /\ n <= fill
           /\ got' = Oldest(n)
           /\ tail' = IF tail + n < Cap THEN tail + n ELSE tail + n - Cap
           /\ fill' = fill - n
           /\ ring' = ring /\ head' = head /\ next' = next /\ rest' = rest
           /\ rpc' = IF rpc = "full" THEN "copy" ELSE rpc
<1> DEFINE n == Least(len, fill)
<1>1. /\ fill \in 0..Cap /\ fill > 0 /\ tail \in 0..(Cap - 1)
      /\ Cap \in Nat /\ len \in Nat /\ len > 0
  BY StreamRingAssumption DEF TypeOK, Read
<1>2. n \in 1..Cap /\ n <= fill
  BY <1>1 DEF Least
<1>3. /\ got' = Oldest(n) /\ tail' = Wrap(tail, n) /\ fill' = fill - n
      /\ ring' = ring /\ head' = head /\ next' = next /\ rest' = rest
      /\ rpc' = IF rpc = "full" THEN "copy" ELSE rpc
  BY DEF Read, Wrap, SignalNotFull
<1> HIDE DEF n
<1>4. n \in 0..Cap
  BY <1>2
<1>5. Wrap(tail, n) = IF tail + n < Cap THEN tail + n ELSE tail + n - Cap
  BY <1>1, <1>4, WrapIs
<1> QED
  BY <1>2, <1>3, <1>5

\* Every step keeps head the fill level ahead of tail.
LEMMA RingStep == IInv /\ [Next]_vars => RingInv'
<1> SUFFICES ASSUME IInv, [Next]_vars PROVE RingInv'
  OBVIOUS
<1>0. TypeOK /\ RingInv /\ Cap \in Nat \ {0}
  BY StreamRingAssumption DEF IInv
<1>1. ASSUME Copy PROVE RingInv'
  <2>1. PICK n \in 1..Cap :
           /\ n <= Cap - fill /\ n <= rest
           /\ head' = IF head + n < Cap THEN head + n ELSE head + n - Cap
           /\ fill' = fill + n /\ rest' = rest - n /\ tail' = tail
           /\ rpc' = IF rest = n THEN "poll" ELSE "full"
    BY <1>0, <1>1, CopyMoves
  <2> QED
    BY <1>0, <2>1 DEF TypeOK, RingInv
<1>2. ASSUME NEW len \in 1..MaxRead, Read(len) PROVE RingInv'
  <2>1. PICK n \in 1..Cap :
           /\ n <= fill
           /\ tail' = IF tail + n < Cap THEN tail + n ELSE tail + n - Cap
           /\ fill' = fill - n /\ head' = head /\ rest' = rest
           /\ rpc' = IF rpc = "full" THEN "copy" ELSE rpc
    BY <1>0, <1>2, ReadMoves
  <2> QED
    BY <1>0, <2>1 DEF TypeOK, RingInv
<1>3. ASSUME NEW n \in 1..MaxChunk, Capture(n) PROVE RingInv'
  BY <1>0, <1>3 DEF Capture, RingInv, ringVars
<1>4. ASSUME Open PROVE RingInv'
  BY <1>0, <1>4 DEF Open, RingInv
<1>5. ASSUME LeaveLoop \/ DeviceFails \/ CopyDrops PROVE RingInv'
  BY <1>0, <1>5 DEF LeaveLoop, DeviceFails, CopyDrops, RingInv, ringVars
<1>6. ASSUME SetEof PROVE RingInv'
  BY <1>0, <1>6 DEF SetEof, RingInv, ringVars
<1>7. ASSUME CopyWaits PROVE RingInv'
  BY <1>0, <1>7 DEF CopyWaits, RingInv, ringVars
<1>8. ASSUME Teardown PROVE RingInv'
  BY <1>0, <1>8 DEF Teardown, SignalNotFull, RingInv, ringVars
<1>9. ASSUME UNCHANGED <<ringVars, readVars>> PROVE RingInv'
  BY <1>0, <1>9 DEF RingInv, ringVars, readVars
<1>10. \/ Copy \/ CopyWaits \/ CopyDrops \/ SetEof \/ LeaveLoop \/ DeviceFails
       \/ Open \/ Teardown
       \/ \E n \in 1..MaxChunk : Capture(n)
       \/ \E len \in 1..MaxRead : Read(len)
       \/ UNCHANGED <<ringVars, readVars>>
  BY DEF Next, ReaderStep, OwnerStep, SetStream, ReadWaits, Detach, JoinReader,
         JoinStats, Free, Leave, StatsRead, StatsStep, GetBegin, GetEnd, vars
<1> QED
  BY <1>1, <1>2, <1>3, <1>4, <1>5, <1>6, <1>7, <1>8, <1>9, <1>10

\* The inductive invariant holds in every behaviour.
THEOREM Inductive == Spec => []IInv
<1>1. IInv /\ [Next]_vars => IInv'
  BY TypeStep, OwnerStepInv, SleepStep, RingStep DEF IInv
<1> QED
  BY InitInv, <1>1, PTL DEF Spec

\* Indices, flags and program points are always in range.
THEOREM TypeCorrect == Spec => []TypeOK
<1>1. IInv => TypeOK
  BY DEF IInv
<1> QED
  BY Inductive, <1>1, PTL

\* Neither the reader nor the consumer is ever left asleep on a condition that
\* has come true.
THEOREM NobodyForgotten == Spec => []NoSleeperForgotten
<1>1. IInv => NoSleeperForgotten
  BY DEF IInv
<1> QED
  BY Inductive, <1>1, PTL

\* The stream is freed only when no thread can be in it any more.
THEOREM FreedAlone == Spec => []GoneBeforeFree
<1>1. IInv => GoneBeforeFree
  BY DEF IInv, TypeOK, OwnerInv, GoneBeforeFree, TunerUnlocked
<1> QED
  BY Inductive, <1>1, PTL

\* No index leaves the ring and nothing is used after it is freed.
THEOREM MemorySafe == Spec => []StreamSafe
  BY TypeCorrect, FreedAlone, PTL DEF StreamSafe

-----------------------------------------------------------------------------
(* The ring implements BytePipe *)

\* The place of the byte that follows n others in the ring.
Place(n) == IF tail + n < Cap THEN tail + n ELSE tail + n - Cap

\* Oldest lists the bytes from tail on, place by place.
OldestInPlace ==
  \A n \in 0..fill :
    /\ Oldest(n) \in Seq(Nat) /\ Len(Oldest(n)) = n
    /\ \A i \in 1..n : Oldest(n)[i] = ring[Place(i - 1)]

\* It does, whatever the indices are.
LEMMA OldestIs == TypeOK => OldestInPlace
<1> SUFFICES ASSUME TypeOK, NEW n \in 0..fill
             PROVE  /\ Oldest(n) \in Seq(Nat) /\ Len(Oldest(n)) = n
                    /\ \A i \in 1..n : Oldest(n)[i] = ring[Place(i - 1)]
  BY DEF OldestInPlace
<1>1. /\ ring \in [0..(Cap - 1) -> Nat] /\ tail \in 0..(Cap - 1)
      /\ n \in Nat /\ n <= Cap /\ Cap \in Nat \ {0}
  BY StreamRingAssumption DEF TypeOK
<1>2. \A i \in 1..n : Place(i - 1) \in 0..(Cap - 1)
  BY <1>1 DEF Place
<1>3. \A i \in 1..n : Oldest(n)[i] = ring[Place(i - 1)]
  BY <1>1 DEF Oldest, Place, Least
<1>4. DOMAIN Oldest(n) = 1..n
  BY DEF Oldest
<1>5. \A i \in 1..n : Oldest(n)[i] \in Nat
  BY <1>1, <1>2, <1>3
<1>6. Oldest(n) = [i \in 1..n |-> Oldest(n)[i]]
  BY <1>4 DEF Oldest
<1>7. Oldest(n) \in [1..n -> Nat]
  BY <1>5, <1>6
<1>8. Oldest(n) \in Seq(Nat)
  BY <1>1, <1>7
<1>9. Len(Oldest(n)) = n
  BY <1>1, <1>4, <1>8
<1> QED
  BY <1>3, <1>8, <1>9

\* A chunk that is copied goes in at the end.
LEMMA CopyPuts ==
  ASSUME IInv, TypeOK', Copy
  PROVE  \E n \in 1..Cap : Pipe!Put(n)
<1>0. /\ ring \in [0..(Cap - 1) -> Nat] /\ tail \in 0..(Cap - 1)
      /\ head \in 0..(Cap - 1) /\ fill \in 0..Cap /\ next \in Nat
      /\ Cap \in Nat \ {0} /\ K \in Nat \ {0}
      /\ head = IF tail + fill < Cap THEN tail + fill ELSE tail + fill - Cap
  BY StreamRingAssumption DEF IInv, TypeOK, RingInv
<1>1. PICK n \in 1..Cap :
        /\ n <= Cap - fill
        /\ ring' = Written(n, next) /\ fill' = fill + n
        /\ next' = (next + n) % K /\ tail' = tail /\ got' = got
  BY CopyMoves DEF IInv
<1>2. /\ Oldest(fill) \in Seq(Nat) /\ Len(Oldest(fill)) = fill
      /\ \A i \in 1..fill : Oldest(fill)[i] = ring[Place(i - 1)]
  BY <1>0, OldestIs DEF IInv, OldestInPlace
<1>3. /\ Oldest(fill)' \in Seq(Nat) /\ Len(Oldest(fill)') = fill'
      /\ \A i \in 1..fill' : Oldest(fill)'[i] = ring'[Place(i - 1)]
  <2>1. (TypeOK => OldestInPlace)'
    BY OldestIs, PTL
  <2>2. fill' \in 0..fill' /\ \A i \in 1..fill' : Place(i - 1)' = Place(i - 1)
    BY <1>0, <1>1 DEF Place
  <2> QED
    BY <2>1, <2>2 DEF OldestInPlace
<1>4. /\ Pipe!Run(next, n) \in Seq(Nat) /\ Len(Pipe!Run(next, n)) = n
      /\ \A i \in 1..n : Pipe!Run(next, n)[i] = (next + i - 1) % K
  <2>1. \A i \in 1..n : (next + i - 1) % K \in Nat
    BY <1>0
  <2>2. Pipe!Run(next, n) \in [1..n -> Nat]
    BY <2>1 DEF Pipe!Run
  <2> QED
    BY <1>0, <2>2 DEF Pipe!Run
<1>5. \A i \in 1..fill : ring'[Place(i - 1)] = ring[Place(i - 1)]
  BY <1>0, <1>1 DEF Place, Written, Least
<1>6. \A i \in 1..n : ring'[Place(fill + i - 1)] = (next + i - 1) % K
  <2> SUFFICES ASSUME NEW i \in 1..n
               PROVE  ring'[Place(fill + i - 1)] = (next + i - 1) % K
    OBVIOUS
  <2> DEFINE p     == Place(fill + i - 1)
             first == Least(n, Cap - head)
  <2>1. /\ p \in 0..(Cap - 1) /\ first \in Nat
        /\ \/ p >= head /\ p < head + first /\ next + p - head = next + i - 1
           \/ p < head /\ p < n - first /\ next + first + p = next + i - 1
    BY <1>0, <1>1 DEF Place, Least
  <2> HIDE DEF p
  <2>2. ring'[p] = IF p >= head /\ p < head + first THEN (next + p - head) % K
                   ELSE IF p < n - first THEN (next + first + p) % K
                   ELSE ring[p]
    BY <1>1, <2>1 DEF Written
  <2> HIDE DEF first
  <2>3. ASSUME p >= head /\ p < head + first /\ next + p - head = next + i - 1
        PROVE  ring'[p] = (next + i - 1) % K
    <3>1. ring'[p] = (next + p - head) % K
      BY <2>2, <2>3, Zenon
    <3> QED
      BY <2>3, <3>1, Zenon
  <2>4. ASSUME p < head /\ p < n - first /\ next + first + p = next + i - 1
        PROVE  ring'[p] = (next + i - 1) % K
    <3>1. ~(p >= head)
      BY <1>0, <2>1, <2>4
    <3>2. ring'[p] = (next + first + p) % K
      BY <2>2, <2>4, <3>1, Zenon
    <3> QED
      BY <2>4, <3>2, Zenon
  <2>5. ring'[p] = (next + i - 1) % K
    BY <2>1, <2>3, <2>4, Zenon
  <2> QED
    BY <2>5 DEF p
<1>7. Oldest(fill)' = Oldest(fill) \o Pipe!Run(next, n)
  <2> DEFINE s == Oldest(fill) \o Pipe!Run(next, n)
  <2>1. /\ s \in Seq(Nat) /\ Len(s) = fill + n
        /\ \A i \in 1..fill : s[i] = Oldest(fill)[i]
        /\ \A i \in 1..n : s[fill + i] = Pipe!Run(next, n)[i]
    <3>1. /\ s \in Seq(Nat) /\ Len(s) = fill + n
          /\ \A i \in 1..(fill + n) : s[i] =
               IF i <= fill THEN Oldest(fill)[i] ELSE Pipe!Run(next, n)[i - fill]
      <4> DEFINE o == Oldest(fill)
                 w == Pipe!Run(next, n)
      <4>1. o \in Seq(Nat) /\ w \in Seq(Nat) /\ Len(o) = fill /\ Len(w) = n
        BY <1>2, <1>4
      <4> HIDE DEF o, w
      <4>2. /\ o \o w \in Seq(Nat) /\ Len(o \o w) = fill + n
            /\ \A i \in 1..(fill + n) :
                 (o \o w)[i] = IF i <= fill THEN o[i] ELSE w[i - fill]
        BY <4>1, ConcatProperties
      <4> QED
        BY <4>2 DEF o, w
    <3> HIDE DEF s
    <3>2. \A i \in 1..fill : i \in 1..(fill + n) /\ i <= fill
      BY <1>0
    <3>4. ASSUME NEW i \in 1..fill PROVE s[i] = Oldest(fill)[i]
      BY <3>1, <3>2
    <3>5. ASSUME NEW i \in 1..n PROVE s[fill + i] = Pipe!Run(next, n)[i]
      <4> DEFINE k == fill + i
      <4>1. k \in 1..(fill + n) /\ ~(k <= fill) /\ k - fill = i
        BY <1>0
      <4> HIDE DEF k
      <4>2. s[k] = Pipe!Run(next, n)[i]
        BY <3>1, <4>1
      <4> QED
        BY <4>2 DEF k
    <3> QED
      BY <3>1, <3>4, <3>5
  <2> HIDE DEF s
  <2>2. ASSUME NEW i \in 1..(fill + n) PROVE Oldest(fill)'[i] = s[i]
    <3>1. CASE i \in 1..fill
      BY <1>0, <1>1, <1>2, <1>3, <1>5, <2>1, <3>1
    <3>2. CASE ~(i \in 1..fill)
      <4>1. i - fill \in 1..n /\ fill + (i - fill) = i /\ fill + (i - fill) - 1 = i - 1
        BY <1>0, <3>2
      <4>2. ring'[Place(i - 1)] = (next + (i - fill) - 1) % K
        BY <1>6, <4>1
      <4>3. s[i] = (next + (i - fill) - 1) % K
        BY <1>4, <2>1, <4>1
      <4> QED
        BY <1>1, <1>3, <4>2, <4>3
    <3> QED
      BY <3>1, <3>2
  <2>3. Oldest(fill)' = s
    BY <1>1, <1>3, <2>1, <2>2, SeqEqual
  <2> QED
    BY <2>3 DEF s
<1>8. Pipe!Put(n)
  BY <1>0, <1>1, <1>2, <1>7 DEF Pipe!Put
<1> QED
  BY <1>8

\* A read takes the bytes from the front.
LEMMA ReadGets ==
  ASSUME IInv, TypeOK', NEW len \in 1..MaxRead, Read(len)
  PROVE  \E n \in 1..Cap : Pipe!Get(n)
<1>0. /\ tail \in 0..(Cap - 1) /\ fill \in 0..Cap /\ Cap \in Nat \ {0}
  BY StreamRingAssumption DEF IInv, TypeOK
<1>1. PICK n \in 1..Cap :
        /\ n <= fill /\ got' = Oldest(n)
        /\ tail' = IF tail + n < Cap THEN tail + n ELSE tail + n - Cap
        /\ fill' = fill - n /\ ring' = ring /\ next' = next
  BY ReadMoves DEF IInv
<1>2. /\ Oldest(fill) \in Seq(Nat) /\ Len(Oldest(fill)) = fill
      /\ \A i \in 1..fill : Oldest(fill)[i] = ring[Place(i - 1)]
      /\ Oldest(n) \in Seq(Nat) /\ Len(Oldest(n)) = n
      /\ \A i \in 1..n : Oldest(n)[i] = ring[Place(i - 1)]
  <2>1. n \in 0..fill /\ fill \in 0..fill /\ OldestInPlace
    BY <1>0, <1>1, OldestIs DEF IInv
  <2> QED
    BY <2>1 DEF OldestInPlace
<1>3. /\ Oldest(fill)' \in Seq(Nat) /\ Len(Oldest(fill)') = fill - n
      /\ \A i \in 1..(fill - n) : Oldest(fill)'[i] = ring[Place(n + i - 1)]
  <2>1. (TypeOK => OldestInPlace)'
    BY OldestIs, PTL
  <2>2. fill' \in 0..fill' /\ \A i \in 1..fill' : Place(i - 1)' = Place(n + i - 1)
    BY <1>0, <1>1 DEF Place
  <2> QED
    BY <1>1, <2>1, <2>2 DEF OldestInPlace
<1> DEFINE o == Oldest(fill)
<1>4. /\ o \in Seq(Nat) /\ Len(o) = fill
      /\ \A i \in 1..fill : o[i] = ring[Place(i - 1)]
  BY <1>2
<1> HIDE DEF o
<1>5. /\ SubSeq(o, 1, n) \in Seq(Nat) /\ Len(SubSeq(o, 1, n)) = n
      /\ \A i \in 1..n : SubSeq(o, 1, n)[i] = o[i]
  <2>1. 1 \in Int /\ n \in Int /\ 1 <= n /\ n - 1 + 1 = n
    OBVIOUS
  <2>2. \A i \in 1..n : o[i] \in Nat /\ 1 + i - 1 = i
    BY <1>0, <1>1, <1>4
  <2>3. /\ SubSeq(o, 1, n) \in Seq(Nat)
        /\ Len(SubSeq(o, 1, n)) = IF 1 <= n THEN n - 1 + 1 ELSE 0
        /\ \A i \in 1..(n - 1 + 1) : SubSeq(o, 1, n)[i] = o[1 + i - 1]
    BY <2>1, <2>2, SubSeqProperties
  <2> QED
    BY <2>1, <2>2, <2>3
<1>6. /\ SubSeq(o, n + 1, fill) \in Seq(Nat)
      /\ Len(SubSeq(o, n + 1, fill)) = fill - n
      /\ \A i \in 1..(fill - n) : SubSeq(o, n + 1, fill)[i] = o[n + i]
  <2> DEFINE m == n + 1
  <2>1. /\ m \in Int /\ fill \in Int /\ fill - m + 1 = fill - n
        /\ m > fill => fill - n = 0
    BY <1>0, <1>1
  <2>2. \A i \in m..fill : o[i] \in Nat
    BY <1>0, <1>1, <1>4
  <2>3. \A i \in 1..(fill - n) : m + i - 1 = n + i
    BY <1>0, <1>1
  <2> HIDE DEF m
  <2>4. /\ SubSeq(o, m, fill) \in Seq(Nat)
        /\ Len(SubSeq(o, m, fill)) = IF m <= fill THEN fill - m + 1 ELSE 0
        /\ \A i \in 1..(fill - m + 1) : SubSeq(o, m, fill)[i] = o[m + i - 1]
    BY <2>1, <2>2, SubSeqProperties
  <2>5. Len(SubSeq(o, m, fill)) = fill - n
    BY <2>1, <2>4
  <2>6. ASSUME NEW i \in 1..(fill - n) PROVE SubSeq(o, m, fill)[i] = o[n + i]
    BY <2>1, <2>3, <2>4
  <2> QED
    BY <2>4, <2>5, <2>6 DEF m
<1>7. Oldest(n) = SubSeq(o, 1, n)
  <2>1. \A i \in 1..n : Oldest(n)[i] = SubSeq(o, 1, n)[i]
    <3>1. \A i \in 1..n : i \in 1..fill
      BY <1>0, <1>1
    <3> QED
      BY <1>2, <1>4, <1>5, <3>1
  <2> QED
    BY <1>2, <1>5, <2>1, SeqEqual
<1>8. Oldest(fill)' = SubSeq(o, n + 1, fill)
  <2>1. \A i \in 1..(fill - n) : Oldest(fill)'[i] = SubSeq(o, n + 1, fill)[i]
    <3>1. \A i \in 1..(fill - n) : n + i \in 1..fill
      BY <1>0, <1>1
    <3>2. \A i \in 1..(fill - n) : o[n + i] = ring[Place(n + i - 1)]
      <4> SUFFICES ASSUME NEW i \in 1..(fill - n)
                   PROVE  o[n + i] = ring[Place(n + i - 1)]
        OBVIOUS
      <4> DEFINE k == n + i
      <4>1. k \in 1..fill
        BY <3>1
      <4> HIDE DEF k
      <4>2. o[k] = ring[Place(k - 1)]
        BY <1>4, <4>1
      <4> QED
        BY <4>2 DEF k
    <3> QED
      BY <1>3, <1>6, <3>2
  <2> QED
    BY <1>3, <1>6, <2>1, SeqEqual
<1>9. Pipe!Get(n)
  BY <1>1, <1>4, <1>7, <1>8 DEF Pipe!Get, o
<1> QED
  BY <1>9

\* Every step is a step of the pipe, or leaves it alone.
LEMMA PipeStep ==
  IInv /\ IInv' /\ [Next]_vars => [Pipe!Next]_Pipe!vars
<1> SUFFICES ASSUME IInv, IInv', [Next]_vars PROVE [Pipe!Next]_Pipe!vars
  OBVIOUS
<1>1. ASSUME Copy PROVE [Pipe!Next]_Pipe!vars
  BY <1>1, CopyPuts DEF IInv, Pipe!Next
<1>2. ASSUME NEW len \in 1..MaxRead, Read(len) PROVE [Pipe!Next]_Pipe!vars
  BY <1>2, ReadGets DEF IInv, Pipe!Next
<1>3. ASSUME Open PROVE [Pipe!Next]_Pipe!vars
  <2>1. fill' = 0 /\ next' = 0 /\ got' = <<>>
    BY <1>3 DEF Open
  <2>2. Oldest(fill)' = <<>>
    BY <2>1 DEF Oldest
  <2> QED
    BY <2>1, <2>2 DEF Pipe!Next, Pipe!Open
<1>4. ASSUME UNCHANGED <<ringVars, next, got>> PROVE [Pipe!Next]_Pipe!vars
  BY <1>4 DEF Pipe!vars, ringVars, Oldest
<1>5. Copy \/ Open \/ (\E len \in 1..MaxRead : Read(len))
        \/ UNCHANGED <<ringVars, next, got>>
  BY DEF Next, ReaderStep, OwnerStep, Capture, LeaveLoop, DeviceFails, CopyWaits,
         CopyDrops, SetEof, SetStream, ReadWaits, Detach, Teardown, JoinReader,
         JoinStats, Free, Leave, StatsRead, StatsStep, GetBegin, GetEnd,
         readVars, vars
<1> QED
  BY <1>1, <1>2, <1>3, <1>4, <1>5

\* The ring implements the pipe: for every capacity, chunk and read size, what
\* dvb_stream_read hands out is what the reader thread captured, in order,
\* nothing lost, repeated or overwritten, over every wrap-around.
THEOREM RingIsPipe == Spec => IsPipe
<1>1. Init => Pipe!Init
  BY DEF Init, Pipe!Init, Oldest
<1> QED
  BY <1>1, PipeStep, Inductive, PTL DEF Spec, IsPipe, Pipe!Spec
=============================================================================
