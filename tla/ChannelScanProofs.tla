------------------------- MODULE ChannelScanProofs -------------------------
(* Theorems about ChannelScan, for any number of connections and claimers,  *)
(* any frequencies and maps, every ring size and any bound on the requests. *)
EXTENDS ChannelScan, FiniteSetTheorems, TLAPS

USE ScanAssumption

\* A request that ends without a change of anything but its own thread.
Ends(c) ==
  /\ cpc[c] \in {"queue", "wait", "answered"} /\ Done(c)
  /\ UNCHANGED <<claimVars, scan_worker_active, scan_generation, selVars, status,
                 queueVars, resultVars, workVars, ops>>

\* The steps of the connections, of the worker and of the claimers, one by one.
LEMMA NextCases ==
  ASSUME [Next]_vars
  PROVE  \/ \E c \in Conns :
              \/ \E f \in Freqs : SetChannel(c, f)
              \/ \E m \in Maps : EndSession(c, m)
              \/ \E d \in Deliveries, f \in Freqs : SetVchannel(c, d, f)
              \/ ClaimFast(c) \/ QueueSet(c) \/ OpenSession(c) \/ Spawn(c)
              \/ SpawnFails(c) \/ Unclaim(c) \/ Answered(c) \/ SetVstatus(c)
              \/ Ends(c)
         \/ WorkerOpen \/ WorkerAttempt \/ WorkerPublish \/ FinalizeLockResult
         \/ wpc \in {"drain", "awake", "idle"} /\ (Dequeue \/ LeaveLoop)
         \/ wpc \in {"drain", "awake"} /\ WaitForPending
         \/ WorkerEnd \/ WorkerRelease
         \/ \E x \in Takers : Take(x) \/ AwaitTuner(x) \/ GiveUp(x) \/ Leave(x)
         \/ UNCHANGED vars
<1>1. ASSUME NEW c \in Conns, RefuseSet(c) \/ WaitExpires(c) \/ Reply(c)
      PROVE  Ends(c)
  BY <1>1 DEF RefuseSet, WaitExpires, Reply, Ends
<1>2. WorkerDrain => \/ wpc \in {"drain", "awake", "idle"} /\ (Dequeue \/ LeaveLoop)
                     \/ wpc \in {"drain", "awake"} /\ WaitForPending
  BY DEF WorkerDrain
<1>3. WorkerIdleExpires =>
        wpc \in {"drain", "awake", "idle"} /\ (Dequeue \/ LeaveLoop)
  BY DEF WorkerIdleExpires
<1> QED
  BY <1>1, <1>2, <1>3 DEF Next, ConnStep, Request, Worker

\* The map a tuner starts with.
LEMMA DefaultMapIsMap == DefaultMap \in Maps /\ MapOf[DefaultMap] \in Deliveries
  BY DEF DefaultMap

-----------------------------------------------------------------------------
(* The initial state *)

\* An idle tuner with an empty queue satisfies the invariant.
LEMMA InitInv == Init => IInv
<1> SUFFICES ASSUME Init PROVE IInv
  OBVIOUS
<1> USE DEF Init
<1>1. TypeOK
  <2>1. status \in [ch : Muxes \cup {None},
                     lock : {"idle", "selected", "placeholder", "locked", "unlocked"}]
    BY DEF Idle, Status
  <2>2. /\ busy \in BOOLEAN /\ scan_worker_active \in BOOLEAN
        /\ have_ffd \in BOOLEAN /\ locked \in BOOLEAN
    BY Zenon
  <2>3. /\ scan_generation \in 0..MaxOps /\ ops \in 0..MaxOps
        /\ claim_waiters \in Nat /\ last_attempt_generation \in 0..MaxOps
        /\ wgen \in 0..MaxOps /\ cgen \in [Conns -> 0..MaxOps]
        /\ pending_queue \in [0..Cap-1 -> Freqs \cup {None}]
        /\ pending_head \in 0..Cap-1 /\ pending_count \in 0..Cap
        /\ outstanding \in Seq(Freqs)
    OBVIOUS
  <2>4. /\ cpc \in [Conns -> {"idle", "claim", "queue", "session", "spawn",
                              "unclaim", "wait", "answered", "vstatus"}]
        /\ tpc \in [Takers -> {"out", "wait", "in"}]
        /\ cfreq \in [Conns -> Freqs \cup {None}]
        /\ cdel \in [Conns -> Deliveries]
    BY DefaultMapIsMap
  <2>5. /\ channelmap \in Maps /\ channel \in Muxes \cup {None}
        /\ tuned_frequency_hz \in Freqs \cup {None}
        /\ tuned_delivery \in Deliveries /\ wdel \in Deliveries
        /\ last_attempt_freq \in Freqs \cup {None}
        /\ wfreq \in Freqs \cup {None}
        /\ wpc \in {"none", "open", "attempt", "publish", "finalize", "drain",
                    "idle", "awake", "leave", "release"}
    BY DefaultMapIsMap
  <2> HIDE DEF Init
  <2> QED
    BY <2>1, <2>2, <2>3, <2>4, <2>5 DEF TypeOK
<1>2. ClaimInv /\ OneWorker /\ FreqInv /\ StaleInv
  BY DEF ClaimInv, OneWorker, FreqInv, StaleInv, Holding
<1>3. GenerationInv
  <2>1. {c \in Conns : cpc[c] \in Asking} = {}
    BY DEF Asking
  <2> QED
    BY <2>1, FS_EmptySet DEF GenerationInv
<1>4. RingIsFifo /\ NoneStaysNone /\ NoSleepOverWork
  BY DEF RingIsFifo, NoneStaysNone, NoSleepOverWork
<1>5. WaitersCounted
  <2>1. {x \in Takers : tpc[x] = "wait"} = {}
    OBVIOUS
  <2> QED
    BY <2>1, FS_EmptySet DEF WaitersCounted
<1> QED
  BY <1>1, <1>2, <1>3, <1>4, <1>5 DEF IInv

-----------------------------------------------------------------------------
(* Counting threads *)

\* A claimer that waits is counted.
LEMMA WaiterIsCounted ==
  ASSUME IInv, NEW x \in Takers, tpc[x] = "wait"
  PROVE  claim_waiters >= 1
<1> DEFINE W == {y \in Takers : tpc[y] = "wait"}
<1>1. IsFiniteSet(W) /\ W # {}
  BY FS_Subset
<1>2. Cardinality(W) \in Nat /\ Cardinality(W) # 0
  BY <1>1, FS_EmptySet, FS_CardinalityType
<1> QED
  BY <1>2 DEF IInv, WaitersCounted

\* A request that has not yet opened its session has a generation to spare.
LEMMA AskingIsCounted ==
  ASSUME IInv, NEW c \in Conns, cpc[c] \in Asking
  PROVE  scan_generation + 1 <= ops
<1> DEFINE A == {d \in Conns : cpc[d] \in Asking}
<1>1. IsFiniteSet(A) /\ A # {}
  BY FS_Subset
<1>2. Cardinality(A) \in Nat /\ Cardinality(A) # 0
  BY <1>1, FS_EmptySet, FS_CardinalityType
<1> QED
  BY <1>2 DEF IInv, TypeOK, GenerationInv

-----------------------------------------------------------------------------
(* Every step preserves the type invariant *)

\* Frequencies, generations and ring indexes stay in range.
LEMMA TypeStep == IInv /\ [Next]_vars => TypeOK'
<1> SUFFICES ASSUME IInv, [Next]_vars PROVE TypeOK'
  OBVIOUS
<1>0. TypeOK
  BY DEF IInv
<1> USE <1>0, DefaultMapIsMap
    DEF TypeOK, claimVars, selVars, queueVars, resultVars, workVars, connVars
<1>1. ASSUME NEW c \in Conns, NEW f \in Freqs, SetChannel(c, f) PROVE TypeOK'
  BY <1>1 DEF SetChannel
<1>2. ASSUME NEW c \in Conns, NEW m \in Maps, EndSession(c, m) PROVE TypeOK'
  <2>1. scan_generation <= ops
    <3>1. Cardinality({d \in Conns : cpc[d] \in Asking}) \in Nat
      BY FS_Subset, FS_CardinalityType
    <3> QED
      BY <3>1 DEF IInv, GenerationInv
  <2> QED
    BY <1>2, <2>1 DEF EndSession, Idle, Status
<1>3. ASSUME NEW c \in Conns, NEW d \in Deliveries, NEW f \in Freqs,
             SetVchannel(c, d, f)
      PROVE  TypeOK'
  BY <1>3 DEF SetVchannel, Goto, Mux, Muxes
<1>4. ASSUME NEW c \in Conns, ClaimFast(c) PROVE TypeOK'
  BY <1>4 DEF ClaimFast, Goto
<1>5. ASSUME NEW c \in Conns, QueueSet(c) PROVE TypeOK'
  <2>1. cfreq[c] \in Freqs
    BY <1>5 DEF QueueSet, IInv, FreqInv
  <2>2. /\ pending_queue' \in [0..Cap-1 -> Freqs \cup {None}]
        /\ pending_head' \in 0..Cap-1 /\ pending_count' \in 0..Cap
        /\ outstanding' \in Seq(Freqs)
    BY <1>5, <2>1 DEF QueueSet, Enqueue
  <2>3. wpc' \in {"none", "open", "attempt", "publish", "finalize", "drain", "idle",
                  "awake", "leave", "release"}
    BY <1>5 DEF QueueSet, WakeWorker
  <2>4. /\ tuned_frequency_hz' \in Freqs \cup {None}
        /\ channel' \in Muxes \cup {None} /\ channelmap' \in Maps
        /\ tuned_delivery' \in Deliveries
        /\ status' \in [ch : Muxes \cup {None},
                 lock : {"idle", "selected", "placeholder", "locked", "unlocked"}]
    BY <1>5, <2>1 DEF QueueSet, SelectFreq, Status, Mux, Muxes
  <2> QED
    BY <1>5, <2>2, <2>3, <2>4 DEF QueueSet
<1>6. ASSUME NEW c \in Conns, OpenSession(c) PROVE TypeOK'
  <2>1. cfreq[c] \in Freqs
    BY <1>6 DEF OpenSession, IInv, FreqInv
  <2>2. scan_generation + 1 <= ops
    BY <1>6, AskingIsCounted DEF OpenSession, Asking
  <2>4. /\ tuned_frequency_hz' \in Freqs \cup {None}
        /\ channel' \in Muxes \cup {None} /\ channelmap' \in Maps
        /\ tuned_delivery' \in Deliveries
        /\ status' \in [ch : Muxes \cup {None},
                 lock : {"idle", "selected", "placeholder", "locked", "unlocked"}]
    BY <1>6, <2>1 DEF OpenSession, SelectFreq, Status, Mux, Muxes
  <2> QED
    BY <1>6, <2>2, <2>4 DEF OpenSession
<1>7. ASSUME NEW c \in Conns, Spawn(c) PROVE TypeOK'
  BY <1>7 DEF Spawn, Goto
<1>8. ASSUME NEW c \in Conns, SpawnFails(c) \/ Answered(c) PROVE TypeOK'
  BY <1>8 DEF SpawnFails, Answered, Goto
<1>9. ASSUME NEW c \in Conns, Unclaim(c) PROVE TypeOK'
  <2>1. busy' \in BOOLEAN
    BY <1>9, Zenon DEF Unclaim
  <2> QED
    BY <1>9, <2>1 DEF Unclaim, Done
<1>21. ASSUME NEW c \in Conns, Ends(c) PROVE TypeOK'
  BY <1>21 DEF Ends, Done
<1>10. ASSUME NEW c \in Conns, SetVstatus(c) PROVE TypeOK'
  BY <1>10 DEF SetVstatus, Done, Idle, Status
<1>11. ASSUME WorkerOpen PROVE TypeOK'
  <2>1. have_ffd' \in BOOLEAN
    BY <1>11, Zenon DEF WorkerOpen
  <2>2. wpc' = "attempt" /\ UNCHANGED <<wfreq, wgen, wdel, locked, workerOnly>>
    BY <1>11 DEF WorkerOpen
  <2> QED
    BY <2>1, <2>2 DEF workerOnly
<1>12. ASSUME WorkerAttempt PROVE TypeOK'
  BY <1>12 DEF WorkerAttempt, workerOnly
<1>13. ASSUME WorkerPublish PROVE TypeOK'
  BY <1>13 DEF WorkerPublish
<1>14. ASSUME FinalizeLockResult PROVE TypeOK'
  <2>1. wfreq \in Freqs
    BY <1>14 DEF FinalizeLockResult, IInv, FreqInv
  <2> QED
    BY <1>14, <2>1 DEF FinalizeLockResult, Result, Status, Mux, Muxes
<1>15. ASSUME Dequeue PROVE TypeOK'
  <2>1. outstanding # <<>>
    BY <1>15 DEF Dequeue, IInv, RingIsFifo
  <2> QED
    BY <1>15, <2>1 DEF Dequeue
<1>16. ASSUME LeaveLoop \/ WaitForPending PROVE TypeOK'
  BY <1>16 DEF LeaveLoop, WaitForPending, workerOnly
<1>17. ASSUME WorkerEnd PROVE TypeOK'
  BY <1>17 DEF WorkerEnd
<1>22. ASSUME WorkerRelease PROVE TypeOK'
  <2>1. busy' \in BOOLEAN /\ have_ffd' \in BOOLEAN /\ locked' \in BOOLEAN
    BY <1>22, Zenon DEF WorkerRelease
  <2> QED
    BY <1>22, <2>1 DEF WorkerRelease
<1>18. ASSUME NEW x \in Takers, Take(x) \/ GiveUp(x) PROVE TypeOK'
  <2>1. tpc[x] = "wait" => claim_waiters - 1 \in Nat
    BY WaiterIsCounted
  <2> QED
    BY <1>18, <2>1 DEF Take, GiveUp, takerOnly
<1>19. ASSUME NEW x \in Takers, AwaitTuner(x) PROVE TypeOK'
  BY <1>19 DEF AwaitTuner, WakeWorker, takerOnly
<1>23. ASSUME NEW x \in Takers, Leave(x) PROVE TypeOK'
  <2>1. busy' \in BOOLEAN
    BY <1>23, Zenon DEF Leave
  <2> QED
    BY <1>23, <2>1 DEF Leave, takerOnly
<1>20. CASE UNCHANGED vars
  BY <1>20 DEF vars
<1> HIDE DEF TypeOK
<1> QED
  BY NextCases, <1>1, <1>2, <1>3, <1>4, <1>5, <1>6, <1>7, <1>8, <1>9, <1>10,
     <1>11, <1>12, <1>13, <1>14, <1>15, <1>16, <1>17, <1>18, <1>19, <1>20,
     <1>21, <1>22, <1>23

-----------------------------------------------------------------------------
(* The claim and the worker *)

\* Every step leaves the claim with at most one owner, and a worker is spawned
\* only when there is none.
LEMMA ClaimStep == IInv /\ [Next]_vars => ClaimInv' /\ OneWorker'
<1> DEFINE Claim == ClaimInv /\ OneWorker
<1> SUFFICES ASSUME IInv, [Next]_vars PROVE Claim'
  OBVIOUS
<1>0. TypeOK /\ ClaimInv /\ OneWorker
  BY DEF IInv
<1> USE <1>0
    DEF TypeOK, ClaimInv, OneWorker, Holding, claimVars, selVars, queueVars,
        resultVars, workVars, connVars
<1>1. ASSUME NEW c \in Conns, NEW f \in Freqs, SetChannel(c, f) PROVE Claim'
  BY <1>1 DEF SetChannel
<1>2. ASSUME NEW c \in Conns, NEW m \in Maps, EndSession(c, m) PROVE Claim'
  BY <1>2 DEF EndSession
<1>3. ASSUME NEW c \in Conns, NEW d \in Deliveries, NEW f \in Freqs,
             SetVchannel(c, d, f)
      PROVE  Claim'
  BY <1>3 DEF SetVchannel, Goto
<1>4. ASSUME NEW c \in Conns, ClaimFast(c) PROVE Claim'
  BY <1>4 DEF ClaimFast, Goto
<1>5. ASSUME NEW c \in Conns, QueueSet(c) PROVE Claim'
  BY <1>5 DEF QueueSet, WakeWorker
<1>6. ASSUME NEW c \in Conns, OpenSession(c) PROVE Claim'
  BY <1>6 DEF OpenSession
<1>7. ASSUME NEW c \in Conns, Spawn(c) PROVE Claim'
  BY <1>7 DEF Spawn, Goto
<1>8. ASSUME NEW c \in Conns, SpawnFails(c) PROVE Claim'
  BY <1>8 DEF SpawnFails, Goto
<1>9. ASSUME NEW c \in Conns, Unclaim(c) PROVE Claim'
  BY <1>9 DEF Unclaim, Done
<1>10. ASSUME NEW c \in Conns, Answered(c) PROVE Claim'
  BY <1>10 DEF Answered, Goto
<1>11. ASSUME NEW c \in Conns, SetVstatus(c) PROVE Claim'
  BY <1>11 DEF SetVstatus, Done
<1>12. ASSUME NEW c \in Conns, Ends(c) PROVE Claim'
  BY <1>12 DEF Ends, Done
<1>13. ASSUME WorkerOpen \/ WorkerAttempt PROVE Claim'
  BY <1>13 DEF WorkerOpen, WorkerAttempt, workerOnly
<1>14. ASSUME WorkerPublish \/ FinalizeLockResult PROVE Claim'
  BY <1>14 DEF WorkerPublish, FinalizeLockResult
<1>15. ASSUME wpc \in {"drain", "awake", "idle"}, Dequeue PROVE Claim'
  BY <1>15 DEF Dequeue
<1>16. ASSUME wpc \in {"drain", "awake", "idle"}, LeaveLoop \/ WaitForPending
       PROVE  Claim'
  BY <1>16 DEF LeaveLoop, WaitForPending, workerOnly
<1>17. ASSUME WorkerEnd PROVE Claim'
  BY <1>17 DEF WorkerEnd
<1>18. ASSUME WorkerRelease PROVE Claim'
  BY <1>18 DEF WorkerRelease
<1>19. ASSUME NEW x \in Takers, Take(x) PROVE Claim'
  BY <1>19 DEF Take, takerOnly
<1>20. ASSUME NEW x \in Takers, AwaitTuner(x) PROVE Claim'
  BY <1>20 DEF AwaitTuner, WakeWorker, takerOnly
<1>21. ASSUME NEW x \in Takers, GiveUp(x) PROVE Claim'
  BY <1>21 DEF GiveUp, takerOnly
<1>22. ASSUME NEW x \in Takers, Leave(x) PROVE Claim'
  BY <1>22 DEF Leave, takerOnly
<1>23. ASSUME UNCHANGED vars PROVE Claim'
  BY <1>23 DEF vars
<1> HIDE DEF TypeOK, ClaimInv, OneWorker, Claim
<1> QED
  BY NextCases, <1>1, <1>2, <1>3, <1>4, <1>5, <1>6, <1>7, <1>8, <1>9, <1>10,
     <1>11, <1>12, <1>13, <1>14, <1>15, <1>16, <1>17, <1>18, <1>19, <1>20,
     <1>21, <1>22, <1>23

-----------------------------------------------------------------------------
(* The ring *)

\* The slot n places after slot h of the ring.
Slot(h, n) == (h + n) % Cap

\* It is in the ring, at most once around.
LEMMA SlotIs ==
  ASSUME NEW h \in 0..Cap-1, NEW n \in 0..Cap
  PROVE  /\ Slot(h, n) = IF h + n < Cap THEN h + n ELSE h + n - Cap
         /\ Slot(h, n) \in 0..Cap-1
<1>1. Cap \in Nat \ {0}
  OBVIOUS
<1>2. Slot(h, n) = IF h + n < Cap THEN h + n ELSE h + n - Cap
  BY <1>1 DEF Slot
<1> QED
  BY <1>1, <1>2

\* Different distances, less than once around, are different slots.
LEMMA SlotsDiffer ==
  ASSUME NEW h \in 0..Cap-1, NEW n \in 0..Cap-1, NEW k \in 0..Cap-1, n # k
  PROVE  Slot(h, n) # Slot(h, k)
<1>1. n \in 0..Cap /\ k \in 0..Cap
  OBVIOUS
<1>2. /\ Slot(h, n) = IF h + n < Cap THEN h + n ELSE h + n - Cap
      /\ Slot(h, k) = IF h + k < Cap THEN h + k ELSE h + k - Cap
  BY <1>1, SlotIs
<1> QED
  BY <1>2

\* Moving the head on by one shortens every distance by one.
LEMMA SlotAfterNext ==
  ASSUME NEW h \in 0..Cap-1, NEW n \in 0..Cap-1
  PROVE  Slot(Slot(h, 1), n) = Slot(h, n + 1)
<1>1. 1 \in 0..Cap /\ n \in 0..Cap /\ n + 1 \in 0..Cap
  OBVIOUS
<1>2. /\ Slot(h, 1) = IF h + 1 < Cap THEN h + 1 ELSE h + 1 - Cap
      /\ Slot(h, 1) \in 0..Cap-1
  BY <1>1, SlotIs
<1>3. Slot(h, n + 1) = IF h + (n + 1) < Cap THEN h + (n + 1) ELSE h + (n + 1) - Cap
  BY <1>1, SlotIs
<1>4. Slot(Slot(h, 1), n) = IF Slot(h, 1) + n < Cap THEN Slot(h, 1) + n
                            ELSE Slot(h, 1) + n - Cap
  BY <1>1, <1>2, SlotIs
<1> QED
  BY <1>2, <1>3, <1>4

\* What RingIsFifo says, by slots.
FifoBySlot ==
  /\ pending_count = Len(outstanding)
  /\ \A i \in 1..pending_count :
       pending_queue[Slot(pending_head, i - 1)] = outstanding[i]

\* The two are the same.
LEMMA FifoAsSlots == TypeOK => (RingIsFifo <=> FifoBySlot)
<1> SUFFICES ASSUME TypeOK PROVE RingIsFifo <=> FifoBySlot
  OBVIOUS
<1>1. pending_head \in Nat /\ pending_count \in Nat
  BY DEF TypeOK
<1>2. \A i \in 1..pending_count : (pending_head + i - 1) % Cap = Slot(pending_head, i - 1)
  <2> TAKE i \in 1..pending_count
  <2>1. pending_head + i - 1 = pending_head + (i - 1)
    BY <1>1
  <2> QED
    BY <2>1, Zenon DEF Slot
<1> QED
  BY <1>2 DEF RingIsFifo, FifoBySlot

\* The entry the worker takes is the oldest outstanding frequency.
LEMMA OldestAtHead ==
  ASSUME IInv, pending_count > 0
  PROVE  /\ pending_queue[pending_head] = outstanding[1]
         /\ outstanding[1] \in Freqs
<1>0. TypeOK /\ FifoBySlot
  BY FifoAsSlots DEF IInv
<1>1. Slot(pending_head, 1 - 1) = pending_head
  <2>1. pending_head \in 0..Cap-1 /\ 1 - 1 = 0 /\ 0 \in 0..Cap
    BY <1>0 DEF TypeOK
  <2> QED
    BY <2>1, SlotIs
<1>2. 1 \in 1..pending_count
  BY <1>0 DEF TypeOK
<1>3. outstanding[1] \in Freqs
  BY <1>0, <1>2 DEF TypeOK, FifoBySlot
<1> QED
  BY <1>0, <1>1, <1>2, <1>3 DEF FifoBySlot

-----------------------------------------------------------------------------
(* Frequencies, sessions and the status *)

\* What a request or the worker works on stays a frequency.
LEMMA FreqStep == IInv /\ [Next]_vars => FreqInv'
<1> SUFFICES ASSUME IInv, [Next]_vars PROVE FreqInv'
  OBVIOUS
<1>0. TypeOK /\ FreqInv
  BY DEF IInv
<1> USE <1>0
    DEF TypeOK, FreqInv, claimVars, selVars, queueVars,
        resultVars, workVars, connVars
<1>1. ASSUME NEW c \in Conns, NEW f \in Freqs, SetChannel(c, f) PROVE FreqInv'
  BY <1>1 DEF SetChannel
<1>2. ASSUME NEW c \in Conns, NEW m \in Maps, EndSession(c, m) PROVE FreqInv'
  BY <1>2 DEF EndSession
<1>3. ASSUME NEW c \in Conns, NEW d \in Deliveries, NEW f \in Freqs,
             SetVchannel(c, d, f)
      PROVE  FreqInv'
  BY <1>3 DEF SetVchannel, Goto
<1>4. ASSUME NEW c \in Conns, ClaimFast(c) PROVE FreqInv'
  BY <1>4 DEF ClaimFast, Goto
<1>5. ASSUME NEW c \in Conns, QueueSet(c) PROVE FreqInv'
  BY <1>5 DEF QueueSet, WakeWorker, SelectFreq
<1>6. ASSUME NEW c \in Conns, OpenSession(c) PROVE FreqInv'
  BY <1>6 DEF OpenSession, SelectFreq
<1>7. ASSUME NEW c \in Conns, Spawn(c) PROVE FreqInv'
  BY <1>7 DEF Spawn, Goto
<1>8. ASSUME NEW c \in Conns, SpawnFails(c) PROVE FreqInv'
  BY <1>8 DEF SpawnFails, Goto
<1>9. ASSUME NEW c \in Conns, Unclaim(c) PROVE FreqInv'
  BY <1>9 DEF Unclaim, Done
<1>10. ASSUME NEW c \in Conns, Answered(c) PROVE FreqInv'
  BY <1>10 DEF Answered, Goto
<1>11. ASSUME NEW c \in Conns, SetVstatus(c) PROVE FreqInv'
  BY <1>11 DEF SetVstatus, Done
<1>12. ASSUME NEW c \in Conns, Ends(c) PROVE FreqInv'
  BY <1>12 DEF Ends, Done
<1>13. ASSUME WorkerOpen PROVE FreqInv'
  BY <1>13 DEF WorkerOpen, workerOnly
<1>14. ASSUME WorkerAttempt PROVE FreqInv'
  BY <1>14 DEF WorkerAttempt, workerOnly
<1>15. ASSUME WorkerPublish \/ FinalizeLockResult PROVE FreqInv'
  BY <1>15 DEF WorkerPublish, FinalizeLockResult
<1>16. ASSUME wpc \in {"drain", "awake", "idle"}, Dequeue PROVE FreqInv'
  BY <1>16, OldestAtHead DEF Dequeue
<1>17. ASSUME wpc \in {"drain", "awake", "idle"}, LeaveLoop \/ WaitForPending
      PROVE  FreqInv'
  BY <1>17 DEF LeaveLoop, WaitForPending, workerOnly
<1>18. ASSUME WorkerEnd PROVE FreqInv'
  BY <1>18 DEF WorkerEnd
<1>19. ASSUME WorkerRelease PROVE FreqInv'
  BY <1>19 DEF WorkerRelease
<1>20. ASSUME NEW x \in Takers, Take(x) PROVE FreqInv'
  BY <1>20 DEF Take, takerOnly
<1>21. ASSUME NEW x \in Takers, AwaitTuner(x) PROVE FreqInv'
  BY <1>21 DEF AwaitTuner, WakeWorker, takerOnly
<1>22. ASSUME NEW x \in Takers, GiveUp(x) PROVE FreqInv'
  BY <1>22 DEF GiveUp, takerOnly
<1>23. ASSUME NEW x \in Takers, Leave(x) PROVE FreqInv'
  BY <1>23 DEF Leave, takerOnly
<1>24. ASSUME UNCHANGED vars PROVE FreqInv'
  BY <1>24 DEF vars
<1> HIDE DEF FreqInv, TypeOK
<1> QED
  BY NextCases, <1>1, <1>2, <1>3, <1>4, <1>5, <1>6, <1>7, <1>8, <1>9, <1>10,
     <1>11, <1>12, <1>13, <1>14, <1>15, <1>16, <1>17, <1>18, <1>19, <1>20,
     <1>21, <1>22, <1>23, <1>24

\* Ending a session leaves everybody who still works for it behind.
LEMMA StaleStep == IInv /\ [Next]_vars => StaleInv'
<1> SUFFICES ASSUME IInv, [Next]_vars PROVE StaleInv'
  OBVIOUS
<1>0. TypeOK /\ StaleInv /\ FreqInv /\ GenerationInv
  BY DEF IInv
<1> USE <1>0
    DEF TypeOK, StaleInv, FreqInv, GenerationInv, claimVars, selVars, queueVars,
        resultVars, workVars, connVars
<1>1. ASSUME NEW c \in Conns, NEW f \in Freqs, SetChannel(c, f) PROVE StaleInv'
  BY <1>1 DEF SetChannel
<1>2. ASSUME NEW c \in Conns, NEW m \in Maps, EndSession(c, m) PROVE StaleInv'
  BY <1>2 DEF EndSession
<1>3. ASSUME NEW c \in Conns, NEW d \in Deliveries, NEW f \in Freqs,
             SetVchannel(c, d, f)
      PROVE  StaleInv'
  BY <1>3 DEF SetVchannel, Goto
<1>4. ASSUME NEW c \in Conns, ClaimFast(c) PROVE StaleInv'
  BY <1>4 DEF ClaimFast, Goto
<1>5. ASSUME NEW c \in Conns, QueueSet(c) PROVE StaleInv'
  BY <1>5 DEF QueueSet, WakeWorker, SelectFreq
<1>6. ASSUME NEW c \in Conns, OpenSession(c) PROVE StaleInv'
  BY <1>6 DEF OpenSession, SelectFreq
<1>7. ASSUME NEW c \in Conns, Spawn(c) PROVE StaleInv'
  BY <1>7 DEF Spawn, Goto
<1>8. ASSUME NEW c \in Conns, SpawnFails(c) PROVE StaleInv'
  BY <1>8 DEF SpawnFails, Goto
<1>9. ASSUME NEW c \in Conns, Unclaim(c) PROVE StaleInv'
  BY <1>9 DEF Unclaim, Done
<1>10. ASSUME NEW c \in Conns, Answered(c) PROVE StaleInv'
  BY <1>10 DEF Answered, Goto
<1>11. ASSUME NEW c \in Conns, SetVstatus(c) PROVE StaleInv'
  BY <1>11 DEF SetVstatus, Done
<1>12. ASSUME NEW c \in Conns, Ends(c) PROVE StaleInv'
  BY <1>12 DEF Ends, Done
<1>13. ASSUME WorkerOpen PROVE StaleInv'
  BY <1>13 DEF WorkerOpen, workerOnly
<1>14. ASSUME WorkerAttempt PROVE StaleInv'
  BY <1>14 DEF WorkerAttempt, workerOnly
<1>15. ASSUME WorkerPublish \/ FinalizeLockResult PROVE StaleInv'
  BY <1>15 DEF WorkerPublish, FinalizeLockResult
<1>16. ASSUME wpc \in {"drain", "awake", "idle"}, Dequeue PROVE StaleInv'
  BY <1>16 DEF Dequeue
<1>17. ASSUME wpc \in {"drain", "awake", "idle"}, LeaveLoop \/ WaitForPending
      PROVE  StaleInv'
  BY <1>17 DEF LeaveLoop, WaitForPending, workerOnly
<1>18. ASSUME WorkerEnd PROVE StaleInv'
  BY <1>18 DEF WorkerEnd
<1>19. ASSUME WorkerRelease PROVE StaleInv'
  BY <1>19 DEF WorkerRelease
<1>20. ASSUME NEW x \in Takers, Take(x) PROVE StaleInv'
  BY <1>20 DEF Take, takerOnly
<1>21. ASSUME NEW x \in Takers, AwaitTuner(x) PROVE StaleInv'
  BY <1>21 DEF AwaitTuner, WakeWorker, takerOnly
<1>22. ASSUME NEW x \in Takers, GiveUp(x) PROVE StaleInv'
  BY <1>22 DEF GiveUp, takerOnly
<1>23. ASSUME NEW x \in Takers, Leave(x) PROVE StaleInv'
  BY <1>23 DEF Leave, takerOnly
<1>24. ASSUME UNCHANGED vars PROVE StaleInv'
  BY <1>24 DEF vars
<1> HIDE DEF FreqInv, GenerationInv, StaleInv, TypeOK
<1> QED
  BY NextCases, <1>1, <1>2, <1>3, <1>4, <1>5, <1>6, <1>7, <1>8, <1>9, <1>10,
     <1>11, <1>12, <1>13, <1>14, <1>15, <1>16, <1>17, <1>18, <1>19, <1>20,
     <1>21, <1>22, <1>23, <1>24

\* Nobody who is behind writes the status.
LEMMA NoneStep == IInv /\ [Next]_vars => NoneStaysNone'
<1> SUFFICES ASSUME IInv, [Next]_vars PROVE NoneStaysNone'
  OBVIOUS
<1>0. TypeOK /\ StaleInv /\ FreqInv /\ NoneStaysNone
  BY DEF IInv
<1> USE <1>0
    DEF TypeOK, StaleInv, FreqInv, NoneStaysNone, claimVars, selVars, queueVars,
        resultVars, workVars, connVars
<1>1. ASSUME NEW c \in Conns, NEW f \in Freqs, SetChannel(c, f) PROVE NoneStaysNone'
  BY <1>1 DEF SetChannel
<1>2. ASSUME NEW c \in Conns, NEW m \in Maps, EndSession(c, m) PROVE NoneStaysNone'
  BY <1>2 DEF EndSession
<1>3. ASSUME NEW c \in Conns, NEW d \in Deliveries, NEW f \in Freqs,
             SetVchannel(c, d, f)
      PROVE  NoneStaysNone'
  BY <1>3 DEF SetVchannel, Goto
<1>4. ASSUME NEW c \in Conns, ClaimFast(c) PROVE NoneStaysNone'
  BY <1>4 DEF ClaimFast, Goto
<1>5. ASSUME NEW c \in Conns, QueueSet(c) PROVE NoneStaysNone'
  BY <1>5 DEF QueueSet, WakeWorker, SelectFreq
<1>6. ASSUME NEW c \in Conns, OpenSession(c) PROVE NoneStaysNone'
  BY <1>6 DEF OpenSession, SelectFreq
<1>7. ASSUME NEW c \in Conns, Spawn(c) PROVE NoneStaysNone'
  BY <1>7 DEF Spawn, Goto
<1>8. ASSUME NEW c \in Conns, SpawnFails(c) PROVE NoneStaysNone'
  BY <1>8 DEF SpawnFails, Goto
<1>9. ASSUME NEW c \in Conns, Unclaim(c) PROVE NoneStaysNone'
  BY <1>9 DEF Unclaim, Done
<1>10. ASSUME NEW c \in Conns, Answered(c) PROVE NoneStaysNone'
  BY <1>10 DEF Answered, Goto
<1>11. ASSUME NEW c \in Conns, SetVstatus(c) PROVE NoneStaysNone'
  BY <1>11 DEF SetVstatus, Done
<1>12. ASSUME NEW c \in Conns, Ends(c) PROVE NoneStaysNone'
  BY <1>12 DEF Ends, Done
<1>13. ASSUME WorkerOpen PROVE NoneStaysNone'
  BY <1>13 DEF WorkerOpen, workerOnly
<1>14. ASSUME WorkerAttempt PROVE NoneStaysNone'
  BY <1>14 DEF WorkerAttempt, workerOnly
<1>15. ASSUME WorkerPublish \/ FinalizeLockResult PROVE NoneStaysNone'
  BY <1>15 DEF WorkerPublish, FinalizeLockResult
<1>16. ASSUME wpc \in {"drain", "awake", "idle"}, Dequeue PROVE NoneStaysNone'
  BY <1>16 DEF Dequeue
<1>17. ASSUME wpc \in {"drain", "awake", "idle"}, LeaveLoop \/ WaitForPending
      PROVE  NoneStaysNone'
  BY <1>17 DEF LeaveLoop, WaitForPending, workerOnly
<1>18. ASSUME WorkerEnd PROVE NoneStaysNone'
  BY <1>18 DEF WorkerEnd
<1>19. ASSUME WorkerRelease PROVE NoneStaysNone'
  BY <1>19 DEF WorkerRelease
<1>20. ASSUME NEW x \in Takers, Take(x) PROVE NoneStaysNone'
  BY <1>20 DEF Take, takerOnly
<1>21. ASSUME NEW x \in Takers, AwaitTuner(x) PROVE NoneStaysNone'
  BY <1>21 DEF AwaitTuner, WakeWorker, takerOnly
<1>22. ASSUME NEW x \in Takers, GiveUp(x) PROVE NoneStaysNone'
  BY <1>22 DEF GiveUp, takerOnly
<1>23. ASSUME NEW x \in Takers, Leave(x) PROVE NoneStaysNone'
  BY <1>23 DEF Leave, takerOnly
<1>24. ASSUME UNCHANGED vars PROVE NoneStaysNone'
  BY <1>24 DEF vars
<1> HIDE DEF FreqInv, NoneStaysNone, StaleInv, TypeOK
<1> QED
  BY NextCases, <1>1, <1>2, <1>3, <1>4, <1>5, <1>6, <1>7, <1>8, <1>9, <1>10,
     <1>11, <1>12, <1>13, <1>14, <1>15, <1>16, <1>17, <1>18, <1>19, <1>20,
     <1>21, <1>22, <1>23, <1>24

\* Whoever brings work wakes the worker.
LEMMA SleepStep == IInv /\ [Next]_vars => NoSleepOverWork'
<1> SUFFICES ASSUME IInv, [Next]_vars PROVE NoSleepOverWork'
  OBVIOUS
<1>0. TypeOK /\ NoSleepOverWork
  BY DEF IInv
<1> USE <1>0
    DEF TypeOK, NoSleepOverWork, claimVars, selVars, queueVars,
        resultVars, workVars, connVars
<1>1. ASSUME NEW c \in Conns, NEW f \in Freqs, SetChannel(c, f) PROVE NoSleepOverWork'
  BY <1>1 DEF SetChannel
<1>2. ASSUME NEW c \in Conns, NEW m \in Maps, EndSession(c, m) PROVE NoSleepOverWork'
  BY <1>2 DEF EndSession
<1>3. ASSUME NEW c \in Conns, NEW d \in Deliveries, NEW f \in Freqs,
             SetVchannel(c, d, f)
      PROVE  NoSleepOverWork'
  BY <1>3 DEF SetVchannel, Goto
<1>4. ASSUME NEW c \in Conns, ClaimFast(c) PROVE NoSleepOverWork'
  BY <1>4 DEF ClaimFast, Goto
<1>5. ASSUME NEW c \in Conns, QueueSet(c) PROVE NoSleepOverWork'
  BY <1>5 DEF QueueSet, WakeWorker, SelectFreq
<1>6. ASSUME NEW c \in Conns, OpenSession(c) PROVE NoSleepOverWork'
  BY <1>6 DEF OpenSession, SelectFreq
<1>7. ASSUME NEW c \in Conns, Spawn(c) PROVE NoSleepOverWork'
  BY <1>7 DEF Spawn, Goto
<1>8. ASSUME NEW c \in Conns, SpawnFails(c) PROVE NoSleepOverWork'
  BY <1>8 DEF SpawnFails, Goto
<1>9. ASSUME NEW c \in Conns, Unclaim(c) PROVE NoSleepOverWork'
  BY <1>9 DEF Unclaim, Done
<1>10. ASSUME NEW c \in Conns, Answered(c) PROVE NoSleepOverWork'
  BY <1>10 DEF Answered, Goto
<1>11. ASSUME NEW c \in Conns, SetVstatus(c) PROVE NoSleepOverWork'
  BY <1>11 DEF SetVstatus, Done
<1>12. ASSUME NEW c \in Conns, Ends(c) PROVE NoSleepOverWork'
  BY <1>12 DEF Ends, Done
<1>13. ASSUME WorkerOpen PROVE NoSleepOverWork'
  BY <1>13 DEF WorkerOpen, workerOnly
<1>14. ASSUME WorkerAttempt PROVE NoSleepOverWork'
  BY <1>14 DEF WorkerAttempt, workerOnly
<1>15. ASSUME WorkerPublish \/ FinalizeLockResult PROVE NoSleepOverWork'
  BY <1>15 DEF WorkerPublish, FinalizeLockResult
<1>16. ASSUME wpc \in {"drain", "awake", "idle"}, Dequeue PROVE NoSleepOverWork'
  BY <1>16 DEF Dequeue
<1>17. ASSUME wpc \in {"drain", "awake", "idle"}, LeaveLoop \/ WaitForPending
      PROVE  NoSleepOverWork'
  BY <1>17 DEF LeaveLoop, WaitForPending, workerOnly
<1>18. ASSUME WorkerEnd PROVE NoSleepOverWork'
  BY <1>18 DEF WorkerEnd
<1>19. ASSUME WorkerRelease PROVE NoSleepOverWork'
  BY <1>19 DEF WorkerRelease
<1>20. ASSUME NEW x \in Takers, Take(x) PROVE NoSleepOverWork'
  BY <1>20, WaiterIsCounted DEF Take, takerOnly
<1>21. ASSUME NEW x \in Takers, AwaitTuner(x) PROVE NoSleepOverWork'
  BY <1>21 DEF AwaitTuner, WakeWorker, takerOnly
<1>22. ASSUME NEW x \in Takers, GiveUp(x) PROVE NoSleepOverWork'
  BY <1>22, WaiterIsCounted DEF GiveUp, takerOnly
<1>23. ASSUME NEW x \in Takers, Leave(x) PROVE NoSleepOverWork'
  BY <1>23 DEF Leave, takerOnly
<1>24. ASSUME UNCHANGED vars PROVE NoSleepOverWork'
  BY <1>24 DEF vars
<1> HIDE DEF NoSleepOverWork, TypeOK
<1> QED
  BY NextCases, <1>1, <1>2, <1>3, <1>4, <1>5, <1>6, <1>7, <1>8, <1>9, <1>10,
     <1>11, <1>12, <1>13, <1>14, <1>15, <1>16, <1>17, <1>18, <1>19, <1>20,
     <1>21, <1>22, <1>23, <1>24

-----------------------------------------------------------------------------
(* Generations *)

\* The requests that may still open a session.
Askers == {c \in Conns : cpc[c] \in Asking}

\* A step of one connection changes their number by at most one.
LEMMA AskersStep ==
  ASSUME TypeOK, NEW c \in Conns, NEW l, cpc' = [cpc EXCEPT ![c] = l]
  PROVE  /\ Cardinality(Askers) \in Nat /\ Cardinality(Askers') \in Nat
         /\ l \in Asking /\ cpc[c] \notin Asking =>
              Cardinality(Askers') = Cardinality(Askers) + 1
         /\ l \notin Asking /\ cpc[c] \in Asking =>
              Cardinality(Askers') + 1 = Cardinality(Askers)
         /\ l \notin Asking /\ cpc[c] \notin Asking =>
              Cardinality(Askers') = Cardinality(Askers)
         /\ l \in Asking /\ cpc[c] \in Asking =>
              Cardinality(Askers') = Cardinality(Askers)
<1>1. IsFiniteSet(Askers) /\ IsFiniteSet(Askers')
  BY FS_Subset DEF Askers
<1>2. Cardinality(Askers) \in Nat /\ Cardinality(Askers') \in Nat
  BY <1>1, FS_CardinalityType
<1>3. \A d \in Conns : cpc'[d] = IF d = c THEN l ELSE cpc[d]
  BY DEF TypeOK
<1>4. ASSUME l \in Asking, cpc[c] \notin Asking
      PROVE  Cardinality(Askers') = Cardinality(Askers) + 1
  <2>1. c \notin Askers /\ Askers' = Askers \cup {c}
    BY <1>3, <1>4 DEF Askers
  <2> QED
    BY <1>1, <2>1, FS_AddElement
<1>5. ASSUME l \notin Asking, cpc[c] \in Asking
      PROVE  Cardinality(Askers') + 1 = Cardinality(Askers)
  <2>1. c \in Askers /\ Askers' = Askers \ {c}
    BY <1>3, <1>5 DEF Askers
  <2>2. Cardinality(Askers') = Cardinality(Askers) - 1
    BY <1>1, <2>1, FS_RemoveElement
  <2> QED
    BY <1>2, <2>2
<1>6. ASSUME l \in Asking <=> cpc[c] \in Asking
      PROVE  Askers' = Askers
  BY <1>3, <1>6 DEF Askers
<1> QED
  BY <1>2, <1>4, <1>5, <1>6

\* Every session opened or ended uses up a request.
LEMMA GenerationStep == IInv /\ [Next]_vars => GenerationInv'
<1> SUFFICES ASSUME IInv, [Next]_vars PROVE GenerationInv'
  OBVIOUS
<1>0. TypeOK /\ GenerationInv
  BY DEF IInv
<1>G. GenerationInv <=>
        /\ scan_generation + Cardinality(Askers) <= ops
        /\ wgen <= scan_generation /\ last_attempt_generation <= scan_generation
        /\ \A c \in Conns : cgen[c] <= scan_generation
  BY DEF GenerationInv, Askers
<1>P. (GenerationInv <=>
        /\ scan_generation + Cardinality(Askers) <= ops
        /\ wgen <= scan_generation /\ last_attempt_generation <= scan_generation
        /\ \A c \in Conns : cgen[c] <= scan_generation)'
  BY DEF GenerationInv, Askers
<1> USE <1>0, <1>G, <1>P
    DEF TypeOK, claimVars, selVars, queueVars,
        resultVars, workVars, connVars
<1>1. ASSUME NEW c \in Conns, NEW f \in Freqs, SetChannel(c, f) PROVE GenerationInv'
  <2>1. cpc' = [cpc EXCEPT ![c] = "claim"] /\ cpc[c] \notin Asking
    BY <1>1 DEF SetChannel, Asking
  <2>2. Cardinality(Askers') = Cardinality(Askers) + 1 /\ Cardinality(Askers) \in Nat
    BY <2>1, AskersStep DEF Asking
  <2> QED
    BY <1>1, <2>2 DEF SetChannel
<1>2. ASSUME NEW c \in Conns, NEW m \in Maps, EndSession(c, m) PROVE GenerationInv'
  <2>1. Askers' = Askers /\ Cardinality(Askers) \in Nat
    BY <1>2, FS_Subset, FS_CardinalityType DEF EndSession, Askers
  <2> QED
    BY <1>2, <2>1 DEF EndSession
<1>3. ASSUME NEW c \in Conns, NEW d \in Deliveries, NEW f \in Freqs,
             SetVchannel(c, d, f)
      PROVE  GenerationInv'
  <2>1. /\ cpc' = [cpc EXCEPT ![c] = "vstatus"]
        /\ cpc[c] \notin Asking /\ "vstatus" \notin Asking
    BY <1>3 DEF SetVchannel, Goto, Asking
  <2>2. Cardinality(Askers') = Cardinality(Askers)
    BY <2>1, AskersStep
  <2> QED
    BY <1>3, <2>2 DEF SetVchannel, Goto
<1>4. ASSUME NEW c \in Conns, ClaimFast(c) PROVE GenerationInv'
  <2>1. \E l \in Asking : cpc' = [cpc EXCEPT ![c] = l] /\ cpc[c] \in Asking
    BY <1>4 DEF ClaimFast, Goto, Asking
  <2>2. Cardinality(Askers') = Cardinality(Askers)
    BY <2>1, AskersStep
  <2> QED
    BY <1>4, <2>2 DEF ClaimFast, Goto
<1>5. ASSUME NEW c \in Conns, QueueSet(c) PROVE GenerationInv'
  <2>1. cpc' = [cpc EXCEPT ![c] = "wait"] /\ cpc[c] \in Asking
    BY <1>5 DEF QueueSet, Asking
  <2>2. Cardinality(Askers') + 1 = Cardinality(Askers) /\ Cardinality(Askers') \in Nat
    BY <2>1, AskersStep DEF Asking
  <2> QED
    BY <1>5, <2>2 DEF QueueSet
<1>6. ASSUME NEW c \in Conns, OpenSession(c) PROVE GenerationInv'
  <2>1. cpc' = [cpc EXCEPT ![c] = "spawn"] /\ cpc[c] \in Asking
    BY <1>6 DEF OpenSession, Asking
  <2>2. Cardinality(Askers') + 1 = Cardinality(Askers) /\ Cardinality(Askers') \in Nat
    BY <2>1, AskersStep DEF Asking
  <2> QED
    BY <1>6, <2>2 DEF OpenSession
<1>7. ASSUME NEW c \in Conns, Spawn(c) PROVE GenerationInv'
  <2>1. /\ cpc' = [cpc EXCEPT ![c] = "wait"]
        /\ cpc[c] \notin Asking /\ "wait" \notin Asking
    BY <1>7 DEF Spawn, Goto, Asking
  <2>2. Cardinality(Askers') = Cardinality(Askers)
    BY <2>1, AskersStep
  <2> QED
    BY <1>7, <2>2 DEF Spawn, Goto
<1>8. ASSUME NEW c \in Conns, SpawnFails(c) PROVE GenerationInv'
  <2>1. /\ cpc' = [cpc EXCEPT ![c] = "unclaim"]
        /\ cpc[c] \notin Asking /\ "unclaim" \notin Asking
    BY <1>8 DEF SpawnFails, Goto, Asking
  <2>2. Cardinality(Askers') = Cardinality(Askers)
    BY <2>1, AskersStep
  <2> QED
    BY <1>8, <2>2 DEF SpawnFails, Goto
<1>9. ASSUME NEW c \in Conns, Unclaim(c) PROVE GenerationInv'
  <2>1. /\ cpc' = [cpc EXCEPT ![c] = "idle"]
        /\ cpc[c] \notin Asking /\ "idle" \notin Asking
    BY <1>9 DEF Unclaim, Done, Asking
  <2>2. Cardinality(Askers') = Cardinality(Askers)
    BY <2>1, AskersStep
  <2> QED
    BY <1>9, <2>2 DEF Unclaim, Done
<1>10. ASSUME NEW c \in Conns, Answered(c) PROVE GenerationInv'
  <2>1. /\ cpc' = [cpc EXCEPT ![c] = "answered"]
        /\ cpc[c] \notin Asking /\ "answered" \notin Asking
    BY <1>10 DEF Answered, Goto, Asking
  <2>2. Cardinality(Askers') = Cardinality(Askers)
    BY <2>1, AskersStep
  <2> QED
    BY <1>10, <2>2 DEF Answered, Goto
<1>11. ASSUME NEW c \in Conns, SetVstatus(c) PROVE GenerationInv'
  <2>1. /\ cpc' = [cpc EXCEPT ![c] = "idle"]
        /\ cpc[c] \notin Asking /\ "idle" \notin Asking
    BY <1>11 DEF SetVstatus, Done, Asking
  <2>2. Cardinality(Askers') = Cardinality(Askers)
    BY <2>1, AskersStep
  <2> QED
    BY <1>11, <2>2 DEF SetVstatus, Done
<1>12. ASSUME NEW c \in Conns, Ends(c) PROVE GenerationInv'
  <2>1. cpc' = [cpc EXCEPT ![c] = "idle"] /\ "idle" \notin Asking
    BY <1>12 DEF Ends, Done, Asking
  <2>2. Cardinality(Askers') \in Nat /\ Cardinality(Askers) \in Nat
    BY <2>1, AskersStep
  <2>3. \/ Cardinality(Askers') + 1 = Cardinality(Askers)
        \/ Cardinality(Askers') = Cardinality(Askers)
    BY <2>1, AskersStep
  <2> QED
    BY <1>12, <2>2, <2>3 DEF Ends, Done
<1>13. ASSUME WorkerOpen PROVE GenerationInv'
  <2>1. Askers' = Askers
    BY <1>13 DEF WorkerOpen, workerOnly, Askers
  <2> QED
    BY <1>13, <2>1 DEF WorkerOpen, workerOnly
<1>14. ASSUME WorkerAttempt PROVE GenerationInv'
  <2>1. Askers' = Askers
    BY <1>14 DEF WorkerAttempt, workerOnly, Askers
  <2> QED
    BY <1>14, <2>1 DEF WorkerAttempt, workerOnly
<1>15. ASSUME WorkerPublish \/ FinalizeLockResult PROVE GenerationInv'
  <2>1. Askers' = Askers
    BY <1>15 DEF WorkerPublish, FinalizeLockResult, Askers
  <2> QED
    BY <1>15, <2>1 DEF WorkerPublish, FinalizeLockResult
<1>16. ASSUME wpc \in {"drain", "awake", "idle"}, Dequeue PROVE GenerationInv'
  <2>1. Askers' = Askers
    BY <1>16 DEF Dequeue, Askers
  <2> QED
    BY <1>16, <2>1 DEF Dequeue
<1>17. ASSUME wpc \in {"drain", "awake", "idle"}, LeaveLoop \/ WaitForPending
      PROVE  GenerationInv'
  <2>1. Askers' = Askers
    BY <1>17 DEF LeaveLoop, WaitForPending, workerOnly, Askers
  <2> QED
    BY <1>17, <2>1 DEF LeaveLoop, WaitForPending, workerOnly
<1>18. ASSUME WorkerEnd PROVE GenerationInv'
  <2>1. Askers' = Askers
    BY <1>18 DEF WorkerEnd, Askers
  <2> QED
    BY <1>18, <2>1 DEF WorkerEnd
<1>19. ASSUME WorkerRelease PROVE GenerationInv'
  <2>1. Askers' = Askers
    BY <1>19 DEF WorkerRelease, Askers
  <2> QED
    BY <1>19, <2>1 DEF WorkerRelease
<1>20. ASSUME NEW x \in Takers, Take(x) PROVE GenerationInv'
  <2>1. Askers' = Askers
    BY <1>20 DEF Take, takerOnly, Askers
  <2> QED
    BY <1>20, <2>1 DEF Take, takerOnly
<1>21. ASSUME NEW x \in Takers, AwaitTuner(x) PROVE GenerationInv'
  <2>1. Askers' = Askers
    BY <1>21 DEF AwaitTuner, WakeWorker, takerOnly, Askers
  <2> QED
    BY <1>21, <2>1 DEF AwaitTuner, WakeWorker, takerOnly
<1>22. ASSUME NEW x \in Takers, GiveUp(x) PROVE GenerationInv'
  <2>1. Askers' = Askers
    BY <1>22 DEF GiveUp, takerOnly, Askers
  <2> QED
    BY <1>22, <2>1 DEF GiveUp, takerOnly
<1>23. ASSUME NEW x \in Takers, Leave(x) PROVE GenerationInv'
  <2>1. Askers' = Askers
    BY <1>23 DEF Leave, takerOnly, Askers
  <2> QED
    BY <1>23, <2>1 DEF Leave, takerOnly
<1>24. ASSUME UNCHANGED vars PROVE GenerationInv'
  <2>1. Askers' = Askers
    BY <1>24 DEF vars, Askers
  <2> QED
    BY <1>24, <2>1 DEF vars
<1> HIDE DEF GenerationInv, TypeOK
<1> QED
  BY NextCases, <1>1, <1>2, <1>3, <1>4, <1>5, <1>6, <1>7, <1>8, <1>9, <1>10,
     <1>11, <1>12, <1>13, <1>14, <1>15, <1>16, <1>17, <1>18, <1>19, <1>20,
     <1>21, <1>22, <1>23, <1>24

-----------------------------------------------------------------------------
(* The ring is a FIFO *)

\* Enqueueing, with and without the reset of a full ring, appends.
LEMMA EnqueueAppends ==
  ASSUME IInv, NEW f \in Freqs, Enqueue(f)
  PROVE  FifoBySlot'
<1>0. /\ pending_queue \in [0..Cap-1 -> Freqs \cup {None}]
      /\ pending_head \in 0..Cap-1 /\ pending_count \in 0..Cap
      /\ outstanding \in Seq(Freqs)
  BY DEF IInv, TypeOK
<1>1. /\ pending_count = Len(outstanding)
      /\ \A i \in 1..pending_count :
           pending_queue[Slot(pending_head, i - 1)] = outstanding[i]
  BY FifoAsSlots DEF IInv, FifoBySlot
<1>2. CASE pending_count >= Cap
  <2>1. /\ pending_queue' = [pending_queue EXCEPT ![Slot(0, 0)] = f]
        /\ pending_head' = 0 /\ pending_count' = 0 + 1
        /\ outstanding' = Append(<<>>, f)
    BY <1>2 DEF Enqueue, Slot
  <2>2. Slot(0, 0) \in 0..Cap-1 /\ 1 - 1 = 0
    BY SlotIs
  <2>3. pending_queue'[Slot(0, 1 - 1)] = f
    BY <1>0, <2>1, <2>2
  <2>4. outstanding'[1] = f /\ Len(outstanding') = 1
    BY <2>1
  <2>5. pending_count' = 1 /\ \A i \in 1..1 : i = 1
    BY <2>1
  <2> QED
    BY <2>1, <2>3, <2>4, <2>5 DEF FifoBySlot
<1>3. CASE ~(pending_count >= Cap)
  <2>1. /\ pending_queue' =
             [pending_queue EXCEPT ![Slot(pending_head, pending_count)] = f]
        /\ pending_head' = pending_head /\ pending_count' = pending_count + 1
        /\ outstanding' = Append(outstanding, f)
    BY <1>3 DEF Enqueue, Slot
  <2>2. pending_count \in 0..Cap-1 /\ Slot(pending_head, pending_count) \in 0..Cap-1
    <3>1. pending_count \in 0..Cap-1
      BY <1>0, <1>3
    <3> QED
      BY <1>0, <3>1, SlotIs
  <2>3. ASSUME NEW i \in 1..pending_count'
        PROVE  pending_queue'[Slot(pending_head, i - 1)] = outstanding'[i]
    <3>1. CASE i = pending_count + 1
      <4>1. i - 1 = pending_count /\ outstanding'[i] = f
        BY <1>0, <1>1, <2>1, <3>1
      <4> QED
        BY <1>0, <2>1, <2>2, <4>1
    <3>2. CASE i \in 1..pending_count
      <4>1. i - 1 \in 0..Cap-1 /\ i - 1 # pending_count
        BY <1>0, <2>2, <3>2
      <4>2. Slot(pending_head, i - 1) # Slot(pending_head, pending_count)
        BY <1>0, <2>2, <4>1, SlotsDiffer
      <4>3. i - 1 \in 0..Cap
        BY <4>1
      <4>4. Slot(pending_head, i - 1) \in 0..Cap-1
        BY <1>0, <4>3, SlotIs
      <4>5. outstanding'[i] = outstanding[i]
        BY <1>0, <1>1, <2>1, <3>2
      <4> QED
        BY <1>0, <1>1, <2>1, <3>2, <4>2, <4>4, <4>5
    <3>3. i = pending_count + 1 \/ i \in 1..pending_count
      BY <1>0, <2>1
    <3> QED
      BY <3>1, <3>2, <3>3
  <2>4. pending_count' = Len(outstanding')
    BY <1>0, <1>1, <2>1
  <2> QED
    BY <2>1, <2>3, <2>4 DEF FifoBySlot
<1> QED
  BY <1>2, <1>3

\* Dequeueing takes the head.
LEMMA DequeueTakesHead ==
  ASSUME IInv, Dequeue
  PROVE  FifoBySlot'
<1>0. /\ pending_head \in 0..Cap-1 /\ pending_count \in 0..Cap
      /\ outstanding \in Seq(Freqs)
  BY DEF IInv, TypeOK
<1>1. /\ pending_count = Len(outstanding)
      /\ \A i \in 1..pending_count :
           pending_queue[Slot(pending_head, i - 1)] = outstanding[i]
  BY FifoAsSlots DEF IInv, FifoBySlot
<1>2. /\ pending_head' = Slot(pending_head, 1)
      /\ pending_count' = pending_count - 1 /\ pending_count > 0
      /\ outstanding' = Tail(outstanding) /\ pending_queue' = pending_queue
  BY DEF Dequeue, Slot
<1>3. outstanding # <<>> /\ Len(outstanding') = Len(outstanding) - 1
  BY <1>0, <1>1, <1>2
<1>4. ASSUME NEW i \in 1..pending_count'
      PROVE  pending_queue'[Slot(pending_head', i - 1)] = outstanding'[i]
  <2>1. /\ i + 1 \in 1..pending_count /\ i - 1 \in 0..Cap-1
        /\ (i - 1) + 1 = (i + 1) - 1
    BY <1>0, <1>2
  <2>2. Slot(pending_head', i - 1) = Slot(pending_head, (i - 1) + 1)
    BY <1>0, <1>2, <2>1, SlotAfterNext
  <2>3. outstanding'[i] = outstanding[i + 1]
    BY <1>0, <1>1, <1>2, <1>3, <2>1
  <2> QED
    BY <1>1, <1>2, <2>1, <2>2, <2>3
<1> QED
  BY <1>1, <1>2, <1>3, <1>4 DEF FifoBySlot

\* Nothing else touches the ring.
LEMMA RingStep == IInv /\ [Next]_vars => RingIsFifo'
<1> SUFFICES ASSUME IInv, [Next]_vars PROVE RingIsFifo'
  OBVIOUS
<1>0. FifoBySlot' => RingIsFifo'
  <2>1. TypeOK'
    BY TypeStep
  <2>2. (TypeOK => (RingIsFifo <=> FifoBySlot))'
    BY FifoAsSlots, PTL
  <2> QED
    BY <2>1, <2>2
<1>1. ASSUME NEW c \in Conns, QueueSet(c) PROVE RingIsFifo'
  <2>1. cfreq[c] \in Freqs /\ Enqueue(cfreq[c])
    BY <1>1 DEF QueueSet, IInv, FreqInv
  <2> QED
    BY <1>0, <2>1, EnqueueAppends
<1>2. ASSUME UNCHANGED queueVars PROVE RingIsFifo'
  BY <1>2 DEF queueVars, RingIsFifo, IInv
<1>3. (\E c \in Conns : QueueSet(c)) \/ Dequeue \/ UNCHANGED queueVars
  BY NextCases
     DEF SetChannel, EndSession, SetVchannel, ClaimFast, OpenSession, Spawn,
         SpawnFails, Unclaim, Answered, SetVstatus, Ends, WorkerOpen,
         WorkerAttempt, WorkerPublish, FinalizeLockResult, LeaveLoop,
         WaitForPending, WorkerEnd, WorkerRelease, Take, AwaitTuner, GiveUp,
         Leave, workerOnly, takerOnly, vars
<1> QED
  BY <1>0, <1>1, <1>2, <1>3, DequeueTakesHead

-----------------------------------------------------------------------------
(* claim_waiters *)

\* The claimers in tuner_try_claim_wait's wait.
Waiters == {x \in Takers : tpc[x] = "wait"}

\* A step of one claimer changes their number by at most one.
LEMMA WaitersStep ==
  ASSUME TypeOK, NEW x \in Takers, NEW l, tpc' = [tpc EXCEPT ![x] = l]
  PROVE  /\ Cardinality(Waiters) \in Nat /\ Cardinality(Waiters') \in Nat
         /\ l = "wait" /\ tpc[x] # "wait" =>
              Cardinality(Waiters') = Cardinality(Waiters) + 1
         /\ l # "wait" /\ tpc[x] = "wait" =>
              Cardinality(Waiters') = Cardinality(Waiters) - 1
         /\ l # "wait" /\ tpc[x] # "wait" => Waiters' = Waiters
<1>1. IsFiniteSet(Waiters) /\ IsFiniteSet(Waiters')
  BY FS_Subset DEF Waiters
<1>2. Cardinality(Waiters) \in Nat /\ Cardinality(Waiters') \in Nat
  BY <1>1, FS_CardinalityType
<1>3. \A y \in Takers : tpc'[y] = IF y = x THEN l ELSE tpc[y]
  BY DEF TypeOK
<1>4. ASSUME l = "wait", tpc[x] # "wait"
      PROVE  Cardinality(Waiters') = Cardinality(Waiters) + 1
  <2>1. x \notin Waiters /\ Waiters' = Waiters \cup {x}
    BY <1>3, <1>4 DEF Waiters
  <2> QED
    BY <1>1, <2>1, FS_AddElement
<1>5. ASSUME l # "wait", tpc[x] = "wait"
      PROVE  Cardinality(Waiters') = Cardinality(Waiters) - 1
  <2>1. x \in Waiters /\ Waiters' = Waiters \ {x}
    BY <1>3, <1>5 DEF Waiters
  <2> QED
    BY <1>1, <2>1, FS_RemoveElement
<1>6. ASSUME l # "wait", tpc[x] # "wait"
      PROVE  Waiters' = Waiters
  BY <1>3, <1>6 DEF Waiters
<1> QED
  BY <1>2, <1>4, <1>5, <1>6

\* claim_waiters keeps counting them.
LEMMA CountStep == IInv /\ [Next]_vars => WaitersCounted'
<1> SUFFICES ASSUME IInv, [Next]_vars PROVE WaitersCounted'
  OBVIOUS
<1>0. TypeOK /\ claim_waiters = Cardinality(Waiters)
  BY DEF IInv, WaitersCounted, Waiters
<1>1. ASSUME claim_waiters' = Cardinality(Waiters') PROVE WaitersCounted'
  BY <1>1 DEF WaitersCounted, Waiters
<1>2. ASSUME NEW x \in Takers, Take(x) PROVE WaitersCounted'
  <2>1. tpc' = [tpc EXCEPT ![x] = "in"] /\ "in" # "wait"
    BY <1>2 DEF Take
  <2>2. CASE tpc[x] = "wait"
    BY <1>0, <1>1, <1>2, <2>1, <2>2, WaitersStep DEF Take
  <2>3. CASE tpc[x] # "wait"
    BY <1>0, <1>1, <1>2, <2>1, <2>3, WaitersStep DEF Take
  <2> QED
    BY <2>2, <2>3
<1>3. ASSUME NEW x \in Takers, AwaitTuner(x) PROVE WaitersCounted'
  <2>1. tpc' = [tpc EXCEPT ![x] = "wait"] /\ tpc[x] # "wait"
    BY <1>3 DEF AwaitTuner
  <2> QED
    BY <1>0, <1>1, <1>3, <2>1, WaitersStep DEF AwaitTuner
<1>4. ASSUME NEW x \in Takers, GiveUp(x) PROVE WaitersCounted'
  <2>1. tpc' = [tpc EXCEPT ![x] = "out"] /\ tpc[x] = "wait" /\ "out" # "wait"
    BY <1>4 DEF GiveUp
  <2> QED
    BY <1>0, <1>1, <1>4, <2>1, WaitersStep DEF GiveUp
<1>5. ASSUME NEW x \in Takers, Leave(x) PROVE WaitersCounted'
  <2>1. tpc' = [tpc EXCEPT ![x] = "out"] /\ tpc[x] # "wait" /\ "out" # "wait"
    BY <1>5 DEF Leave
  <2> QED
    BY <1>0, <1>1, <1>5, <2>1, WaitersStep DEF Leave
<1>6. ASSUME UNCHANGED <<claim_waiters, tpc>> PROVE WaitersCounted'
  BY <1>6 DEF IInv, WaitersCounted
<1>7. \/ \E x \in Takers : Take(x) \/ AwaitTuner(x) \/ GiveUp(x) \/ Leave(x)
      \/ UNCHANGED <<claim_waiters, tpc>>
  BY NextCases
     DEF SetChannel, EndSession, SetVchannel, ClaimFast, QueueSet, OpenSession,
         Spawn, SpawnFails, Unclaim, Answered, SetVstatus, Ends, WorkerOpen,
         WorkerAttempt, WorkerPublish, FinalizeLockResult, Dequeue, LeaveLoop,
         WaitForPending, WorkerEnd, WorkerRelease, workerOnly, claimVars, vars
<1> QED
  BY <1>2, <1>3, <1>4, <1>5, <1>6, <1>7

-----------------------------------------------------------------------------
(* Theorems *)

\* The inductive invariant holds in every behaviour.
THEOREM Inductive == Spec => []IInv
<1>1. IInv /\ [Next]_vars => IInv'
  BY TypeStep, ClaimStep, FreqStep, GenerationStep, StaleStep, RingStep,
     NoneStep, SleepStep, CountStep
     DEF IInv
<1> QED
  BY <1>1, InitInv, PTL DEF Spec

\* One worker at a time, and only under the claim: scan_worker_active is set
\* exactly while a worker, or the thread about to start one, owns the tuner.
THEOREM OneOwnedWorker == Spec => []SoleWorker
<1>1. IInv => SoleWorker
  BY DEF IInv, ClaimInv, SoleWorker, ActiveOwnsClaim, Holding
<1> QED
  BY <1>1, Inductive, PTL

\* t->pending_queue is a FIFO of the accepted frequencies, for every ring size.
THEOREM QueueIsFifo == Spec => []RingIsFifo
<1>1. IInv => RingIsFifo
  BY DEF IInv
<1> QED
  BY <1>1, Inductive, PTL

\* No result of a session that channel=none or a channelmap SET has ended comes
\* back into the status.
THEOREM ClearedStaysCleared == Spec => []NoneStaysNone
<1>1. IInv => NoneStaysNone
  BY DEF IInv
<1> QED
  BY <1>1, Inductive, PTL

\* The worker never sleeps on pending_cond over queued work or over a claimer.
THEOREM WorkerNeverOversleeps == Spec => []WorkerAlert
<1>1. IInv => WorkerAlert
  BY DEF IInv, WorkerAlert
<1> QED
  BY <1>1, Inductive, PTL
=============================================================================
