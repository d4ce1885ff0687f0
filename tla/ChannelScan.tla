---------------------------- MODULE ChannelScan ----------------------------
(***************************************************************************)
(* Raw channel SETs on one tuner: the scan worker, its pending queue, the  *)
(* selection session (scan_generation) and the connection threads waiting  *)
(* for their result.                                                       *)
(*                                                                         *)
(* A connection thread that wins the claim opens a session and spawns a    *)
(* worker; one that finds a worker running queues its frequency in the     *)
(* ring t->pending_queue.  Both wait on result_cond for an attempt at      *)
(* their own (generation, frequency).  Each critical section under t->lock *)
(* is one action.  The worker's frontend, and the holds it leaves, are in  *)
(* module Tuner; the channel database it fills and saves is not modelled   *)
(* here.  `outstanding` is a history variable: the accepted frequencies    *)
(* not yet taken by the worker, in the order of their SETs.                *)
(***************************************************************************)
EXTENDS Naturals, Sequences, FiniteSets

CONSTANTS
  Conns,      \* connection threads
  Takers,     \* threads in tuner_try_claim_wait, or streaming
  Freqs,      \* frequencies
  Deliveries, \* delivery systems
  MapOf,      \* channelmap name -> its delivery system (delivery_for_map)
  Maps,       \* channelmap names
  Cap,        \* TUNER_PENDING_QUEUE_CAP
  MaxOps,     \* bound on the number of channel SETs and session ends
  Faults,     \* which calls may fail: "open", "thread"
  None

ASSUME ScanAssumption ==
  /\ Maps # {} /\ MapOf \in [Maps -> Deliveries]
  /\ IsFiniteSet(Conns) /\ IsFiniteSet(Takers)
  /\ Cap \in Nat \ {0} /\ MaxOps \in Nat
  /\ None \notin Conns \cup Takers \cup Freqs

VARIABLES
  \* struct hdhr_tuner
  busy, scan_worker_active, scan_generation, claim_waiters,
  channelmap, channel, tuned_frequency_hz, tuned_delivery, status,
  pending_queue, pending_head, pending_count,
  last_attempt_freq, last_attempt_generation,
  \* channel_scan_thread_main: program point and its ctx
  wpc, wfreq, wgen, wdel, have_ffd, locked,
  \* connection threads: program point, requested frequency and delivery, the
  \* generation waited for
  cpc, cfreq, cdel, cgen,
  \* claimers
  tpc,
  \* history
  outstanding, ops

claimVars  == <<busy, claim_waiters, tpc>>
selVars    == <<channelmap, channel, tuned_frequency_hz, tuned_delivery>>
queueVars  == <<pending_queue, pending_head, pending_count, outstanding>>
resultVars == <<last_attempt_freq, last_attempt_generation>>
workVars   == <<wpc, wfreq, wgen, wdel, have_ffd, locked>>
connVars   == <<cpc, cfreq, cdel, cgen>>
vars == <<claimVars, scan_worker_active, scan_generation, selVars, status,
          queueVars, resultVars, workVars, connVars, ops>>

Mux(d, f) == <<d, f>>

\* "ch=<mux> lock=..." as far as it is told apart: nothing selected, selected
\* only, the ss=45 placeholder of a SET, a finished attempt.
Status(m, l) == [ch |-> m, lock |-> l]

Idle == Status(None, "idle")

\* finalize_lock_result's string.
Result(d, f, ok) == Status(Mux(d, f), IF ok THEN "locked" ELSE "unlocked")

DefaultMap == CHOOSE m \in Maps : TRUE

Init ==
  /\ busy = FALSE /\ claim_waiters = 0 /\ tpc = [x \in Takers |-> "out"]
  /\ scan_worker_active = FALSE /\ scan_generation = 0
  /\ channelmap = DefaultMap /\ channel = None
  /\ tuned_frequency_hz = None /\ tuned_delivery = MapOf[DefaultMap]
  /\ status = Idle
  /\ pending_queue = [i \in 0..Cap-1 |-> None]
  /\ pending_head = 0 /\ pending_count = 0 /\ outstanding = <<>>
  /\ last_attempt_freq = None /\ last_attempt_generation = 0
  /\ wpc = "none" /\ wfreq = None /\ wgen = 0 /\ wdel = MapOf[DefaultMap]
  /\ have_ffd = FALSE /\ locked = FALSE
  /\ cpc = [c \in Conns |-> "idle"] /\ cfreq = [c \in Conns |-> None]
  /\ cdel = [c \in Conns |-> MapOf[DefaultMap]] /\ cgen = [c \in Conns |-> 0]
  /\ ops = 0

----------------------------------------------------------------------------
(* Connection threads: channel=<freq> *)

Goto(c, l) == cpc' = [cpc EXCEPT ![c] = l] /\ UNCHANGED <<cfreq, cdel, cgen>>

\* The connection thread is done with its request.
Done(c) ==
  /\ cpc' = [cpc EXCEPT ![c] = "idle"] /\ cfreq' = [cfreq EXCEPT ![c] = None]
  /\ cdel' = [cdel EXCEPT ![c] = MapOf[DefaultMap]]
  /\ cgen' = [cgen EXCEPT ![c] = 0]

\* The channelmap is read for the delivery system and the value is parsed.
\* Bound: MaxOps.
SetChannel(c, f) ==
  /\ cpc[c] = "idle" /\ ops < MaxOps
  /\ ops' = ops + 1
  /\ cpc' = [cpc EXCEPT ![c] = "claim"] /\ cfreq' = [cfreq EXCEPT ![c] = f]
  /\ cdel' = [cdel EXCEPT ![c] = MapOf[channelmap]]
  /\ UNCHANGED <<claimVars, scan_worker_active, scan_generation, selVars, status,
                 queueVars, resultVars, workVars, cgen>>

\* tuner_try_claim_fast
ClaimFast(c) ==
  /\ cpc[c] = "claim"
  /\ busy' = TRUE
  /\ Goto(c, IF busy THEN "queue" ELSE "session")
  /\ UNCHANGED <<claim_waiters, tpc, scan_worker_active, scan_generation, selVars,
                 status, queueVars, resultVars, workVars, ops>>

\* What a channel SET writes, queued or not: the frequency, not the delivery.
SelectFreq(c) ==
  /\ tuned_frequency_hz' = cfreq[c]
  /\ channel' = Mux(cdel[c], cfreq[c])
  /\ status' = Status(Mux(cdel[c], cfreq[c]), "placeholder")
  /\ UNCHANGED <<channelmap, tuned_delivery>>

\* Mutant: the tail is computed from the count alone.
EnqueueAtCount(f) ==
  LET full  == pending_count >= Cap
      count == IF full THEN 0 ELSE pending_count
  IN /\ pending_queue' = [pending_queue EXCEPT ![count % Cap] = f]
     /\ pending_head' = (IF full THEN 0 ELSE pending_head)
     /\ pending_count' = count + 1
     /\ outstanding' = Append(IF full THEN <<>> ELSE outstanding, f)

\* Put f at the tail of the ring; a full ring is emptied first.
Enqueue(f) ==
  LET full  == pending_count >= Cap
      head  == IF full THEN 0 ELSE pending_head
      count == IF full THEN 0 ELSE pending_count
  IN /\ pending_queue' = [pending_queue EXCEPT ![(head + count) % Cap] = f]
     /\ pending_head' = head /\ pending_count' = count + 1
     /\ outstanding' = Append(IF full THEN <<>> ELSE outstanding, f)

\* Mutant: the worker is not signalled.
WakeNobody == UNCHANGED wpc

\* pthread_cond_signal or broadcast on pending_cond: only the worker listens.
WakeWorker == wpc' = IF wpc = "idle" THEN "awake" ELSE wpc

\* The tuner is a scan worker's: queue the frequency and wait for its result.
QueueSet(c) ==
  /\ cpc[c] = "queue" /\ scan_worker_active
  /\ Enqueue(cfreq[c]) /\ WakeWorker /\ SelectFreq(c)
  /\ cpc' = [cpc EXCEPT ![c] = "wait"]
  /\ cgen' = [cgen EXCEPT ![c] = scan_generation]
  /\ UNCHANGED <<claimVars, scan_worker_active, scan_generation, resultVars,
                 wfreq, wgen, wdel, have_ffd, locked, cfreq, cdel, ops>>

\* The tuner is somebody else's: "tuner busy".
RefuseSet(c) ==
  /\ cpc[c] = "queue" /\ ~scan_worker_active
  /\ Done(c)
  /\ UNCHANGED <<claimVars, scan_worker_active, scan_generation, selVars, status,
                 queueVars, resultVars, workVars, ops>>

\* The claim was won: open a new session.
OpenSession(c) ==
  /\ cpc[c] = "session"
  /\ SelectFreq(c)
  /\ scan_worker_active' = TRUE
  /\ scan_generation' = scan_generation + 1
  /\ cpc' = [cpc EXCEPT ![c] = "spawn"]
  /\ cgen' = [cgen EXCEPT ![c] = scan_generation + 1]
  /\ UNCHANGED <<claimVars, queueVars, resultVars, workVars, cfreq, cdel, ops>>

\* pthread_create succeeds: the worker starts with this SET's ctx.
Spawn(c) ==
  /\ cpc[c] = "spawn"
  /\ wpc' = "open" /\ wfreq' = cfreq[c] /\ wgen' = cgen[c] /\ wdel' = cdel[c]
  /\ Goto(c, "wait")
  /\ UNCHANGED <<claimVars, scan_worker_active, scan_generation, selVars, status,
                 queueVars, resultVars, have_ffd, locked, ops>>

\* Mutant: scan_worker_active stays set when no worker could be started.
SpawnFailsActive(c) ==
  /\ cpc[c] = "spawn" /\ "thread" \in Faults
  /\ Goto(c, "unclaim")
  /\ UNCHANGED <<claimVars, scan_worker_active, scan_generation, selVars, status,
                 queueVars, resultVars, workVars, ops>>

\* It fails: the connection thread gives up the session, then the claim.
SpawnFails(c) ==
  /\ cpc[c] = "spawn" /\ "thread" \in Faults
  /\ scan_worker_active' = FALSE
  /\ Goto(c, "unclaim")
  /\ UNCHANGED <<claimVars, scan_generation, selVars, status, queueVars,
                 resultVars, workVars, ops>>

Unclaim(c) ==
  /\ cpc[c] = "unclaim"
  /\ busy' = FALSE
  /\ Done(c)
  /\ UNCHANGED <<claim_waiters, tpc, scan_worker_active, scan_generation, selVars,
                 status, queueVars, resultVars, workVars, ops>>

Matches(c) ==
  last_attempt_generation = cgen[c] /\ last_attempt_freq = cfreq[c]

\* The wait on result_cond ends with a match.
Answered(c) ==
  /\ cpc[c] = "wait" /\ Matches(c)
  /\ Goto(c, "answered")
  /\ UNCHANGED <<claimVars, scan_worker_active, scan_generation, selVars, status,
                 queueVars, resultVars, workVars, ops>>

\* Mutant: the wait has no deadline.
WaitUntilMatch(c) ==
  /\ cpc[c] = "wait" /\ Matches(c)
  /\ Done(c)
  /\ UNCHANGED <<claimVars, scan_worker_active, scan_generation, selVars, status,
                 queueVars, resultVars, workVars, ops>>

\* ... or after CHANNEL_SET_WAIT_MS.
WaitExpires(c) ==
  /\ cpc[c] = "wait"
  /\ Done(c)
  /\ UNCHANGED <<claimVars, scan_worker_active, scan_generation, selVars, status,
                 queueVars, resultVars, workVars, ops>>

\* The reply is sent.
Reply(c) ==
  /\ cpc[c] = "answered"
  /\ Done(c)
  /\ UNCHANGED <<claimVars, scan_worker_active, scan_generation, selVars, status,
                 queueVars, resultVars, workVars, ops>>

----------------------------------------------------------------------------
(* Connection threads: what else changes the selection *)

\* channel=none, or a channelmap SET: the selection session ends.  The queue
\* is left alone.  Bound: MaxOps.
EndSession(c, m) ==
  /\ cpc[c] = "idle" /\ ops < MaxOps
  /\ ops' = ops + 1
  /\ channelmap' = m /\ channel' = None /\ tuned_frequency_hz' = None
  /\ scan_generation' = scan_generation + 1
  /\ status' = Idle
  /\ UNCHANGED <<claimVars, scan_worker_active, tuned_delivery, queueVars,
                 resultVars, workVars, connVars>>

\* vchannel SET: tuner_bind_channel ...
SetVchannel(c, d, f) ==
  /\ cpc[c] = "idle"
  /\ channel' = Mux(d, f) /\ tuned_frequency_hz' = f /\ tuned_delivery' = d
  /\ Goto(c, "vstatus")
  /\ UNCHANGED <<claimVars, scan_worker_active, scan_generation, channelmap,
                 status, queueVars, resultVars, workVars, ops>>

\* ... then the status, formatted from what t->channel says by then.
SetVstatus(c) ==
  /\ cpc[c] = "vstatus"
  /\ status' = IF channel = None THEN Idle ELSE Status(channel, "selected")
  /\ Done(c)
  /\ UNCHANGED <<claimVars, scan_worker_active, scan_generation, selVars,
                 queueVars, resultVars, workVars, ops>>

----------------------------------------------------------------------------
(* channel_scan_thread_main *)

workerOnly == <<claimVars, scan_worker_active, scan_generation, selVars, status,
                queueVars, resultVars, connVars, ops>>

\* The stale hold is resolved and the frontend opened.
WorkerOpen ==
  /\ wpc = "open" /\ wpc' = "attempt"
  /\ have_ffd' \in {TRUE} \cup (IF "open" \in Faults THEN {FALSE} ELSE {})
  /\ UNCHANGED <<wfreq, wgen, wdel, locked, workerOnly>>

\* dvb_scan_tune_and_lock
WorkerAttempt ==
  /\ wpc = "attempt" /\ wpc' = "publish"
  /\ locked' \in IF have_ffd THEN BOOLEAN ELSE {FALSE}
  /\ UNCHANGED <<wfreq, wgen, wdel, have_ffd, workerOnly>>

\* The attempt is published to the waiting SETs ...
WorkerPublish ==
  /\ wpc = "publish" /\ wpc' = "finalize"
  /\ last_attempt_freq' = wfreq /\ last_attempt_generation' = wgen
  /\ UNCHANGED <<claimVars, scan_worker_active, scan_generation, selVars, status,
                 queueVars, wfreq, wgen, wdel, have_ffd, locked, connVars, ops>>

\* Mutant: a result is published whatever has become of its session.
FinalizeAlways ==
  /\ wpc = "finalize" /\ wpc' = "drain"
  /\ status' = Result(wdel, wfreq, locked)
  /\ UNCHANGED <<claimVars, scan_worker_active, scan_generation, selVars,
                 queueVars, resultVars, wfreq, wgen, wdel, have_ffd, locked,
                 connVars, ops>>

\* ... and then in the status, if the session is still current.  A lock is
\* followed by the PSIP read, which ends up in the channel database only.
FinalizeLockResult ==
  /\ wpc = "finalize" /\ wpc' = "drain"
  /\ status' = IF scan_generation = wgen THEN Result(wdel, wfreq, locked) ELSE status
  /\ UNCHANGED <<claimVars, scan_worker_active, scan_generation, selVars,
                 queueVars, resultVars, wfreq, wgen, wdel, have_ffd, locked,
                 connVars, ops>>

\* Mutant: pending_head does not wrap around.
DequeueNoWrap ==
  /\ pending_count > 0
  /\ wfreq' = pending_queue[pending_head]
  /\ pending_head' = pending_head + 1
  /\ pending_count' = pending_count - 1
  /\ outstanding' = Tail(outstanding)
  /\ wpc' = "attempt"
  /\ UNCHANGED <<claimVars, scan_worker_active, scan_generation, selVars, status,
                 pending_queue, resultVars, wgen, wdel, have_ffd, locked, connVars,
                 ops>>

\* Take the oldest queued frequency.
Dequeue ==
  /\ pending_count > 0
  /\ wfreq' = pending_queue[pending_head]
  /\ pending_head' = (pending_head + 1) % Cap
  /\ pending_count' = pending_count - 1
  /\ outstanding' = Tail(outstanding)
  /\ wpc' = "attempt"
  /\ UNCHANGED <<claimVars, scan_worker_active, scan_generation, selVars, status,
                 pending_queue, resultVars, wgen, wdel, have_ffd, locked, connVars,
                 ops>>

\* Leave the loop, close the filters, save the lineup.
LeaveLoop ==
  /\ pending_count = 0
  /\ wpc' = "leave"
  /\ UNCHANGED <<wfreq, wgen, wdel, have_ffd, locked, workerOnly>>

\* The queue is empty and nobody wants the tuner: wait on pending_cond.
WaitForPending ==
  /\ pending_count = 0 /\ claim_waiters = 0
  /\ wpc' = "idle"
  /\ UNCHANGED <<wfreq, wgen, wdel, have_ffd, locked, workerOnly>>

WorkerDrain ==
  /\ wpc \in {"drain", "awake"}
  /\ \/ Dequeue
     \/ claim_waiters > 0 /\ LeaveLoop
     \/ WaitForPending

\* Mutant: the idle wait only ever ends with a queued frequency.
WorkerIdleStays == wpc \in {"idle", "awake"} /\ Dequeue

\* PENDING_WAIT_MS is over.
WorkerIdleExpires ==
  /\ wpc \in {"idle", "awake"}
  /\ Dequeue \/ LeaveLoop

\* Mutant: the claim is dropped before the worker is done.
WorkerEndFrees ==
  /\ wpc = "leave" /\ wpc' = "release"
  /\ scan_worker_active' = FALSE /\ busy' = FALSE
  /\ UNCHANGED <<claim_waiters, tpc, scan_generation, selVars, status, queueVars,
                 resultVars, wfreq, wgen, wdel, have_ffd, locked, connVars, ops>>

\* Whether to hold or to close the frontend is Tuner's ScanDone.
WorkerEnd ==
  /\ wpc = "leave" /\ wpc' = "release"
  /\ scan_worker_active' = FALSE
  /\ UNCHANGED <<claimVars, scan_generation, selVars, status, queueVars,
                 resultVars, wfreq, wgen, wdel, have_ffd, locked, connVars, ops>>

\* tuner_release
WorkerRelease ==
  /\ wpc = "release" /\ wpc' = "none"
  /\ busy' = FALSE
  /\ wfreq' = None /\ wgen' = 0 /\ wdel' = MapOf[DefaultMap]
  /\ have_ffd' = FALSE /\ locked' = FALSE
  /\ UNCHANGED <<claim_waiters, tpc, scan_worker_active, scan_generation, selVars,
                 status, queueVars, resultVars, connVars, ops>>

Worker ==
  \/ WorkerOpen \/ WorkerAttempt \/ WorkerPublish \/ FinalizeLockResult
  \/ WorkerDrain \/ WorkerIdleExpires \/ WorkerEnd \/ WorkerRelease

----------------------------------------------------------------------------
(* Others who want the tuner: tuner_try_claim_wait and its release *)

takerOnly == <<scan_worker_active, scan_generation, selVars, status, queueVars,
               resultVars, wfreq, wgen, wdel, have_ffd, locked, connVars, ops>>

Take(x) ==
  /\ tpc[x] \in {"out", "wait"} /\ ~busy
  /\ busy' = TRUE /\ tpc' = [tpc EXCEPT ![x] = "in"]
  /\ claim_waiters' = IF tpc[x] = "wait" THEN claim_waiters - 1 ELSE claim_waiters
  /\ UNCHANGED <<wpc, takerOnly>>

\* Announce the wait; the worker's idle wait is cut short.
AwaitTuner(x) ==
  /\ tpc[x] = "out" /\ busy
  /\ tpc' = [tpc EXCEPT ![x] = "wait"] /\ claim_waiters' = claim_waiters + 1
  /\ WakeWorker
  /\ UNCHANGED <<busy, takerOnly>>

\* Mutant: a waiter that times out stays counted.
GiveUpCounted(x) ==
  /\ tpc[x] = "wait" /\ busy
  /\ tpc' = [tpc EXCEPT ![x] = "out"]
  /\ UNCHANGED <<busy, claim_waiters, wpc, takerOnly>>

GiveUp(x) ==
  /\ tpc[x] = "wait" /\ busy
  /\ tpc' = [tpc EXCEPT ![x] = "out"] /\ claim_waiters' = claim_waiters - 1
  /\ UNCHANGED <<busy, wpc, takerOnly>>

Leave(x) ==
  /\ tpc[x] = "in"
  /\ busy' = FALSE /\ tpc' = [tpc EXCEPT ![x] = "out"]
  /\ UNCHANGED <<claim_waiters, wpc, takerOnly>>

----------------------------------------------------------------------------

\* Steps of a connection thread on a request it has received.
ConnStep(c) ==
  \/ ClaimFast(c) \/ QueueSet(c) \/ RefuseSet(c) \/ OpenSession(c) \/ Spawn(c)
  \/ SpawnFails(c) \/ Unclaim(c) \/ Answered(c) \/ WaitExpires(c) \/ Reply(c)
  \/ SetVstatus(c)

Request(c) ==
  \/ \E f \in Freqs : SetChannel(c, f)
  \/ \E m \in Maps : EndSession(c, m)
  \/ \E d \in Deliveries, f \in Freqs : SetVchannel(c, d, f)

Next ==
  \/ \E c \in Conns : ConnStep(c) \/ Request(c)
  \/ Worker
  \/ \E x \in Takers : Take(x) \/ AwaitTuner(x) \/ GiveUp(x) \/ Leave(x)

Spec == Init /\ [][Next]_vars

\* Threads that can run do run; the deadline of the worker's wait is fixed
\* before the loop, so no wake-up puts it off; a stream or scan that has the
\* tuner leaves it.  Requests need not come.
Fairness ==
  /\ \A c \in Conns : WF_vars(ConnStep(c))
  /\ WF_vars(Worker) /\ WF_vars(WorkerIdleExpires)
  /\ \A x \in Takers : WF_vars(Leave(x))

FairSpec == Spec /\ Fairness
----------------------------------------------------------------------------
(* Properties *)

Muxes == Deliveries \X Freqs

\* Type invariant.
TypeOK ==
  /\ busy \in BOOLEAN /\ scan_worker_active \in BOOLEAN
  /\ scan_generation \in 0..MaxOps /\ ops \in 0..MaxOps
  /\ claim_waiters \in Nat
  /\ tpc \in [Takers -> {"out", "wait", "in"}]
  /\ channelmap \in Maps /\ channel \in Muxes \cup {None}
  /\ tuned_frequency_hz \in Freqs \cup {None} /\ tuned_delivery \in Deliveries
  /\ status \in [ch : Muxes \cup {None},
                 lock : {"idle", "selected", "placeholder", "locked", "unlocked"}]
  /\ pending_queue \in [0..Cap-1 -> Freqs \cup {None}]
  /\ pending_head \in 0..Cap-1 /\ pending_count \in 0..Cap
  /\ outstanding \in Seq(Freqs)
  /\ last_attempt_freq \in Freqs \cup {None}
  /\ last_attempt_generation \in 0..MaxOps
  /\ wpc \in {"none", "open", "attempt", "publish", "finalize", "drain", "idle",
              "awake", "leave", "release"}
  /\ wfreq \in Freqs \cup {None} /\ wgen \in 0..MaxOps /\ wdel \in Deliveries
  /\ have_ffd \in BOOLEAN /\ locked \in BOOLEAN
  /\ cpc \in [Conns -> {"idle", "claim", "queue", "session", "spawn", "unclaim",
                        "wait", "answered", "vstatus"}]
  /\ cfreq \in [Conns -> Freqs \cup {None}]
  /\ cdel \in [Conns -> Deliveries] /\ cgen \in [Conns -> 0..MaxOps]

\* The ring buffer is the FIFO it is meant to be: from pending_head on it holds
\* the accepted frequencies in the order of their SETs, through wrap-around
\* and through the reset of a full ring.
RingIsFifo ==
  /\ pending_count = Len(outstanding)
  /\ \A i \in 1..pending_count :
       pending_queue[(pending_head + i - 1) % Cap] = outstanding[i]

\* finalize_lock_result's guard, over whole histories: once channel=none or a
\* channelmap SET has cleared the selection, no result of an older session,
\* and no half-done vchannel SET, brings a channel back into the status.
NoneStaysNone == tuned_frequency_hz = None => status = Idle

\* scan_worker_active says exactly that a worker (or the thread about to start
\* one) owns the claim and has not yet wound down: "True only while control.c's
\* channel_scan_thread_main actually owns this tuner's claim" (tuner.h).
ActiveOwnsClaim ==
  /\ scan_worker_active =>
       /\ busy /\ \A x \in Takers : tpc[x] # "in"
       /\ wpc \notin {"none", "release"} \/ \E c \in Conns : cpc[c] = "spawn"
  /\ wpc \notin {"none", "release"} => scan_worker_active

\* A worker is only started when the previous one is gone.
OneWorker ==
  \A c \in Conns : cpc[c] \in {"session", "spawn", "unclaim"} =>
    /\ wpc = "none"
    /\ \A d \in Conns \ {c} : cpc[d] \notin {"session", "spawn", "unclaim"}

\* One worker at a time, and only under the claim, through spawns that fail,
\* sessions that are superseded and workers that wind down (control.c).
SoleWorker == TypeOK /\ ActiveOwnsClaim /\ OneWorker

\* The worker never sleeps on pending_cond over a queued frequency or over a
\* thread that announced itself in claim_waiters.
NoSleepOverWork == wpc = "idle" => pending_count = 0 /\ claim_waiters = 0

\* claim_waiters counts the threads in tuner_try_claim_wait, so that the
\* worker's cut-over is neither missed nor left switched on.
WaitersCounted == claim_waiters = Cardinality({x \in Takers : tpc[x] = "wait"})

\* The worker's wait on pending_cond: it is never slept over queued work or over
\* a claimer, and the count of claimers is neither missed nor left up.
WorkerAlert == NoSleepOverWork /\ WaitersCounted

\* When requests stop coming the worker drains its queue and gives the tuner
\* back.
WorkerEnds == wpc # "none" ~> wpc = "none"

\* Every channel SET is replied to, answered or not.
SetsReplied == \A c \in Conns : cpc[c] # "idle" ~> cpc[c] = "idle"

----------------------------------------------------------------------------
(* The inductive invariant behind the safety properties (ChannelScanProofs) *)

\* Connections that have the claim, and those that may still open a session.
Holding == {"session", "spawn", "unclaim"}
Asking  == {"claim", "queue", "session"}

\* The claim has one owner: a taker, a connection on its way to a worker, or
\* the worker; and scan_worker_active is the worker's, or the spawner's.
ClaimInv ==
  /\ \A x \in Takers : tpc[x] = "in" =>
       /\ busy /\ wpc = "none"
       /\ \A y \in Takers : tpc[y] = "in" => x = y
       /\ \A c \in Conns : cpc[c] \notin Holding
  /\ \A c \in Conns : cpc[c] \in Holding => busy
  /\ wpc # "none" => busy
  /\ scan_worker_active <=>
       (wpc \notin {"none", "release"} \/ \E c \in Conns : cpc[c] = "spawn")

\* What a request or the worker works on is a frequency.
FreqInv ==
  /\ \A c \in Conns : cpc[c] \notin {"idle", "vstatus"} => cfreq[c] \in Freqs
  /\ wpc # "none" => wfreq \in Freqs

\* Every generation stands for a request that was made, and nobody is ahead of
\* the tuner.
GenerationInv ==
  /\ scan_generation + Cardinality({c \in Conns : cpc[c] \in Asking}) <= ops
  /\ wgen <= scan_generation /\ last_attempt_generation <= scan_generation
  /\ \A c \in Conns : cgen[c] <= scan_generation

\* With nothing selected, whoever could still write a result is of an older
\* session.
StaleInv ==
  tuned_frequency_hz = None =>
    /\ channel = None
    /\ wpc # "none" => wgen < scan_generation
    /\ \A c \in Conns : cpc[c] = "spawn" => cgen[c] < scan_generation

\* The inductive invariant.
IInv ==
  /\ TypeOK /\ ClaimInv /\ OneWorker /\ FreqInv /\ GenerationInv /\ StaleInv
  /\ RingIsFifo /\ NoneStaysNone /\ NoSleepOverWork /\ WaitersCounted
=============================================================================
