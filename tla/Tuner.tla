------------------------------- MODULE Tuner -------------------------------
(***************************************************************************)
(* One tuner slot (struct hdhr_tuner) and the DVB frontend behind it.      *)
(*                                                                         *)
(* Every thread that can touch the slot is a process: HTTP pulls, UDP      *)
(* pushes, the startup scan, channel-scan workers, and control connections *)
(* that select or clear a channel.  A critical section under t->lock is    *)
(* one action; what the code does between two critical sections (opening,  *)
(* tuning and closing the frontend, joining a thread) is a step of its     *)
(* own, so every interleaving the lock permits is a behaviour.             *)
(*                                                                         *)
(* Abstractions.  scan_generation and park_generation are only ever        *)
(* compared for equality, so they are represented by whose generation is   *)
(* the current one: `session` (the scan worker whose ctx->generation is    *)
(* t->scan_generation) and `park_current` (the expiry ctx whose generation *)
(* is t->park_generation).  A mux is a member of Freqs, all of one         *)
(* delivery system, as in an installation on an antenna or on cable; None  *)
(* stands for -1, NULL and frequency 0.  The queue of a scan worker, its   *)
(* results and the delivery system of a selection are in ChannelScan.      *)
(***************************************************************************)
EXTENDS Naturals, FiniteSets

CONSTANTS
  Proc,    \* the threads that operate on this tuner
  Timers,  \* park-expiry threads; bounds how many are outstanding at once
  Fds,     \* file descriptor numbers the kernel can return for the frontend
  Chans,   \* virtual channels of the lineup
  Freqs,   \* muxes (frequency and delivery system)
  FreqOf,  \* the mux that carries each virtual channel
  Clients, \* which operations clients ask for: see ClientKinds
  Faults,  \* which calls may fail: see FaultKinds
  None

ClientKinds == {"pull", "push", "boot", "scan", "select", "clear"}

FaultKinds == {"open", "tune", "lock", "demux", "thread", "memory"}

ASSUME TunerAssumption ==
  /\ FreqOf \in [Chans -> Freqs]
  /\ Clients \subseteq ClientKinds
  /\ Faults \subseteq FaultKinds
  /\ None \notin Proc \cup Timers \cup Fds \cup Chans \cup Freqs

VARIABLES
  \* struct hdhr_tuner, guarded by t->lock
  busy,          \* the claim
  held_fd,       \* frontend fd of the background hold, or None
  parked_fd,     \* frontend fd left by a finished HTTP pull, or None
  active_stream, \* the stream being served, represented by its frontend fd
  tuned,         \* tuned_frequency_hz and tuned_delivery
  vch,           \* vch_major.vch_minor while vch_resolved, else None
  scan_worker_active,
  session,       \* the worker whose generation is scan_generation, or None
  park_current,  \* the expiry ctx whose generation is park_generation
  stats_started, \* held_stats_thread_started
  stats_stop,    \* held_stats_stop_requested
  \* the held-stats refresher thread
  stats_pc,      \* "none", "start", "read" (in the ioctl), "sleep", "exited"
  stats_fd,      \* the fd it captured
  \* park-expiry threads
  timer,         \* "off", "ctx" (allocated), "sleep", "close"
  timer_fd,      \* the fd an expired timer is about to close
  \* the kernel's side of the frontend device
  open_fds,      \* descriptors currently open on the device
  rf,            \* what the open frontend is tuned to
  \* threads
  pc, job, ret,  \* where each one is, what it is doing, where it resumes
  fd, hfd, pfd,  \* fds in a thread's own hands: its frontend, a detached
                 \* held fd, a detached parked fd
  booted         \* the one-shot startup scan has been started

tunerVars == <<busy, held_fd, parked_fd, active_stream>>
selVars   == <<tuned, vch>>
scanVars  == <<scan_worker_active, session>>
parkVars  == <<park_current, timer, timer_fd>>
statsVars == <<stats_started, stats_stop, stats_pc, stats_fd>>
devVars   == <<open_fds, rf>>
ctlVars   == <<pc, job, ret>>
ownVars   == <<fd, hfd, pfd>>
vars == <<tunerVars, selVars, scanVars, parkVars, statsVars, devVars,
          ctlVars, ownVars, booted>>

Kinds == {"none", "pull", "push", "boot", "scan", "select", "clear", "hold", "park"}

\* What a thread is doing: operation, channel and mux; `reuse` says whether a
\* held fd may be handed over, which tuner_try_claim decides from the tuning
\* it finds; `ctx` is the park-expiry ctx it allocated.
Job(k, c, f) == [kind |-> k, ch |-> c, want |-> f, reuse |-> FALSE, ctx |-> None]

NoJob == Job("none", None, None)

\* A finished pull that only has the expiry thread left to start.
ParkJob(i) == [kind |-> "park", ch |-> None, want |-> None, reuse |-> FALSE, ctx |-> i]

\* Program points at which a thread owns the claim (busy is its own).
ClaimedPcs ==
  {"session", "claimed", "tune", "lock", "reopen", "relock", "bind", "attach",
   "stream", "unbind", "park", "unpark", "parkin", "scan", "current", "drop",
   "scanend", "release", "close", "free"}

\* Program points shared with the hold operations, reached with the claim
\* (while resolving a claim, or when a scan worker re-holds its fd) or not.
SharedPcs ==
  {"stop", "join", "joined", "dispose", "hold", "openhold", "tunehold", "install"}

Pcs == ClaimedPcs \cup SharedPcs
         \cup {"idle", "wait", "awake", "nopark", "timer", "clear"}

HasClaim(p) ==
  \/ pc[p] \in ClaimedPcs
  \/ pc[p] \in SharedPcs /\ job[p].kind \in {"pull", "push", "boot", "scan"}

Init ==
  /\ busy = FALSE /\ held_fd = None /\ parked_fd = None /\ active_stream = None
  /\ tuned = None /\ vch = None
  /\ scan_worker_active = FALSE /\ session = None
  /\ park_current = None
  /\ timer = [i \in Timers |-> "off"] /\ timer_fd = [i \in Timers |-> None]
  /\ stats_started = FALSE /\ stats_stop = FALSE
  /\ stats_pc = "none" /\ stats_fd = None
  /\ open_fds = {} /\ rf = None
  /\ pc = [p \in Proc |-> "idle"] /\ job = [p \in Proc |-> NoJob]
  /\ ret = [p \in Proc |-> "idle"]
  /\ fd = [p \in Proc |-> None] /\ hfd = [p \in Proc |-> None]
  /\ pfd = [p \in Proc |-> None]
  /\ booted = FALSE

----------------------------------------------------------------------------
(* Building blocks *)

At(p, l) == pc[p] = l

Goto(p, l) == pc' = [pc EXCEPT ![p] = l] /\ UNCHANGED <<job, ret>>

\* The thread's operation is over.
Finish(p) ==
  /\ pc' = [pc EXCEPT ![p] = "idle"]
  /\ job' = [job EXCEPT ![p] = NoJob]
  /\ ret' = [ret EXCEPT ![p] = "idle"]

\* End of a hold operation: the scan worker goes on, everyone else is done.
HoldDone(p) ==
  IF job[p].kind = "scan" THEN Goto(p, "scanend") ELSE Finish(p)

\* The frontend accepts one read/write opener; whoever opens it gets some fd
\* number, and a freshly opened frontend is not tuned to anything.
FrontendOpen(p, freq) ==
  /\ open_fds = {}
  /\ \E f \in Fds : open_fds' = {f} /\ fd' = [fd EXCEPT ![p] = f]
  /\ rf' = freq

\* dvb_frontend_open returns -1: the device is open already, or it failed.
FrontendRefused == open_fds # {} \/ "open" \in Faults

\* close(fd); the tuning does not outlive the descriptor.
FrontendClose(f) == open_fds' = open_fds \ {f} /\ rf' = None

\* Mutant: the closed descriptor is not forgotten.
CloseOwnKeepsFd(p) == FrontendClose(fd[p]) /\ UNCHANGED fd

CloseOwn(p) == FrontendClose(fd[p]) /\ fd' = [fd EXCEPT ![p] = None]

\* pthread_cond_signal on free_cond: wakes one thread waiting for the claim.
Waiting == {q \in Proc : pc[q] = "wait"}

\* Mutant: busy is cleared without a signal.
FreeToUnsignalled(p, l) == pc' = [pc EXCEPT ![p] = l]

FreeTo(p, l) ==
  IF Waiting = {} THEN pc' = [pc EXCEPT ![p] = l]
  ELSE \E q \in Waiting : pc' = [pc EXCEPT ![p] = l, ![q] = "awake"]

\* Detach held_fd and parked_fd from the tuner; a detached held fd has to go
\* through stop_held_stats_thread before anything else happens to it.
Detach(p, next) ==
  /\ hfd' = [hfd EXCEPT ![p] = held_fd] /\ held_fd' = None
  /\ pfd' = [pfd EXCEPT ![p] = parked_fd] /\ parked_fd' = None
  /\ ret' = [ret EXCEPT ![p] = next]
  /\ pc' = [pc EXCEPT ![p] = IF held_fd # None THEN "stop"
                             ELSE IF parked_fd # None THEN "dispose" ELSE next]

----------------------------------------------------------------------------
(* Claiming *)

\* A held fd is handed over if it is on the wanted mux and the claimer (unlike
\* the startup scan) asked for one.
ClaimJob(j) ==
  [kind |-> j.kind, ch |-> j.ch, want |-> j.want,
   reuse |-> (j.kind # "boot" /\ tuned = j.want), ctx |-> None]

\* The successful critical section of tuner_try_claim and tuner_try_claim_wait.
Claim(p, j) ==
  /\ ~busy
  /\ busy' = TRUE
  /\ job' = [job EXCEPT ![p] = ClaimJob(j)]
  /\ Detach(p, "claimed")
  /\ UNCHANGED <<active_stream, selVars, scanVars, parkVars, statsVars,
                 devVars, fd>>

\* tuner_try_claim_wait finds the tuner busy and waits on free_cond.
WaitForClaim(p, j) ==
  /\ busy
  /\ pc' = [pc EXCEPT ![p] = "wait"] /\ job' = [job EXCEPT ![p] = j]
  /\ UNCHANGED <<tunerVars, selVars, scanVars, parkVars, statsVars, devVars,
                 ret, ownVars>>

\* An HTTP pull or a UDP push asks for the tuner.
BeginStream(p, k, c) ==
  LET j == Job(k, c, FreqOf[c]) IN
  /\ At(p, "idle")
  /\ Claim(p, j) \/ WaitForClaim(p, j)
  /\ UNCHANGED booted

\* The one-shot startup scan asks for the tuner, without wanting an fd.
BeginBoot(p) ==
  /\ At(p, "idle") /\ ~booted /\ booted' = TRUE
  /\ LET j == Job("boot", None, None) IN Claim(p, j) \/ WaitForClaim(p, j)

\* Signalled: recheck busy, claim or wait again.
Recheck(p) ==
  /\ At(p, "awake")
  /\ \/ Claim(p, job[p])
     \/ WaitForClaim(p, job[p])
  /\ UNCHANGED booted

\* The wait times out: busy is rechecked before giving up.
WaitTimeout(p) ==
  /\ At(p, "wait")
  /\ \/ Claim(p, job[p])
     \/ /\ busy /\ Finish(p)
        /\ UNCHANGED <<tunerVars, selVars, scanVars, parkVars, statsVars,
                       devVars, ownVars>>
  /\ UNCHANGED booted

\* Mutant: busy is not tested.
ScanClaimUnchecked(p, f) ==
  /\ At(p, "idle")
  /\ busy' = TRUE
  /\ hfd' = [hfd EXCEPT ![p] = IF held_fd # None THEN held_fd ELSE parked_fd]
  /\ held_fd' = None /\ parked_fd' = None
  /\ pc' = [pc EXCEPT ![p] = "session"]
  /\ job' = [job EXCEPT ![p] = Job("scan", None, f)]
  /\ UNCHANGED <<active_stream, selVars, scanVars, parkVars, statsVars,
                 devVars, ret, fd, pfd, booted>>

\* tuner_try_claim_fast: one stale fd is carried to the worker.
ScanClaim(p, f) ==
  /\ At(p, "idle") /\ ~busy
  /\ busy' = TRUE
  /\ hfd' = [hfd EXCEPT ![p] = IF held_fd # None THEN held_fd ELSE parked_fd]
  /\ held_fd' = None /\ parked_fd' = None
  /\ pc' = [pc EXCEPT ![p] = "session"]
  /\ job' = [job EXCEPT ![p] = Job("scan", None, f)]
  /\ UNCHANGED <<active_stream, selVars, scanVars, parkVars, statsVars,
                 devVars, ret, fd, pfd, booted>>

\* The channel SET that won the claim opens a new session; starting the
\* worker may fail, then the connection thread itself resolves the stale fd
\* and releases.
OpenSession(p) ==
  /\ At(p, "session")
  /\ tuned' = job[p].want /\ vch' = None
  /\ scan_worker_active' = TRUE /\ session' = p
  /\ \E next \in {"claimed"} \cup (IF "thread" \in Faults THEN {"scanend"} ELSE {}) :
       /\ ret' = [ret EXCEPT ![p] = next]
       /\ pc' = [pc EXCEPT ![p] = IF hfd[p] # None THEN "stop" ELSE next]
  /\ UNCHANGED <<tunerVars, parkVars, statsVars, devVars, job, ownVars, booted>>

\* A channel SET that finds a scan worker running only queues its frequency.
QueueChannel(f) ==
  /\ scan_worker_active /\ active_stream = None
  /\ tuned' = f /\ vch' = None
  /\ UNCHANGED <<tunerVars, scanVars, parkVars, statsVars, devVars, ctlVars,
                 ownVars, booted>>

----------------------------------------------------------------------------
(* Disposing of detached fds *)

\* Mutant: the refresher is told to stop but not joined.
StopStatsUnjoined(p) ==
  /\ At(p, "stop")
  /\ stats_stop' = TRUE
  /\ Goto(p, "dispose")
  /\ UNCHANGED <<tunerVars, selVars, scanVars, parkVars, stats_started,
                 stats_pc, stats_fd, devVars, ownVars, booted>>

\* stop_held_stats_thread, first critical section.
StopStats(p) ==
  /\ At(p, "stop")
  /\ stats_stop' = TRUE
  /\ Goto(p, IF stats_started THEN "join" ELSE "dispose")
  /\ UNCHANGED <<tunerVars, selVars, scanVars, parkVars, stats_started,
                 stats_pc, stats_fd, devVars, ownVars, booted>>

\* pthread_join
JoinStats(p) ==
  /\ At(p, "join") /\ stats_pc = "exited"
  /\ stats_pc' = "none" /\ stats_fd' = None
  /\ Goto(p, "joined")
  /\ UNCHANGED <<tunerVars, selVars, scanVars, parkVars, stats_started,
                 stats_stop, devVars, ownVars, booted>>

\* Mutant: held_stats_thread_started stays set after the join.
ForgetStatsMissing(p) ==
  /\ At(p, "joined")
  /\ Goto(p, "dispose")
  /\ UNCHANGED <<tunerVars, selVars, scanVars, parkVars, statsVars, devVars,
                 ownVars, booted>>

\* ... second critical section.
ForgetStats(p) ==
  /\ At(p, "joined")
  /\ stats_started' = FALSE
  /\ Goto(p, "dispose")
  /\ UNCHANGED <<tunerVars, selVars, scanVars, parkVars, stats_stop, stats_pc,
                 stats_fd, devVars, ownVars, booted>>

WantsFd(p) == ret[p] = "claimed" /\ job[p].kind \in {"pull", "push"}

\* resolve_claimed_hold, tuner_resolve_stale_held_fd, tuner_close_hold and
\* close_existing_hold_for_new_one, once the refresher is gone.
DisposeHeld(p) ==
  /\ At(p, "dispose") /\ hfd[p] # None
  /\ IF WantsFd(p) /\ job[p].reuse
     THEN fd' = [fd EXCEPT ![p] = hfd[p]] /\ UNCHANGED devVars
     ELSE FrontendClose(hfd[p]) /\ UNCHANGED fd
  /\ hfd' = [hfd EXCEPT ![p] = None]
  /\ Goto(p, IF pfd[p] # None THEN "dispose" ELSE ret[p])
  /\ UNCHANGED <<tunerVars, selVars, scanVars, parkVars, statsVars, pfd, booted>>

\* resolve_claimed_parked, and the parked half of
\* close_existing_hold_for_new_one.
DisposeParked(p) ==
  /\ At(p, "dispose") /\ hfd[p] = None /\ pfd[p] # None
  /\ IF WantsFd(p) /\ fd[p] = None
     THEN fd' = [fd EXCEPT ![p] = pfd[p]] /\ UNCHANGED devVars
     ELSE FrontendClose(pfd[p]) /\ UNCHANGED fd
  /\ pfd' = [pfd EXCEPT ![p] = None]
  /\ Goto(p, ret[p])
  /\ UNCHANGED <<tunerVars, selVars, scanVars, parkVars, statsVars, hfd, booted>>

----------------------------------------------------------------------------
(* Opening a stream: dvb_stream_open, as called by pulls and pushes *)

devStep == <<tunerVars, selVars, scanVars, parkVars, statsVars, hfd, pfd, booted>>

Streams(p) == job[p].kind \in {"pull", "push"}

\* Mutant: an adopted fd is taken to be on the wanted mux.
AdoptFdUntuned(p) ==
  /\ At(p, "claimed") /\ Streams(p) /\ fd[p] # None
  /\ Goto(p, "lock")
  /\ UNCHANGED <<devVars, fd, devStep>>

\* An adopted fd is retuned only if it is not on the wanted mux already.
AdoptFd(p) ==
  /\ At(p, "claimed") /\ Streams(p) /\ fd[p] # None
  /\ Goto(p, IF rf = job[p].want THEN "lock" ELSE "tune")
  /\ UNCHANGED <<devVars, fd, devStep>>

OpenForStream(p) ==
  /\ At(p, "claimed") /\ Streams(p) /\ fd[p] = None
  /\ \/ FrontendOpen(p, None) /\ Goto(p, "tune")
     \/ FrontendRefused /\ Goto(p, "release") /\ UNCHANGED <<devVars, fd>>
  /\ UNCHANGED devStep

TuneStream(p) ==
  /\ At(p, "tune")
  /\ \/ rf' = job[p].want /\ Goto(p, "lock") /\ UNCHANGED <<open_fds, fd>>
     \/ "tune" \in Faults /\ CloseOwn(p) /\ Goto(p, "release")
  /\ UNCHANGED devStep

\* Lock, then the demux filters, the DVR node and the reader thread; without
\* a lock the frontend is closed for one attempt on a reopened one.
LockStream(p) ==
  /\ At(p, "lock")
  /\ \/ Goto(p, "bind") /\ UNCHANGED <<devVars, fd>>
     \/ "lock" \in Faults /\ CloseOwn(p) /\ Goto(p, "reopen")
     \/ "demux" \in Faults /\ CloseOwn(p) /\ Goto(p, "release")
  /\ UNCHANGED devStep

ReopenStream(p) ==
  /\ At(p, "reopen")
  /\ \/ FrontendOpen(p, job[p].want) /\ Goto(p, "relock")
     \/ FrontendRefused /\ Goto(p, "release") /\ UNCHANGED <<devVars, fd>>
  /\ UNCHANGED devStep

RelockStream(p) ==
  /\ At(p, "relock")
  /\ \/ Goto(p, "bind") /\ UNCHANGED <<devVars, fd>>
     \/ Faults \cap {"tune", "lock", "demux"} # {} /\ CloseOwn(p) /\ Goto(p, "release")
  /\ UNCHANGED devStep

\* Mutant: the channel is stored where the frequency belongs.
BindSwapped(p) ==
  /\ At(p, "bind")
  /\ tuned' = job[p].ch /\ vch' = job[p].ch
  /\ Goto(p, "attach")
  /\ UNCHANGED <<tunerVars, scanVars, parkVars, statsVars, devVars, ownVars, booted>>

\* tuner_bind_channel
Bind(p) ==
  /\ At(p, "bind")
  /\ tuned' = job[p].want /\ vch' = job[p].ch
  /\ Goto(p, "attach")
  /\ UNCHANGED <<tunerVars, scanVars, parkVars, statsVars, devVars, ownVars, booted>>

\* tuner_set_stream
SetStream(p) ==
  /\ At(p, "attach")
  /\ active_stream' = fd[p] /\ fd' = [fd EXCEPT ![p] = None]
  /\ Goto(p, "stream")
  /\ UNCHANGED <<busy, held_fd, parked_fd, selVars, scanVars, parkVars,
                 statsVars, devVars, hfd, pfd, booted>>

\* The client goes away, the push is stopped, or the upstream ends.
EndStream(p) ==
  /\ At(p, "stream")
  /\ Goto(p, IF job[p].kind = "pull" THEN "unbind" ELSE "release")
  /\ UNCHANGED <<tunerVars, selVars, scanVars, parkVars, statsVars, devVars,
                 ownVars, booted>>

----------------------------------------------------------------------------
(* Releasing *)

\* release_http_pull: forget the selection if it is still this pull's own.
Unbind(p) ==
  /\ At(p, "unbind")
  /\ IF vch = job[p].ch /\ tuned = job[p].want
     THEN tuned' = None /\ vch' = None
     ELSE UNCHANGED selVars
  /\ Goto(p, "park")
  /\ UNCHANGED <<tunerVars, scanVars, parkVars, statsVars, devVars, ownVars, booted>>

\* tuner_release_park, first critical section, and the stream's teardown.
Park(p) ==
  /\ At(p, "park")
  /\ fd' = [fd EXCEPT ![p] = active_stream] /\ active_stream' = None
  /\ Goto(p, IF active_stream = None \/ tuned # None THEN "unpark" ELSE "parkin")
  /\ UNCHANGED <<busy, held_fd, parked_fd, selVars, scanVars, parkVars,
                 statsVars, devVars, hfd, pfd, booted>>

\* A selection was made mid-stream: put the stream back and release normally.
Unpark(p) ==
  /\ At(p, "unpark")
  /\ active_stream' = fd[p] /\ fd' = [fd EXCEPT ![p] = None]
  /\ Goto(p, "release")
  /\ UNCHANGED <<busy, held_fd, parked_fd, selVars, scanVars, parkVars,
                 statsVars, devVars, hfd, pfd, booted>>

\* Second critical section: the fd is parked in the section that frees the
\* tuner, under a new generation.  Bound: some expiry ctx is available.
ParkFd(p) ==
  /\ At(p, "parkin")
  /\ busy' = FALSE /\ FreeTo(p, "timer")
  /\ parked_fd' = fd[p] /\ fd' = [fd EXCEPT ![p] = None]
  /\ \E i \in Timers :
       /\ timer[i] = "off"
       /\ timer' = [timer EXCEPT ![i] = "ctx"] /\ park_current' = i
       /\ job' = [job EXCEPT ![p] = ParkJob(i)]
  /\ UNCHANGED <<held_fd, active_stream, selVars, scanVars, timer_fd, statsVars,
                 devVars, ret, hfd, pfd, booted>>

\* The ctx cannot be allocated: free the tuner, then close the fd.
ParkFails(p) ==
  /\ At(p, "parkin") /\ "memory" \in Faults
  /\ busy' = FALSE /\ FreeTo(p, "nopark")
  /\ UNCHANGED <<held_fd, parked_fd, active_stream, selVars, scanVars, parkVars,
                 statsVars, devVars, job, ret, ownVars, booted>>

\* The parked fd could not be parked, or not be timed: close it.
ClosePark(p) ==
  /\ At(p, "nopark")
  /\ CloseOwn(p) /\ Finish(p)
  /\ UNCHANGED devStep

\* Mutant: without an expiry thread the fd stays parked.
StartTimerKeepsPark(p) ==
  /\ At(p, "timer")
  /\ \/ timer' = [timer EXCEPT ![job[p].ctx] = "sleep"]
     \/ "thread" \in Faults /\ timer' = [timer EXCEPT ![job[p].ctx] = "off"]
  /\ Finish(p)
  /\ UNCHANGED <<tunerVars, selVars, scanVars, park_current, timer_fd,
                 statsVars, devVars, ownVars, booted>>

\* Start the expiry thread; if that fails take the fd back, unless a claimer
\* has it already.
StartTimer(p) ==
  /\ At(p, "timer")
  /\ LET i == job[p].ctx IN
     \/ /\ timer' = [timer EXCEPT ![i] = "sleep"] /\ Finish(p)
        /\ UNCHANGED <<parked_fd, fd>>
     \/ /\ "thread" \in Faults
        /\ timer' = [timer EXCEPT ![i] = "off"]
        /\ IF park_current = i /\ parked_fd # None
           THEN /\ fd' = [fd EXCEPT ![p] = parked_fd] /\ parked_fd' = None
                /\ Goto(p, "nopark")
           ELSE UNCHANGED <<fd, parked_fd>> /\ Finish(p)
  /\ UNCHANGED <<busy, held_fd, active_stream, selVars, scanVars, park_current,
                 timer_fd, statsVars, devVars, hfd, pfd, booted>>

\* Mutant: the generation test is inverted, the timer spares its own park.
TimerExpireInverted(i) ==
  /\ timer[i] = "sleep"
  /\ IF park_current # i /\ parked_fd # None
     THEN /\ timer_fd' = [timer_fd EXCEPT ![i] = parked_fd] /\ parked_fd' = None
          /\ timer' = [timer EXCEPT ![i] = "close"]
     ELSE /\ timer' = [timer EXCEPT ![i] = "off"]
          /\ UNCHANGED <<timer_fd, parked_fd>>
  /\ UNCHANGED <<busy, held_fd, active_stream, selVars, scanVars, park_current,
                 statsVars, devVars, ctlVars, ownVars, booted>>

\* park_expiry_thread_main: takes the parked fd if it is still its own park.
TimerExpire(i) ==
  /\ timer[i] = "sleep"
  /\ IF park_current = i /\ parked_fd # None
     THEN /\ timer_fd' = [timer_fd EXCEPT ![i] = parked_fd] /\ parked_fd' = None
          /\ timer' = [timer EXCEPT ![i] = "close"]
     ELSE /\ timer' = [timer EXCEPT ![i] = "off"]
          /\ UNCHANGED <<timer_fd, parked_fd>>
  /\ UNCHANGED <<busy, held_fd, active_stream, selVars, scanVars, park_current,
                 statsVars, devVars, ctlVars, ownVars, booted>>

TimerClose(i) ==
  /\ timer[i] = "close"
  /\ FrontendClose(timer_fd[i])
  /\ timer' = [timer EXCEPT ![i] = "off"]
  /\ timer_fd' = [timer_fd EXCEPT ![i] = None]
  /\ UNCHANGED <<tunerVars, selVars, scanVars, park_current, statsVars, ctlVars,
                 ownVars, booted>>

\* Mutant: active_stream still points to the stream being closed.
ReleaseKeepsStream(p) ==
  /\ At(p, "release")
  /\ fd' = [fd EXCEPT ![p] = active_stream]
  /\ Goto(p, IF active_stream # None THEN "close" ELSE "free")
  /\ UNCHANGED <<tunerVars, selVars, scanVars, parkVars, statsVars, devVars,
                 hfd, pfd, booted>>

\* tuner_release, first critical section.
Release(p) ==
  /\ At(p, "release")
  /\ fd' = [fd EXCEPT ![p] = active_stream] /\ active_stream' = None
  /\ Goto(p, IF active_stream # None THEN "close" ELSE "free")
  /\ UNCHANGED <<busy, held_fd, parked_fd, selVars, scanVars, parkVars,
                 statsVars, devVars, hfd, pfd, booted>>

\* dvb_stream_close
CloseStream(p) ==
  /\ At(p, "close")
  /\ CloseOwn(p) /\ Goto(p, "free")
  /\ UNCHANGED devStep

\* Second critical section; a selection without a hold is held again next.
Free(p) ==
  /\ At(p, "free")
  /\ busy' = FALSE
  /\ ret' = [ret EXCEPT ![p] = "idle"]
  /\ IF tuned # None /\ held_fd = None
     THEN FreeTo(p, "hold") /\ job' = [job EXCEPT ![p] = Job("hold", None, tuned)]
     ELSE FreeTo(p, "idle") /\ job' = [job EXCEPT ![p] = NoJob]
  /\ UNCHANGED <<held_fd, parked_fd, active_stream, selVars, scanVars, parkVars,
                 statsVars, devVars, ownVars, booted>>

----------------------------------------------------------------------------
(* Holding *)

\* vchannel SET: bind the channel, then tuner_open_hold.
Select(p, c) ==
  /\ At(p, "idle")
  /\ tuned' = FreqOf[c] /\ vch' = c
  /\ pc' = [pc EXCEPT ![p] = "hold"]
  /\ job' = [job EXCEPT ![p] = Job("select", c, FreqOf[c])]
  /\ UNCHANGED <<tunerVars, scanVars, parkVars, statsVars, devVars, ret, ownVars,
                 booted>>

\* close_existing_hold_for_new_one; tuner_open_hold_from_fd arrives with the
\* new fd in hand and closes it when a stream is being served.
EnterHold(p) ==
  /\ At(p, "hold")
  /\ IF active_stream # None
     THEN /\ IF fd[p] # None THEN CloseOwn(p) ELSE UNCHANGED <<devVars, fd>>
          /\ HoldDone(p)
          /\ UNCHANGED <<held_fd, parked_fd, hfd, pfd>>
     ELSE /\ Detach(p, IF fd[p] # None THEN "install" ELSE "openhold")
          /\ UNCHANGED <<devVars, fd, job>>
  /\ UNCHANGED <<busy, active_stream, selVars, scanVars, parkVars, statsVars, booted>>

OpenHold(p) ==
  /\ At(p, "openhold")
  /\ \/ FrontendOpen(p, None) /\ Goto(p, "tunehold")
     \/ FrontendRefused /\ HoldDone(p) /\ UNCHANGED <<devVars, fd>>
  /\ UNCHANGED devStep

TuneHold(p) ==
  /\ At(p, "tunehold")
  /\ \/ rf' = job[p].want /\ Goto(p, "install") /\ UNCHANGED <<open_fds, fd>>
     \/ "tune" \in Faults /\ CloseOwn(p) /\ HoldDone(p)
  /\ UNCHANGED devStep

\* install_hold_fd: recheck, publish the fd and start its refresher, which
\* may fail to start.
InstallHold(p) ==
  /\ At(p, "install")
  /\ IF active_stream # None \/ held_fd # None
     THEN CloseOwn(p) /\ UNCHANGED <<held_fd, statsVars>>
     ELSE /\ held_fd' = fd[p] /\ fd' = [fd EXCEPT ![p] = None]
          /\ stats_stop' = FALSE /\ stats_fd' = None
          /\ \/ stats_started' = TRUE /\ stats_pc' = "start"
             \/ "thread" \in Faults /\ stats_started' = FALSE /\ UNCHANGED stats_pc
          /\ UNCHANGED devVars
  /\ HoldDone(p)
  /\ UNCHANGED <<busy, parked_fd, active_stream, selVars, scanVars, parkVars,
                 hfd, pfd, booted>>

\* tuner_close_hold, as called by channel=none and by a channelmap SET.
BeginClear(p) ==
  /\ At(p, "idle")
  /\ hfd' = [hfd EXCEPT ![p] = held_fd] /\ held_fd' = None
  /\ ret' = [ret EXCEPT ![p] = "clear"]
  /\ pc' = [pc EXCEPT ![p] = IF held_fd # None THEN "stop" ELSE "clear"]
  /\ job' = [job EXCEPT ![p] = Job("clear", None, None)]
  /\ UNCHANGED <<busy, parked_fd, active_stream, selVars, scanVars, parkVars,
                 statsVars, devVars, fd, pfd, booted>>

\* ... and the critical section that forgets the selection and the session.
Clear(p) ==
  /\ At(p, "clear")
  /\ tuned' = None /\ vch' = None /\ session' = None
  /\ Finish(p)
  /\ UNCHANGED <<tunerVars, scan_worker_active, parkVars, statsVars, devVars,
                 ownVars, booted>>

----------------------------------------------------------------------------
(* held_stats_thread_main *)

StatsStart ==
  /\ stats_pc = "start"
  /\ stats_fd' = held_fd
  /\ stats_pc' = IF held_fd # None THEN "read" ELSE "exited"
  /\ UNCHANGED <<stats_started, stats_stop>>

\* Mutant: the refresher leaves only once a newer hold has replaced its own.
StatsMustStopReplaced == held_fd \notin {None, stats_fd}

StatsMustStop == stats_stop \/ held_fd # stats_fd

\* The stat read returns; the result is cached unless the hold is over.
StatsRead ==
  /\ stats_pc = "read"
  /\ stats_pc' = IF StatsMustStop THEN "exited" ELSE "sleep"
  /\ UNCHANGED <<stats_started, stats_stop, stats_fd>>

StatsWake ==
  /\ stats_pc = "sleep"
  /\ stats_pc' = IF StatsMustStop THEN "exited" ELSE "read"
  /\ UNCHANGED <<stats_started, stats_stop, stats_fd>>

Stats ==
  /\ StatsStart \/ StatsRead \/ StatsWake
  /\ UNCHANGED <<tunerVars, selVars, scanVars, parkVars, devVars, ctlVars,
                 ownVars, booted>>

----------------------------------------------------------------------------
(* Scanning: channel_scan_thread_main and the startup scan *)

\* A worker without a frontend still answers its queue, then winds down.
OpenForScan(p) ==
  /\ At(p, "claimed") /\ job[p].kind \in {"scan", "boot"}
  /\ \/ FrontendOpen(p, None) /\ Goto(p, "scan")
     \/ /\ FrontendRefused /\ UNCHANGED <<devVars, fd>>
        /\ Goto(p, IF job[p].kind = "scan" THEN "scanend" ELSE "release")
  /\ UNCHANGED devStep

\* One attempt: the frontend is retuned in place.
ScanTune(p) ==
  /\ At(p, "scan")
  /\ rf' \in Freqs
  /\ UNCHANGED <<open_fds, fd, ctlVars, devStep>>

\* The startup scan is over.
BootDone(p) ==
  /\ At(p, "scan") /\ job[p].kind = "boot"
  /\ CloseOwn(p) /\ Goto(p, "release")
  /\ UNCHANGED devStep

\* The worker has made at least one attempt and drained its queue: is its
\* session still the current one?
ScanDone(p) ==
  /\ At(p, "scan") /\ job[p].kind = "scan" /\ (rf # None \/ "tune" \in Faults)
  /\ Goto(p, IF session = p THEN "hold" ELSE "drop")
  /\ UNCHANGED <<devVars, fd, devStep>>

ScanDrop(p) ==
  /\ At(p, "drop")
  /\ CloseOwn(p) /\ Goto(p, "scanend")
  /\ UNCHANGED devStep

ScanEnd(p) ==
  /\ At(p, "scanend")
  /\ scan_worker_active' = FALSE
  /\ Goto(p, "release")
  /\ UNCHANGED <<tunerVars, selVars, session, parkVars, statsVars, devVars,
                 ownVars, booted>>

----------------------------------------------------------------------------

\* Steps a thread takes by itself once started.
Step(p) ==
  \/ Recheck(p) \/ WaitTimeout(p) \/ OpenSession(p)
  \/ StopStats(p) \/ JoinStats(p) \/ ForgetStats(p)
  \/ DisposeHeld(p) \/ DisposeParked(p)
  \/ AdoptFd(p) \/ OpenForStream(p) \/ TuneStream(p) \/ LockStream(p)
  \/ ReopenStream(p) \/ RelockStream(p) \/ Bind(p) \/ SetStream(p)
  \/ Unbind(p) \/ Park(p) \/ Unpark(p) \/ ParkFd(p) \/ ParkFails(p)
  \/ ClosePark(p) \/ StartTimer(p)
  \/ Release(p) \/ CloseStream(p) \/ Free(p)
  \/ EnterHold(p) \/ OpenHold(p) \/ TuneHold(p) \/ InstallHold(p) \/ Clear(p)
  \/ OpenForScan(p) \/ BootDone(p) \/ ScanDrop(p) \/ ScanEnd(p)

\* What clients decide: starting an operation, ending a stream, how many
\* frequencies a scan visits before its queue stays empty.
Env(p) ==
  \/ \E c \in Chans, k \in {"pull", "push"} \cap Clients : BeginStream(p, k, c)
  \/ "boot" \in Clients /\ BeginBoot(p)
  \/ "scan" \in Clients /\ \E f \in Freqs : ScanClaim(p, f)
  \/ "select" \in Clients /\ \E c \in Chans : Select(p, c)
  \/ "clear" \in Clients /\ BeginClear(p)
  \/ EndStream(p) \/ ScanTune(p) \/ ScanDone(p)

TimerStep(i) == TimerExpire(i) \/ TimerClose(i)

Next ==
  \/ \E p \in Proc : Step(p) \/ Env(p)
  \/ \E i \in Timers : TimerStep(i)
  \/ \E f \in Freqs : QueueChannel(f)
  \/ Stats

Fairness ==
  /\ \A p \in Proc : WF_vars(Step(p))
  /\ \A i \in Timers : WF_vars(TimerStep(i))
  /\ WF_vars(Stats)

Spec == Init /\ [][Next]_vars

FairSpec == Spec /\ Fairness

----------------------------------------------------------------------------
(* Properties *)

Jobs == [kind : Kinds, ch : Chans \cup {None}, want : Freqs \cup {None},
         reuse : BOOLEAN, ctx : Timers \cup {None}]

TypeControl ==
  /\ pc \in [Proc -> Pcs]
  /\ job \in [Proc -> Jobs]
  /\ ret \in [Proc -> {"idle", "claimed", "scanend", "openhold", "install", "clear"}]

TypeFds ==
  /\ held_fd \in Fds \cup {None} /\ parked_fd \in Fds \cup {None}
  /\ active_stream \in Fds \cup {None}
  /\ fd \in [Proc -> Fds \cup {None}]
  /\ hfd \in [Proc -> Fds \cup {None}]
  /\ pfd \in [Proc -> Fds \cup {None}]
  /\ timer_fd \in [Timers -> Fds \cup {None}]
  /\ stats_fd \in Fds \cup {None}
  /\ open_fds \subseteq Fds

TypeFields ==
  /\ busy \in BOOLEAN /\ scan_worker_active \in BOOLEAN /\ booted \in BOOLEAN
  /\ tuned \in Freqs \cup {None} /\ vch \in Chans \cup {None}
  /\ rf \in Freqs \cup {None}
  /\ session \in Proc \cup {None} /\ park_current \in Timers \cup {None}
  /\ stats_started \in BOOLEAN /\ stats_stop \in BOOLEAN
  /\ stats_pc \in {"none", "start", "read", "sleep", "exited"}
  /\ timer \in [Timers -> {"off", "ctx", "sleep", "close"}]

\* Type invariant: every field of the tuner, of the device and of the threads
\* has a value the code can give it.
TypeOK == TypeControl /\ TypeFds /\ TypeFields

EmptyHanded(p) == fd[p] = None /\ hfd[p] = None /\ pfd[p] = None

NoThreadFd == \A p \in Proc : EmptyHanded(p)

NoTimerFd == \A i \in Timers : timer_fd[i] = None

\* The frontend has one owner: the hold, the park, the stream, one thread or
\* one expiry timer, never two.  This is what tuner.c's "only one fd at a
\* time" comments rely on, across every hand-over between critical sections.
SoleOwner ==
  /\ held_fd # None =>
       parked_fd = None /\ active_stream = None /\ NoThreadFd /\ NoTimerFd
  /\ parked_fd # None => active_stream = None /\ NoThreadFd /\ NoTimerFd
  /\ active_stream # None => NoThreadFd /\ NoTimerFd
  /\ \A p \in Proc : ~EmptyHanded(p) =>
       /\ NoTimerFd
       /\ \A q \in Proc \ {p} : EmptyHanded(q)
       /\ fd[p] = None \/ (hfd[p] = None /\ pfd[p] = None)
       /\ hfd[p] = None \/ pfd[p] = None
  /\ \A i \in Timers : timer_fd[i] # None =>
       \A j \in Timers \ {i} : timer_fd[j] = None

\* Nobody keeps a descriptor that was closed: an fd still recorded in the
\* tuner, in a thread or in a timer is open, so it is never closed twice and
\* never used after another thread closed it.
NoStaleFd ==
  /\ {held_fd, parked_fd, active_stream} \subseteq open_fds \cup {None}
  /\ \A p \in Proc : {fd[p], hfd[p], pfd[p]} \subseteq open_fds \cup {None}
  /\ \A i \in Timers : timer_fd[i] \in open_fds \cup {None}

\* No descriptor is leaked: as long as the frontend is open somebody has it
\* and will close it, on every error path too.
NoFdLeak ==
  \A f \in open_fds :
    \/ f \in {held_fd, parked_fd, active_stream}
    \/ \E p \in Proc : f \in {fd[p], hfd[p], pfd[p]}
    \/ \E i \in Timers : f = timer_fd[i]

\* busy is the claim of exactly one thread: "On success the caller owns the
\* tuner until tuner_release()" (tuner.h).
ClaimExclusive ==
  /\ \A p, q \in Proc : HasClaim(p) /\ HasClaim(q) => p = q
  /\ busy <=> \E p \in Proc : HasClaim(p)

\* stop_held_stats_thread's guarantee: while the refresher is inside a stat
\* read, its fd is open and nobody has been given it to close or to reuse.
RefresherFdStable ==
  stats_pc = "read" =>
    /\ stats_fd \in open_fds
    /\ \/ held_fd = stats_fd
       \/ \E p \in Proc : hfd[p] = stats_fd /\ pc[p] \in {"session", "stop", "join"}

\* install_hold_fd never overwrites the handle (or the legacy seq window) of a
\* refresher that is still running or not yet joined.
RefresherNeverLost ==
  [][held_fd' # held_fd /\ held_fd' # None => ~stats_started /\ stats_pc = "none"]_vars

\* stop_held_stats_thread's whole promise: the refresher never reads an fd that
\* was given away, and none is started over one that runs or is not joined.
RefresherSafe == []RefresherFdStable /\ RefresherNeverLost

\* A parked frontend belongs to a free tuner, and the expiry thread of that
\* very park is still going to run (or is about to be started), so it cannot
\* stay open forever and a later park is never cut short by an older timer.
ParkedIsTimed ==
  parked_fd # None =>
    /\ ~busy
    /\ park_current # None /\ timer[park_current] \in {"ctx", "sleep"}

\* The frontend is always in order: every open descriptor has exactly one owner,
\* every owner's descriptor is open, and one that is parked has its timer,
\* through every hand-over and on every error path (tuner.c).
FrontendOwned ==
  TypeOK /\ SoleOwner /\ NoStaleFd /\ NoFdLeak /\ ParkedIsTimed

\* Whatever fd a stream was given (freshly opened, a former hold or a parked
\* one from another channel), once it is bound it is on its channel's mux.
StreamOnItsMux ==
  \A p \in Proc :
    pc[p] \in {"bind", "attach", "stream"} => rf = job[p].want /\ rf # None

\* free_cond is signalled whenever the claim is dropped: a thread never stays
\* asleep in tuner_try_claim_wait on a free tuner unless another waiter has
\* been woken to take it.
NoLostWakeup ==
  ~busy /\ Waiting # {} => \E q \in Proc : pc[q] = "awake"

\* A parked frontend is always given up again, to a claimer, a hold or its
\* timer.
ParkEnds == parked_fd # None ~> parked_fd = None

\* Joining the refresher ends: no hold operation can undo the stop request
\* before the thread has seen it.
JoinEnds == \A p \in Proc : pc[p] = "join" ~> pc[p] # "join"

\* A thread that starts releasing the tuner gets through, whatever the others
\* do, including the re-hold at the end.
ReleaseEnds ==
  \A p \in Proc : pc[p] \in {"release", "unbind"} ~> pc[p] = "idle"

\* No wait of the slot lasts for ever: parks are given up, joins return, and
\* releases get through, whatever the other threads do (tuner.c).
WaitsEnd == ParkEnds /\ JoinEnds /\ ReleaseEnds

----------------------------------------------------------------------------
(* The inductive invariant behind the safety properties (TunerProofs) *)

ClaimKinds == {"pull", "push", "boot", "scan"}
Disposing == {"stop", "join", "joined", "dispose"}
StreamPcs == {"tune", "lock", "reopen", "relock", "bind", "attach", "stream"}

\* Which operation can be at which program point, and where it resumes after
\* disposing of detached fds.
ControlInv ==
  \A p \in Proc :
    /\ pc[p] \in ClaimedPcs => job[p].kind \in ClaimKinds
    /\ pc[p] \in {"wait", "awake"} => job[p].kind \in {"pull", "push", "boot"}
    /\ pc[p] \in StreamPcs => Streams(p)
    /\ pc[p] \in {"session", "drop", "scanend"} => job[p].kind = "scan"
    /\ pc[p] \in {"hold", "openhold", "tunehold", "install"} =>
         job[p].kind \in {"scan", "hold", "select"}
    /\ pc[p] \in Disposing =>
         \/ job[p].kind \in ClaimKinds /\ ret[p] = "claimed"
         \/ job[p].kind = "scan" /\ ret[p] = "scanend"
         \/ job[p].kind \in {"scan", "hold", "select"} /\ ret[p] \in {"openhold", "install"}
         \/ job[p].kind = "clear" /\ ret[p] = "clear"
    /\ Streams(p) => job[p].want # None

\* Program points at which the thread has its own frontend fd in hand.
WithFd == {"tune", "lock", "relock", "bind", "attach", "parkin", "unpark",
           "nopark", "scan", "drop", "close", "tunehold", "install"}

\* Which fds a thread has in its hands at each program point, and that a
\* served stream stays installed until its own thread takes it back.
HandsInv ==
  /\ \A p \in Proc :
       /\ hfd[p] # None => pc[p] \in Disposing \cup {"session"}
       /\ pfd[p] # None => pc[p] \in Disposing
       /\ pc[p] \in {"stop", "join", "joined"} => hfd[p] # None
       /\ pc[p] = "dispose" => hfd[p] # None \/ pfd[p] # None
       /\ pc[p] \in Disposing => ret[p] # "install"
       /\ pc[p] \in WithFd => fd[p] # None
       /\ pc[p] = "hold" /\ job[p].kind = "scan" => fd[p] # None
       /\ fd[p] # None =>
            \/ pc[p] \in WithFd
            \/ pc[p] = "claimed" /\ Streams(p)
            \/ pc[p] = "hold" /\ job[p].kind = "scan"
       /\ pc[p] \in {"stream", "unbind", "park"} => active_stream # None
  /\ \A i \in Timers : timer_fd[i] # None <=> timer[i] = "close"

\* An expiry ctx that has been allocated belongs to one thread until its timer
\* is started.
TimerInv ==
  \A p \in Proc : pc[p] = "timer" =>
    /\ job[p].ctx \in Timers /\ timer[job[p].ctx] = "ctx"
    /\ \A q \in Proc \ {p} : pc[q] = "timer" => job[q].ctx # job[p].ctx

\* The refresher runs only for an fd that is held, or detached and not yet
\* past stop_held_stats_thread.
RefreshedFd(f) ==
  \/ f = held_fd
  \/ \E p \in Proc : f = hfd[p] /\ pc[p] \in {"session", "stop", "join"}

RefresherInv ==
  /\ stats_pc # "none" => stats_started /\ \E f \in Fds : RefreshedFd(f)
  /\ stats_started /\ stats_pc = "none" => \E p \in Proc : pc[p] = "joined"
  /\ stats_pc \in {"read", "sleep"} => stats_fd \in Fds /\ RefreshedFd(stats_fd)

\* A stream that is locked is on its mux already.
MuxInv ==
  \A p \in Proc :
    pc[p] \in {"lock", "relock", "bind", "attach", "stream"} => rf = job[p].want

\* The inductive invariant: types, control, the claim, who holds which fd, the
\* refresher, the park and the tuning together.
IInv ==
  /\ TypeOK /\ ControlInv /\ ClaimExclusive
  /\ TimerInv /\ HandsInv /\ SoleOwner /\ NoStaleFd /\ NoFdLeak
  /\ RefresherInv /\ ParkedIsTimed /\ NoLostWakeup /\ MuxInv
=============================================================================
