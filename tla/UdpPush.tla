------------------------------ MODULE UdpPush ------------------------------
(***************************************************************************)
(* The target= UDP push of one tuner (udp_stream.c), the control SETs that *)
(* start and stop it (control.c) and the keepalive listener that reclaims  *)
(* an abandoned one (keepalive.c).                                         *)
(*                                                                         *)
(* Control connections and the listener are `Threads`; they share          *)
(* udp_push_stop, which asks the push to stop and polls for at most two    *)
(* seconds.  Push threads are detached: nobody joins them, and the only    *)
(* links to them are three fields of struct hdhr_tuner.  A critical        *)
(* section under t->lock is one action.                                    *)
(*                                                                         *)
(* Abstractions.  udp_push_generation is only compared for equality, so it *)
(* is represented by `current`, the push that was started with its present *)
(* value.  last_keepalive_time is reduced to `fresh`: less than            *)
(* KEEPALIVE_TIMEOUT_MS ago.  The frontend, its fd and the hold are in     *)
(* Tuner; here the tuner is a claim that others (HTTP pulls, scan workers) *)
(* also take.  What the channel database, the last lock attempt and        *)
(* /tunerN/program hold when a push is started is up to other threads at   *)
(* any moment: each such test has both outcomes.                           *)
(***************************************************************************)
EXTENDS Naturals, FiniteSets

CONSTANTS
  Conns,     \* control connections
  Listener,  \* the keepalive listener thread
  Pushes,    \* push threads; bounds how many are outstanding at once
  Dests,     \* destinations a client may name in target=
  BadDests,  \* those of them whose address inet_pton refuses
  Chans,     \* virtual channels of the lineup
  Freqs,     \* muxes
  FreqOf,    \* the mux that carries each virtual channel
  Synth,     \* channel 0.0, the synthetic channel of a raw push
  Other,     \* whoever else may claim the tuner
  Faults,    \* which calls may fail: see FaultKinds
  None

FaultKinds == {"socket", "open", "thread", "lookup", "eof", "signal"}

Threads == Conns \cup {Listener}

ASSUME UdpPushAssumption ==
  /\ BadDests \subseteq Dests
  /\ FreqOf \in [Chans -> Freqs]
  /\ Faults \subseteq FaultKinds
  /\ Listener \notin Conns
  /\ Synth \notin Chans
  /\ Other \notin Pushes
  /\ None \notin Pushes \cup Dests \cup Chans \cup Freqs \cup {Other, Synth}

VARIABLES
  \* struct hdhr_tuner
  target,         \* what GET target reports
  active,         \* udp_push_active
  stop_requested, \* udp_push_stop_requested
  current,        \* the push whose generation is udp_push_generation
  match,          \* keepalive_match_addr and _port
  fresh,          \* last_keepalive_time is recent
  vch,            \* vch_major.vch_minor while vch_resolved, else None
  tuned,          \* tuned_frequency_hz
  claim,          \* who has the tuner: a push, Other or None
  \* push threads
  ppc, ctx,       \* where each one is, and its struct push_ctx
  \* control connections and the listener
  pc, job,
  \* whether the mux delivers packets
  signal

flagVars == <<active, stop_requested, current>>
kaVars   == <<match, fresh>>
selVars  == <<vch, tuned>>
pushVars == <<ppc, ctx>>
ctlVars  == <<pc, job>>
vars == <<target, flagVars, kaVars, selVars, claim, pushVars, ctlVars, signal>>

\* What a thread is doing: operation, destination, channel and mux.
Job(k, d, c, f) == [kind |-> k, dest |-> d, ch |-> c, freq |-> f]

NoJob == Job("none", None, None, None)

Init ==
  /\ target = None
  /\ active = FALSE /\ stop_requested = FALSE /\ current = None
  /\ match = None /\ fresh = FALSE
  /\ vch = None /\ tuned = None /\ claim = None
  /\ ppc = [p \in Pushes |-> "off"] /\ ctx = [p \in Pushes |-> NoJob]
  /\ pc = [x \in Threads |-> IF x = Listener THEN "recv" ELSE "idle"]
  /\ job = [x \in Threads |-> NoJob]
  /\ signal = TRUE

----------------------------------------------------------------------------
(* Building blocks *)

At(x, l) == pc[x] = l

Goto(x, l) == pc' = [pc EXCEPT ![x] = l] /\ UNCHANGED job

\* The SET is replied to, or the listener goes back to recvfrom().
Finish(x) ==
  /\ pc' = [pc EXCEPT ![x] = IF x = Listener THEN "recv" ELSE "idle"]
  /\ job' = [job EXCEPT ![x] = NoJob]

PushAt(p, l) == ppc[p] = l

PushGoto(p, l) == ppc' = [ppc EXCEPT ![p] = l] /\ UNCHANGED ctx

----------------------------------------------------------------------------
(* udp_push_stop *)

\* Where the caller of udp_push_stop goes on.
AfterStop(x) ==
  CASE job[x].kind = "target"   -> Goto(x, "snapshot")
    [] job[x].kind = "notarget" -> Goto(x, "cleartarget")
    [] job[x].kind = "vchannel" -> Goto(x, "bind")
    [] job[x].kind = "nochannel" -> Goto(x, "clear")
    [] OTHER -> Finish(x)

\* A push that is active is asked to stop.  The poll that follows ends when the
\* flag is down or after 400 rounds, and changes nothing: the push may be in a
\* blocking read, in a slow teardown or waiting for the claim.  The caller's
\* next step therefore comes at any later moment, with the flag up or down.
UdpPushStop(x) ==
  /\ At(x, "stop")
  /\ stop_requested' = (stop_requested \/ active)
  /\ AfterStop(x)
  /\ UNCHANGED <<target, active, current, kaVars, selVars, claim, pushVars, signal>>

----------------------------------------------------------------------------
(* Control SETs: handle_tuner_set *)

\* A connection receives target=<dest>, target=none, a vchannel SET, or
\* channel=none or a channelmap SET; each begins with udp_push_stop.
Receive(x, k, d, c) ==
  /\ At(x, "idle")
  /\ pc' = [pc EXCEPT ![x] = "stop"]
  /\ job' = [job EXCEPT ![x] = Job(k, d, c, None)]
  /\ UNCHANGED <<target, flagVars, kaVars, selVars, claim, pushVars, signal>>

ReceiveAny(x) ==
  \/ \E d \in Dests : Receive(x, "target", d, None)
  \/ \E c \in Chans : Receive(x, "vchannel", None, c)
  \/ \E k \in {"notarget", "nochannel"} : Receive(x, k, None, None)

ClearTarget(x) ==
  /\ At(x, "cleartarget")
  /\ target' = None
  /\ Finish(x)
  /\ UNCHANGED <<flagVars, kaVars, selVars, claim, pushVars, signal>>

BindChannel(x) ==
  /\ At(x, "bind")
  /\ vch' = job[x].ch /\ tuned' = FreqOf[job[x].ch]
  /\ Finish(x)
  /\ UNCHANGED <<target, flagVars, kaVars, claim, pushVars, signal>>

ClearChannel(x) ==
  /\ At(x, "clear")
  /\ vch' = None /\ tuned' = None
  /\ Finish(x)
  /\ UNCHANGED <<target, flagVars, kaVars, claim, pushVars, signal>>

\* udp_push_start reads the selection and decides what to stream: the resolved
\* channel, if it is still in the database; the whole mux of a raw tune that
\* locked; or, when a program was asked for, a channel known on that mux, which
\* it waits for.  Otherwise the SET is refused.
Snapshot(x) ==
  /\ At(x, "snapshot")
  /\ \/ /\ vch \in Chans
        /\ pc' = [pc EXCEPT ![x] = "start"]
        /\ job' = [job EXCEPT ![x].ch = vch, ![x].freq = FreqOf[vch]]
     \/ /\ vch = None /\ tuned # None
        /\ pc' = [pc EXCEPT ![x] = "start"]
        /\ job' = [job EXCEPT ![x].ch = Synth, ![x].freq = tuned]
     \/ /\ vch = None /\ tuned # None
        /\ pc' = [pc EXCEPT ![x] = "lookup"]
        /\ job' = [job EXCEPT ![x].freq = tuned]
     \/ /\ vch \notin Chans \/ "lookup" \in Faults
        /\ Finish(x)
  /\ UNCHANGED <<target, flagVars, kaVars, selVars, claim, pushVars, signal>>

\* The wait for a channel on the mux is over; the selection must still be the
\* raw tune it started from.
StillCurrent(x) == tuned = job[x].freq /\ vch = None

Lookup(x) ==
  /\ At(x, "lookup")
  /\ \/ \E c \in Chans :
          /\ FreqOf[c] = job[x].freq /\ StillCurrent(x)
          /\ pc' = [pc EXCEPT ![x] = "start"]
          /\ job' = [job EXCEPT ![x].ch = c]
     \/ Finish(x)
  /\ UNCHANGED <<target, flagVars, kaVars, selVars, claim, pushVars, signal>>

\* Mutant: the keepalive fields keep the previous destination.
StartPushKeepsMatch(x, p) ==
  /\ At(x, "start")
  /\ PushAt(p, "off")
  /\ fresh' = TRUE
  /\ stop_requested' = FALSE /\ active' = TRUE /\ current' = p
  /\ ppc' = [ppc EXCEPT ![p] = "start"] /\ ctx' = [ctx EXCEPT ![p] = job[x]]
  /\ Goto(x, "settarget")
  /\ UNCHANGED <<target, match, selVars, claim, signal>>

\* The last critical section of udp_push_start: a new push takes over the
\* flags and the keepalive fields, whatever became of the one before.
StartPush(x, p) ==
  /\ At(x, "start")
  /\ PushAt(p, "off")
  /\ match' = IF job[x].dest \in BadDests THEN None ELSE job[x].dest
  /\ fresh' = TRUE
  /\ stop_requested' = FALSE /\ active' = TRUE /\ current' = p
  /\ ppc' = [ppc EXCEPT ![p] = "start"] /\ ctx' = [ctx EXCEPT ![p] = job[x]]
  /\ Goto(x, "settarget")
  /\ UNCHANGED <<target, selVars, claim, signal>>

\* pthread_create fails after the flags were set.
StartFails(x) ==
  /\ At(x, "start")
  /\ "thread" \in Faults
  /\ match' = IF job[x].dest \in BadDests THEN None ELSE job[x].dest
  /\ fresh' = TRUE
  /\ stop_requested' = FALSE /\ active' = FALSE /\ current' = None
  /\ Finish(x)
  /\ UNCHANGED <<target, selVars, claim, pushVars, signal>>

SetTarget(x) ==
  /\ At(x, "settarget")
  /\ target' = job[x].dest
  /\ Finish(x)
  /\ UNCHANGED <<flagVars, kaVars, selVars, claim, pushVars, signal>>

----------------------------------------------------------------------------
(* push_thread_main *)

\* A socket for a destination that can be used, or the end.
PushStart(p) ==
  /\ PushAt(p, "start")
  /\ \/ ctx[p].dest \notin BadDests /\ PushGoto(p, "claim")
     \/ (ctx[p].dest \in BadDests \/ "socket" \in Faults) /\ PushGoto(p, "end")
  /\ UNCHANGED <<target, flagVars, kaVars, selVars, claim, ctlVars, signal>>

\* tuner_try_claim_wait: the tuner is free, or TARGET_CLAIM_WAIT_MS are over.
PushClaim(p) ==
  /\ PushAt(p, "claim")
  /\ IF claim = None THEN claim' = p /\ PushGoto(p, "open")
     ELSE PushGoto(p, "end") /\ UNCHANGED claim
  /\ UNCHANGED <<target, flagVars, kaVars, selVars, ctlVars, signal>>

\* Mutant: the error path forgets tuner_release.
PushOpenLeaks(p) ==
  /\ PushAt(p, "open")
  /\ \/ PushGoto(p, "loop") /\ vch' = ctx[p].ch /\ tuned' = ctx[p].freq
     \/ "open" \in Faults /\ PushGoto(p, "end") /\ UNCHANGED selVars
  /\ UNCHANGED <<target, flagVars, kaVars, claim, ctlVars, signal>>

\* Mutant: the fields of the selection are exchanged.
PushOpenSwapped(p) ==
  /\ PushAt(p, "open")
  /\ \/ PushGoto(p, "loop") /\ vch' = ctx[p].freq /\ tuned' = ctx[p].ch
     \/ "open" \in Faults /\ PushGoto(p, "release") /\ UNCHANGED selVars
  /\ UNCHANGED <<target, flagVars, kaVars, claim, ctlVars, signal>>

\* dvb_stream_open, then tuner_bind_channel and tuner_set_stream.
PushOpen(p) ==
  /\ PushAt(p, "open")
  /\ \/ PushGoto(p, "loop") /\ vch' = ctx[p].ch /\ tuned' = ctx[p].freq
     \/ "open" \in Faults /\ PushGoto(p, "release") /\ UNCHANGED selVars
  /\ UNCHANGED <<target, flagVars, kaVars, claim, ctlVars, signal>>

\* The loop looks at the stop flag between two reads.
PushLoop(p) ==
  /\ PushAt(p, "loop")
  /\ PushGoto(p, IF stop_requested THEN "reset" ELSE "read")
  /\ UNCHANGED <<target, flagVars, kaVars, selVars, claim, ctlVars, signal>>

\* dvb_stream_read returns with packets, which are sent on.
PushRead(p) ==
  /\ PushAt(p, "read")
  /\ signal
  /\ PushGoto(p, "loop")
  /\ UNCHANGED <<target, flagVars, kaVars, selVars, claim, ctlVars, signal>>

\* End of file or an error upstream, or sendto fails.
PushEof(p) ==
  /\ PushAt(p, "read")
  /\ "eof" \in Faults
  /\ PushGoto(p, "reset")
  /\ UNCHANGED <<target, flagVars, kaVars, selVars, claim, ctlVars, signal>>

PushReset(p) ==
  /\ PushAt(p, "reset")
  /\ target' = None
  /\ PushGoto(p, "release")
  /\ UNCHANGED <<flagVars, kaVars, selVars, claim, ctlVars, signal>>

PushRelease(p) ==
  /\ PushAt(p, "release")
  /\ claim' = None
  /\ PushGoto(p, "end")
  /\ UNCHANGED <<target, flagVars, kaVars, selVars, ctlVars, signal>>

\* Mutant: the generation is not compared.
PushEndAlways(p) ==
  /\ PushAt(p, "end")
  /\ active' = FALSE
  /\ current' = IF current = p THEN None ELSE current
  /\ ppc' = [ppc EXCEPT ![p] = "off"] /\ ctx' = [ctx EXCEPT ![p] = NoJob]
  /\ UNCHANGED <<target, stop_requested, kaVars, selVars, claim, ctlVars, signal>>

\* Mutant: the flag stays up, as in the version that done_no_claim's comment
\* describes.
PushEndNever(p) ==
  /\ PushAt(p, "end")
  /\ ppc' = [ppc EXCEPT ![p] = "off"] /\ ctx' = [ctx EXCEPT ![p] = NoJob]
  /\ UNCHANGED <<target, flagVars, kaVars, selVars, claim, ctlVars, signal>>

\* done_no_claim: the flag is lowered unless a newer push owns it.
PushEnd(p) ==
  /\ PushAt(p, "end")
  /\ active' = (active /\ current # p)
  /\ current' = IF current = p THEN None ELSE current
  /\ ppc' = [ppc EXCEPT ![p] = "off"] /\ ctx' = [ctx EXCEPT ![p] = NoJob]
  /\ UNCHANGED <<target, stop_requested, kaVars, selVars, claim, ctlVars, signal>>

----------------------------------------------------------------------------
(* keepalive.c *)

\* A keepalive packet arrives, from any address.
Keepalive(d) ==
  /\ At(Listener, "recv")
  /\ active /\ match = d
  /\ fresh' = TRUE
  /\ UNCHANGED <<target, flagVars, match, selVars, claim, pushVars, ctlVars, signal>>

\* Mutant: already_stopping is tested the wrong way round.
SweepOnlyStopping ==
  /\ At(Listener, "recv")
  /\ active /\ stop_requested /\ ~fresh
  /\ Goto(Listener, "stop")
  /\ UNCHANGED <<target, flagVars, kaVars, selVars, claim, pushVars, signal>>

\* sweep_stale_pushes, after every packet and every timeout of recvfrom(): a
\* push that is active, not already told to stop and without a keepalive for
\* too long is stopped, in a critical section of its own.
Sweep ==
  /\ At(Listener, "recv")
  /\ active /\ ~stop_requested /\ ~fresh
  /\ Goto(Listener, "stop")
  /\ UNCHANGED <<target, flagVars, kaVars, selVars, claim, pushVars, signal>>

----------------------------------------------------------------------------
(* The rest of the program, and the world *)

\* KEEPALIVE_TIMEOUT_MS pass without a packet.
Silence ==
  /\ fresh
  /\ fresh' = FALSE
  /\ UNCHANGED <<target, flagVars, match, selVars, claim, pushVars, ctlVars, signal>>

\* An HTTP pull or a raw channel SET takes the tuner and selects what it wants;
\* a scan worker leaves a raw selection behind, a pull takes its own back.
OtherClaim ==
  /\ claim = None
  /\ claim' = Other
  /\ \/ \E c \in Chans : vch' = c /\ tuned' = FreqOf[c]
     \/ \E f \in Freqs : vch' = None /\ tuned' = f
  /\ UNCHANGED <<target, flagVars, kaVars, pushVars, ctlVars, signal>>

OtherRelease ==
  /\ claim = Other
  /\ claim' = None
  /\ \/ vch \in Chans /\ vch' = None /\ tuned' = None
     \/ UNCHANGED selVars
  /\ UNCHANGED <<target, flagVars, kaVars, pushVars, ctlVars, signal>>

\* Reception is lost or comes back.
SignalChange ==
  /\ "signal" \in Faults
  /\ signal' = ~signal
  /\ UNCHANGED <<target, flagVars, kaVars, selVars, claim, pushVars, ctlVars>>

----------------------------------------------------------------------------

\* What a control connection or the listener does by itself once it has begun.
Step(x) ==
  \/ UdpPushStop(x) \/ ClearTarget(x) \/ BindChannel(x)
  \/ ClearChannel(x) \/ Snapshot(x) \/ Lookup(x)
  \/ (\E p \in Pushes : StartPush(x, p)) \/ StartFails(x) \/ SetTarget(x)

PushStep(p) ==
  \/ PushStart(p) \/ PushClaim(p) \/ PushOpen(p) \/ PushLoop(p)
  \/ PushRead(p) \/ PushReset(p) \/ PushRelease(p) \/ PushEnd(p)

Env ==
  \/ \E x \in Conns : ReceiveAny(x)
  \/ \E d \in Dests : Keepalive(d)
  \/ \E p \in Pushes : PushEof(p)
  \/ Silence \/ OtherClaim \/ OtherRelease \/ SignalChange

Next ==
  \/ \E x \in Threads : Step(x)
  \/ \E p \in Pushes : PushStep(p)
  \/ Sweep
  \/ Env

Spec == Init /\ [][Next]_vars

\* Every thread takes the steps it can take by itself.  Nothing is assumed of
\* clients, of reception or of the other users of the tuner.
Fairness ==
  /\ \A x \in Threads : WF_vars(Step(x))
  /\ \A p \in Pushes : WF_vars(PushStep(p))
  /\ WF_vars(Sweep)

FairSpec == Spec /\ Fairness

----------------------------------------------------------------------------
(* Properties *)

Pcs == {"idle", "recv", "stop", "cleartarget", "bind", "clear",
        "snapshot", "lookup", "start", "settarget"}

ClaimedPcs == {"open", "loop", "read", "reset", "release"}

PushPcs == ClaimedPcs \cup {"off", "start", "claim", "end"}

Jobs == [kind : {"none", "target", "notarget", "vchannel", "nochannel"},
         dest : Dests \cup {None}, ch : Chans \cup {Synth, None},
         freq : Freqs \cup {None}]

\* Type invariant: every field of the tuner, the threads and the pushes has a
\* value the code can give it.
TypeOK ==
  /\ target \in Dests \cup {None}
  /\ active \in BOOLEAN /\ stop_requested \in BOOLEAN /\ fresh \in BOOLEAN
  /\ signal \in BOOLEAN
  /\ current \in Pushes \cup {None} /\ match \in (Dests \ BadDests) \cup {None}
  /\ vch \in Chans \cup {Synth, None} /\ tuned \in Freqs \cup {None}
  /\ claim \in Pushes \cup {Other, None}
  /\ ppc \in [Pushes -> PushPcs] /\ ctx \in [Pushes -> Jobs]
  /\ pc \in [Threads -> Pcs] /\ job \in [Threads -> Jobs]

\* A vchannel SET carries a channel of the lineup up to the bind, and only a
\* target SET gets into udp_push_start.
JobInv ==
  \A x \in Threads :
    /\ pc[x] = "bind" => job[x].kind = "vchannel"
    /\ pc[x] \in {"snapshot", "lookup"} => job[x].kind = "target"
    /\ job[x].kind = "vchannel" => job[x].ch \in Chans

Alive(p) == ppc[p] # "off"

\* udp_push_active tells whether the newest push is alive, neither left up
\* after it ended nor taken down by an older one that ends late (tuner.h on
\* udp_push_generation; push_thread_main's done_no_claim).
ActiveIsNewest ==
  /\ active <=> current # None
  /\ current # None => Alive(current)

\* The keepalive fields belong to the newest push as long as it is active, so a
\* packet of an older destination never keeps it alive (tuner.h).
MatchIsNewest ==
  active => match = IF ctx[current].dest \in BadDests THEN None
                    ELSE ctx[current].dest

\* Flag and keepalive fields are those of the newest push, however starts, stops
\* that gave up and late ends of older pushes overlap (udp_stream.c).
FieldsAreNewest == TypeOK /\ ActiveIsNewest /\ MatchIsNewest

\* However starts, stops and ends overlap, the tuner is claimed by exactly the
\* push that is between its claim and its release.
ClaimIsPush ==
  \A p \in Pushes : claim = p <=> ppc[p] \in ClaimedPcs

\* The inductive invariant.
IInv == TypeOK /\ JobInv /\ ActiveIsNewest /\ MatchIsNewest /\ ClaimIsPush

\* With reception, the newest push ends once it is told to stop, unless a newer
\* start takes its place (udp_push_stop's promise to target=none, to a channel
\* change and to the keepalive sweep).
StoppedPushEnds == <>[]signal => []<>~(active /\ stop_requested)

\* With reception, a push whose client has gone silent is reclaimed: it is not
\* active for ever without a keepalive (keepalive.c).
SilentPushReclaimed == <>[]signal => []<>(fresh \/ ~active)

\* With reception, the newest push ends when nobody wants it, whether it was
\* stopped or abandoned.  An older push whose flag a newer start has reset, and a
\* push without reception, are outside it (udp_push_start, dvb_stream_read).
UnwantedPushEnds == StoppedPushEnds /\ SilentPushReclaimed
=============================================================================
