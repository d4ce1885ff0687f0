------------------------------ MODULE HttpPool ------------------------------
(* The tuner pool as HTTP clients see it (http_server.c, tuner.c): requests  *)
(* for a given tuner or for any, client affinity of /auto/ requests, and     *)
(* other users of the claim (UDP pushes, scans).  A slot is reduced to its   *)
(* claim, the stream on it and the recorded client address; what a claim     *)
(* does to the frontend is the subject of Tuner.  A critical section under   *)
(* a tuner's lock is one action.  A request without a known channel, for a   *)
(* tuner that is not there, or for anything but a stream is answered without *)
(* a change of this state.                                                   *)
EXTENDS Integers

CONSTANTS
  N,       \* cfg->tuner_count
  Conns,   \* connection threads of the HTTP server
  Peers,   \* client addresses
  Others,  \* users of the claim that are not HTTP requests
  None     \* address 0, NULL, no tuner

Tuners == 0 .. N - 1
Users == Conns \cup Others
AnyTuner == -1  \* requested_tuner_idx of an /auto/ request

ASSUME HttpPoolAssumption ==
  /\ N \in Nat \ {0}
  /\ Conns \cap Others = {}
  /\ None \notin Nat /\ None \notin Peers /\ None \notin Users

\* The slots.
VARIABLES
  busy,            \* t->busy
  http_peer_addr,  \* t->http_peer_addr, None for 0
  active_stream    \* t->active_stream: the thread whose stream it is, or None

\* The connection threads and the other users.
VARIABLES
  pc,       \* program point of a connection thread
  peer,     \* peer_addr of its request
  request,  \* the tuner it asks for, or AnyTuner
  i,        \* index of the loop over the tuners it is in
  slot      \* the tuner a user has claimed, or None

\* History, for the properties.
VARIABLES
  free_since,  \* tuners that have been free ever since the request came
  own_since,   \* tuners that have served its client ever since it came
  gave_up      \* the request's affinity wait has timed out

slots == <<busy, http_peer_addr, active_stream>>
history == <<free_since, own_since, gave_up>>
vars == <<busy, http_peer_addr, active_stream, pc, peer, request, i, slot,
          free_since, own_since, gave_up>>

Points == {"idle", "look", "wait", "sweep", "take", "note", "open", "stream",
           "close", "free", "refused"}

\* Type invariant: in particular no loop over the tuners leaves the pool.
TypeOK ==
  /\ busy \in [Tuners -> BOOLEAN]
  /\ http_peer_addr \in [Tuners -> Peers \cup {None}]
  /\ active_stream \in [Tuners -> Conns \cup {None}]
  /\ pc \in [Conns -> Points]
  /\ peer \in [Conns -> Peers \cup {None}]
  /\ request \in [Conns -> Tuners \cup {AnyTuner}]
  /\ i \in [Conns -> Tuners]
  /\ slot \in [Users -> Tuners \cup {None}]
  /\ free_since \in [Conns -> SUBSET Tuners]
  /\ own_since \in [Conns -> SUBSET Tuners]
  /\ gave_up \in [Conns -> BOOLEAN]

\* The pool as tuner_pool_init leaves it, before the first request.
Init ==
  /\ busy = [t \in Tuners |-> FALSE]
  /\ http_peer_addr = [t \in Tuners |-> None]
  /\ active_stream = [t \in Tuners |-> None]
  /\ pc = [c \in Conns |-> "idle"]
  /\ peer = [c \in Conns |-> None]
  /\ request = [c \in Conns |-> AnyTuner]
  /\ i = [c \in Conns |-> 0]
  /\ slot = [u \in Users |-> None]
  /\ free_since = [c \in Conns |-> {}]
  /\ own_since = [c \in Conns |-> {}]
  /\ gave_up = [c \in Conns |-> FALSE]

-----------------------------------------------------------------------------
\* Tuners whose owner has recorded p as its client and not yet released.
Serving(p, points, held, addresses) ==
  {t \in Tuners : \E d \in Conns :
      /\ held[d] = t
      /\ addresses[d] = p
      /\ points[d] \in {"open", "stream", "close", "free"}}

FreeTuners(b) == {t \in Tuners : ~b[t]}

\* The history of the requests, after a step that is not thread c's arrival.
Observe ==
  /\ free_since' =
       [c \in Conns |-> IF pc'[c] = "idle" THEN {}
                       ELSE free_since[c] \cap FreeTuners(busy')]
  /\ own_since' =
       [c \in Conns |-> IF pc'[c] = "idle" THEN {}
                       ELSE own_since[c] \cap Serving(peer'[c], pc', slot', peer')]

-----------------------------------------------------------------------------
(* A request for a stream: of any tuner, or of tuner r.  The address is None *)
(* when getpeername fails.                                                   *)
Request(c, p, r) ==
  /\ pc[c] = "idle"
  /\ pc' = [pc EXCEPT ![c] = IF r # AnyTuner THEN "take"
                             ELSE IF p = None THEN "sweep" ELSE "look"]
  /\ peer' = [peer EXCEPT ![c] = p]
  /\ request' = [request EXCEPT ![c] = r]
  /\ i' = [i EXCEPT ![c] = 0]
  /\ free_since' = [free_since EXCEPT ![c] = FreeTuners(busy)]
  /\ own_since' = [own_since EXCEPT ![c] = Serving(p, pc, slot, peer)]
  /\ gave_up' = [gave_up EXCEPT ![c] = FALSE]
  /\ UNCHANGED <<slots, slot>>

\* Mutant: the loop ends before its last tuner.
NextTunerShort(c, after) ==
  /\ i' = [i EXCEPT ![c] = IF i[c] + 2 < N THEN i[c] + 1 ELSE 0]
  /\ pc' = [pc EXCEPT ![c] = IF i[c] + 2 < N THEN pc[c] ELSE after]

\* Mutant: the loop looks at one tuner too many.
NextTunerLong(c, after) ==
  /\ i' = [i EXCEPT ![c] = IF i[c] < N THEN i[c] + 1 ELSE 0]
  /\ pc' = [pc EXCEPT ![c] = IF i[c] < N THEN pc[c] ELSE after]

\* The loop's next tuner, or the point that follows the loop.
NextTuner(c, after) ==
  /\ i' = [i EXCEPT ![c] = IF i[c] + 1 < N THEN i[c] + 1 ELSE 0]
  /\ pc' = [pc EXCEPT ![c] = IF i[c] + 1 < N THEN pc[c] ELSE after]

\* Mutant: a tuner whose stream is being closed is no longer the client's.
MineStreaming(c) ==
  busy[i[c]] /\ http_peer_addr[i[c]] = peer[c] /\ active_stream[i[c]] # None

\* claim_for_peer: is this tuner still streaming to the same client?
Mine(c) == busy[i[c]] /\ http_peer_addr[i[c]] = peer[c]

Look(c) ==
  /\ pc[c] = "look"
  /\ \/ /\ Mine(c)
        /\ pc' = [pc EXCEPT ![c] = "wait"]
        /\ UNCHANGED i
     \/ /\ ~Mine(c)
        /\ NextTuner(c, "sweep")
  /\ UNCHANGED <<slots, peer, request, slot, gave_up>>

\* Mutant: busy is not tested.
ClaimUnchecked(c, t) ==
  /\ busy' = [busy EXCEPT ![t] = TRUE]
  /\ slot' = [slot EXCEPT ![c] = t]

\* A successful claim of tuner t.
Claim(c, t) ==
  /\ ~busy[t]
  /\ busy' = [busy EXCEPT ![t] = TRUE]
  /\ slot' = [slot EXCEPT ![c] = t]

(* tuner_try_claim_wait: the wait ends with the tuner free, or at the        *)
(* deadline with the tuner still busy; then any tuner is tried.              *)
ClaimAwaited(c) ==
  /\ pc[c] = "wait"
  /\ Claim(c, i[c])
  /\ pc' = [pc EXCEPT ![c] = "note"]
  /\ UNCHANGED <<http_peer_addr, active_stream, peer, request, i, gave_up>>

\* Mutant: at the deadline the wait starts over.
WaitTimeoutAgain(c) ==
  /\ pc[c] = "wait"
  /\ busy[i[c]]
  /\ UNCHANGED <<slots, pc, peer, request, i, slot, gave_up>>

WaitTimeout(c) ==
  /\ pc[c] = "wait"
  /\ busy[i[c]]
  /\ pc' = [pc EXCEPT ![c] = "sweep"]
  /\ i' = [i EXCEPT ![c] = 0]
  /\ gave_up' = [gave_up EXCEPT ![c] = TRUE]
  /\ UNCHANGED <<slots, peer, request, slot>>

\* tuner_pool_claim_free: the first tuner found free, in order of index.
Sweep(c) ==
  /\ pc[c] = "sweep"
  /\ \/ /\ Claim(c, i[c])
        /\ pc' = [pc EXCEPT ![c] = "note"]
        /\ UNCHANGED i
     \/ /\ busy[i[c]]
        /\ NextTuner(c, "refused")
        /\ UNCHANGED <<busy, slot>>
  /\ UNCHANGED <<http_peer_addr, active_stream, peer, request, gave_up>>

\* The /tunerN/ request: that tuner or none.
Take(c) ==
  /\ pc[c] = "take"
  /\ \/ /\ Claim(c, request[c])
        /\ pc' = [pc EXCEPT ![c] = "note"]
     \/ /\ busy[request[c]]
        /\ pc' = [pc EXCEPT ![c] = "refused"]
        /\ UNCHANGED <<busy, slot>>
  /\ UNCHANGED <<http_peer_addr, active_stream, peer, request, i, gave_up>>

\* The thread closes its connection and ends; its locals are gone.
Ended(c) ==
  /\ pc' = [pc EXCEPT ![c] = "idle"]
  /\ peer' = [peer EXCEPT ![c] = None]
  /\ request' = [request EXCEPT ![c] = AnyTuner]
  /\ i' = [i EXCEPT ![c] = 0]
  /\ gave_up' = [gave_up EXCEPT ![c] = FALSE]

\* A 503 has been sent.
Refused(c) ==
  /\ pc[c] = "refused"
  /\ Ended(c)
  /\ UNCHANGED <<slots, slot>>

(* The client's address is recorded in a critical section of its own, after  *)
(* the claim.                                                                *)
NotePeer(c) ==
  /\ pc[c] = "note"
  /\ http_peer_addr' = [http_peer_addr EXCEPT ![slot[c]] = peer[c]]
  /\ pc' = [pc EXCEPT ![c] = "open"]
  /\ UNCHANGED <<busy, active_stream, peer, request, i, slot, gave_up>>

\* dvb_stream_open succeeds and the stream is bound, or it fails (502).
OpenStream(c) ==
  /\ pc[c] = "open"
  /\ \/ /\ active_stream' = [active_stream EXCEPT ![slot[c]] = c]
        /\ pc' = [pc EXCEPT ![c] = "stream"]
     \/ /\ pc' = [pc EXCEPT ![c] = "close"]
        /\ UNCHANGED active_stream
  /\ UNCHANGED <<busy, http_peer_addr, peer, request, i, slot, gave_up>>

\* The stream or the client's connection ends, now or when it is written to.
EndStream(c) ==
  /\ pc[c] = "stream"
  /\ pc' = [pc EXCEPT ![c] = "close"]
  /\ UNCHANGED <<slots, peer, request, i, slot, gave_up>>

(* tuner_release and tuner_release_park: the stream is detached, closed      *)
(* outside the lock, and then claim and address are cleared together.        *)
Detach(c) ==
  /\ pc[c] = "close"
  /\ active_stream' = [active_stream EXCEPT ![slot[c]] = None]
  /\ pc' = [pc EXCEPT ![c] = "free"]
  /\ UNCHANGED <<busy, http_peer_addr, peer, request, i, slot, gave_up>>

\* Mutant: the client's address outlives the claim.
FreeSlotKeepsPeer(t) ==
  /\ busy' = [busy EXCEPT ![t] = FALSE]
  /\ UNCHANGED http_peer_addr

FreeSlot(t) ==
  /\ busy' = [busy EXCEPT ![t] = FALSE]
  /\ http_peer_addr' = [http_peer_addr EXCEPT ![t] = None]

Free(c) ==
  /\ pc[c] = "free"
  /\ FreeSlot(slot[c])
  /\ slot' = [slot EXCEPT ![c] = None]
  /\ Ended(c)
  /\ UNCHANGED active_stream

\* Pushes and scans claim tuners too, and release them the same way.
OtherClaim(u, t) ==
  /\ slot[u] = None
  /\ Claim(u, t)
  /\ UNCHANGED <<http_peer_addr, active_stream, pc, peer, request, i, gave_up>>

OtherFree(u) ==
  /\ slot[u] # None
  /\ FreeSlot(slot[u])
  /\ slot' = [slot EXCEPT ![u] = None]
  /\ UNCHANGED <<active_stream, pc, peer, request, i, gave_up>>

-----------------------------------------------------------------------------
\* What a connection thread does by itself.
Step(c) ==
  \/ Look(c) \/ ClaimAwaited(c) \/ WaitTimeout(c) \/ Sweep(c) \/ Take(c)
  \/ Refused(c) \/ NotePeer(c) \/ OpenStream(c) \/ Detach(c) \/ Free(c)

Observed(A) == A /\ Observe

Next ==
  \/ \E c \in Conns, p \in Peers \cup {None}, r \in Tuners \cup {AnyTuner} :
        Request(c, p, r)
  \/ \E c \in Conns : Observed(Step(c)) \/ Observed(EndStream(c))
  \/ \E u \in Others :
        Observed(OtherFree(u)) \/ \E t \in Tuners : Observed(OtherClaim(u, t))

Spec == Init /\ [][Next]_vars

\* Threads run; a wait on free_cond has a deadline.  Clients may stay for ever.
FairSpec == Spec /\ \A c \in Conns : WF_vars(Observed(Step(c)))

-----------------------------------------------------------------------------
(* A slot's recorded client and its stream are those of the thread that has  *)
(* the claim: tuner_release clears them with the claim or before it, never   *)
(* after, when they could be a new claimer's.                                *)
FieldsAreOwners ==
  \A t \in Tuners :
    /\ http_peer_addr[t] # None =>
         \E c \in Conns : /\ slot[c] = t
                          /\ peer[c] = http_peer_addr[t]
                          /\ pc[c] \in {"open", "stream", "close", "free"}
    /\ active_stream[t] # None =>
         /\ slot[active_stream[t]] = t
         /\ pc[active_stream[t]] \in {"stream", "close"}

(* "All tuners busy" is the truth: no tuner the request could have had was   *)
(* free all the time from its arrival to the refusal, whatever other         *)
(* requests, waits and releases came in between.                             *)
RefusedOnlyWhenBusy ==
  \A c \in Conns : pc[c] = "refused" =>
    IF request[c] = AnyTuner THEN free_since[c] = {}
    ELSE request[c] \notin free_since[c]

(* Affinity: a client that changes channels does not get a second tuner while *)
(* the one that served it when the request came is still being given up,     *)
(* however long its teardown takes, unless the affinity wait times out.      *)
AffinityKept ==
  [][\A c \in Conns :
       pc[c] = "sweep" /\ pc'[c] = "note" /\ peer[c] # None =>
         own_since[c] = {} \/ gave_up[c]]_vars

\* Client affinity as a whole: the recorded address is always the owner's, never
\* a leftover, and it keeps a client on its tuner (claim_for_peer).
Affinity == [](TypeOK /\ FieldsAreOwners) /\ AffinityKept

\* Who has which slot.
Owner ==
  [t \in Tuners |->
     IF \E u \in Users : slot[u] = t THEN CHOOSE u \in Users : slot[u] = t
     ELSE None]

Pool == INSTANCE Lease WITH Slots <- Tuners, owner <- Owner

(* The pool, with its busy flags and its two ways to look for a free tuner,  *)
(* leases every slot to one user at a time.                                  *)
IsLease == Pool!Spec

(* Every request is answered: with a stream that is being opened or with a   *)
(* 503.  Neither the affinity wait nor the sweep goes on for ever.           *)
RequestAnswered ==
  \A c \in Conns :
    pc[c] \in {"look", "wait", "sweep", "take"} ~> pc[c] \in {"note", "refused"}

-----------------------------------------------------------------------------
(* The inductive invariant behind the safety properties (HttpPoolProofs) *)

Owning == {"note", "open", "stream", "close", "free"}

\* busy is the claim of one user, and a connection has one at the points
\* between its claim and its release.
HoldInv ==
  /\ \A u, v \in Users : slot[u] = slot[v] /\ slot[u] # None => u = v
  /\ \A t \in Tuners : busy[t] <=> \E u \in Users : slot[u] = t
  /\ \A c \in Conns : slot[c] # None <=> pc[c] \in Owning

\* From NotePeer to the release the slot has its owner's client.
NotedInv ==
  \A c \in Conns :
    pc[c] \in Owning \ {"note"} => http_peer_addr[slot[c]] = peer[c]

\* A sweep has left no tuner behind it that has been free all along.
SweepInv ==
  \A c \in Conns :
    /\ pc[c] \in {"look", "wait", "sweep"} => request[c] = AnyTuner
    /\ pc[c] = "take" => request[c] # AnyTuner
    /\ pc[c] = "sweep" => \A t \in free_since[c] : t >= i[c]

\* Nor has the search for the client's own tuner left it behind.
LookInv ==
  \A c \in Conns :
    /\ pc[c] = "look" => \A t \in own_since[c] : t >= i[c]
    /\ pc[c] = "sweep" /\ peer[c] # None => own_since[c] = {} \/ gave_up[c]

\* The inductive invariant.
IInv ==
  /\ TypeOK /\ HoldInv /\ NotedInv /\ FieldsAreOwners
  /\ SweepInv /\ RefusedOnlyWhenBusy /\ LookInv
=============================================================================
