----------------------------- MODULE StreamRing -----------------------------
(***************************************************************************)
(* One struct dvb_stream (dvb_stream.c): the reader thread that fills its  *)
(* ring from the DVR device, the owner that consumes it (an HTTP pull or a *)
(* UDP push) and tears it down, the stats thread, and control connections  *)
(* that ask a live stream for its statistics through t->active_stream.     *)
(*                                                                         *)
(* A critical section under s->mtx is one action.  Condition variables are *)
(* modelled by what they do: a thread that sleeps on one takes no step     *)
(* until another thread's signal makes it runnable, so a missing signal    *)
(* shows.  Bytes are numbered modulo K as they are captured; what a byte   *)
(* is, the rate window and the statistics themselves are left out.  How    *)
(* the frontend is opened and tuned, and the hand-over of its fd, are in   *)
(* Tuner.                                                                  *)
(***************************************************************************)
EXTENDS Integers, Sequences

CONSTANTS
  Cap,       \* RING_CAP
  MaxChunk,  \* the most one read() of the DVR device returns
  MaxRead,   \* the most a consumer asks for at once
  K,         \* modulus of the byte numbers
  Pollers,   \* control connections that GET status or debug
  Faults     \* which calls may fail: "eof" (DVR read), "thread" (creation)

ASSUME StreamRingAssumption ==
  /\ Cap \in Nat \ {0} /\ MaxChunk \in Nat \ {0} /\ MaxRead \in Nat \ {0}
  /\ K \in Nat /\ K > Cap + MaxChunk
  /\ Faults \subseteq {"eof", "thread"}

VARIABLES
  open,       \* the struct is allocated and its fds are open
  attached,   \* t->active_stream points to it
  ring, head, tail, fill,
  closing, eof,
  stats_stop, \* stats_stop_requested
  rpc,        \* reader: "off", "poll", "copy", "full" (asleep), "eof"
  rest,       \* bytes of its chunk still to be copied
  next,       \* the number of the first of them
  opc,        \* owner: see OwnerPcs
  got,        \* what its last dvb_stream_read returned
  spc,        \* stats thread: "off", "read", "publish", "sleep"
  gpc         \* control connections: "idle", "get" (inside, holding t->lock)

ringVars  == <<ring, head, tail, fill>>
flagVars  == <<closing, eof, stats_stop>>
readVars  == <<rpc, rest, next>>
vars == <<open, attached, ringVars, flagVars, readVars, opc, got, spc, gpc>>

OwnerPcs == {"off", "attach", "read", "empty", "detach", "teardown", "joinreader",
             "joinstats", "free"}

Init ==
  /\ open = FALSE /\ attached = FALSE
  /\ ring = [i \in 0..(Cap - 1) |-> 0] /\ head = 0 /\ tail = 0 /\ fill = 0
  /\ closing = FALSE /\ eof = FALSE /\ stats_stop = FALSE
  /\ rpc = "off" /\ rest = 0 /\ next = 0
  /\ opc = "off" /\ got = <<>>
  /\ spc = "off" /\ gpc = [g \in Pollers |-> "idle"]

Least(a, b) == IF a < b THEN a ELSE b

----------------------------------------------------------------------------
(* The reader thread: reader_thread_main *)

\* poll() and read() return n bytes.
Capture(n) ==
  /\ rpc = "poll" /\ ~closing
  /\ rest' = n /\ rpc' = "copy"
  /\ UNCHANGED <<open, attached, ringVars, flagVars, next, opc, got, spc, gpc>>

\* The loop sees `closing`.
LeaveLoop ==
  /\ rpc = "poll" /\ closing
  /\ rpc' = "eof"
  /\ UNCHANGED <<open, attached, ringVars, flagVars, rest, next, opc, got, spc, gpc>>

\* End of file or an error of the DVR device.
DeviceFails ==
  /\ rpc = "poll"
  /\ "eof" \in Faults
  /\ rpc' = "eof"
  /\ UNCHANGED <<open, attached, ringVars, flagVars, rest, next, opc, got, spc, gpc>>

\* Mutant: the second memcpy starts at the beginning of the chunk.
WrittenTwice(n, b) ==
  LET first == Least(n, Cap - head)
  IN [i \in 0..(Cap - 1) |->
        IF i >= head /\ i < head + first THEN (b + i - head) % K
        ELSE IF i < n - first THEN (b + i) % K
        ELSE ring[i]]

\* The ring after n bytes from number b on were copied to `head`: up to the end
\* of the array, and what does not fit from its start.
Written(n, b) ==
  LET first == Least(n, Cap - head)
  IN [i \in 0..(Cap - 1) |->
        IF i >= head /\ i < head + first THEN (b + i - head) % K
        ELSE IF i < n - first THEN (b + first + i) % K
        ELSE ring[i]]

\* Mutant: the signal is forgotten.
SignalNothing == opc' = opc

\* pthread_cond_signal(&s->not_empty)
SignalNotEmpty == opc' = IF opc = "empty" THEN "read" ELSE opc

\* As much of the chunk as there is room for goes into the ring; with some left
\* the ring is full, and the reader sleeps on not_full.
Copy ==
  /\ rpc = "copy" /\ ~closing /\ fill < Cap
  /\ LET n == Least(rest, Cap - fill)
     IN /\ ring' = Written(n, next)
        /\ head' = (head + n) % Cap
        /\ fill' = fill + n
        /\ rest' = rest - n
        /\ next' = (next + n) % K
        /\ rpc' = IF rest = n THEN "poll" ELSE "full"
  /\ SignalNotEmpty
  /\ UNCHANGED <<open, attached, tail, flagVars, got, spc, gpc>>

\* There is no room.
CopyWaits ==
  /\ rpc = "copy" /\ ~closing /\ fill = Cap
  /\ rpc' = "full"
  /\ UNCHANGED <<open, attached, ringVars, flagVars, rest, next, opc, got, spc, gpc>>

\* `closing`: what is left of the chunk is dropped.
CopyDrops ==
  /\ rpc = "copy" /\ closing
  /\ rest' = 0 /\ rpc' = "poll"
  /\ UNCHANGED <<open, attached, ringVars, flagVars, next, opc, got, spc, gpc>>

SetEof ==
  /\ rpc = "eof"
  /\ eof' = TRUE /\ rpc' = "off"
  /\ SignalNotEmpty
  /\ UNCHANGED <<open, attached, ringVars, closing, stats_stop, rest, next, got, spc, gpc>>

----------------------------------------------------------------------------
(* The owner: dvb_stream_open, dvb_stream_read, stream_teardown *)

\* A new stream, with its reader and, if it could be started, its stats thread.
\* If the reader cannot be started everything is closed again.
Open ==
  /\ opc = "off"
  /\ open' = TRUE
  /\ ring' = [i \in 0..(Cap - 1) |-> 0] /\ head' = 0 /\ tail' = 0 /\ fill' = 0
  /\ closing' = FALSE /\ eof' = FALSE /\ stats_stop' = FALSE
  /\ rpc' = "poll" /\ rest' = 0 /\ next' = 0
  /\ spc' \in {"read"} \cup (IF "thread" \in Faults THEN {"off"} ELSE {})
  /\ opc' = "attach" /\ got' = <<>>
  /\ UNCHANGED <<attached, gpc>>

\* tuner_set_stream; like every use of t->active_stream, under t->lock.
TunerUnlocked == \A g \in Pollers : gpc[g] = "idle"

SetStream ==
  /\ opc = "attach" /\ TunerUnlocked
  /\ attached' = TRUE /\ opc' = "read"
  /\ UNCHANGED <<open, ringVars, flagVars, readVars, got, spc, gpc>>

\* pthread_cond_signal(&s->not_full)
SignalNotFull == rpc' = IF rpc = "full" THEN "copy" ELSE rpc

\* The oldest n bytes, over the end of the array if need be.
Oldest(n) ==
  LET first == Least(n, Cap - tail)
  IN [i \in 1..n |-> IF i <= first THEN ring[tail + i - 1] ELSE ring[i - first - 1]]

\* Mutant: the tail does not wrap.
ReadNoWrap(len) ==
  /\ opc = "read" /\ fill > 0
  /\ LET n == Least(len, fill)
     IN /\ got' = Oldest(n)
        /\ tail' = tail + n
        /\ fill' = fill - n
  /\ SignalNotFull
  /\ UNCHANGED <<open, attached, ring, head, flagVars, rest, next, opc, spc, gpc>>

\* dvb_stream_read hands out what is there, at most len bytes.
Read(len) ==
  /\ opc = "read" /\ fill > 0
  /\ LET n == Least(len, fill)
     IN /\ got' = Oldest(n)
        /\ tail' = (tail + n) % Cap
        /\ fill' = fill - n
  /\ SignalNotFull
  /\ UNCHANGED <<open, attached, ring, head, flagVars, rest, next, opc, spc, gpc>>

\* It sleeps on not_empty while the ring is empty and more may come, else it
\* returns 0 and the stream is over.
ReadWaits ==
  /\ opc = "read" /\ fill = 0
  /\ opc' = IF eof \/ closing THEN "detach" ELSE "empty"
  /\ UNCHANGED <<open, attached, ringVars, flagVars, readVars, got, spc, gpc>>

\* Between two reads: the client has gone, or the push was told to stop.
Leave ==
  /\ opc = "read"
  /\ opc' = "detach"
  /\ UNCHANGED <<open, attached, ringVars, flagVars, readVars, got, spc, gpc>>

\* Mutant: the stream stays attached during its teardown.
DetachLate ==
  /\ opc = "detach" /\ TunerUnlocked
  /\ opc' = "teardown"
  /\ UNCHANGED <<open, attached, ringVars, flagVars, readVars, got, spc, gpc>>

\* tuner_release and tuner_release_park take the stream off the tuner first.
Detach ==
  /\ opc = "detach" /\ TunerUnlocked
  /\ attached' = FALSE /\ opc' = "teardown"
  /\ UNCHANGED <<open, ringVars, flagVars, readVars, got, spc, gpc>>

\* Mutant: the reader is not woken.
TeardownSilent ==
  /\ opc = "teardown"
  /\ closing' = TRUE /\ stats_stop' = TRUE
  /\ opc' = "joinreader"
  /\ UNCHANGED <<open, attached, ringVars, eof, readVars, got, spc, gpc>>

Teardown ==
  /\ opc = "teardown"
  /\ closing' = TRUE /\ stats_stop' = TRUE
  /\ SignalNotFull
  /\ opc' = "joinreader"
  /\ UNCHANGED <<open, attached, ringVars, eof, rest, next, got, spc, gpc>>

JoinReader ==
  /\ opc = "joinreader" /\ rpc = "off"
  /\ opc' = "joinstats"
  /\ UNCHANGED <<open, attached, ringVars, flagVars, readVars, got, spc, gpc>>

\* Joined if it was started; "off" also stands for a thread that never was.
JoinStats ==
  /\ opc = "joinstats" /\ spc = "off"
  /\ opc' = "free"
  /\ UNCHANGED <<open, attached, ringVars, flagVars, readVars, got, spc, gpc>>

Free ==
  /\ opc = "free"
  /\ open' = FALSE /\ opc' = "off"
  /\ UNCHANGED <<attached, ringVars, flagVars, readVars, got, spc, gpc>>

----------------------------------------------------------------------------
(* The stats thread: stats_thread_main *)

\* The slow ioctls, without a lock.
StatsRead ==
  /\ spc = "read"
  /\ spc' = "publish"
  /\ UNCHANGED <<open, attached, ringVars, flagVars, readVars, opc, got, gpc>>

\* The two critical sections that publish the values and test the flags.
StatsStep ==
  /\ \/ spc = "publish" /\ spc' = IF stats_stop \/ closing THEN "off" ELSE "sleep"
     \/ spc = "sleep" /\ spc' = IF stats_stop \/ closing THEN "off" ELSE "read"
  /\ UNCHANGED <<open, attached, ringVars, flagVars, readVars, opc, got, gpc>>

----------------------------------------------------------------------------
(* Control connections: GET status and GET debug *)

\* With t->lock held, a stream that is attached is asked for its cached
\* statistics and its rate.
GetBegin(g) ==
  /\ gpc[g] = "idle" /\ TunerUnlocked
  /\ attached
  /\ gpc' = [gpc EXCEPT ![g] = "get"]
  /\ UNCHANGED <<open, attached, ringVars, flagVars, readVars, opc, got, spc>>

GetEnd(g) ==
  /\ gpc[g] = "get"
  /\ gpc' = [gpc EXCEPT ![g] = "idle"]
  /\ UNCHANGED <<open, attached, ringVars, flagVars, readVars, opc, got, spc>>

----------------------------------------------------------------------------

ReaderStep == LeaveLoop \/ Copy \/ CopyWaits \/ CopyDrops \/ SetEof

OwnerStep ==
  \/ SetStream \/ (\E len \in 1..MaxRead : Read(len)) \/ ReadWaits \/ Detach
  \/ Teardown \/ JoinReader \/ JoinStats \/ Free

Next ==
  \/ \E n \in 1..MaxChunk : Capture(n)
  \/ ReaderStep \/ OwnerStep
  \/ Open \/ Leave \/ DeviceFails
  \/ StatsRead \/ StatsStep
  \/ \E g \in Pollers : GetBegin(g) \/ GetEnd(g)

Spec == Init /\ [][Next]_vars

\* Threads run.  poll() has a timeout, so the reader looks at `closing` again
\* and again; the ioctls of the stats thread are slow but return.  t->lock is held
\* briefly, and connections that poll status do not starve the owner of it.
\* Nothing is assumed of the device, and a client may stay for ever.
Fairness ==
  /\ WF_vars(ReaderStep)
  /\ WF_vars(OwnerStep) /\ SF_vars(Detach)
  /\ WF_vars(StatsRead) /\ WF_vars(StatsStep)
  /\ \A g \in Pollers : WF_vars(GetEnd(g))

FairSpec == Spec /\ Fairness

----------------------------------------------------------------------------
(* Properties *)

\* Type invariant: indices, flags and program points are in range.
TypeOK ==
  /\ open \in BOOLEAN /\ attached \in BOOLEAN
  /\ ring \in [0..(Cap - 1) -> Nat]
  /\ head \in 0..(Cap - 1) /\ tail \in 0..(Cap - 1) /\ fill \in 0..Cap
  /\ closing \in BOOLEAN /\ eof \in BOOLEAN /\ stats_stop \in BOOLEAN
  /\ rpc \in {"off", "poll", "copy", "full", "eof"}
  /\ rest \in 0..MaxChunk /\ next \in Nat
  /\ opc \in OwnerPcs
  /\ spc \in {"off", "read", "publish", "sleep"}
  /\ gpc \in [Pollers -> {"idle", "get"}]

\* The ring is a pipe: with the bytes between tail and head as its contents, every
\* step of reader and consumer is a step of BytePipe, so no byte is lost,
\* repeated, overwritten or out of order, over every wrap-around.
Pipe == INSTANCE BytePipe WITH q <- Oldest(fill)

IsPipe == Pipe!Spec

\* Nobody sleeps on a condition that has come true: the reader sleeps only on a
\* full ring, the consumer only on an empty one, and neither over `closing`
\* or end of file.
NoSleeperForgotten ==
  /\ rpc = "full" => fill = Cap /\ ~closing
  /\ opc = "empty" => fill = 0 /\ ~eof /\ ~closing

\* No thread is in the stream once it is freed and its fds are closed: reader and
\* stats thread are gone, and no GET still works on t->active_stream.
GoneBeforeFree ==
  /\ ~open \/ opc = "free" =>
       rpc = "off" /\ spc = "off" /\ TunerUnlocked /\ ~attached
  /\ opc = "joinstats" => rpc = "off"

\* Memory safety of the stream: indices stay inside the ring, and the struct is
\* freed only when no thread can be in it any more (stream_teardown).
StreamSafe == TypeOK /\ GoneBeforeFree

\* Where the owner is tells whether the struct exists, is attached, is closing
\* and has threads; a GET is inside only while it is attached.
OwnerInv ==
  /\ open <=> opc # "off"
  /\ attached <=> opc \in {"read", "empty", "detach"}
  /\ (\E g \in Pollers : gpc[g] = "get") => attached
  /\ closing => opc \in {"joinreader", "joinstats", "free", "off"}
  /\ opc \in {"joinstats", "free", "off"} => rpc = "off"
  /\ opc \in {"free", "off"} => spc = "off"

\* head is fill bytes after tail, once around at most, and a reader that copies
\* has something to copy.
RingInv ==
  /\ head = IF tail + fill < Cap THEN tail + fill ELSE tail + fill - Cap
  /\ rpc \in {"copy", "full"} => rest > 0

\* The inductive invariant.
IInv == TypeOK /\ OwnerInv /\ NoSleeperForgotten /\ RingInv

\* A stream that its owner leaves is torn down: nobody waits for ever on the
\* ring, on a join or on t->lock.
TeardownEnds == opc = "detach" ~> opc = "off"
=============================================================================
