----------------------------- MODULE Selection -----------------------------
(***************************************************************************)
(* What one tuner is selected to, and what a stream started from that      *)
(* selection carries: the SETs of channelmap, vchannel, channel, program,  *)
(* filter and target by connection threads, the scan worker, a UDP push    *)
(* and an HTTP pull, each critical section under t->lock one action.       *)
(*                                                                         *)
(* Left to other modules: frontends and holds (Tuner), the pending ring,   *)
(* sessions and the status string (ChannelScan), overlapping pushes and    *)
(* keepalives (UdpPush), the size and the saving of the table (ChannelDb). *)
(* So at most one push exists here; udp_push_stop waits for it, or gives   *)
(* up and goes on.  A channel is a pointer into the table, a slot, and its *)
(* row is read when the code follows the pointer; scans of any tuner       *)
(* rewrite rows meanwhile.                                                 *)
(*                                                                         *)
(* History variables: `by`, what wrote the selection last, and `moved`, a  *)
(* scan has put the selected channel on another frequency than the         *)
(* selection, or the stream it was bound for, has.                         *)
(***************************************************************************)
EXTENDS ChannelMap, PidFilter

CONSTANTS
  Conns,     \* connection threads of control.c
  Maps,      \* channelmaps that are set
  Inputs,    \* values of channel SETs, <<prefix, number>>
  Lineup,    \* for every channel, in the order of the table, the rows that
             \* scans can find for it
  Filters,   \* filters that are set
  Programs,  \* programs that are set
  MaxOps,    \* bound on the number of SETs
  None

Unset   == <<>> \* an empty filter_override
Blank   == <<<<>>>>  \* a filter_override of blanks

\* pid_filter_parse of the override; a blank one has no ranges.
Ranges(f) == IF f = Blank THEN <<>> ELSE f

Slots == DOMAIN Lineup
Rows  == UNION Range(Lineup)

\* Channels are numbered from 1, are on a frequency and have different numbers
\* (ChannelDb); control.c knows no other maps than these.
ASSUME SelectionAssumption ==
  /\ Maps \subseteq MapNames /\ Programs \subseteq Int /\ MaxOps \in Nat
  /\ \A v \in Inputs : v[2] \in Nat
  /\ Lineup \in Seq(Range(Lineup))
  /\ \A r \in Rows :
       /\ r.key \in (Nat \ {0}) \X Nat /\ r.freq \in Nat \ {0}
       /\ r.del \in {Vsb, Qam} /\ r.prog \in Int
  /\ \A i, k \in Slots : \A r \in Lineup[i], q \in Lineup[k] : r.key = q.key <=> i = k
  /\ None \notin {Vsb, Qam} \X Nat /\ None \notin Nat \X Nat /\ None \notin Rows

\* A program of a mux has a number of 16 bits that is not 0 (psip_parse_pat) and
\* one PMT, so the rows that carry it have the same PIDs, of 13 bits; a mux has
\* one modulation.
ASSUME ProgramAssumption ==
  /\ \A r \in Rows :
       /\ r.prog \in 1 .. MaxProgram
       /\ r.pmt \in 0 .. MaxPid /\ r.pcr \in 0 .. MaxPid
       /\ r.vid \in 0 .. MaxPid /\ r.aud \in 0 .. MaxPid
  /\ \A r, q \in Rows :
       r.freq = q.freq =>
         /\ r.del = q.del
         /\ r.prog = q.prog => ProgramPids(r) = ProgramPids(q)

\* A filter's text is a sequence of ranges.
ASSUME RangeAssumption == \A f \in Filters : Ranges(f) \in Seq(Nat \X Nat)

VARIABLES
  \* struct hdhr_tuner
  channelmap, channel, tuned_frequency_hz, tuned_delivery, vch, program,
  filter_override, busy, active_stream, scan_worker_active,
  last_attempt,  \* last_attempt_freq and _locked
  table,         \* g_channels: the row of a slot, or None
  worker,        \* channel_scan_thread_main, with its queue
  push, pull,    \* a UDP push thread, an HTTP pull
  conn,          \* connection threads: where they are, and their request
  by, moved, ops

selVars  == <<channelmap, channel, tuned_frequency_hz, tuned_delivery, vch,
              program, filter_override, by, moved>>
ownVars  == <<busy, active_stream>>
scanVars == <<scan_worker_active, last_attempt, table, worker>>
vars     == <<selVars, ownVars, scanVars, push, pull, conn, ops>>

Default == -1   \* DVB_PROGRAM_DEFAULT

Row(key, f, d, n, pmt, pcr, vid, aud) ==
  [key |-> key, freq |-> f, del |-> d, prog |-> n,
   pmt |-> pmt, pcr |-> pcr, vid |-> vid, aud |-> aud]

\* The synthetic channel of a push without a row.
Synth(f, d) == Row(<<0, 0>>, f, d, 0, 0, 0, 0, 0)

\* dvb_find_channel: the slot of a channel number, and its row.
Present == {i \in Slots : table[i] # None}
Find(k)  == {i \in Present : table[i].key = k}
ByKey(k) == {table[i] : i \in Find(k)}

\* dvb_channels_on_freq: the rows on a frequency, by their slots.
OnFreq(f) == [i \in {k \in Present : table[k].freq = f} |-> table[i]]

At(l) == [at |-> l]

Init ==
  /\ channelmap = "us_bcast" /\ channel = None /\ tuned_frequency_hz = 0
  /\ tuned_delivery = Vsb /\ vch = None /\ program = Default
  /\ filter_override = Unset /\ by = "none" /\ moved = FALSE
  /\ busy = FALSE /\ active_stream = None /\ scan_worker_active = FALSE
  /\ last_attempt = [freq |-> 0, locked |-> FALSE]
  /\ \/ table = [i \in Slots |-> None]
     \/ table \in [Slots -> Rows] /\ \A i \in Slots : table[i] \in Lineup[i]
  /\ worker = At("none") /\ push = At("none") /\ pull = At("none")
  /\ conn = [c \in Conns |-> At("idle")] /\ ops = 0

Go(c, s) == conn' = [conn EXCEPT ![c] = s]
Done(c)  == Go(c, At("idle"))

-----------------------------------------------------------------------------
(* The selection fields *)

\* channel=none and channelmap write these in one section.
Deselect ==
  /\ channel' = None /\ tuned_frequency_hz' = 0 /\ vch' = None
  /\ filter_override' = Unset /\ by' = "none" /\ moved' = FALSE
  /\ UNCHANGED tuned_delivery

\* tuner_bind_channel, for a stream on frequency f.
Bind(row, override, f, who) ==
  /\ vch' = row.key /\ tuned_frequency_hz' = row.freq
  /\ tuned_delivery' = row.del /\ channel' = <<row.del, row.freq>>
  /\ program' = IF override = Default THEN row.prog ELSE override
  /\ by' = who /\ moved' = (\E r \in ByKey(row.key) : r.freq # f)
  /\ UNCHANGED <<channelmap, filter_override>>

\* Mutant: the virtual channel stays resolved.
RawSelectKeepsVch(f, d) ==
  /\ tuned_frequency_hz' = f /\ channel' = <<d, f>>
  /\ filter_override' = Unset /\ by' = "raw" /\ moved' = FALSE
  /\ UNCHANGED <<channelmap, tuned_delivery, program, vch>>

\* What a raw channel SET writes: not the delivery system, not the program.
RawSelect(f, d) ==
  /\ tuned_frequency_hz' = f /\ channel' = <<d, f>> /\ vch' = None
  /\ filter_override' = Unset /\ by' = "raw" /\ moved' = FALSE
  /\ UNCHANGED <<channelmap, tuned_delivery, program>>

\* Mutant: only the row of the virtual channel is looked at.
AutoFilterOfVch ==
  LET rows == IF vch = None THEN {} ELSE ByKey(vch)
  IN  IF program = 0 \/ tuned_frequency_hz = 0 \/ rows = {} THEN AllPids
      ELSE pid_filter_format(ProgramPids(CHOOSE r \in rows : TRUE))

\* compute_auto_filter: what GET /filter shows when no filter is set.
compute_auto_filter ==
  LET siblings == OnFreq(tuned_frequency_hz)
      hits == {i \in DOMAIN siblings : siblings[i].prog = ProgramNumber(program)}
      rows == IF hits # {} THEN {siblings[Min(hits)]}
              ELSE IF vch # None THEN ByKey(vch) ELSE {}
  IN  IF program = 0 \/ tuned_frequency_hz = 0 \/ rows = {} THEN AllPids
      ELSE pid_filter_format(ProgramPids(CHOOSE r \in rows : TRUE))

ShownFilter ==
  IF filter_override = Unset THEN compute_auto_filter ELSE Ranges(filter_override)

-----------------------------------------------------------------------------
(* Connection threads.  Bound: MaxOps. *)

Begin(c, s) ==
  /\ conn[c].at = "idle" /\ ops < MaxOps
  /\ ops' = ops + 1 /\ Go(c, s)

Still == UNCHANGED <<selVars, ownVars, scanVars, push, pull>>

\* udp_push_stop, before the SETs that end a push.  It returns when the push
\* is gone or after two seconds.
StopPush == push' = IF push.at \in {"claim", "open", "bind", "attach", "run"}
                    THEN [push EXCEPT !.stop = TRUE] ELSE push

SetMap(c, m) ==
  /\ Begin(c, [at |-> "map", map |-> m]) /\ StopPush
  /\ UNCHANGED <<selVars, ownVars, scanVars, pull>>

WriteMap(c) ==
  /\ conn[c].at = "map"
  /\ channelmap' = conn[c].map /\ Deselect /\ Done(c)
  /\ UNCHANGED <<program, ownVars, scanVars, push, pull, ops>>

SetNone(c) ==
  /\ Begin(c, At("none")) /\ StopPush
  /\ UNCHANGED <<selVars, ownVars, scanVars, pull>>

WriteNone(c) ==
  /\ conn[c].at = "none"
  /\ Deselect /\ Done(c)
  /\ UNCHANGED <<channelmap, program, ownVars, scanVars, push, pull, ops>>

\* A channel that is not in the lineup is refused and changes nothing.
SetVchannel(c, i) ==
  /\ i \in Present
  /\ Begin(c, [at |-> "bind", ch |-> i]) /\ StopPush
  /\ UNCHANGED <<selVars, ownVars, scanVars, pull>>

BindVchannel(c) ==
  /\ conn[c].at = "bind"
  /\ LET row == table[conn[c].ch] IN Bind(row, Default, row.freq, "vchannel")
  /\ Go(c, At("unfilter"))
  /\ UNCHANGED <<ownVars, scanVars, push, pull, ops>>

ClearFilter(c) ==
  /\ conn[c].at = "unfilter"
  /\ filter_override' = Unset /\ Done(c)
  /\ UNCHANGED <<channelmap, channel, tuned_frequency_hz, tuned_delivery, vch,
                 program, by, moved, ownVars, scanVars, push, pull, ops>>

\* The map is read, the value parsed with it; an error ends the SET.
SetChannel(c, v) ==
  LET p == parse_channel_value(channelmap, v[1], v[2])
  IN  /\ Begin(c, IF p = Rejected THEN At("idle")
                  ELSE [at |-> "raw", freq |-> p.freq,
                        del |-> delivery_for_map(channelmap)])
      /\ Still

\* tuner_try_claim_fast
ClaimRaw(c) ==
  /\ conn[c].at = "raw"
  /\ Go(c, [conn[c] EXCEPT !.at = IF busy THEN "queue" ELSE "session"])
  /\ busy' = TRUE
  /\ UNCHANGED <<selVars, active_stream, scanVars, push, pull, ops>>

OpenSession(c) ==
  /\ conn[c].at = "session"
  /\ RawSelect(conn[c].freq, conn[c].del) /\ Done(c)
  /\ scan_worker_active' = TRUE
  /\ worker' = [at |-> "tune", freq |-> conn[c].freq, del |-> conn[c].del,
                queue |-> <<>>]
  /\ UNCHANGED <<ownVars, last_attempt, table, push, pull, ops>>

\* Mutant: any owner that is not streaming yet is taken for a scan.
QueueableUnlessStreaming == active_stream = None

Queueable == active_stream = None /\ scan_worker_active

\* The owner is a scan worker: its queue gets the frequency, not the delivery.
QueueRaw(c) ==
  /\ conn[c].at = "queue" /\ Queueable
  /\ RawSelect(conn[c].freq, conn[c].del) /\ Done(c)
  /\ worker' = IF scan_worker_active
               THEN [worker EXCEPT !.queue = Append(@, conn[c].freq)] ELSE worker
  /\ UNCHANGED <<ownVars, scan_worker_active, last_attempt, table, push, pull, ops>>

RefuseRaw(c) ==
  /\ conn[c].at = "queue" /\ ~Queueable
  /\ Done(c) /\ Still /\ UNCHANGED ops

\* A program or a filter SET leaves the selection to its writer.
Touched == by' = IF by = "idle" THEN "none" ELSE by

SetProgram(c, p) ==
  /\ Begin(c, At("idle"))
  /\ program' = p /\ filter_override' = Unset /\ Touched
  /\ UNCHANGED <<channelmap, channel, tuned_frequency_hz, tuned_delivery, vch,
                 moved, ownVars, scanVars, push, pull>>

\* Mutant: the filter is stored without parsing it.
SetFilterUnparsed(c, f) ==
  /\ Begin(c, At("idle"))
  /\ filter_override' = f /\ Touched
  /\ UNCHANGED <<channelmap, channel, tuned_frequency_hz, tuned_delivery, vch,
                 program, moved, ownVars, scanVars, push, pull>>

\* "none" unsets the filter; one that does not parse is an error.
SetFilter(c, f) ==
  /\ Begin(c, At("idle"))
  /\ filter_override' = IF pid_filter_parse(Ranges(f)) THEN f ELSE filter_override
  /\ Touched
  /\ UNCHANGED <<channelmap, channel, tuned_frequency_hz, tuned_delivery, vch,
                 program, moved, ownVars, scanVars, push, pull>>

-----------------------------------------------------------------------------
(* target=udp://...: udp_push_start *)

SetTarget(c) ==
  /\ Begin(c, At("target")) /\ StopPush
  /\ UNCHANGED <<selVars, ownVars, scanVars, pull>>

SetTargetNone(c) ==
  /\ Begin(c, At("idle")) /\ StopPush
  /\ UNCHANGED <<selVars, ownVars, scanVars, pull>>

\* What is selected, in one section.
Snapshot == [vch |-> vch, freq |-> tuned_frequency_hz, del |-> tuned_delivery,
             program |-> program]

TakeSnapshot(c) ==
  /\ conn[c].at = "target"
  /\ Go(c, [at |-> "choose", snap |-> Snapshot])
  /\ Still /\ UNCHANGED ops

Locked(f) == last_attempt.freq = f /\ last_attempt.locked

Synthetic == 0  \* the pointer to the synthetic channel

\* The channel to push for a snapshot, a pointer; {} refuses.
Chosen(s) ==
  CASE s.vch # None -> Find(s.vch)
    [] s.vch = None /\ s.freq # 0 /\ s.program <= 0 ->
         IF Locked(s.freq) THEN {Synthetic} ELSE {}
    [] s.vch = None /\ s.freq # 0 /\ s.program > 0 ->
         IF DOMAIN OnFreq(s.freq) = {} THEN {} ELSE {Min(DOMAIN OnFreq(s.freq))}
    [] s.vch = None /\ s.freq = 0 -> {}

\* The row the pointer has now, and the program to push.
PushedRow(s, i) == IF i = Synthetic THEN Synth(s.freq, s.del) ELSE table[i]
PushedProgram(s, i) == IF i = Synthetic THEN 0 ELSE s.program

\* A program without a virtual channel waits for the mux's rows, and checks
\* afterwards that the selection is still the one it waited for.
Waits(s) == s.vch = None /\ s.freq # 0 /\ s.program > 0

Choose(c) ==
  /\ conn[c].at = "choose"
  /\ \E ch \in Chosen(conn[c].snap) :
       Go(c, [at |-> IF Waits(conn[c].snap) THEN "recheck" ELSE "commit",
              snap |-> conn[c].snap, ch |-> ch])
  /\ Still /\ UNCHANGED ops

\* No channel: an error, at the deadline if it waits.
ChooseFails(c) ==
  /\ conn[c].at = "choose" /\ Chosen(conn[c].snap) = {}
  /\ Done(c) /\ Still /\ UNCHANGED ops

Recheck(c) ==
  /\ conn[c].at = "recheck"
  /\ IF tuned_frequency_hz = conn[c].snap.freq /\ vch = None
     THEN Go(c, [conn[c] EXCEPT !.at = "commit"]) ELSE Done(c)
  /\ Still /\ UNCHANGED ops

\* The push copies the row, and starts with the filter that is set now.
Commit(c) ==
  /\ conn[c].at = "commit" /\ push.at = "none"
  /\ push' = [at |-> "claim", row |-> PushedRow(conn[c].snap, conn[c].ch),
              program |-> PushedProgram(conn[c].snap, conn[c].ch),
              filter |-> filter_override, stop |-> FALSE]
  /\ Done(c)
  /\ UNCHANGED <<selVars, ownVars, scanVars, pull, ops>>

-----------------------------------------------------------------------------
(* The push thread *)

PushGoto(l) == push' = [push EXCEPT !.at = l]

\* tuner_try_claim_wait: claimed, or given up.
PushClaim ==
  /\ push.at = "claim" /\ ~busy
  /\ busy' = TRUE /\ PushGoto("open")
  /\ UNCHANGED <<selVars, active_stream, scanVars, pull, conn, ops>>

PushGivesUp ==
  /\ push.at = "claim" /\ busy
  /\ push' = At("none")
  /\ UNCHANGED <<selVars, ownVars, scanVars, pull, conn, ops>>

PidsOf(p) ==
  OpenPids(p.row, OnFreq(p.row.freq), p.program, Ranges(p.filter))

\* dvb_stream_open: no lock, or no slot for a PID, releases the tuner.
PushOpen ==
  /\ push.at = "open"
  /\ \E ok \in BOOLEAN : PushGoto(IF ok /\ PidsOf(push).ok THEN "bind" ELSE "free")
  /\ UNCHANGED <<selVars, ownVars, scanVars, pull, conn, ops>>

PushBind ==
  /\ push.at = "bind"
  /\ Bind(push.row, push.program, push.row.freq, "push") /\ PushGoto("attach")
  /\ UNCHANGED <<ownVars, scanVars, pull, conn, ops>>

PushAttach ==
  /\ push.at = "attach"
  /\ active_stream' = push.row /\ PushGoto("run")
  /\ UNCHANGED <<selVars, busy, scanVars, pull, conn, ops>>

\* The stream ends, by itself or because it was stopped, and is detached.
PushEnds ==
  /\ push.at = "run"
  /\ active_stream' = None /\ PushGoto("free")
  /\ UNCHANGED <<selVars, busy, scanVars, pull, conn, ops>>

PushFree ==
  /\ push.at = "free"
  /\ busy' = FALSE /\ push' = At("none")
  /\ UNCHANGED <<selVars, active_stream, scanVars, pull, conn, ops>>

-----------------------------------------------------------------------------
(* An HTTP pull: handle_stream and release_http_pull *)

PullGoto(l) == pull' = [pull EXCEPT !.at = l]

PullClaim(i) ==
  /\ pull.at = "none" /\ ~busy /\ i \in Present /\ ops < MaxOps
  /\ busy' = TRUE /\ pull' = [at |-> "open", ch |-> i]
  /\ ops' = ops + 1
  /\ UNCHANGED <<selVars, active_stream, scanVars, push, conn>>

\* dvb_stream_open tunes to the row as it is now.
PullOpen ==
  /\ pull.at = "open"
  /\ \E ok \in BOOLEAN :
       pull' = [at |-> IF ok THEN "bind" ELSE "free", ch |-> pull.ch,
                row |-> table[pull.ch]]
  /\ UNCHANGED <<selVars, ownVars, scanVars, push, conn, ops>>

PullBind ==
  /\ pull.at = "bind"
  /\ Bind(table[pull.ch], Default, pull.row.freq, "pull") /\ PullGoto("attach")
  /\ UNCHANGED <<ownVars, scanVars, push, conn, ops>>

PullAttach ==
  /\ pull.at = "attach"
  /\ active_stream' = pull.row /\ PullGoto("run")
  /\ UNCHANGED <<selVars, busy, scanVars, push, conn, ops>>

\* Mutant: a selection with another program is taken for somebody else's.
PullForgetsByProgram ==
  /\ pull.at = "run"
  /\ IF vch = table[pull.ch].key /\ program = table[pull.ch].prog
     THEN /\ channel' = None /\ tuned_frequency_hz' = 0 /\ vch' = None
          /\ program' = Default /\ filter_override' = Unset
          /\ by' = "idle" /\ moved' = FALSE
          /\ UNCHANGED <<channelmap, tuned_delivery>>
     ELSE UNCHANGED selVars
  /\ PullGoto("detach")
  /\ UNCHANGED <<ownVars, scanVars, push, conn, ops>>

\* The selection is cleared if it is still the pull's, by the row as it is now.
PullForgets ==
  /\ pull.at = "run"
  /\ IF vch = table[pull.ch].key /\ tuned_frequency_hz = table[pull.ch].freq
     THEN /\ channel' = None /\ tuned_frequency_hz' = 0 /\ vch' = None
          /\ program' = Default /\ filter_override' = Unset
          /\ by' = "idle" /\ moved' = FALSE
          /\ UNCHANGED <<channelmap, tuned_delivery>>
     ELSE UNCHANGED selVars
  /\ PullGoto("detach")
  /\ UNCHANGED <<ownVars, scanVars, push, conn, ops>>

PullDetach ==
  /\ pull.at = "detach"
  /\ active_stream' = None /\ PullGoto("free")
  /\ UNCHANGED <<selVars, busy, scanVars, push, conn, ops>>

PullFree ==
  /\ pull.at = "free"
  /\ busy' = FALSE /\ pull' = At("none")
  /\ UNCHANGED <<selVars, active_stream, scanVars, push, conn, ops>>

-----------------------------------------------------------------------------
(* The scan worker.  Every frequency of the air has one modulation. *)

Modulation(f) ==
  {r.del : r \in {q \in Rows : q.freq = f}}

\* One attempt; only the right modulation can lock.
Attempt ==
  /\ worker.at = "tune"
  /\ \E ok \in BOOLEAN :
       /\ ok => worker.del \in Modulation(worker.freq)
       /\ last_attempt' = [freq |-> worker.freq, locked |-> ok]
       /\ worker' = [worker EXCEPT !.at = IF ok THEN "psip" ELSE "next"]
  /\ UNCHANGED <<selVars, ownVars, scan_worker_active, table, push, pull, conn, ops>>

\* dvb_channel_db_add: a row takes its slot, over the one that is there.
Store(i, r) ==
  /\ table' = [table EXCEPT ![i] = r]
  /\ moved' = (moved \/ (vch = r.key /\ r.freq # tuned_frequency_hz))
  /\ UNCHANGED <<channelmap, channel, tuned_frequency_hz, tuned_delivery, vch,
                 program, filter_override, by>>

\* dvb_scan_read_psip: rows of the mux, one by one, if it can be read.
ReadPsip(i, r) ==
  /\ worker.at = "psip" /\ r.freq = worker.freq
  /\ Store(i, r)
  /\ UNCHANGED <<ownVars, scan_worker_active, last_attempt, worker, push, pull, conn, ops>>

PsipDone ==
  /\ worker.at = "psip"
  /\ worker' = [worker EXCEPT !.at = "next"]
  /\ UNCHANGED <<selVars, ownVars, scan_worker_active, last_attempt, table, push,
                 pull, conn, ops>>

\* A scan on another tuner finds a channel.
OtherScan(i, r) ==
  /\ Store(i, r)
  /\ UNCHANGED <<ownVars, scan_worker_active, last_attempt, worker, push, pull, conn, ops>>

Dequeue ==
  /\ worker.at = "next" /\ worker.queue # <<>>
  /\ worker' = [worker EXCEPT !.at = "tune", !.freq = Head(worker.queue),
                              !.queue = Tail(worker.queue)]
  /\ UNCHANGED <<selVars, ownVars, scan_worker_active, last_attempt, table, push,
                 pull, conn, ops>>

\* Nothing queued, or a claim waiter: the worker leaves.
Leave ==
  /\ worker.at = "next" /\ worker.queue = <<>>
  /\ worker' = [worker EXCEPT !.at = "leave"]
  /\ UNCHANGED <<selVars, ownVars, scan_worker_active, last_attempt, table, push,
                 pull, conn, ops>>

Deactivate ==
  /\ worker.at = "leave"
  /\ scan_worker_active' = FALSE
  /\ worker' = At("release")
  /\ UNCHANGED <<selVars, ownVars, last_attempt, table, push, pull, conn, ops>>

ReleaseScan ==
  /\ worker.at = "release"
  /\ busy' = FALSE /\ worker' = At("none")
  /\ UNCHANGED <<selVars, active_stream, scan_worker_active, last_attempt, table,
                 push, pull, conn, ops>>

-----------------------------------------------------------------------------
Set(c) ==
  \/ \E m \in Maps : SetMap(c, m)
  \/ WriteMap(c) \/ SetNone(c) \/ WriteNone(c)
  \/ \E i \in Slots : SetVchannel(c, i)
  \/ BindVchannel(c) \/ ClearFilter(c)
  \/ \E v \in Inputs : SetChannel(c, v)
  \/ ClaimRaw(c) \/ OpenSession(c) \/ QueueRaw(c) \/ RefuseRaw(c)
  \/ \E p \in Programs : SetProgram(c, p)
  \/ \E f \in Filters : SetFilter(c, f)
  \/ SetTarget(c) \/ SetTargetNone(c) \/ TakeSnapshot(c)
  \/ Choose(c) \/ ChooseFails(c) \/ Recheck(c) \/ Commit(c)

Push == PushClaim \/ PushGivesUp \/ PushOpen \/ PushBind \/ PushAttach
        \/ PushEnds \/ PushFree
Pull == \/ \E i \in Slots : PullClaim(i)
        \/ PullOpen \/ PullBind \/ PullAttach \/ PullForgets \/ PullDetach \/ PullFree
Worker == Attempt \/ PsipDone \/ Dequeue \/ Leave \/ Deactivate \/ ReleaseScan
Scan == \E i \in Slots : \E r \in Lineup[i] : ReadPsip(i, r) \/ OtherScan(i, r)

Next == (\E c \in Conns : Set(c)) \/ Push \/ Pull \/ Worker \/ Scan

Spec == Init /\ [][Next]_vars

-----------------------------------------------------------------------------
(* Properties *)

\* Every slot has a row of its channel, or none yet.
TableOK ==
  DOMAIN table = Slots /\ \A i \in Slots : table[i] \in Lineup[i] \cup {None}

\* Type invariant.
TypeOK ==
  /\ channelmap \in MapNames /\ program \in Int /\ TableOK
  /\ channel = None \/ channel \in {Vsb, Qam} \X Nat
  /\ tuned_frequency_hz \in Nat /\ tuned_delivery \in {Vsb, Qam}
  /\ vch = None \/ vch \in Nat \X Nat
  /\ pid_filter_parse(Ranges(filter_override))
  /\ busy \in BOOLEAN /\ scan_worker_active \in BOOLEAN /\ moved \in BOOLEAN
  /\ active_stream = None \/ active_stream.freq \in Nat

\* The label, the frequency and the virtual channel of a tuner, which several
\* SETs, a push and a pull write field by field, always name one selection: the
\* label shows the frequency that is selected, and a resolved virtual channel is
\* selected with the frequency and the delivery system of a row that some scan
\* found for it, its row of now unless a scan has moved it since
\* (tuner_bind_channel, control.c).  The delivery system of a raw selection is
\* outside it (RawPushTunesAsLocked), and so is whether a queued raw SET has
\* been tuned yet.
SelectionCoherent ==
  /\ channel = None <=> tuned_frequency_hz = 0
  /\ channel # None => channel[2] = tuned_frequency_hz
  /\ channel = None => vch = None
  /\ \A i \in Find(vch) : \E r \in Lineup[i] :
       /\ channel = <<r.del, r.freq>> /\ tuned_delivery = r.del
       /\ ~moved => table[i].freq = r.freq

\* The fields of the selection have values the code can give them and agree.
SelectionSound == TypeOK /\ SelectionCoherent

\* The push that a target= would start if nothing intervened.
NextPush ==
  {[row |-> PushedRow(Snapshot, i), program |-> PushedProgram(Snapshot, i),
    filter |-> filter_override] : i \in Chosen(Snapshot)}

\* A program that is not on the raw mux: the first channel's is streamed.
Stray ==
  /\ vch = None /\ program > 0 /\ filter_override = Unset
  /\ \A i \in DOMAIN OnFreq(tuned_frequency_hz) :
       OnFreq(tuned_frequency_hz)[i].prog # ProgramNumber(program)

\* A negative program whose low 16 bits are a program of the mux: it is shown,
\* and the channel's own program, or the whole mux, is streamed.
Wrapped ==
  /\ program < 0 /\ filter_override = Unset
  /\ \E i \in DOMAIN OnFreq(tuned_frequency_hz) :
       OnFreq(tuned_frequency_hz)[i].prog = ProgramNumber(program)

\* A virtual channel whose row is on another frequency than the selection: the
\* filter is that of the frequency, and the row's mux is streamed.
Displaced == \E r \in ByKey(vch) : r.freq # tuned_frequency_hz

\* GET /filter names exactly the PIDs, the PAT apart, that a target= would
\* stream from this selection, and more PIDs than there are slots when it
\* would stream the whole mux (compute_auto_filter "mirrors what
\* dvb_stream_open() would actually select").  Four selections are outside it:
\* a blank filter, which is accepted and shown but not applied, Stray, Wrapped
\* and Displaced.
FilterShowsStream ==
  ~Stray /\ ~Wrapped /\ ~Displaced /\ filter_override # Blank =>
    \A p \in NextPush :
      LET pids == Range(PidsOf(p).pids)
      IN  IF FullMux \in pids
          THEN pid_filter_total_count(ShownFilter) >= MaxFds
          ELSE pids \ {0} = Pids(ShownFilter) \ {0}

\* Whatever program or filter a push takes, its PIDs fit the demux slots with
\* the PAT among them, and no PID gets a second demux filter, which would
\* duplicate its packets (add_pid).
FiltersFit ==
  push.at # "none" =>
    LET s == PidsOf(push)
    IN  s.ok /\ IsInjective(s.pids) /\ ({0, FullMux} \cap Range(s.pids)) # {}

\* A raw channel SET never moves the selection of a tuner that is streaming or
\* about to: by the time a stream is attached, the last writer of the selection
\* was its own bind or a later vchannel, channelmap or channel=none SET, and in
\* the first case the selection is the stream's mux (control.c, the refusal
\* "tuner busy"), but for a pull whose channel a scan moved.
RawNeverUnderStream ==
  active_stream # None =>
    /\ by # "raw"
    /\ by = "push" \/ (by = "pull" /\ ~moved) =>
         tuned_frequency_hz = active_stream.freq

\* The binding of a pull outlives it only where a scan moved its channel under
\* the pull, whatever programs and filters were set meanwhile, and where no SET
\* came after it the tuner is as an idle one: no filter and no program that a
\* later raw target= would take for a request (release_http_pull).
PullLeavesIdle ==
  /\ pull.at \in {"none", "open", "detach", "free"} /\ by = "pull" => moved
  /\ by = "idle" => /\ channel = None /\ program = Default
                    /\ filter_override = Unset

\* A push of a raw selection tunes with the delivery system under which its
\* frequency locked: "tuned_freq/tuned_delivery (both known synchronously the
\* instant the tune itself locks" (udp_stream.c).
RawPushTunesAsLocked ==
  push.at # "none" /\ push.row.key = <<0, 0>> => push.row.del \in Modulation(push.row.freq)

-----------------------------------------------------------------------------
(* The inductive invariant behind the safety properties (SelectionProofs) *)

Deliveries == {Vsb, Qam}
Freqs == Nat \ {0}
FilterValues == {f \in Filters \cup {Unset} : pid_filter_parse(Ranges(f))}

\* Rows a stream can be opened for.
Streamable == Rows \cup {Synth(f, d) : f \in Freqs, d \in Deliveries}

Snaps == [vch : (Nat \X Nat) \cup {None}, freq : Nat, del : Deliveries, program : Int]

\* What the threads carry from one section to the next.
ConnStates ==
       [at : {"idle", "none", "unfilter", "target"}]
  \cup [at : {"map"}, map : MapNames]
  \cup [at : {"bind"}, ch : Slots]
  \cup [at : {"raw", "queue", "session"}, freq : Freqs, del : Deliveries]
  \cup [at : {"choose"}, snap : Snaps]
  \cup {s \in [at : {"recheck", "commit"}, snap : Snaps, ch : Slots \cup {Synthetic}] :
          s.ch = Synthetic => s.snap.freq # 0}

PushStates ==
       [at : {"none"}]
  \cup [at : {"claim", "open", "bind", "attach", "run", "free"}, row : Streamable,
        program : Int, filter : FilterValues, stop : BOOLEAN]

PullStates ==
       [at : {"none"}]
  \cup [at : {"open"}, ch : Slots]
  \cup [at : {"bind", "attach", "run", "detach", "free"}, ch : Slots, row : Rows]

WorkerStates ==
       [at : {"none", "release"}]
  \cup [at : {"tune", "psip", "next", "leave"}, freq : Freqs, del : Deliveries,
        queue : Seq(Freqs)]

ThreadsOK ==
  /\ conn \in [Conns -> ConnStates] /\ push \in PushStates /\ pull \in PullStates
  /\ worker \in WorkerStates
  /\ filter_override \in FilterValues
  /\ by \in {"none", "raw", "vchannel", "push", "pull", "idle"}

\* Rows are never removed, so the pointers the threads have stay good.
PointersInv ==
  /\ \A c \in Conns :
       /\ conn[c].at = "bind" => table[conn[c].ch] # None
       /\ conn[c].at \in {"recheck", "commit"} =>
            conn[c].ch = Synthetic \/ table[conn[c].ch] # None
  /\ pull.at # "none" => table[pull.ch] # None

\* Who has the claim.
PushOwns == push.at \in {"open", "bind", "attach", "run", "free"}
PullOwns == pull.at # "none"
ScanOwns == worker.at # "none"
ConnOwns(c) == conn[c].at = "session"

\* The claim has one owner at most, only the owner streams, and
\* scan_worker_active is the worker's.
ClaimInv ==
  /\ PushOwns => busy /\ ~PullOwns /\ ~ScanOwns
  /\ PullOwns => busy /\ ~ScanOwns
  /\ ScanOwns => busy
  /\ \A c \in Conns : ConnOwns(c) =>
       /\ busy /\ ~PushOwns /\ ~PullOwns /\ ~ScanOwns
       /\ \A d \in Conns : ConnOwns(d) => c = d
  /\ scan_worker_active <=> worker.at \in {"tune", "psip", "next", "leave"}
  /\ active_stream # None =>
       \/ push.at = "run" /\ active_stream = push.row
       \/ pull.at \in {"run", "detach"} /\ active_stream = pull.row

\* The fields of the selection agree, whether or not its channel has a row.
CoherentInv ==
  /\ channel = None <=> tuned_frequency_hz = 0
  /\ channel # None => channel[2] = tuned_frequency_hz
  /\ channel = None => vch = None
  /\ \A i \in Slots : \A q \in Lineup[i] : vch = q.key =>
       \E r \in Lineup[i] : channel = <<r.del, r.freq>> /\ tuned_delivery = r.del
  /\ ~moved => \A i \in Find(vch) : table[i].freq = tuned_frequency_hz

\* While a stream is bound nobody else's raw selection or binding is written, a
\* pull's binding is the pull's, and what a pull leaves is idle.
WriterInv ==
  /\ push.at \in {"attach", "run"} =>
       /\ by \notin {"raw", "pull"}
       /\ by = "push" => tuned_frequency_hz = push.row.freq
  /\ pull.at \in {"attach", "run", "detach"} => by \notin {"raw", "push"}
  /\ by = "pull" /\ ~moved =>
       /\ pull.at \in {"attach", "run"} /\ \E q \in Lineup[pull.ch] : vch = q.key
       /\ tuned_frequency_hz = pull.row.freq
  /\ by = "idle" => channel = None /\ program = Default /\ filter_override = Unset

\* The inductive invariant.
IInv == TypeOK /\ ThreadsOK /\ PointersInv /\ ClaimInv /\ CoherentInv /\ WriterInv

=============================================================================
