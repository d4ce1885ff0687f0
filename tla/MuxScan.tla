------------------------------ MODULE MuxScan ------------------------------
(* One scanning thread at work on one frequency after another: the value it  *)
(* is given (control.c), the tune and the wait for lock (dvb_scan.c,         *)
(* dvb_frontend.c), the symbol quality it publishes meanwhile, and the PSIP  *)
(* tables it reads through demux filters that stay open across retunes       *)
(* (dvb_scan.c, mpeg_section.c, psip.c).                                     *)
(*                                                                           *)
(* The receiver is external: every status read may find a lock or not, every *)
(* ioctl may block for up to MaxBlock, a filter may fail to be armed again,  *)
(* and its buffer may hold sections of every mux that was received since it  *)
(* was last armed.                                                           *)
(* Times are ticks.  The driver has no DVBv5 block counters, so the quality  *)
(* comes from the uncorrected block counter, which does not wrap within an   *)
(* attempt.  Claims, queue and results of attempts are in ChannelScan, the   *)
(* table the rows go to is in ChannelDb.                                     *)
EXTENDS ChannelMap, SequencesExt

CONSTANTS
  Muxes,        \* what can be on the air at a frequency
  Air,          \* the PAT, PMTs and virtual channel table of each mux
  Numbers,      \* channel numbers clients ask for
  Step,         \* step_ms
  CbInterval,   \* PROGRESS_CB_INTERVAL_MS
  LockTimeout,  \* LOCK_TIMEOUT_MS
  Window,       \* the 0.5 s of dvb_frontend_legacy_seq_pct
  Settle,       \* the 600 ms pause after a lock
  Rate,         \* ATSC_SEGMENTS_PER_SEC, per tick
  MaxErrors,    \* bound: uncorrected blocks between two samples
  MaxBlock,     \* bound: how long an ioctl blocks
  PatMax,       \* PAT_MAX_ENTRIES
  VctMax,       \* TVCT_MAX_CHANNELS
  VctAttempts,  \* the 8 reads of read_vct
  None

\* The entries of a mux's virtual channel table, and of all tables.
Entries(m) == UNION {Range(Air[m].vct[s]) : s \in DOMAIN Air[m].vct}
AllEntries == UNION {Entries(m) : m \in Muxes}

\* A request, and what parse_channel_value makes of it.
Request(map, prefix, n) ==
  [map |-> map, prefix |-> prefix, n |-> n, to |-> parse_channel_value(map, prefix, n)]

Requests == {Request(map, prefix, n) :
               map \in MapNames, prefix \in {"auto"} \cup MapNames, n \in Numbers}

ASSUME MuxScanAssumption ==
  /\ {Step, CbInterval, LockTimeout, Window, Settle, Rate} \subseteq Nat \ {0}
  /\ {MaxErrors, MaxBlock, PatMax, VctMax, VctAttempts} \subseteq Nat
  /\ Window <= Settle /\ Numbers \subseteq Nat
  /\ None \notin Muxes \cup Requests
  /\ \A m \in Muxes :
       /\ Air[m].pat \in Seq(Range(Air[m].pat))
       /\ \A s \in DOMAIN Air[m].vct : Air[m].vct[s] \in Seq(Entries(m))
  \* "each lives on its own PID": no two programs of a mux share a PMT PID
  /\ \A m \in Muxes : IsInjective([k \in DOMAIN Air[m].pat |-> Air[m].pat[k].pid])
  \* a virtual channel table lists a channel once
  /\ \A m \in Muxes : \A s, t \in DOMAIN Air[m].vct :
       \A i \in DOMAIN Air[m].vct[s], j \in DOMAIN Air[m].vct[t] :
         Air[m].vct[s][i] = Air[m].vct[t][j] => s = t /\ i = j

Filters == {"pat", "vct"}

VARIABLES
  phase,
  ask,       \* the value last asked for and what it was resolved to
  live,      \* the attempt has a progress callback (a /tunerN/channel SET)
  delivery,
  mux,       \* what is on the air at the frequency tuned to
  now,       \* ticks since the wait began
  since_cb,  \* since_cb_ms
  got,       \* this poll has seen a lock
  seq,       \* struct dvb_legacy_seq_state
  ucblocks,  \* the driver's counter
  quality,   \* the symbol quality of the last sample, -1 for none
  gap,       \* history: a sample since the window began saw no lock
  steady,    \* history: the samples of the settling pause saw a lock
  heard,     \* muxes that may have left sections in a filter's buffer
  failed,    \* history: the filters this attempt could not arm again
  pat,       \* the programs read from the PAT
  pmts,      \* pmt_cache
  vct,       \* the entries read so far
  seen,      \* section numbers read so far
  attempts,  \* reads of the virtual channel table
  rows       \* what the attempt has added to the channel table

sampleVars == <<seq, ucblocks, quality, gap, steady>>
tableVars == <<pat, pmts, vct, seen, attempts, rows>>
vars == <<phase, ask, live, delivery, mux, now, since_cb, got, sampleVars, heard,
          failed, tableVars>>

NoSeq == [have |-> FALSE, base |-> 0, at |-> 0, pct |-> -1]

Init ==
  /\ phase = "idle" /\ ask = None /\ live = FALSE
  /\ delivery = Vsb /\ mux = None
  /\ now = 0 /\ since_cb = CbInterval /\ got = FALSE
  /\ seq = NoSeq /\ ucblocks = 0 /\ quality = -1 /\ gap = FALSE /\ steady = FALSE
  /\ heard = [f \in Filters |-> {}] /\ failed = {}
  /\ pat = {} /\ pmts = {} /\ vct = <<>> /\ seen = {} /\ attempts = 0
  /\ rows = {}

-----------------------------------------------------------------------------
\* The locals of the wait and of the samples, as a new attempt finds them.
FreshSamples ==
  /\ now' = 0 /\ since_cb' = CbInterval /\ got' = FALSE
  /\ seq' = NoSeq /\ ucblocks' = 0 /\ quality' = -1 /\ gap' = FALSE /\ steady' = FALSE

\* The locals of dvb_scan_read_psip.
FreshTables == pat' = {} /\ pmts' = {} /\ vct' = <<>> /\ seen' = {} /\ attempts' = 0

-----------------------------------------------------------------------------
(* What is asked for *)

\* A /tunerN/channel value under the tuner's map, or the startup scan's next
\* channel.  The frequency that was tuned to is of no further interest.
Ask(map, prefix, n) ==
  /\ phase = "idle"
  /\ ask' = Request(map, prefix, n)
  /\ phase' = "asked"
  /\ live' = FALSE /\ delivery' = Vsb /\ mux' = None /\ rows' = {} /\ failed' = {}
  /\ UNCHANGED <<now, since_cb, got, sampleVars, heard, pat, pmts, vct,
                 seen, attempts>>

\* "ERROR: expected ..."
Rejects ==
  /\ phase = "asked" /\ ask.to = Rejected
  /\ ask' = None /\ phase' = "idle"
  /\ UNCHANGED <<live, delivery, mux, now, since_cb, got, sampleVars, heard,
                 failed, tableVars>>

(* dvb_scan_tune_and_lock: dvb_frontend_tune_8vsb or _qam, which fails or    *)
(* leaves the frontend on whatever mux, or none, is there.  c: an attempt of *)
(* a scan worker, which starts with a fresh legacy_seq.                      *)
Tune(m, c) ==
  /\ phase = "asked" /\ ask.to # Rejected
  /\ ask' = None
  /\ live' = c
  /\ delivery' = delivery_for_map(ask.map)
  /\ mux' = m
  /\ FreshSamples
  /\ phase' \in {"poll", "idle"}
  /\ UNCHANGED <<heard, failed, tableVars>>

-----------------------------------------------------------------------------
(* dvb_frontend_wait_lock *)

Blocked(t) == \E d \in 0 .. MaxBlock : now' = t + d

\* A lock brings sections into every filter that is armed.
Hears(locked) ==
  heard' = [f \in Filters |-> IF locked THEN heard[f] \cup {mux} ELSE heard[f]]

\* FE_READ_STATUS: it fails (ok is FALSE), or shows a lock or none.
Poll(ok, locked) ==
  /\ phase = "poll"
  /\ locked => ok /\ mux # None
  /\ Blocked(now)
  /\ got' = locked
  /\ Hears(locked)
  /\ phase' = IF ok /\ live /\ since_cb >= CbInterval THEN "publish" ELSE "turn"
  /\ UNCHANGED <<ask, live, delivery, mux, since_cb, sampleVars, failed, tableVars>>

clamp_pct(pct) == IF pct < 0 THEN 0 ELSE IF pct > 100 THEN 100 ELSE pct

\* The share of good blocks in percent, rounded, of an expected number.
GoodPct(bad, expected) ==
  IF bad >= expected THEN 0
  ELSE clamp_pct((200 * (expected - bad) + expected) \div (2 * expected))

\* Mutant: an unlocked sample keeps the window open.
legacy_seq_pct_keeps(st, has_lock, readable, count, t) ==
  IF ~has_lock \/ ~readable THEN <<st, -1>>
  ELSE IF ~st.have
       THEN <<[have |-> TRUE, base |-> count, at |-> t, pct |-> -1], -1>>
  ELSE IF t - st.at < Window THEN <<st, st.pct>>
  ELSE LET bad == IF count >= st.base THEN count - st.base ELSE 0
           pct == GoodPct(bad, Rate * (t - st.at))
       IN  <<[have |-> TRUE, base |-> count, at |-> t, pct |-> pct], pct>>

\* dvb_frontend_legacy_seq_pct: the new state and the percentage.
legacy_seq_pct(st, has_lock, readable, count, t) ==
  IF ~has_lock THEN <<[st EXCEPT !.have = FALSE], -1>>
  ELSE IF ~readable THEN <<st, -1>>
  ELSE IF ~st.have
       THEN <<[have |-> TRUE, base |-> count, at |-> t, pct |-> -1], -1>>
  ELSE IF t - st.at < Window THEN <<st, st.pct>>
  ELSE LET bad == IF count >= st.base THEN count - st.base ELSE 0
           pct == GoodPct(bad, Rate * (t - st.at))
       IN  <<[have |-> TRUE, base |-> count, at |-> t, pct |-> pct], pct>>

(* publish_scan_stats at time t: the status and statistics reads block, then *)
(* the counter is read.  It counts only while there is a lock.               *)
Sample(t, has_lock, readable) ==
  /\ has_lock => mux # None
  /\ Blocked(t)
  /\ \E e \in 0 .. MaxErrors :
       ucblocks' = IF has_lock THEN ucblocks + e ELSE ucblocks
  /\ LET r == legacy_seq_pct(seq, has_lock, readable, ucblocks', now')
     IN  seq' = r[1] /\ quality' = r[2]
  /\ gap' = (~has_lock \/ (gap /\ seq'.at # now'))
  /\ steady' = (has_lock /\ readable /\ (phase = "settle2" => steady))
  /\ Hears(has_lock)
  /\ UNCHANGED <<ask, live, delivery, mux, got, failed, tableVars>>

Publish(has_lock, readable) ==
  /\ phase = "publish"
  /\ Sample(now, has_lock, readable)
  /\ since_cb' = 0
  /\ phase' = "turn"

\* Mutant: the clock is read before the sleep.
TurnClockFirst ==
  /\ phase = "turn"
  /\ \/ /\ got
        /\ phase' = IF live THEN "settle1" ELSE "psip"
        /\ UNCHANGED <<now, since_cb, got, sampleVars>>
     \/ /\ ~got /\ now < LockTimeout
        /\ now' = now + Step /\ since_cb' = since_cb + Step
        /\ phase' = "poll"
        /\ UNCHANGED <<got, sampleVars>>
     \/ /\ ~got /\ now >= LockTimeout
        /\ FreshSamples
        /\ phase' = "idle"
  /\ UNCHANGED <<ask, live, delivery, mux, heard, failed, tableVars>>

\* Mutant: the budget is granted anew in every turn.
TurnStartsOver ==
  /\ phase = "turn"
  /\ \/ /\ got
        /\ phase' = IF live THEN "settle1" ELSE "psip"
        /\ UNCHANGED <<now, since_cb, got, sampleVars>>
     \/ ~got /\ FreshSamples /\ phase' = "poll"
  /\ UNCHANGED <<ask, live, delivery, mux, heard, failed, tableVars>>

(* The lock is reported, or the thread sleeps and looks at the clock: not at *)
(* a count of turns, as one turn may take seconds.                           *)
Turn ==
  /\ phase = "turn"
  /\ \/ /\ got
        /\ phase' = IF live THEN "settle1" ELSE "psip"
        /\ UNCHANGED <<now, since_cb, got, sampleVars>>
     \/ /\ ~got /\ now + Step < LockTimeout
        /\ now' = now + Step /\ since_cb' = since_cb + Step
        /\ phase' = "poll"
        /\ UNCHANGED <<got, sampleVars>>
     \/ /\ ~got /\ now + Step >= LockTimeout
        /\ FreshSamples
        /\ phase' = "idle"
  /\ UNCHANGED <<ask, live, delivery, mux, heard, failed, tableVars>>

-----------------------------------------------------------------------------
(* channel_scan_thread_main after a lock: sample, pause, sample *)

Settle1(has_lock, readable) ==
  /\ phase = "settle1"
  /\ Sample(now, has_lock, readable)
  /\ phase' = "settle2"
  /\ UNCHANGED since_cb

\* Mutant: the pause is shorter than the window.
Settle2Short(has_lock, readable) ==
  /\ phase = "settle2"
  /\ Sample(now + Window - 1, has_lock, readable)
  /\ phase' = "psip"
  /\ UNCHANGED since_cb

Settle2(has_lock, readable) ==
  /\ phase = "settle2"
  /\ Sample(now + Settle, has_lock, readable)
  /\ phase' = "psip"
  /\ UNCHANGED since_cb

-----------------------------------------------------------------------------
(* dvb_scan_read_psip *)

\* Mutant: the filters are read as they are.
RearmSkipped ==
  /\ phase = "psip"
  /\ phase' = "pat"
  /\ FreshSamples
  /\ UNCHANGED <<ask, live, delivery, mux, heard, failed, tableVars>>

(* mpeg_section_filter_rearm of both filters: what was buffered is gone, but *)
(* where it fails, which dvb_scan_read_psip does not look at and reads on.   *)
(* The samples are of no further use.                                        *)
Rearm ==
  /\ phase = "psip"
  /\ failed' \in SUBSET Filters
  /\ heard' = [f \in Filters |-> IF f \in failed' THEN heard[f] ELSE {mux}]
  /\ phase' = "pat"
  /\ FreshSamples
  /\ UNCHANGED <<ask, live, delivery, mux, tableVars>>

waitVars == <<ask, live, delivery, mux, now, since_cb, got, sampleVars, heard,
              failed>>

Cut(s, n) == SubSeq(s, 1, IF Len(s) < n THEN Len(s) ELSE n)

\* psip_parse_pat: the first PatMax programs; 0 is the network's entry.
psip_parse_pat(section) ==
  LET programs == {k \in DOMAIN section : section[k].program # 0}
  IN  {section[k] : k \in {j \in programs : Cardinality(programs \cap 1 .. j) <= PatMax}}

\* read_pat: a section of a mux that was heard, or none in time or a bad one.
ReadPat ==
  /\ phase = "pat"
  /\ \/ \E m \in heard["pat"] :
          /\ pat' = psip_parse_pat(Air[m].pat)
          /\ phase' = IF pat' = {} THEN "idle" ELSE "pmt"
     \/ phase' = "idle" /\ UNCHANGED pat
  /\ UNCHANGED <<waitVars, pmts, vct, seen, attempts, rows>>

(* The PMT a new filter on a PID gets from the mux that is tuned in, if any: *)
(* the PAT that named the PID may be another mux's.                          *)
PmtOn(pid) ==
  LET hits == {k \in DOMAIN Air[mux].pat :
                 Air[mux].pat[k].pid = pid /\ Air[mux].pat[k].program # 0}
  IN  {Air[mux].pmt[Air[mux].pat[k].program] : k \in hits}

(* read_pmts_concurrent: all programs' filters at once; those that were      *)
(* opened and answered within the common budget with a sound section are     *)
(* cached, under the number the PAT gives them.                              *)
ReadPmts ==
  /\ phase = "pmt"
  /\ \E answered \in SUBSET pat :
       pmts' = UNION {{[program |-> e.program, streams |-> p] : p \in PmtOn(e.pid)}
                      : e \in answered}
  /\ phase' = "vct"
  /\ UNCHANGED <<waitVars, pat, vct, seen, attempts, rows>>

\* Mutant: a section that comes again is taken again.
TakeSectionAgain(m, s) ==
  /\ vct' = vct \o Cut(Air[m].vct[s], VctMax - Len(vct))
  /\ seen' = seen \cup {s}

\* Mutant: the room that is left in the array is not regarded.
TakeSectionWhole(m, s) ==
  IF s \in seen THEN UNCHANGED <<vct, seen>>
  ELSE /\ vct' = vct \o Air[m].vct[s]
       /\ seen' = seen \cup {s}

\* A sound section: its entries are added unless its number has been seen.
TakeSection(m, s) ==
  IF s \in seen THEN UNCHANGED <<vct, seen>>
  ELSE /\ vct' = vct \o Cut(Air[m].vct[s], VctMax - Len(vct))
       /\ seen' = seen \cup {s}

\* Mutant: the loop asks for one section more than last_section_number.
ReadVctOneMore ==
  /\ phase = "vct"
  /\ attempts < VctAttempts /\ Len(vct) < VctMax
  /\ attempts' = attempts + 1
  /\ \/ phase' = "join" /\ UNCHANGED <<vct, seen>>
     \/ UNCHANGED <<phase, vct, seen>>
     \/ \E m \in heard["vct"] : \E s \in DOMAIN Air[m].vct :
          /\ TakeSection(m, s)
          /\ phase' = IF 1 .. Len(Air[m].vct) + 1 \subseteq seen' THEN "join" ELSE "vct"
  /\ UNCHANGED <<waitVars, pat, pmts, rows>>

(* One read of read_vct's loop: nothing in time or a section that is too     *)
(* large, a malformed section, or a section.  The loop ends when a new       *)
(* section completes the numbers up to its last_section_number.              *)
ReadVct ==
  /\ phase = "vct"
  /\ attempts < VctAttempts /\ Len(vct) < VctMax
  /\ attempts' = attempts + 1
  /\ \/ phase' = "join" /\ UNCHANGED <<vct, seen>>
     \/ UNCHANGED <<phase, vct, seen>>
     \/ \E m \in heard["vct"] : \E s \in DOMAIN Air[m].vct :
          /\ TakeSection(m, s)
          /\ phase' = IF s \notin seen /\ DOMAIN Air[m].vct \subseteq seen'
                      THEN "join" ELSE "vct"
  /\ UNCHANGED <<waitVars, pat, pmts, rows>>

EndVct ==
  /\ phase = "vct"
  /\ attempts = VctAttempts \/ Len(vct) >= VctMax
  /\ phase' = "join"
  /\ UNCHANGED <<waitVars, tableVars>>

FirstOf(streams, types) ==
  LET hits == {k \in DOMAIN streams : streams[k].type \in types}
  IN  IF hits = {} THEN 0 ELSE streams[Min(hits)].pid

\* psip_pmt_pick_av: the first video and the first audio stream.
psip_pmt_pick_av(streams) ==
  <<FirstOf(streams, {"mpeg2", "h264"}), FirstOf(streams, {"ac3", "aac"})>>

Row(key, pmt) == [key |-> key, program |-> pmt.program, av |-> psip_pmt_pick_av(pmt.streams)]

(* Every virtual channel that is not hidden and whose PMT was read; without  *)
(* a table, on cable, every program under its raw number.                    *)
Join ==
  /\ phase = "join"
  /\ rows' =
       IF vct = <<>>
       THEN IF delivery = Qam THEN {Row(<<0, p.program>>, p) : p \in pmts} ELSE {}
       ELSE {Row(x[1].key, x[2]) : x \in
               {ep \in Range(vct) \X pmts :
                  ~ep[1].hidden /\ ep[1].program = ep[2].program}}
  /\ phase' = "idle"
  /\ FreshTables
  /\ UNCHANGED waitVars

-----------------------------------------------------------------------------
Attempt ==
  \/ Rejects \/ Turn \/ Rearm \/ ReadPat \/ ReadPmts \/ ReadVct \/ EndVct \/ Join
  \/ \E m \in Muxes \cup {None}, c \in BOOLEAN : Tune(m, c)
  \/ \E a, b \in BOOLEAN : Poll(a, b) \/ Publish(a, b) \/ Settle1(a, b) \/ Settle2(a, b)

Next ==
  \/ Attempt
  \/ \E map \in MapNames, prefix \in {"auto"} \cup MapNames, n \in Numbers :
        Ask(map, prefix, n)

Spec == Init /\ [][Next]_vars

\* The thread runs, and no ioctl blocks for ever.
FairSpec == Spec /\ WF_vars(Attempt)

-----------------------------------------------------------------------------
\* Type invariant: in particular the tables never outgrow their arrays.
TypeOK ==
  /\ phase \in {"idle", "asked", "poll", "publish", "turn", "settle1", "settle2",
                "psip", "pat", "pmt", "vct", "join"}
  /\ phase = "asked" <=> ask # None
  /\ live \in BOOLEAN /\ got \in BOOLEAN /\ steady \in BOOLEAN
  /\ delivery \in {Vsb, Qam}
  /\ mux \in Muxes \cup {None}
  /\ {now, since_cb, ucblocks, seq.base, seq.at, attempts} \subseteq Nat
  /\ {quality, seq.pct} \subseteq -1 .. 100
  /\ heard \in [Filters -> SUBSET Muxes] /\ failed \subseteq Filters
  /\ Cardinality(pat) <= PatMax /\ Len(vct) <= VctMax /\ attempts <= VctAttempts

(* A channel number and the frequency it stands for select the same channel: *)
(* in every map, what parse_channel_value makes of a number it also makes of *)
(* the frequency under the map the number belongs to, so a client may send   *)
(* either, and the map named in a prefix counts, not the active one.         *)
NumberNamesFrequency ==
  phase = "asked" /\ ask.to # Rejected =>
    LET m == IF ask.prefix = "auto" THEN ask.map ELSE ask.prefix
    IN  parse_channel_value(m, "auto", ask.to.freq) = ask.to

(* dvb_frontend_wait_lock never goes back to the driver once its budget is   *)
(* spent, however long earlier reads and callbacks blocked.                  *)
WithinBudget == phase = "poll" => now < LockTimeout

(* A published symbol quality was earned: no sample since its window began   *)
(* missed the lock, and a perfect one had (next to) no errors in the window. *)
(* A counter that stands still because nothing is received never passes for  *)
(* a good signal.                                                            *)
QualityEarned ==
  [][quality' >= 0 /\ phase \in {"publish", "settle1", "settle2"} =>
       /\ ~gap
       /\ (quality' = 100 /\ seq' # seq) =>
            (200 * (ucblocks' - seq.base) <= Rate * (now' - seq.at))]_vars

(* The pause after a lock is long enough: a scan worker that keeps its lock  *)
(* has published a symbol quality before it turns to the tables, so a client *)
(* that waits for one does not run into its own timeout.                     *)
SettleGivesQuality == phase = "psip" /\ steady => quality >= 0

\* The PIDs of a row are those of a program of this mux, and the row has that
\* program's number.
PidsAreOurs(r) ==
  \E e \in Range(Air[mux].pat) :
    /\ e.program # 0
    /\ r.av = psip_pmt_pick_av(Air[mux].pmt[e.program])
    /\ "pat" \notin failed => r.program = e.program

\* The number of a row is one that this mux gives the program.
KeyIsOurs(r) ==
  \/ \E e \in Entries(mux) : ~e.hidden /\ e.key = r.key /\ e.program = r.program
  \/ delivery = Qam /\ r.key = <<0, r.program>>

(* What is added to the channel table for a frequency is what is broadcast   *)
(* there: number, program and PIDs of one mux, although the filters were     *)
(* open, and may have buffered sections, while other muxes were tuned in.    *)
(* A filter that could not be armed again, which the code does not notice,   *)
(* spoils just what is read from it: without the PAT's the PIDs are still    *)
(* some program's of this mux, as PMT filters are opened anew, and without   *)
(* the virtual channel table's the program and its PIDs still belong         *)
(* together.                                                                 *)
RowsOfThisMux ==
  \A r \in rows :
    /\ mux # None /\ PidsAreOurs(r)
    /\ "vct" \notin failed => KeyIsOurs(r)

(* A virtual channel is read once, however often its section is repeated.    *)
EntryOnce == "vct" \notin failed => IsInjective(vct)

\* What a scan makes of the tables: they fit their arrays, and from filters that
\* were armed again each channel is taken once and is this mux's (dvb_scan.c).
TablesSound == TypeOK /\ RowsOfThisMux /\ EntryOnce

(* read_vct does not sit out another timeout once it has the whole table; of *)
(* a mux that sends none it cannot know, nor through a filter that was not   *)
(* armed again.                                                              *)
NoWaitWhenComplete ==
  phase = "vct" /\ "vct" \notin failed /\ seen # {} /\ Len(vct) < VctMax =>
    ~ (DOMAIN Air[mux].vct \subseteq seen)

(* Every attempt ends: the wait for lock, the pauses and the table reads are *)
(* all bounded, whatever the receiver delivers.                              *)
AttemptEnds == phase # "idle" ~> phase = "idle"

\* An attempt takes its time and no more: it never polls past its budget, never
\* waits for a section of a table it has, and always ends.
AttemptInTime == [](WithinBudget /\ NoWaitWhenComplete) /\ AttemptEnds

-----------------------------------------------------------------------------
(* The inductive invariant behind the safety properties (MuxScanProofs) *)

Reading == {"pat", "pmt", "vct", "join"}

\* A budget that is left when the driver is asked, and a mux behind a lock.
WaitInv ==
  /\ WithinBudget
  /\ ask \in Requests \cup {None}
  /\ phase \in {"publish", "turn"} /\ got => mux # None
  /\ phase \in {"settle1", "settle2", "psip"} \cup Reading => mux # None

\* An open window began in the past and has had no gap; the first sample of the
\* settling pause opens it, and an attempt without samples is not steady.
SampleInv ==
  /\ seq \in [have : BOOLEAN, base : Nat, at : Nat, pct : -1 .. 100]
  /\ gap \in BOOLEAN /\ steady \in BOOLEAN
  /\ seq.at <= now
  /\ seq.have => ~gap
  /\ phase = "settle2" /\ steady => seq.have
  /\ phase = "publish" => live
  /\ phase \in {"poll", "turn"} /\ ~live => ~steady
  /\ SettleGivesQuality

\* The tables are empty until they are read.  The PAT is this mux's if its filter
\* was armed again, the PMTs are in any case.
PatInv ==
  /\ phase \in Reading => \A f \in Filters \ failed : heard[f] = {mux}
  /\ phase \notin {"pmt", "vct", "join"} => pat = {}
  /\ phase \notin {"vct", "join"} =>
       pmts = {} /\ vct = <<>> /\ seen = {} /\ attempts = 0
  /\ \A e \in pat : e.program # 0 /\ ("pat" \notin failed => e \in Range(Air[mux].pat))
  /\ \A p \in pmts : \E e \in Range(Air[mux].pat) :
       /\ e.program # 0 /\ p.streams = Air[mux].pmt[e.program]
       /\ "pat" \notin failed => p.program = e.program

\* Every entry comes from a section that has been seen, and comes once, if the
\* filter was armed again.
VctInv ==
  /\ vct \in Seq(AllEntries)
  /\ "vct" \notin failed =>
       /\ mux # None => seen \subseteq DOMAIN Air[mux].vct
       /\ \A i \in DOMAIN vct : \E s \in seen :
            \E j \in DOMAIN Air[mux].vct[s] : vct[i] = Air[mux].vct[s][j]
  /\ EntryOnce /\ NoWaitWhenComplete

RowInv == (rows # {} => phase = "idle") /\ RowsOfThisMux

IInv == TypeOK /\ WaitInv /\ SampleInv /\ PatInv /\ VctInv /\ RowInv
=============================================================================
