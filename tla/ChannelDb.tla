----------------------------- MODULE ChannelDb -----------------------------
(***************************************************************************)
(* The virtual channel database (dvb_channel.c): a table that the startup  *)
(* scan and the scan workers of all tuners extend and update (dvb_scan.c), *)
(* that HTTP pulls keep pointers into (http_server.c), and that is saved   *)
(* to a cache file and loaded from it when the program starts (main.c).    *)
(*                                                                         *)
(* A critical section under g_lock is one action.  A row is reduced to its *)
(* major.minor and its mux; PIDs, names and the transport stream id change *)
(* together with the mux.  A pointer into g_channels is an index.          *)
(*                                                                         *)
(* The cache file is a sequence of lines, as far as it is sound: when two  *)
(* saves have it open at the same time, each with an offset of its own,    *)
(* what it holds afterwards is left open, and so is what a load makes of   *)
(* it.  A line that is cut off by a crash in the middle of a flush is the  *)
(* last one; dvb_channel_db_load stops there, as at the end of the file.   *)
(***************************************************************************)
EXTENDS Naturals, Sequences, FiniteSets

CONSTANTS
  Keys,      \* major.minor numbers
  Muxes,     \* frequencies
  Programs,  \* program numbers
  Pat,       \* the programs of each mux
  Vct,       \* the virtual channel table of each mux: a sequence of entries
  Qam,       \* the muxes that are tuned with QAM
  RawKey,    \* RawKey[f][n]: the number given to program n of f without a CVCT
  MaxRows,   \* DVB_CHANNEL_MAX
  Scanners,  \* the startup scan and the scan workers, at most one per tuner
  Slots,     \* tuners that serve HTTP pulls
  Faults,    \* "fopen": the cache file may not be writable
  None

Entries == [key : Keys, program : Programs, hidden : BOOLEAN]

Rows == [key : Keys, freq : Muxes]

ASSUME ChannelDbAssumption ==
  /\ MaxRows \in Nat /\ IsFiniteSet(Programs)
  /\ Pat \in [Muxes -> SUBSET Programs]
  /\ Vct \in [Muxes -> Seq(Entries)]
  /\ Qam \subseteq Muxes
  /\ RawKey \in [Muxes -> [Programs -> Keys]]
  /\ Faults \subseteq {"fopen"}
  /\ None \notin Keys \cup Rows

VARIABLES
  rows,     \* g_channels[0 .. g_count - 1]
  lines,    \* the cache file, while it is sound
  sound,    \* no two saves have overlapped since it was last truncated
  booting,  \* main() is loading the cache; no other thread runs yet
  loaded,   \* lines read so far
  unsaved,  \* history: a save could not open the file
  spc,      \* scanners: "off", "scan", "fopen", "write", "close"
  found,    \* what dvb_scan_read_psip is still to add
  buf,      \* what the file will hold when a save has flushed everything
  upc,      \* HTTP pulls: "off", "bind", "stream"
  want,     \* the channel asked for
  ptr,      \* dvb_find_channel's result
  sel,      \* the slot's vch_* and tuned_frequency_hz
  own       \* history: sel was written by the slot's HTTP pull

fileVars == <<lines, sound, unsaved>>
bootVars == <<booting, loaded>>
scanVars == <<spc, found, buf>>
pullVars == <<upc, want, ptr, sel, own>>
vars == <<rows, fileVars, bootVars, scanVars, pullVars>>

Init ==
  /\ rows = <<>>
  /\ lines = <<>> /\ sound = TRUE /\ unsaved = FALSE
  /\ booting = TRUE /\ loaded = 0
  /\ spc = [s \in Scanners |-> "off"] /\ found = [s \in Scanners |-> <<>>]
  /\ buf = [s \in Scanners |-> <<>>]
  /\ upc = [u \in Slots |-> "off"] /\ want = [u \in Slots |-> None]
  /\ ptr = [u \in Slots |-> 0] /\ sel = [u \in Slots |-> None]
  /\ own = [u \in Slots |-> FALSE]

----------------------------------------------------------------------------
(* The table *)

Row(k, f) == [key |-> k, freq |-> f]

Has(t, k) == \E i \in 1..Len(t) : t[i].key = k

\* Mutant: the bound is one too high.
AddOverflows(t, r) ==
  IF Has(t, r.key) THEN [i \in 1..Len(t) |-> IF t[i].key = r.key THEN r ELSE t[i]]
  ELSE IF Len(t) <= MaxRows THEN Append(t, r)
  ELSE t

\* Mutant: a channel that is already there is added again.
AddTwice(t, r) == IF Len(t) < MaxRows THEN Append(t, r) ELSE t

\* dvb_channel_db_add: updated in place, appended, or dropped when it is full.
Add(t, r) ==
  IF Has(t, r.key) THEN [i \in 1..Len(t) |-> IF t[i].key = r.key THEN r ELSE t[i]]
  ELSE IF Len(t) < MaxRows THEN Append(t, r)
  ELSE t

----------------------------------------------------------------------------
(* Start: dvb_channel_db_load *)

\* One line.  Of a file that two saves wrote at once, any row may come.
LoadLine ==
  /\ booting
  /\ IF sound THEN /\ loaded < Len(lines)
                   /\ rows' = Add(rows, lines[loaded + 1])
                   /\ loaded' = loaded + 1
     ELSE /\ \E r \in Rows : rows' = Add(rows, r)
          /\ UNCHANGED loaded
  /\ UNCHANGED <<fileVars, booting, scanVars, pullVars>>

\* The end of the file, or a malformed line.  The other threads are started.
Started ==
  /\ booting
  /\ sound => loaded = Len(lines)
  /\ booting' = FALSE
  /\ UNCHANGED <<rows, fileVars, loaded, scanVars, pullVars>>

\* The process ends, by /sys/restart or otherwise, and is started again.  exit()
\* flushes what a save has not; a crash does not.
Restart ==
  /\ ~booting
  /\ \/ UNCHANGED lines
     \/ \E s \in Scanners : sound /\ spc[s] = "close" /\ lines' = buf[s]
  /\ rows' = <<>> /\ booting' = TRUE /\ loaded' = 0 /\ unsaved' = FALSE
  /\ spc' = [s \in Scanners |-> "off"] /\ found' = [s \in Scanners |-> <<>>]
  /\ buf' = [s \in Scanners |-> <<>>]
  /\ upc' = [u \in Slots |-> "off"] /\ want' = [u \in Slots |-> None]
  /\ ptr' = [u \in Slots |-> 0] /\ sel' = [u \in Slots |-> None]
  /\ own' = [u \in Slots |-> FALSE]
  /\ UNCHANGED sound

----------------------------------------------------------------------------
(* Scans: scan_thread_main and channel_scan_thread_main, dvb_scan_read_psip *)

\* Mutant: the table is cleared first, as dvb_scan_run does.
BeginScanClears(s) ==
  /\ ~booting /\ spc[s] = "off"
  /\ spc' = [spc EXCEPT ![s] = "scan"]
  /\ rows' = <<>>
  /\ UNCHANGED <<fileVars, bootVars, found, buf, pullVars>>

BeginScan(s) ==
  /\ ~booting /\ spc[s] = "off"
  /\ spc' = [spc EXCEPT ![s] = "scan"]
  /\ UNCHANGED <<rows, fileVars, bootVars, found, buf, pullVars>>

\* The orders in which sections may arrive.
Orders(S) ==
  {q \in [1..Cardinality(S) -> S] : \A i, j \in DOMAIN q : q[i] = q[j] => i = j}

\* read_pmts_concurrent: the programs whose PMT arrived in time, as they came.
PmtReads(f) == UNION {Orders(S) : S \in SUBSET Pat[f]}

\* Of the table entries that read_vct got, those that dvb_scan_read_psip lists:
\* not hidden, and with a PMT.
Listed(f, got, pmts) ==
  {i \in got : ~Vct[f][i].hidden /\ \E j \in DOMAIN pmts : pmts[j] = Vct[f][i].program}

\* dvb_scan_read_psip's rows: one per listed entry or, on a QAM mux of which no
\* table was read, one per program under a made-up number.
FoundRows(f, got, pmts) ==
  IF got # {}
  THEN {[i \in DOMAIN q |-> Row(Vct[f][q[i]].key, f)] : q \in Orders(Listed(f, got, pmts))}
  ELSE IF f \in Qam THEN {[i \in DOMAIN pmts |-> Row(RawKey[f][pmts[i]], f)]}
  ELSE {<<>>}

\* Whatever part of the tables of a mux arrives in time.
PsipFinds ==
  [f \in Muxes |->
     UNION {FoundRows(f, got, pmts) : got \in SUBSET (1..Len(Vct[f])), pmts \in PmtReads(f)}]

\* A mux is tuned, locks, and its tables are read.  One that does not lock, or
\* has no PAT, changes nothing.
ReadPsip(s, f) ==
  /\ spc[s] = "scan" /\ found[s] = <<>>
  /\ \E new \in PsipFinds[f] : found' = [found EXCEPT ![s] = new]
  /\ UNCHANGED <<rows, fileVars, bootVars, spc, buf, pullVars>>

AddFound(s) ==
  /\ spc[s] = "scan" /\ found[s] # <<>>
  /\ rows' = Add(rows, Head(found[s]))
  /\ found' = [found EXCEPT ![s] = Tail(@)]
  /\ UNCHANGED <<fileVars, bootVars, spc, buf, pullVars>>

\* The band is through, or the pending queue is drained.
EndScan(s) ==
  /\ spc[s] = "scan" /\ found[s] = <<>>
  /\ spc' = [spc EXCEPT ![s] = "fopen"]
  /\ UNCHANGED <<rows, fileVars, bootVars, found, buf, pullVars>>

----------------------------------------------------------------------------
(* dvb_channel_db_save *)

Saving(s) == spc[s] \in {"write", "close"}

\* fopen(path, "w") truncates the file.
SaveOpen(s) ==
  /\ spc[s] = "fopen"
  /\ lines' = <<>> /\ sound' = \A q \in Scanners : ~Saving(q)
  /\ spc' = [spc EXCEPT ![s] = "write"]
  /\ UNCHANGED <<rows, unsaved, bootVars, found, buf, pullVars>>

SaveFails(s) ==
  /\ spc[s] = "fopen" /\ "fopen" \in Faults
  /\ unsaved' = TRUE
  /\ spc' = [spc EXCEPT ![s] = "off"]
  /\ UNCHANGED <<rows, lines, sound, bootVars, found, buf, pullVars>>

\* Mutant: the last row is left out.
SaveWriteShort(s, n) ==
  /\ spc[s] = "write"
  /\ n < Len(rows)
  /\ buf' = [buf EXCEPT ![s] = SubSeq(rows, 1, Len(rows) - 1)]
  /\ lines' = IF sound THEN SubSeq(rows, 1, n) ELSE <<>>
  /\ unsaved' = FALSE
  /\ spc' = [spc EXCEPT ![s] = "close"]
  /\ UNCHANGED <<rows, sound, bootVars, found, pullVars>>

\* The rows are printed under g_lock; n of them go past the stream's buffer.
SaveWrite(s, n) ==
  /\ spc[s] = "write"
  /\ n <= Len(rows)
  /\ buf' = [buf EXCEPT ![s] = rows]
  /\ lines' = IF sound THEN SubSeq(rows, 1, n) ELSE <<>>
  /\ unsaved' = FALSE
  /\ spc' = [spc EXCEPT ![s] = "close"]
  /\ UNCHANGED <<rows, sound, bootVars, found, pullVars>>

\* Mutant: what was flushed already is written again.
SaveCloseTwice(s) ==
  /\ spc[s] = "close"
  /\ lines' = IF sound THEN lines \o buf[s] ELSE <<>>
  /\ buf' = [buf EXCEPT ![s] = <<>>]
  /\ spc' = [spc EXCEPT ![s] = "off"]
  /\ UNCHANGED <<rows, sound, unsaved, bootVars, found, pullVars>>

\* fclose flushes the rest.
SaveClose(s) ==
  /\ spc[s] = "close"
  /\ lines' = IF sound THEN buf[s] ELSE <<>>
  /\ buf' = [buf EXCEPT ![s] = <<>>]
  /\ spc' = [spc EXCEPT ![s] = "off"]
  /\ UNCHANGED <<rows, sound, unsaved, bootVars, found, pullVars>>

----------------------------------------------------------------------------
(* HTTP pulls: stream_channel_to_client, and control SETs on the same tuner *)

\* dvb_find_channel returns a pointer into the table, or the reply is 404.
FindChannel(u, i) ==
  /\ ~booting /\ upc[u] = "off"
  /\ i \in 1..Len(rows)
  /\ want' = [want EXCEPT ![u] = rows[i].key] /\ ptr' = [ptr EXCEPT ![u] = i]
  /\ upc' = [upc EXCEPT ![u] = "bind"]
  /\ UNCHANGED <<rows, fileVars, bootVars, scanVars, sel, own>>

PullEnds(u) ==
  /\ upc' = [upc EXCEPT ![u] = "off"]
  /\ want' = [want EXCEPT ![u] = None] /\ ptr' = [ptr EXCEPT ![u] = 0]

\* The tuner is busy, or dvb_stream_open fails.
PullFails(u) ==
  /\ upc[u] = "bind"
  /\ PullEnds(u)
  /\ UNCHANGED <<rows, fileVars, bootVars, scanVars, sel, own>>

\* tuner_bind_channel reads the row.
BindChannel(u) ==
  /\ upc[u] = "bind"
  /\ sel' = [sel EXCEPT ![u] = rows[ptr[u]]] /\ own' = [own EXCEPT ![u] = TRUE]
  /\ upc' = [upc EXCEPT ![u] = "stream"]
  /\ UNCHANGED <<rows, fileVars, bootVars, scanVars, want, ptr>>

\* release_http_pull reads it again, to see whether the selection is its own.
ReleaseHttpPull(u) ==
  /\ upc[u] = "stream"
  /\ IF sel[u] = rows[ptr[u]]
     THEN sel' = [sel EXCEPT ![u] = None] /\ own' = [own EXCEPT ![u] = FALSE]
     ELSE UNCHANGED <<sel, own>>
  /\ PullEnds(u)
  /\ UNCHANGED <<rows, fileVars, bootVars, scanVars>>

\* A vchannel SET, channel=none or a channelmap SET.
Select(u) ==
  /\ ~booting
  /\ \/ \E i \in 1..Len(rows) : sel' = [sel EXCEPT ![u] = rows[i]]
     \/ sel' = [sel EXCEPT ![u] = None]
  /\ own' = [own EXCEPT ![u] = FALSE]
  /\ UNCHANGED <<rows, fileVars, bootVars, scanVars, upc, want, ptr>>

----------------------------------------------------------------------------

Next ==
  \/ LoadLine \/ Started \/ Restart
  \/ \E s \in Scanners :
       \/ BeginScan(s) \/ AddFound(s) \/ EndScan(s)
       \/ \E f \in Muxes : ReadPsip(s, f)
       \/ SaveOpen(s) \/ SaveFails(s) \/ SaveClose(s)
       \/ \E n \in 0..MaxRows : SaveWrite(s, n)
  \/ \E u \in Slots :
       \/ \E i \in 1..MaxRows : FindChannel(u, i)
       \/ PullFails(u) \/ BindChannel(u) \/ ReleaseHttpPull(u) \/ Select(u)

Spec == Init /\ [][Next]_vars

----------------------------------------------------------------------------
(* Properties *)

\* Type invariant: the table stays within DVB_CHANNEL_MAX rows, and pointers,
\* file and program points are in range.
TypeOK ==
  /\ rows \in Seq(Rows) /\ Len(rows) <= MaxRows
  /\ lines \in Seq(Rows) /\ sound \in BOOLEAN /\ unsaved \in BOOLEAN
  /\ booting \in BOOLEAN /\ loaded \in Nat
  /\ spc \in [Scanners -> {"off", "scan", "fopen", "write", "close"}]
  /\ found \in [Scanners -> Seq(Rows)] /\ buf \in [Scanners -> Seq(Rows)]
  /\ upc \in [Slots -> {"off", "bind", "stream"}]
  /\ want \in [Slots -> Keys \cup {None}] /\ ptr \in [Slots -> Nat]
  /\ sel \in [Slots -> Rows \cup {None}] /\ own \in [Slots -> BOOLEAN]

\* dvb_channel.h: repeated scans, of any number of tuners, and loads do not
\* accumulate rows for the same major.minor.
Unique(t) == \A i, j \in 1..Len(t) : t[i].key = t[j].key => i = j

KeysUnique == Unique(rows)

\* A pointer that dvb_find_channel handed out stays on the channel that was
\* asked for for as long as a pull uses it, whatever scans do meanwhile.
PointerKeepsKey ==
  \A u \in Slots :
    upc[u] # "off" => /\ ptr[u] \in 1..Len(rows)
                      /\ rows[ptr[u]].key = want[u]

\* The table under concurrent scans: within its bounds, without duplicates, and
\* with every pointer that was handed out still on its channel (dvb_channel.c).
TableSound == TypeOK /\ KeysUnique /\ PointerKeepsKey

\* The program's threads run only after the load.
BootInv ==
  booting => /\ \A s \in Scanners : spc[s] = "off"
             /\ \A u \in Slots : upc[u] = "off"

\* What is in the cache, or about to be, is a table: within bounds and without
\* duplicates.  While it is sound, at most one save has it open.
IsTable(t) == Unique(t) /\ Len(t) <= MaxRows

FileInv ==
  /\ IsTable(lines)
  /\ \A s \in Scanners : spc[s] = "close" => IsTable(buf[s])
  /\ sound => \A s, q \in Scanners : Saving(s) /\ Saving(q) => s = q

\* Either the cache is complete and closed, or some scan is still to save, or a
\* save has yet to flush what is the present table.
CacheInv ==
  ~booting /\ sound /\ ~unsaved =>
    \/ lines = rows /\ \A s \in Scanners : ~Saving(s)
    \/ \E s \in Scanners : spc[s] \in {"scan", "fopen", "write"}
    \/ \E s \in Scanners : spc[s] = "close" /\ buf[s] = rows

\* A restart gives back the table that was saved: the same channels in the same
\* order, none merged and none dropped, if no two saves overlapped.
LoadGivesBack ==
  booting /\ sound => /\ loaded <= Len(lines)
                      /\ rows = SubSeq(lines, 1, loaded)

\* control.c: what any scan has found persists across the next restart.  When
\* no scan is under way the cache holds the whole table, unless a save could not
\* open it or two saves overlapped.
CacheComplete ==
  ~booting /\ sound /\ ~unsaved /\ (\A s \in Scanners : spc[s] = "off")
    => lines = rows

\* The inductive invariant.
IInv == /\ TypeOK /\ KeysUnique /\ PointerKeepsKey /\ BootInv /\ FileInv
        /\ LoadGivesBack /\ CacheInv
=============================================================================
