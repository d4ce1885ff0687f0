# hdhr-emu in TLA+

hdhr-emu is one process that makes DVB adapters look like an HDHomeRun network
tuner: it answers discovery and GETSET control requests, tunes frontends, scans
for channels, and streams transport packets over HTTP and UDP.  Nearly all of
its difficulty is in the sharing of one *tuner slot* (a `struct hdhr_tuner` and
the DVB frontend behind it), and of one channel database, between threads that
are started by clients and by timers.  These modules model that sharing, what is
selected and streamed, how a scan comes by its channels, and the wire protocols;
TLC checks them on small instances, and TLAPS proves every safety property the
passing runs check, and both refinements, for every instance.

Source paths below are relative to the repository root.

## 1. Inventory

| part | source | state | operations | hard behaviours |
|---|---|---|---|---|
| tuner slot | `src/tuner.c`, `tuner.h` | `busy`, `held_fd`, `parked_fd`, `active_stream`, `tuned_frequency_hz`/`tuned_delivery`, `vch_*`, `park_generation`, held-stats thread handle and flags; one mutex, `free_cond` | claim (try, fast, wait), set_stream, release, release_park, open/close hold, bind | the frontend fd moves between owners across critical sections; thread joins outside the lock; timers of older parks; failing opens and thread starts |
| channel SET, scan worker | `src/control.c` 750-1162, 1237-1615 | `scan_worker_active`, `scan_generation`, `pending_queue` ring, `last_attempt_*`, `status`, `claim_waiters`; `pending_cond`, `result_cond` | SET channel / channelmap / vchannel, worker loop | two deadlines racing results, a queue handed from connection threads to a worker that is about to leave, generations that change under a running worker |
| control dispatch | `src/control.c` 282-747, 1617-1818 | none of its own | GET and SET handlers, one thread per connection | reads of tuner fields outside the lock |
| HTTP server, pool | `src/http_server.c`, `tuner.c` 532-541 | `http_peer_addr` | pull on a given tuner or on any free one, client affinity | a client's new request races the release of its old one |
| UDP push | `src/udp_stream.c` | `target`, `udp_push_active`, `udp_push_stop_requested`, `udp_push_generation` | start, stop, push thread | stop gives up after 2 s; a new start resets the flag the old thread polls; three exits that do not reset `target` |
| keepalive | `src/keepalive.c` | `keepalive_match_*`, `last_keepalive_time` | listener, sweep | reclaiming a push that a client has just restarted |
| stream pipeline | `src/dvb_stream.c` | demux fds, ring buffer, `closing`, cached stats | open, read, reader thread, stats thread, teardown | producer and consumer blocked on a ring during teardown |
| startup scan | `src/main.c` 99-155 | none | claims tuner 0 once and walks the band | holds the claim for a minute or more |
| channel database | `src/dvb_channel.c`, `dvb_scan.c` | table under `g_lock`, cache file | add/merge, find, save, load | pointers into the table used after unlock; save while a scan adds; a cache truncated in place, restarts and overlapping saves |
| selection | `control.c` 1164-1671, `tuner.c` 543-574, `udp_stream.c` 201-368, `http_server.c` 285-302 | `channelmap`, `channel`, `tuned_frequency_hz`, `tuned_delivery`, `vch_*`, `program`, `filter_override` | SETs, bind, the push's choice of what to send, release of a pull | a dozen writers, some of them in several critical sections; one piece of code shows what another one opens |
| PID filter | `pid_filter.c`, `dvb_stream.c` 117-189, 378-445 | none | parse, count, format, open demux filters | slots at their limit, PIDs named twice |
| one scan attempt | `dvb_scan.c`, `dvb_frontend.c` 194-235, `mpeg_section.c`, `psip.c` | demux filters kept across retunes, tables read so far | tune, wait for lock, rearm, read PAT, PMTs and VCT, join | ioctls that block, late and repeated sections, arrays at their limit |
| signal statistics | `dvb_frontend.c` 244-600 | windowed legacy counter | sampling, scaling | a counter that stands still, windows shorter than their minimum |
| frequency plans | `channel_map.c`, `atsc_freq.c`, `control.c` 622-747 | none | number to frequency and back, channel values | ranges that meet or overlap |
| packet codec, device id | `hdhr_pkt.c`, `device_id.c` | none | frames, TLVs, variable lengths, checksum | the second length byte, lengths past the end |
| control connection, getset client | `control.c` 183-214, 1697-1870, `getset_client.c` | one buffer on either side | read a frame, serve, reply | reads of any size, frames passed over, peers that go |
| discovery | `discovery.c` | none | datagram and answer | other daemons on the same port |
| web UI, config | `web_ui.c`, `config.c` | none that changes after start | routes, options | - |

Threads: discovery, the control and HTTP accept loops with one thread per
connection, the keepalive listener, the startup scan; per tuner at most one
held-stats refresher, one scan worker, some pushes and some park-expiry timers;
per stream a reader and a stats thread.  They meet in the tuner slot and in the
channel database.  The kernel allows one read/write opener of a frontend.

What makes each part correct:

* **slot**: one owner of the frontend fd at any time, none closed twice, none
  leaked on any error path; one owner of the claim; the refresher never reads an
  fd that somebody may close; a parked fd always has its own live timer; a bound
  stream is on its mux; no sleeping waiter is forgotten; joins and releases end.
* **channel SET**: the ring is a FIFO; one worker at a time and only under the
  claim; a worker never sleeps over work; results of an ended session are not
  shown; every SET is replied to and every worker ends.
* **UDP push, keepalive**: the newest push owns the `active` flag; a stopped push
  stops; `target` says what is pushed.
* **stream pipeline**: packets in order, teardown always ends.
* **pool and affinity**: a tuner is leased to one user at a time, a client
  changing channels keeps one tuner, nobody is refused past a free one.
* **selection**: the fields name one selection; what is shown is what is streamed;
  a stream keeps its selection and a pull takes its own away again.
* **scan attempt**: it ends within its budget, and what it adds is what is
  broadcast on the frequency it is added under; published quality was measured.
* **wire**: a connection never loses its place, answers are the right ones,
  discovery answers exactly what is addressed to it.
* **channel database**: no duplicates, a reload gives back what was saved.

## 2. Modules

| module | models | notes |
|---|---|---|
| `Tuner` | one slot, its frontend, refresher, park timers; HTTP pulls, UDP pushes, startup scan, scan workers, vchannel SET, channel=none | proved about in `TunerProofs` |
| `ChannelScan` | raw channel SETs, worker, queue, sessions, waiting connections | proved about in `ChannelScanProofs` |
| `UdpPush` | target SETs, `udp_push_start`/`stop`, push threads, keepalive listener and sweep | proved about in `ControlProofs` |
| `BytePipe` | abstract: a bounded FIFO of numbered bytes | what `StreamRing` implements |
| `StreamRing` | one `struct dvb_stream`: reader, ring, consumer, stats thread, status requests, teardown | proved about in `StreamRingProofs` |
| `ChannelDb` | the channel table, scans, cache file, boot and restart, HTTP pulls' pointers | proved about in `ChannelDbProofs` |
| `Lease` | abstract: slots that have one owner or none | what `HttpPool` implements |
| `HttpPool` | requests for a tuner or for any, affinity, other users of the claim | proved about in `HttpPoolProofs` |
| `ChannelMap` | the frequency plans and `parse_channel_value` | operators, used by `MuxScan`, `Selection` |
| `MuxScan` | attempts on one frequency after another: lock, samples, tables, rows | proved about in `MuxScanProofs` |
| `PidFilter` | filter text and the demux filters of a stream | operators, used by `Selection` |
| `Selection` | the selection of one tuner and all its writers | proved about in `SelectionProofs` |
| `Packet` | frames, TLVs, device id | operators, used by `Wire` |
| `Wire` | control connections, the getset client, discovery | proved about in `ControlProofs` |
| `MC...` | instances for TLC | |

`Tuner` is the only module that knows the frontend as a device that is opened
and closed; the others see the slot as a claim (`ChannelScan`, `UdpPush`,
`HttpPool`), as the pointer `t->active_stream` (`StreamRing`) or as its selection
(`Selection`, `ChannelDb`).  `MuxScan` is what happens inside one scan of
`ChannelScan`, `Tuner` and `ChannelDb`; there its outcome is a choice.  `Wire` is
how a SET gets to `ChannelScan`, `UdpPush` and `Selection`.  Every definition that
stands for code is listed with its lines in `PROJECT.json`, "map".

### Tuner

One variable per field of the slot, plus the kernel's view of the device
(`open_fds`, `rf`) and, per thread, a program counter, its current operation and
the three fds it may have in its own hands (`fd`, `hfd`, `pfd`: its frontend, a
held fd and a parked fd it detached).  A critical section under `t->lock` is one
action; opening, tuning and closing the frontend and `pthread_join` are actions
of their own.  Names follow the code: `Claim` is the successful section of
`tuner_try_claim` and `tuner_try_claim_wait`, `StopStats`/`JoinStats`/
`ForgetStats` are `stop_held_stats_thread`, `Park`/`ParkFd`/`StartTimer` are
`tuner_release_park`, `EnterHold`/`OpenHold`/`TuneHold`/`InstallHold` are
`tuner_open_hold` and `tuner_open_hold_from_fd`, and so on (`PROJECT.json`, "map").

Abstractions: generations are only compared for equality, so `scan_generation`
and `park_generation` are represented by whose generation is current (`session`,
`park_current`); this also means 32-bit wrap-around of the counters is out of
scope.  All muxes have one delivery system here.  `Faults` selects which calls
may fail, `Clients` which operations clients ask for.  `EndStream`, `ScanTune`
and `ScanDone` are choices of the environment: a client may stream, and a scan
may go on, for ever.  An HTTP pull refused because the tuner is busy changes
nothing and is not an action.

### ChannelScan

Connection threads go through `handle_tuner_set`'s channel branch (claim, queue
or refuse, or open a session and spawn a worker, wait, reply); the worker
through `channel_scan_thread_main`; takers through `tuner_try_claim_wait`, which
is what `claim_waiters` is about.  Generations are numbers here, since they are
waited for.  The status string is reduced to what is told apart: nothing, a
selection, the placeholder of a pending SET, a result.  `outstanding` is a
history variable, the FIFO the ring is compared with.  The bound `MaxOps` is on
the SETs that start or end a session (each may bump `scan_generation`).

### UdpPush

Control connections and the keepalive listener run `udp_push_stop` (ask, then
poll for at most two seconds), then go on to whatever SET they are serving;
pushes are detached threads tied to the slot only by `udp_push_active`,
`udp_push_stop_requested` and `udp_push_generation`.  The poll of
`udp_push_stop` changes nothing and may end with the flag up or down, so it is
merged with the request: the caller's next step comes at any later moment.  The
generation is represented by `current`, the push that was started with its
present value, and `last_keepalive_time` by `fresh`.  Lookups in the channel
database, in the last lock attempt and in `/tunerN/program` have both outcomes.
`Other` is any other user of the claim.

### StreamRing and BytePipe

`Capture`/`Copy`/`CopyWaits`/`CopyDrops` are `reader_thread_main`, `Read` and
`ReadWaits` `dvb_stream_read`, `Teardown` to `Free` `stream_teardown`.  A thread
asleep on a condition variable takes no step until a signal of another makes it
runnable, so a missing signal shows as a thread that stays asleep.  Bytes are
numbered as they are captured, modulo `K`, which is larger than what is ever
under way.  A chunk may be copied in pieces over the end of the ring.
`Pipe == INSTANCE BytePipe WITH q <- Oldest(fill)` maps the bytes between tail and
head to the contents of the abstract pipe; `IsPipe` says that every step is a
step of it.  Status requests hold `t->lock` for as long as they are inside the
stream, so only the detach has to wait for them.

### ChannelDb

A critical section under `g_lock` is one action.  A row is its major.minor and
its mux: these decide the merge, the order in the table and what
`release_http_pull` compares; PIDs, names and transport stream ids change with
them.  A pointer into the table is an index, as rows are never removed or
moved.  Rows are read through such pointers without the lock; since the number
of a row never changes and the frequency is one word, such a read gives the row
before or after an update, which the interleaving covers.  A scan reads any
part of the tables of any mux: some of the PMTs in any order, some of the
virtual channel table, or nothing (`PsipFinds`); a cable mux without a table
gives made-up numbers.  The cache file is a sequence of lines as long as at most
one save has had it open (`sound`): `SaveOpen` truncates it, `SaveWrite` lets
any number of lines past the stdio buffer, `SaveClose` flushes the rest; a
restart comes between any two of these.  After two saves have overlapped its
contents are left open until one has it to itself.  Boot loads the file line by
line before any other thread runs.

### HttpPool and Lease

A connection goes through `stream_channel_to_client`: an `/auto/` request looks
at one tuner after another for one that is still its client's (`Look`), waits for
it (`ClaimAwaited`, `WaitTimeout`), or takes the first free one (`Sweep`); a
`/tunerN/` request takes that one or none (`Take`).  The address of the client is
written in a section of its own (`NotePeer`) and cleared with the claim.  Pushes
and scans are `Others`.  `free_since`, `own_since` and `gave_up` are history
variables: which tuners have been free, or its client's, ever since a request
came.  `Pool == INSTANCE Lease WITH owner <- Owner` maps the slots to their owners.

### MuxScan and ChannelMap

`Ask` takes a channel value: any map, prefix and number; `Tune`, `Poll`,
`Publish` and `Turn` are the loop of `dvb_frontend_wait_lock` with its progress
callback, `Settle1`/`Settle2` the pause after a lock, `Rearm` to `Join`
`dvb_scan_read_psip`.  The receiver is external: each status read finds a lock or
not, each ioctl may block (`Blocked`), and the buffer of an armed filter may hold
sections of every mux that was tuned in since it was armed (`heard`).  `Rearm` may
fail for either filter, which the code does not look at: it reads on, and the
filter still holds what it held.  `failed`, a history variable, keeps which
filters that were.  `TablesSound` says what each failure can spoil: rows are this
mux's if both filters were armed again; with the PAT's filter alone, the program
and its PIDs are this mux's; with the virtual channel table's alone, the number and
the program go together on this mux; with neither, the PIDs are still some
program's of this mux, as PMT filters are opened anew.  A mux is
its PAT, its PMTs and the sections of its virtual channel table; muxes share
program numbers and PIDs, as real ones do.  That the programs of one mux have PMT
PIDs of their own is assumed, as `dvb_scan.c` does, and that a virtual channel
table lists a channel once.  Of the PAT's order only the cut at `PatMax` matters,
so `pat` is a set.  A mux without a virtual channel table keeps `read_vct` waiting
for its timeout, so `NoWaitWhenComplete` speaks of a table of which something has
been read.  Time is in ticks.

### Selection and PidFilter

All the SETs of `handle_tuner_set` that write the selection, each with the critical
sections it has; a push from its snapshot (`TakeSnapshot`) over the choice between
virtual channel, raw frequency and siblings (`Chosen`) to its bind; a pull with
`release_http_pull`; and the scan worker as far as it claims, adds rows and
publishes locks.  The channel table is part of the state: `table` gives each channel
its row of now, the worker (`ReadPsip`) and the scans of other tuners and of the
startup (`OtherScan`) rewrite it one row at a time (`Store`), and the threads that
have a pointer into it (a vchannel SET, a push until it copies the row, a pull to
its end) read the row when the code does.  So a scan can find a channel on a second
mux between the bind of a pull and its release; `PullForgets` compares with the row
as it is then.  `moved` is a history variable: a scan has put the selected channel
on another frequency than the selection, or the stream it was bound for, has. 
`PullLeavesIdle` and `RawNeverUnderStream` name it as their one exception, and TLC
reaches it (section 5).  As in `ChannelDb`, a read of a row while it is rewritten
gives the old or the new row.  Rows are records with their real PIDs, and `OpenPids`
gives the sequence of PIDs `dvb_stream_open` opens demux filters for.  A program is
kept as an `int` and cast to `uint16_t` where it is compared with a row's
(`ProgramNumber`), so 65539 stands for program 3.  At most one push exists, so the
two seconds after which `udp_push_stop` gives up on an old push are `UdpPush`'s
matter.  `by` says what wrote the selection last.

### Wire and Packet

Bytes are real as far as lengths go: a frame is a sequence of bytes with a tagged
CRC, written by `seal_frame` and cut and parsed again by the reading side, which
gets it in pieces of any size.  A length byte holds 4 values instead of 128, so
that values of a few characters lie on both sides of the second length byte.  The
CRC is ideal: it equals the bytes it covers.  A script is a sequence of frames,
good ones, ones that are passed over (another type, no name), and ones that end
the connection; `Meant` reads off the records, not off the bytes, what a script
asks for.  Discovery keeps no state, so a behaviour has a connection or a datagram.
A daemon has a configuration: the clock's seed, from which `config_defaults`
generates an id, and the id of the file, if it has one, which `config_load` takes
as it is (`main.c` only warns of one that fails the checksum).  That id is what
requests are compared with and what the answer announces.

## 3. Runs

| run | instance | states | shows |
|---|---|---|---|
| `tuner` | 2 threads, 2 timers, 2 descriptor numbers, 2 channels on 2 muxes, all operations, all faults | 1.2 M | `FrontendOwned`, `ClaimExclusive`, `RefresherSafe`, `StreamOnItsMux`, `NoLostWakeup` |
| `tuner_live` | 2 threads, 1 timer, 1 mux, thread starts may fail | 69 k | `WaitsEnd`: parks expire, joins and releases end |
| `channel_scan` | 2 connections, 1 taker, 2 frequencies, ring of 2, 5 operations | 2.2 M | `RingIsFifo`, `SoleWorker`, `WorkerAlert`, `NoneStaysNone` |
| `channel_scan_live` | the same with 1 frequency and 3 operations | 53 k | `WorkerEnds`, `SetsReplied` |
| `udp_push` | 1 connection, listener, 2 pushes, another user, all faults | 0.5 M | `FieldsAreNewest`, `ClaimIsPush`, `UnwantedPushEnds` |
| `stream_ring` | ring of 4, chunks and reads of up to 3, 2 status requests | 31 k | `IsPipe`, `NoSleeperForgotten`, `StreamSafe`, `TeardownEnds` |
| `channel_db` | 2 scanners, 1 pull, 3 channel numbers on 2 muxes, table of 2, `fopen` may fail | 2.0 M | `TableSound`, `LoadGivesBack`, `CacheComplete` |
| `http_pool` | 2 tuners, 2 connections, 2 client addresses, 2 other users | 65 k | `IsLease`, `Affinity`, `RefusedOnlyWhenBusy`, `RequestAnswered` |
| `mux_scan` | 2 muxes, all maps with the ends of all their ranges and the numbers next to them, arrays of 2 and 3, 4 reads of the table, rearms may fail | 177 k | `TablesSound`, `NumberNamesFrequency`, `AttemptInTime`, `SettleGivesQuality`, `QualityEarned` |
| `selection` | 2 connections (symmetric), 2 maps, 3 channel values, 2 channels, one of them found on 2 muxes, scans of other tuners, 7 filters, 6 demux slots, 4 SETs | 2.8 M | `SelectionSound`, `FilterShowsStream`, `FiltersFit`, `RawNeverUnderStream`, `PullLeavesIdle` |
| `wire` | 14 frames in scripts of 1 to 4, 200 datagrams, 24 seeds and 3 configured ids | 49 k | `StreamInStep`, `AnswersMatch`, `DiscoverAddressed`, `BothEnd` |
| `raw_push_delivery` | as `selection` | violation | a raw push tunes with the delivery system of an earlier selection |

Several properties are conjunctions of named parts, each with its own comment in
its module (and, where there is one, its own theorem), and a mutant breaks each
conjunct that is not the type invariant:

| property | says |
|---|---|
| `FrontendOwned` | `SoleOwner`, `NoStaleFd`, `NoFdLeak`, `ParkedIsTimed`: every open fd has one owner, every recorded fd is open, a parked one has its own live timer |
| `RefresherSafe` | `RefresherFdStable`, `RefresherNeverLost`: the refresher's fd is never given away under it, and no handle is overwritten before its join |
| `WaitsEnd` | `ParkEnds`, `JoinEnds`, `ReleaseEnds` |
| `SoleWorker` | `ActiveOwnsClaim`, `OneWorker`: one scan worker, and only under the claim |
| `WorkerAlert` | `NoSleepOverWork`, `WaitersCounted`: it never sleeps over work or over somebody who waits for the tuner |
| `FieldsAreNewest` | `ActiveIsNewest`, `MatchIsNewest`: flag and keepalive fields are the newest push's |
| `UnwantedPushEnds` | `StoppedPushEnds`, `SilentPushReclaimed`: of the newest push, with reception |
| `StreamSafe` | indices in the ring, `GoneBeforeFree`: freed only when no thread can be in it |
| `TableSound` | bounds, `KeysUnique`, `PointerKeepsKey` |
| `Affinity` | `FieldsAreOwners`, `AffinityKept`: the recorded client is the owner's, and a client keeps to its tuner |
| `TablesSound` | array bounds, `RowsOfThisMux`, `EntryOnce`: as far as the filters could be armed again |
| `AttemptInTime` | `WithinBudget`, `NoWaitWhenComplete`, `AttemptEnds` |
| `SelectionSound` | `SelectionCoherent`: label, frequency and virtual channel name one selection |
| `StreamInStep` | buffer bounds, `InStep`: a connection never loses its place |
| `BothEnd` | `CallReturns`, `ThreadEnds` |

Bounds.  Two threads are enough for every race of two critical sections, and
each thread starts operation after operation, so left-over state of finished
operations (holds, parks, sleeping timers, a running refresher) plays the part of
further threads.  Two descriptor numbers let a closed number be handed out again
while someone could still remember it.  Two timers let an old timer meet a new
park.  A ring of two wraps and overflows within five operations.  Two pushes let
an old one outlive the start of a new one, and thread identities are used again
when a push has ended, so runs of pushes have no bound.  In a ring of four,
chunks of three cross the end at every offset and fill it half-way through a
chunk.  A table of two overflows with three numbers, of which one is on both
muxes and one only made up; two scanners overlap in their scans and their saves.  Two
tuners, both of which may be another client's, its own, or a push's, give the
sweep something to miss behind it and a client a second stream of its own.  Of
the two muxes one has more programs and channels than the arrays hold and one a
table in two sections; four reads let a section come again before the other.
The waits are scaled (5 ticks for the budget, 3 for the window, 4 for the pause)
with their order kept.  Four SETs are enough for a selection, a program, a filter
and a target, by one connection or two.  The wire's buffers hold 40 bytes, and
the longest script announces one byte more than fits.  The scans of `Selection`
move a channel between a broadcast mux it shares with another channel and a cable
mux, at any moment and any number of times.

Fairness.  `Tuner`: every thread that can take its next step by itself does
(weak fairness of `Step`, `TimerStep`, `Stats`): the threads are ordinary
preemptible threads, waits on `free_cond` have a deadline, stat reads return
(slowly), timers sleep a fixed time.  Nothing is assumed of clients.
`ChannelScan`: the same, and the worker's idle deadline is computed once before
the wait loop, so no stream of wake-ups postpones it; a stream that has the
tuner leaves it (a hypothesis about clients, needed by nobody but waiting takers).
`UdpPush`: connections, pushes and the listener's sweep, which `recvfrom`'s
timeout repeats.  Reception is not assumed but a hypothesis of the two liveness
properties (`<>[]signal => ...`): without packets `dvb_stream_read` blocks, and
neither property holds.  `StreamRing`: reader, owner, stats thread and status
requests run; `poll` has a timeout, so the reader looks at `closing` again and
again; strong fairness of `Detach` says that status requests do not starve the
owner of `t->lock`.  Nothing is assumed of the device or of how long a client
stays.  `HttpPool`: connection threads run and the affinity wait has a deadline;
clients may stay for ever.  `MuxScan`: the scanning thread runs, and an ioctl that
blocks returns.  `Wire`: both sides run; the client's sockets have a receive
timeout, so a call that gets no reply can give up, and nothing is assumed of the
daemon to make it.  `Selection` has no liveness property.

## 4. Proofs

`TunerProofs` proves for any number of threads, timers, descriptors, channels
and muxes, and any `Faults` and `Clients`, from the one assumption
`TunerAssumption` (constants are of the right kinds and `None` is none of them):

* `Inductive`: `Spec => []IInv`, the inductive invariant;
* from it `TypeCorrect`, `OwnedOnce`, `NeverStale`, `NeverLeaked`, `ClaimedOnce`,
  `ParkTimed`, `NoWaiterForgotten`, `RefresherStable`, `OnItsMux`, and the action
  property `NeverLost`; `FrontendInOrder` and `RefresherIsSafe` put them together
  as the run states them.

No property is inductive alone.  That two owners never meet (`SoleOwner`) needs
to know at which program points a thread has an fd in its hands (`HandsInv`) and
that an opener only succeeds when nothing is open and nothing open is un-owned
(`NoFdLeak`, `NoStaleFd`); that the claim is exclusive needs which operation can
be at which program point (`ControlInv`), because the hold operations run with and
without the claim; that a park is timed needs that an allocated expiry ctx is
nobody else's (`TimerInv`); the refresher's guarantees need that it runs only for
an fd that is held, or detached and not yet past the join (`RefresherInv`); that a
stream is on its mux needs that it was when it was locked (`MuxInv`).  `IInv` is
their conjunction.  The proof has one lemma per action and, under it, one step
per conjunct the action can disturb; `PROJECT.json` lists the theorems.

`ControlProofs` holds the proofs about `UdpPush` and about `Wire`, which share no
variable.  Of `UdpPush` it proves, from `UdpPushAssumption`, `ActiveIsNewest`,
`MatchIsNewest` and `ClaimIsPush` for any number of connections, pushes and
destinations (`NewestInForce` for the first two).  They are inductive together with
the type invariant and `JobInv` (only a target SET gets into `udp_push_start`, and a
vchannel SET carries a channel of the lineup to its bind), which types what the
starts and binds write.

Of `Wire` it proves `ThreadInStep` (`StreamInStep`), `AnswersAreTheirs`
(`AnswersMatch`) and `DiscoveryIsAddressed` (`DiscoverAddressed`) for any scripts,
parameters, capacities, datagrams and configurations and for every `Base`, the real
128 included.  `WireAssumption` says that a reply fits a packet and that name and value
buffers are no longer than two length bytes can say; `ScriptAssumption` that names
and values are C strings and that a frame fits a packet unless it is one that only
announces more; `DatagramAssumption` that datagrams hold bytes, a seed is 24 bits and
a configured id 32.
The argument has three layers:

* the codec: `read_tlvs` gives back what `write_tlv` wrote, for any number of TLVs
  with lengths on both sides of the second length byte (`CodecRoundTrip`), and
  `open_frame` and `Payload` undo `seal_frame`;
* streams: the bytes of a connection are its frames laid end to end, and `Cut` says
  where in them a side is: `n` frames done, the buffer filled from there up to byte
  `b`, the bytes up to `e` on the way.  A read of any size moves `b` on within frame
  `n`, because the bytes still wanted (`Wanted`) are computed from a length that is
  the frame's own; a write moves `e` on by one frame;
* the invariant `WireInv`: before a connection is accepted nothing has happened;
  after it the thread is at a cut of the script's frames and has served what the
  first `n` of them mean (`ServerInStep`), the client is at a cut of the replies to
  what was served (`ClientInStep`), its answers are those of the first requests
  (`GotInStep`), and every parameter has the value of the last SET served
  (`ParamInStep`).

`StreamInStep` alone is not inductive: that the request just read is the next one
meant needs the whole frame to be in the buffer, which needs the cut; and an answer
is the right one only if the bytes not yet taken are the rest of the replies.
`GeneratedIdIsValid` is the part of `DiscoverAddressed` about the checksum: of the id
of every seed, by the nibbles' exclusive or.  Nothing is said of the checksum of an
id from the file, because the code does not check it.

`StreamRingProofs` proves, from `StreamRingAssumption`, `NoSleeperForgotten` and
`GoneBeforeFree` for every capacity, chunk and read size (`MemorySafe` adds the
bounds), and `RingIsPipe`, the refinement of `BytePipe`.  The first two need
`OwnerInv`: the owner's program point tells whether the struct exists, is attached,
is closing and still has threads.  The refinement needs `RingInv`: `head` is `fill`
bytes after `tail`, once around at most, so the numbers from the tail on are the
contents of the pipe.  Lemmas say what one copy into the ring, whole or in two
parts, puts behind these numbers and what one read takes off their front
(`CopyPuts`, `ReadGets`); then every step of the reader puts, every step of the
consumer gets, and all others leave the pipe alone (`PipeStep`).

`ChannelScanProofs` proves, from `ScanAssumption`, all safety properties of
`ChannelScan` for any number of connections and takers, any frequencies and maps,
every ring size and any number of SETs: `OneOwnedWorker`, `QueueIsFifo`,
`ClearedStaysCleared` and `WorkerNeverOversleeps`.  That there is one worker needs
who has the claim at which program point (`ClaimInv`), as the claim passes from the
connection that opened a session to the worker it spawns.  That a cleared status
stays cleared needs that whoever could still write a result belongs to an older
generation (`StaleInv`), which in turn needs that no thread is ahead of the tuner's
generation (`GenerationInv`; its first conjunct bounds the generation by the SETs
that were made, which keeps the type invariant's bound).  The ring's index
arithmetic is in lemmas of its own about one slot being added or taken.

`SelectionProofs` proves, from `SelectionAssumption`, `FilterAssumption`,
`ProgramAssumption` and `RangeAssumption`, every property of the run:
`SelectionIsSound`, `StreamsKeepTheirMux`, `PullsLeaveNothing`, `FiltersAlwaysFit`
(`FiltersFit`) and `FilterIsWhatStreams` (`FilterShowsStream`), for any number of
connections, any lineup, channel values, filters and programs, and any number of
SETs.  `SelectionAssumption` asks of the lineup that numbers are unique
(`ChannelDb` proves it), that a row has a frequency and that major numbers start at
1, as broadcast ones do: a raw push binds channel 0.0, and a row of that number
would be taken for it.  Which rows scans find for a channel, on how many muxes and
when, is left open.  The invariant: pointers into the table stay good
(`PointersInv`); the fields agree, a virtual channel with some row of its channel
whether or not the table has one, and with the row of now unless it was moved
(`CoherentInv`; a row read in one section is bound in a later one, and the table
changes in between); the claim has one owner at most and only the owner streams
(`ClaimInv`); and while a stream is bound nobody else's raw selection or binding is
written, and a pull's binding that was not moved is the pull's (`WriterInv`), which
is why the comparison of `release_http_pull` recognises it.  `ThreadsOK` types what
threads carry between their sections; for a raw SET this needs that every
frequency plan gives a frequency (`ParsedFreq`).

The two about filters rest on what the loops over PIDs compute.  However ranges
overlap, adding them opens each of their PIDs once and no more than their counted
total (`AddRangesOpens`), so a filter that is narrow enough to be opened PID by PID
fits the demux slots; a program adds at most four PIDs to the PAT
(`AddProgramOpens`), which is why `FilterAssumption` asks for five slots (the code
has 6); and `pid_filter_format` of a set of PIDs, the runs of neighbours in
increasing order, covers exactly that set (`FormatKeepsPids`), so `/filter` shows
what the stream opens.  `ProgramAssumption` is what the parsers guarantee:
program numbers are 16 bits and not 0, PIDs have 13 bits, and rows of one mux with
the same program have the same PIDs; and that a mux has one modulation.

`MuxScanProofs` proves, from `MuxScanAssumption`, every safety property of `MuxScan`
for any muxes, numbers, times, rates and array sizes. `NumbersNameFrequencies` is
about the plans as they are in `channel_map.c` and `atsc_freq.c`, and about every
number: the ranges of a plan lie apart in frequency (`PlansArePlans`), so the first
range that has a frequency is the one the number came from (`PlanInverse`). 
`TablesAreSound` needs that from the rearm on the filters that could be armed again
hold sections of this mux only, that every PMT is one of this mux and, with the
PAT's filter armed again, the one its entry means, and that every entry comes from a
section that was seen (`PatInv`, `VctInv`); the rows then follow filter by filter
(`RowInv`).  `SettlingGivesQuality` and the action property `QualityIsEarned` need
that an open window began in the past and had no gap, and that the first sample of
the pause opens one (`SampleInv`).  `NeverWaitsInVain` is the safety part of
`AttemptInTime`.

`ChannelDbProofs` proves, from `ChannelDbAssumption`, `KeysUnique`,
`PointerKeepsKey`, `LoadGivesBack` and `CacheComplete` for any channels, muxes
and tables, any number of scanners and pulls and every table size (`TableIsSound`
joins the first two).  Lemmas say
what `Add` does to a table (it stays within bounds and without duplicates, rows
keep their place and number, adding the next row of a table appends it).  That a
load gives back what was saved needs that the file, at any moment of a save, is
itself a table (`FileInv`), and that nothing else runs during it (`BootInv`).
`CacheComplete` speaks of the moments when no scan runs; `CacheInv` says what
holds in between: either the file is complete, or some scan has yet to save, or
a save that is not yet flushed has printed the present table.  With two saves
this only works while they do not overlap, which is what `sound` records.

`HttpPoolProofs` proves, from `HttpPoolAssumption`, for any number of tuners,
connections, client addresses and other users: `HonestRefusal`
(`RefusedOnlyWhenBusy`), `AffinityHolds` (`Affinity`) and `PoolIsLease`, the
refinement of `Lease`.  `HoldInv` ties `busy` to the one user that has the claim
and a connection's claim to its program points; with it, `Owner` is the inverse of
`slot` and every step acquires, releases or leaves the lease alone.  That a
recorded address is its owner's (`FieldsAreOwners`) needs the converse, that a
serving owner's address is recorded (`NotedInv`).  The two searches need what they
have passed: a sweep at tuner `i` has nothing below `i` that was free all along
(`SweepInv`), and a search for the client's own tuner has nothing of the client's
below `i`, which is where `NotedInv` comes in again (`LookInv`).

Every inductive invariant was also checked by TLC, on instances like those of
section 3 (`WireInv` with its functions by recursion and its offsets computed).

Induction over data.  The prover cannot instantiate an induction theorem that takes
an operator, so what recursive definitions compute is proved by first-order
induction: the numbers for which the claim holds are a set, and the lemma
`NatSetInduction`, proved from the well-foundedness of `<`, says that a set with 0
that is closed under successor holds every number.  A recursive function is first
shown to exist, by the same induction on its domain, and then used by its equation
(`MeantDef`, `TotalsDef`, `RangeAddedDef` and others).  For this the recursions of
`Packet`, `PidFilter` and `Wire` are functions on intervals of numbers.

Only model-checked: the liveness properties `WaitsEnd`, `WorkerEnds`, `SetsReplied`,
`UnwantedPushEnds`, `TeardownEnds`, `RequestAnswered`, `BothEnd` and `AttemptInTime`,
as fairness and ENABLED are outside the prover (the safety part of the last is
`NeverWaitsInVain`); and the violation of section 5.

## 5. Where code and comments disagree

`raw_push_delivery` is a run with expected violation and a finding in
`PROJECT.json`: a raw channel SET writes `tuned_frequency_hz` but not
`tuned_delivery`, so after a lock on a cable channel a target= may hand
`dvb_stream_open` the frequency with 8VSB.

The models have the following too, without a run of their own:

* `tuner_open_hold` installs its fd without rechecking the selection, so a hold
  can survive channel=none, stay on an older selection, or be missing for the
  current one (`tuner.c` 470; `tuner.h` 107-110 and `control.c` 1118-1120 say a
  hold follows the selection);
* a channel SET can be queued behind a worker that has already decided to leave,
  and its frequency then waits without one (`control.c` 1154-1157);
* a SET's wait can end before `finalize_lock_result` has written the status
  (`control.c` 996 against 1595-1598);
* of two overlapping target= SETs (or a stop that gave up and a new start) the
  older push can stream on with `udp_push_active` 0, out of reach of every stop
  (`udp_stream.c` 190-204, 354);
* `release_http_pull` recognises its own binding by the row as it is *now*: if a
  scan on another tuner found the channel on a second mux meanwhile, the tuner
  stays selected and held after the pull (`http_server.c` 288;
  `ARCHITECTURE.md` 780-784 says the binding is cleared).  The run `selection`
  reaches this, and `PullLeavesIdle` without its exception `moved` is violated;
* a virtual channel whose row was moved is streamed from the row's mux while
  `/filter` shows the selected frequency's PIDs (`Displaced`), and a pull can tune
  to the old row and bind the new one;
* a rearm that fails is ignored (`dvb_scan.c` 296-299), and the sections the filter
  still holds are added under the new frequency, which is what
  `mpeg_section.h` 42-54 says the rearm is there to prevent;
* a configured device id is used and announced whether or not it passes the
  checksum (`config.c` 91-92; `main.c` 178-184 warns);
* a claimer's `dvb_frontend_open` can be refused because `tuner_open_hold` opens
  the frontend without the claim;
* after channel=none a SET queued behind a running worker waits for a generation
  that worker never publishes, and an older worker tunes what is queued behind it
  with its own delivery system;
* the push's early exits do not reset `target` (`ARCHITECTURE.md` section 9 says
  every exit path does); without reception a push blocks in `dvb_stream_read` and
  is not reclaimed; the sweep can stop a push that was started after it found the
  old one stale;
* the cache is truncated in place, so a restart during a save loses it and
  overlapping saves garble it;
* a raw SET leaves `program` as a vchannel bind set it, so the push after it is
  not the full mux; with a program that is not on the mux `/filter` shows the full
  range while the first channel's program is streamed (`Stray`); a negative program
  whose low 16 bits are one of the mux is shown and not streamed (`Wrapped`); a blank filter is
  accepted and shown but not applied; a raw push binds channel 0.0, after which
  the next target= is refused;
* `udp_push_start` reads selection and filter in different sections, the
  channelmap is read in one section and used in a later one, and an explicit
  `<map>:N` uses the delivery system of the active map;
* a pull's bind does not clear `filter_override`, and a vchannel SET of the very
  channel a pull streams is undone when the pull ends.

Seen while reading: the startup scan claims its tuner once (`ARCHITECTURE.md`
section 3 and `control.c` 940 say per frequency); `CHANNEL_SET_WAIT_MS` is 2300
(`ARCHITECTURE.md` section 4 and `getset_client.c` 29 say 1.8 s); `/status` combines
fields of different requests (`control.c` 516-548); a SET value of 192 bytes or more
is served as a GET, and frames that are passed over get no reply; `/sys/features`
advertises modulations `parse_channel_value` rejects; a virtual channel table whose
version changes while it is read is mixed of both; cable frequencies off the table
get channel 0 and may collide.

## 6. Not modelled

The web UI (stateless routes that turn HTTP into getset calls and JSON) and, but for
the device id, the configuration (read once before any thread starts).  Of the
control protocol: `/sys`, lock keys, and the wording of `/status`, `/streaminfo` and
`/debug`; of the HTTP server: request lines and the JSON and M3U pages.  Of the
parsers: the byte layout of PSIP sections.  Of the statistics: the dB scales, DVBv5
counters and the bit rate window, which are scaling of values nothing else depends
on.  `web/`, `tools/`, `test/` and the vendored cJSON: not the program's own logic. 
32-bit wrap-around of generations, and the 256 bytes at which `filter_override` is
cut.

## 7. Plan

1. done: `Tuner`, `ChannelScan`, `UdpPush`, `StreamRing` with `BytePipe`,
   `ChannelDb`, `HttpPool` with `Lease`, `MuxScan` with `ChannelMap`, `Selection`
   with `PidFilter`, `Wire` with `Packet`, and their runs.
2. done: the proofs about all of them, with the refinements of `BytePipe` and
   `Lease`: every safety property of the passing runs is a theorem.
3. Left: liveness, which stays with TLC; what `udp_push_start` carries from its
   snapshot to its bind, stated as a property of its own.
