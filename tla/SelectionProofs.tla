-------------------------- MODULE SelectionProofs --------------------------
(* Theorems about Selection, for any number of connections, any lineup,     *)
(* inputs, filters and programs and any bound on the SETs.                  *)
EXTENDS Selection, WellFoundedInduction, FiniteSetTheorems, TLAPS

-----------------------------------------------------------------------------
(* The frequency plans *)

\* A set of numbers that is not empty has a least one.
LEMMA MinIsLeast ==
  ASSUME NEW S, S \subseteq Nat, S # {}
  PROVE  Min(S) \in S /\ \A y \in S : Min(S) <= y
<1>1. \E x \in S : \A y \in S : ~(<<y, x>> \in OpToRel(<, Nat))
  BY WFMin, NatLessThanWellFounded
<1>2. PICK x \in S : \A y \in S : ~(<<y, x>> \in OpToRel(<, Nat))
  BY <1>1
<1>3. \A y \in S : x <= y
  <2> SUFFICES ASSUME NEW y \in S PROVE x <= y
    OBVIOUS
  <2>1. x \in Nat /\ y \in Nat
    OBVIOUS
  <2>2. ~(y < x)
    BY <1>2, <2>1 DEF OpToRel
  <2> QED
    BY <2>1, <2>2
<1> QED
  BY <1>2, <1>3 DEF Min

\* Induction over the numbers, with a set for the predicate.
LEMMA NatSetInduction ==
  ASSUME NEW S, 0 \in S, \A n \in Nat : n \in S => n + 1 \in S
  PROVE  Nat \subseteq S
<1> DEFINE Bad == Nat \ S
<1> SUFFICES ASSUME Bad # {} PROVE FALSE
  OBVIOUS
<1>1. Min(Bad) \in Bad /\ \A y \in Bad : Min(Bad) <= y
  BY MinIsLeast
<1> DEFINE m == Min(Bad)
<1>2. m \in Bad /\ \A y \in Bad : m <= y
  BY <1>1
<1> HIDE DEF m
<1>3. m \in Nat /\ m # 0
  BY <1>2
<1>4. m - 1 \in Nat /\ ~(m <= m - 1) /\ (m - 1) + 1 = m
  BY <1>3
<1>5. m - 1 \in S
  BY <1>2, <1>4
<1> QED
  BY <1>2, <1>4, <1>5

\* A plan: ranges of channels with a base frequency and a spacing.
IsPlan(ranges) ==
  /\ DOMAIN ranges \subseteq Nat
  /\ \A k \in DOMAIN ranges : ranges[k] \in Nat \X Nat \X Nat \X Nat

\* Every table of channel_map.c is one.
LEMMA PlansArePlans == \A map \in DOMAIN maps : IsPlan(maps[map])
<1>1. IsPlan(us_cable)
  BY DEF IsPlan, us_cable
<1>2. IsPlan(us_hrc)
  BY DEF IsPlan, us_hrc
<1>3. IsPlan(us_irc)
  BY DEF IsPlan, us_irc
<1>4. IsPlan(kr_cable)
  BY DEF IsPlan, kr_cable
<1>5. IsPlan(kr_bcast)
  BY DEF IsPlan, kr_bcast
<1> HIDE DEF IsPlan
<1> QED
  BY <1>1, <1>2, <1>3, <1>4, <1>5 DEF maps

\* A channel number that a plan has is a frequency of Nat.
LEMMA PlanFreq ==
  ASSUME NEW ranges, IsPlan(ranges), NEW n \in Nat
  PROVE  ChannelToFreq(ranges, n) \in Nat
<1> DEFINE hits == {k \in DOMAIN ranges : n \in ranges[k][1] .. ranges[k][2]}
<1>1. CASE hits = {}
  BY <1>1 DEF ChannelToFreq
<1>2. CASE hits # {}
  <2>1. Min(hits) \in hits
    BY <1>2, MinIsLeast DEF IsPlan
  <2> DEFINE r == ranges[Min(hits)]
  <2>2. r \in Nat \X Nat \X Nat \X Nat /\ n >= r[1]
    BY <2>1 DEF IsPlan
  <2>3. ChannelToFreq(ranges, n) = r[3] + (n - r[1]) * r[4]
    BY <1>2 DEF ChannelToFreq, RangeFreq
  <2> HIDE DEF r
  <2>4. n - r[1] \in Nat /\ r[4] \in Nat /\ r[3] \in Nat
    BY <2>2
  <2>5. (n - r[1]) * r[4] \in Nat
    BY <2>4
  <2> QED
    BY <2>3, <2>4, <2>5
<1> QED
  BY <1>1, <1>2

\* A channel SET that is accepted names a frequency.
LEMMA ParsedFreq ==
  ASSUME NEW map, NEW prefix, NEW n \in Nat,
         parse_channel_value(map, prefix, n) # Rejected
  PROVE  parse_channel_value(map, prefix, n).freq \in Nat \ {0}
<1>1. atsc_channel_to_freq(n) \in Nat
  <2>1. \A k \in DOMAIN atsc_freq_table : atsc_freq_table[k] \in Nat
    BY DEF atsc_freq_table
  <2> QED
    BY <2>1 DEF atsc_channel_to_freq
<1>2. ASSUME NEW m PROVE resolve_channel_in_map(m, n) \in Nat
  <2>1. m = "us_bcast" => resolve_channel_in_map(m, n) \in Nat
    <3>1. "us_bcast" \notin DOMAIN maps
      BY DEF maps
    <3> QED
      BY <1>1, <3>1 DEF resolve_channel_in_map, MapNames
  <2>2. m \in DOMAIN maps /\ m # "us_bcast" => resolve_channel_in_map(m, n) \in Nat
    BY PlansArePlans, PlanFreq DEF resolve_channel_in_map, MapNames
  <2>3. m \notin MapNames => resolve_channel_in_map(m, n) \in Nat
    BY DEF resolve_channel_in_map, MapNames
  <2> QED
    BY <2>1, <2>2, <2>3 DEF MapNames
<1>3. ASSUME NEW m PROVE ByNumber(m, n) = Rejected \/ ByNumber(m, n).freq \in Nat \ {0}
  BY <1>2 DEF ByNumber
<1>4. ASSUME NEW m PROVE ByFreq(m, n) = Rejected \/ ByFreq(m, n).freq \in Nat \ {0}
  BY DEF ByFreq
<1> HIDE DEF ByFreq, ByNumber
<1>5. \/ parse_channel_value(map, prefix, n) = ByFreq(map, n)
      \/ parse_channel_value(map, prefix, n) = ByNumber(map, n)
      \/ parse_channel_value(map, prefix, n) = ByNumber(prefix, n)
  BY DEF parse_channel_value
<1> QED
  BY <1>3, <1>4, <1>5

-----------------------------------------------------------------------------
(* What the threads carry *)

\* Where a connection is tells what its request holds.
LEMMA ConnFields ==
  ASSUME NEW s \in ConnStates
  PROVE  /\ s.at = "map" => s.map \in MapNames
         /\ s.at = "bind" => s.ch \in Slots
         /\ s.at \in {"raw", "queue", "session"} =>
              s \in [at : {"raw", "queue", "session"}, freq : Freqs, del : Deliveries]
         /\ s.at = "choose" => s.snap \in Snaps
         /\ s.at \in {"recheck", "commit"} =>
              /\ s \in [at : {"recheck", "commit"}, snap : Snaps,
                        ch : Slots \cup {Synthetic}]
              /\ s.ch = Synthetic => s.snap.freq # 0
  BY DEF ConnStates

\* A push has a row, a program and a filter.
LEMMA PushFields ==
  ASSUME NEW p \in PushStates, p.at # "none"
  PROVE  p \in [at : {"claim", "open", "bind", "attach", "run", "free"},
                row : Streamable, program : Int, filter : FilterValues, stop : BOOLEAN]
  BY DEF PushStates

\* A pull has a pointer and, once it is opened, the row it was opened for.
LEMMA PullFields ==
  ASSUME NEW p \in PullStates, p.at # "none"
  PROVE  /\ p.ch \in Slots
         /\ p.at # "open" =>
              p \in [at : {"bind", "attach", "run", "detach", "free"}, ch : Slots,
                     row : Rows]
  BY DEF PullStates

\* A worker that scans has a frequency, a modulation and its queue.
LEMMA WorkerFields ==
  ASSUME NEW w \in WorkerStates, w.at \notin {"none", "release"}
  PROVE  w \in [at : {"tune", "psip", "next", "leave"}, freq : Freqs,
                del : Deliveries, queue : Seq(Freqs)]
  BY DEF WorkerStates

\* The pointers of the table are numbers, and none is that of the synthetic
\* channel.
LEMMA SlotsAre == Slots \subseteq Nat /\ Synthetic \notin Slots
  BY SelectionAssumption DEF Slots, Synthetic

\* What scans find for a slot are rows.
LEMMA RowsOf == \A i \in Slots : Lineup[i] \subseteq Rows
  BY DEF Rows, Slots, Range

\* A slot that is present has a row of its channel.
LEMMA PresentRow ==
  ASSUME TableOK, NEW i \in Present
  PROVE  i \in Slots /\ table[i] \in Lineup[i] /\ table[i] \in Rows
  BY RowsOf DEF TableOK, Present

\* A row a stream is opened for has a frequency, a modulation and a program, and
\* only the slot of its own channel has its number.
LEMMA StreamableRow ==
  ASSUME NEW row \in Streamable
  PROVE  /\ row.freq \in Freqs /\ row.del \in Deliveries /\ row.prog \in Int
         /\ row.key \in Nat \X Nat
         /\ \A i \in Slots : \A q \in Lineup[i] : q.key = row.key => row \in Lineup[i]
<1>1. CASE row \in Rows
  <2>1. /\ row.freq \in Freqs /\ row.del \in Deliveries /\ row.prog \in Int
        /\ row.key \in Nat \X Nat
    BY <1>1, SelectionAssumption DEF Freqs, Deliveries
  <2>2. PICK k \in Slots : row \in Lineup[k]
    BY <1>1 DEF Rows, Slots, Range
  <2>3. ASSUME NEW i \in Slots, NEW q \in Lineup[i], q.key = row.key
        PROVE  row \in Lineup[i]
    <3>1. i = k
      BY <2>2, <2>3, SelectionAssumption
    <3> QED
      BY <2>2, <3>1
  <2> QED
    BY <2>1, <2>3
<1>2. CASE row \in {Synth(f, d) : f \in Freqs, d \in Deliveries}
  <2>1. PICK f \in Freqs, d \in Deliveries : row = Synth(f, d)
    BY <1>2
  <2>2. row.freq = f /\ row.del = d /\ row.prog = 0 /\ row.key = <<0, 0>>
    BY <2>1 DEF Synth, Row
  <2>3. \A q \in Rows : q.key # <<0, 0>>
    BY SelectionAssumption
  <2> QED
    BY <2>2, <2>3, RowsOf
<1> QED
  BY <1>1, <1>2 DEF Streamable

\* The rows on a frequency are rows of the table.
LEMMA OnFreqRows ==
  ASSUME TableOK, NEW f
  PROVE  /\ DOMAIN OnFreq(f) \subseteq Nat /\ DOMAIN OnFreq(f) \subseteq Present
         /\ \A i \in DOMAIN OnFreq(f) :
              /\ OnFreq(f)[i] = table[i]
              /\ OnFreq(f)[i] \in Rows /\ OnFreq(f)[i].freq = f
<1>1. DOMAIN OnFreq(f) \subseteq Present
  BY DEF OnFreq
<1>2. Present \subseteq Nat
  BY SlotsAre DEF Present
<1>3. ASSUME NEW i \in DOMAIN OnFreq(f)
      PROVE  OnFreq(f)[i] = table[i] /\ table[i].freq = f
  BY DEF OnFreq
<1> QED
  BY <1>1, <1>2, <1>3, PresentRow

\* What a target= chooses is in the table, or synthetic and on a frequency.
LEMMA ChosenIs ==
  ASSUME TableOK, NEW s \in Snaps, NEW i \in Chosen(s)
  PROVE  /\ i \in Present \/ (i = Synthetic /\ s.freq # 0)
         /\ i \in Slots \cup {Synthetic}
<1>1. CASE s.vch # None
  <2>1. Chosen(s) = Find(s.vch)
    BY <1>1 DEF Chosen
  <2> QED
    BY <2>1 DEF Find, Present
<1>2. CASE s.vch = None /\ s.freq # 0 /\ s.program <= 0
  <2>1. ~(s.program > 0)
    BY <1>2 DEF Snaps
  <2>2. Chosen(s) = IF Locked(s.freq) THEN {Synthetic} ELSE {}
    BY <1>2, <2>1 DEF Chosen
  <2> QED
    BY <1>2, <2>2
<1>3. CASE s.vch = None /\ s.freq # 0 /\ s.program > 0
  <2> DEFINE on == DOMAIN OnFreq(s.freq)
  <2>1. ~(s.program <= 0)
    BY <1>3 DEF Snaps
  <2>2. Chosen(s) = IF on = {} THEN {} ELSE {Min(on)}
    BY <1>3, <2>1 DEF Chosen
  <2>3. on \subseteq Nat /\ on \subseteq Present
    BY OnFreqRows
  <2> HIDE DEF on
  <2>4. on # {} /\ i = Min(on)
    BY <2>2
  <2>5. i \in on
    BY <2>3, <2>4, MinIsLeast
  <2> QED
    BY <2>3, <2>5 DEF Present
<1>4. CASE s.vch = None /\ s.freq = 0
  <2>1. Chosen(s) = {}
    BY <1>4 DEF Chosen
  <2> QED
    BY <2>1
<1> QED
  BY <1>1, <1>2, <1>3, <1>4 DEF Snaps

\* What is chosen can be streamed.
LEMMA PushedIs ==
  ASSUME TableOK, NEW s \in Snaps, NEW i,
         i \in Present \/ (i = Synthetic /\ s.freq # 0)
  PROVE  PushedRow(s, i) \in Streamable /\ PushedProgram(s, i) \in Int
<1>1. CASE i = Synthetic
  <2>1. s.freq # 0
    BY <1>1, SlotsAre DEF Present
  <2>2. Synth(s.freq, s.del) \in Streamable
    BY <2>1 DEF Streamable, Snaps, Freqs
  <2> QED
    BY <1>1, <2>2 DEF PushedRow, PushedProgram
<1>2. CASE i # Synthetic
  <2>1. table[i] \in Streamable
    BY <1>2, PresentRow DEF Streamable
  <2> QED
    BY <1>2, <2>1 DEF PushedRow, PushedProgram, Snaps
<1> QED
  BY <1>1, <1>2

-----------------------------------------------------------------------------
(* The demux filters of a stream *)

\* The counts pid_filter_total_count goes through.
Totals(f) ==
  CHOOSE total : total = [n \in 0 .. Len(f) |->
    IF n = 0 THEN 0 ELSE total[n - 1] + (f[n][2] - f[n][1] + 1)]

\* The loop has a result for every filter.
LEMMA TotalsDef ==
  ASSUME NEW f \in Seq(Nat \X Nat)
  PROVE  /\ Totals(f) = [n \in 0 .. Len(f) |->
              IF n = 0 THEN 0 ELSE Totals(f)[n - 1] + (f[n][2] - f[n][1] + 1)]
         /\ pid_filter_total_count(f) = Totals(f)[Len(f)]
<1> DEFINE Is(N, t) == t = [n \in 0 .. N |->
                 IF n = 0 THEN 0 ELSE t[n - 1] + (f[n][2] - f[n][1] + 1)]
           S == {N \in Nat : \E t : Is(N, t)}
<1>1. 0 \in S
  <2>1. Is(0, [n \in 0 .. 0 |-> 0])
    OBVIOUS
  <2> QED
    BY <2>1
<1>2. ASSUME NEW N \in Nat, N \in S PROVE N + 1 \in S
  <2>1. PICK t : Is(N, t)
    BY <1>2
  <2> DEFINE u == [n \in 0 .. N + 1 |->
                IF n = N + 1 THEN t[N] + (f[N + 1][2] - f[N + 1][1] + 1) ELSE t[n]]
  <2>2. ASSUME NEW n \in 0 .. N + 1
        PROVE  u[n] = IF n = 0 THEN 0 ELSE u[n - 1] + (f[n][2] - f[n][1] + 1)
    <3>1. CASE n = N + 1
      BY <3>1
    <3>2. CASE n # N + 1 /\ n # 0
      <4>1. n \in 0 .. N /\ n - 1 \in 0 .. N + 1 /\ n - 1 # N + 1
        BY <3>2
      <4>2. t[n] = t[n - 1] + (f[n][2] - f[n][1] + 1)
        BY <4>1, <2>1, <3>2
      <4> QED
        BY <4>1, <4>2, <3>2
    <3>3. CASE n = 0
      BY <3>3, <2>1
    <3> QED
      BY <3>1, <3>2, <3>3
  <2>3. Is(N + 1, u)
    BY <2>2
  <2> HIDE DEF u
  <2> QED
    BY <2>3
<1>3. Nat \subseteq S
  <2> HIDE DEF S
  <2> QED
    BY <1>1, <1>2, NatSetInduction
<1>4. \E t : Is(Len(f), t)
  BY <1>3
<1>5. Is(Len(f), Totals(f))
  BY <1>4 DEF Totals
<1>6. pid_filter_total_count(f) = Totals(f)[Len(f)]
  BY DEF pid_filter_total_count, Totals
<1> QED
  BY <1>5, <1>6

\* What a filter with n slots at most in use has open: the PIDs of S, once each.
OpenOn(s, S, n) ==
  /\ s = Opened(TRUE, s.pids) /\ s.pids \in Seq(Nat)
  /\ IsInjective(s.pids) /\ Range(s.pids) = S /\ Len(s.pids) <= n

LEMMA AddOne ==
  ASSUME NEW s, NEW S, NEW n \in Nat, OpenOn(s, S, n), n < MaxFds, NEW pid \in Nat
  PROVE  OpenOn(add_pid(s, pid), S \cup {pid}, n + 1)
<1> USE FilterAssumption
<1>1. s.pids \in Seq(Nat) /\ Range(s.pids) = S /\ Len(s.pids) <= n
  BY DEF OpenOn
<1>o. s.ok
  BY DEF OpenOn, Opened
<1>l. Len(s.pids) \in Nat /\ Len(s.pids) <= n + 1 /\ ~(Len(s.pids) >= MaxFds)
  BY <1>1
<1>2. CASE pid \in S
  <2>1. add_pid(s, pid) = s
    BY <1>1, <1>o, <1>2 DEF add_pid
  <2>2. S \cup {pid} = S
    BY <1>2
  <2> QED
    BY <2>1, <2>2, <1>l DEF OpenOn
<1>3. CASE pid \notin S
  <2> DEFINE t == Append(s.pids, pid)
  <2>1. add_pid(s, pid) = Opened(TRUE, t)
    BY <1>1, <1>o, <1>l, <1>3 DEF add_pid
  <2>2. t \in Seq(Nat) /\ Len(t) = Len(s.pids) + 1
    BY <1>1
  <2>3. \A i \in 1 .. Len(s.pids) : t[i] = s.pids[i]
    BY <1>1
  <2>4. t[Len(s.pids) + 1] = pid
    BY <1>1
  <2> HIDE DEF t
  <2>5. DOMAIN t = 1 .. Len(s.pids) + 1 /\ DOMAIN s.pids = 1 .. Len(s.pids) /\ Len(s.pids) \in Nat
    BY <2>2, <1>1
  <2>6. Range(t) = S \cup {pid}
    <3>1. ASSUME NEW x \in Range(t) PROVE x \in S \cup {pid}
      BY <1>1, <2>3, <2>4, <2>5 DEF Range
    <3>2. ASSUME NEW x \in S PROVE x \in Range(t)
      BY <1>1, <2>3, <2>5 DEF Range
    <3>3. pid \in Range(t)
      BY <2>4, <2>5 DEF Range
    <3> QED
      BY <3>1, <3>2, <3>3
  <2>7. IsInjective(t)
    <3>1. \A i \in 1 .. Len(s.pids) : t[i] # pid
      BY <1>1, <1>3, <2>3, <2>5 DEF Range
    <3>2. IsInjective(s.pids)
      BY DEF OpenOn
    <3> QED
      BY <3>1, <3>2, <2>3, <2>4, <2>5 DEF IsInjective
  <2> QED
    BY <1>1, <2>1, <2>2, <2>6, <2>7 DEF OpenOn, Opened
<1> QED
  BY <1>2, <1>3

\* A PID of 0 opens nothing.
LEMMA AddIfNew ==
  ASSUME NEW s, NEW S, NEW n \in Nat, OpenOn(s, S, n), n < MaxFds, NEW pid \in Nat
  PROVE  OpenOn(add_pid_if_new(s, pid), S \cup ({pid} \ {0}), n + 1)
<1>1. CASE pid = 0
  <2>0. s.pids \in Seq(Nat) /\ Len(s.pids) <= n
    BY DEF OpenOn
  <2>1. Len(s.pids) <= n + 1
    BY <2>0
  <2>2. OpenOn(s, S, n + 1)
    BY <2>1 DEF OpenOn
  <2>3. S \cup ({pid} \ {0}) = S
    BY <1>1
  <2> QED
    BY <1>1, <2>2, <2>3 DEF add_pid_if_new
<1>2. CASE pid # 0
  <2>1. S \cup ({pid} \ {0}) = S \cup {pid}
    BY <1>2
  <2> QED
    BY <1>2, <2>1, AddOne DEF add_pid_if_new
<1> QED
  BY <1>1, <1>2

LEMMA PatOpen == OpenOn(Pat, {0}, 1)
<1>1. OpenOn(Opened(TRUE, <<>>), {}, 0)
  BY DEF OpenOn, Opened, IsInjective, Range
<1>2. {} \cup {0} = {0} /\ 0 + 1 = 1 /\ 0 < MaxFds
  BY FilterAssumption
<1> QED
  BY <1>1, <1>2, AddOne DEF Pat

\* The states the loop over a range goes through.
RangeAdded(s, first, last) ==
  CHOOSE added : added = [pid \in first - 1 .. last |->
    IF pid < first THEN s ELSE add_pid_if_new(added[pid - 1], pid)]

\* The loop over a range has a result.
LEMMA RangeAddedDef ==
  ASSUME NEW s, NEW first \in Nat, NEW last \in Nat, first <= last
  PROVE  /\ RangeAdded(s, first, last) = [pid \in first - 1 .. last |->
              IF pid < first THEN s
              ELSE add_pid_if_new(RangeAdded(s, first, last)[pid - 1], pid)]
         /\ AddRange(s, first, last) = RangeAdded(s, first, last)[last]
<1> DEFINE Is(N, t) == t = [pid \in first - 1 .. N |->
                 IF pid < first THEN s ELSE add_pid_if_new(t[pid - 1], pid)]
           S == {k \in Nat : \E t : Is(first - 1 + k, t)}
<1>1. 0 \in S
  <2>1. Is(first - 1, [pid \in first - 1 .. first - 1 |-> s])
    OBVIOUS
  <2>2. first - 1 + 0 = first - 1
    OBVIOUS
  <2> QED
    BY <2>1, <2>2
<1>2. ASSUME NEW k \in Nat, k \in S PROVE k + 1 \in S
  <2> DEFINE N == first - 1 + k
  <2>0. N \in Int /\ N + 1 = first - 1 + (k + 1) /\ first <= N + 1
    OBVIOUS
  <2>1. PICK t : Is(N, t)
    BY <1>2
  <2> HIDE DEF N
  <2> DEFINE u == [pid \in first - 1 .. N + 1 |->
                IF pid = N + 1 THEN add_pid_if_new(t[N], pid) ELSE t[pid]]
  <2>2. ASSUME NEW pid \in first - 1 .. N + 1
        PROVE  u[pid] = IF pid < first THEN s ELSE add_pid_if_new(u[pid - 1], pid)
    <3>1. CASE pid = N + 1
      <4>1. u[pid] = add_pid_if_new(t[N], pid)
        BY <3>1
      <4>2. ~(pid < first) /\ pid - 1 = N /\ N \in first - 1 .. N + 1 /\ N # N + 1
        BY <2>0, <3>1
      <4>3. u[N] = t[N]
        BY <4>2
      <4> HIDE DEF u
      <4> QED
        BY <4>1, <4>2, <4>3
    <3>2. CASE pid # N + 1 /\ ~(pid < first)
      <4>1. pid \in first - 1 .. N /\ pid - 1 \in first - 1 .. N + 1 /\ pid - 1 # N + 1
        BY <3>2, <2>0
      <4>2. t[pid] = add_pid_if_new(t[pid - 1], pid)
        BY <4>1, <2>1, <3>2
      <4>3. u[pid] = t[pid] /\ u[pid - 1] = t[pid - 1]
        BY <4>1, <3>2
      <4> HIDE DEF u
      <4> QED
        BY <4>2, <4>3, <3>2
    <3>3. CASE pid < first
      <4>1. pid # N + 1 /\ pid \in first - 1 .. N
        BY <3>3, <2>0
      <4>2. t[pid] = s
        BY <4>1, <2>1, <3>3
      <4> QED
        BY <4>1, <4>2, <3>3
    <3> QED
      BY <3>1, <3>2, <3>3
  <2>3. Is(N + 1, u)
    BY <2>2
  <2> HIDE DEF u
  <2> QED
    BY <2>0, <2>3
<1>3. Nat \subseteq S
  <2> HIDE DEF S
  <2> QED
    BY <1>1, <1>2, NatSetInduction
<1>4. \E t : Is(last, t)
  <2>1. last - (first - 1) \in Nat /\ first - 1 + (last - (first - 1)) = last
    OBVIOUS
  <2>2. last - (first - 1) \in S
    BY <1>3, <2>1
  <2> QED
    BY <2>1, <2>2
<1>5. Is(last, RangeAdded(s, first, last))
  BY <1>4 DEF RangeAdded
<1>6. AddRange(s, first, last) = RangeAdded(s, first, last)[last]
  BY DEF AddRange, RangeAdded
<1> QED
  BY <1>5, <1>6

\* A range whose PIDs still fit gets one filter for each.
LEMMA AddRangeOpens ==
  ASSUME NEW s, NEW S, NEW n \in Nat, OpenOn(s, S, n),
         NEW first \in Nat, NEW last \in Nat, first <= last,
         n + (last - first + 1) <= MaxFds
  PROVE  OpenOn(AddRange(s, first, last), S \cup ((first .. last) \ {0}),
                n + (last - first + 1))
<1> USE FilterAssumption
<1> DEFINE t == RangeAdded(s, first, last)
           Fine(k) == OpenOn(t[first - 1 + k],
                             S \cup ((first .. first - 1 + k) \ {0}), n + k)
           I == {k \in Nat : k <= last - first + 1 => Fine(k)}
<1>d. /\ t = [pid \in first - 1 .. last |->
                IF pid < first THEN s ELSE add_pid_if_new(t[pid - 1], pid)]
      /\ AddRange(s, first, last) = t[last]
  BY RangeAddedDef
<1> HIDE DEF t
<1>1. 0 \in I
  <2>1. t[first - 1] = s
    BY <1>d
  <2>2. S \cup ((first .. first - 1) \ {0}) = S /\ first - 1 + 0 = first - 1 /\ n + 0 = n
    OBVIOUS
  <2>3. Fine(0)
    BY <2>1, <2>2
  <2> QED
    BY <2>3
<1>2. ASSUME NEW k \in Nat, k \in I PROVE k + 1 \in I
  <2> SUFFICES ASSUME k + 1 <= last - first + 1 PROVE Fine(k + 1)
    OBVIOUS
  <2>1. Fine(k)
    BY <1>2
  <2> DEFINE pid == first + k
  <2>2. /\ first - 1 + (k + 1) = pid /\ pid - 1 = first - 1 + k
        /\ pid \in Nat /\ pid \in first - 1 .. last /\ ~(pid < first)
        /\ n + k < MaxFds /\ n + k \in Nat /\ n + (k + 1) = (n + k) + 1
    OBVIOUS
  <2>3. first .. pid = (first .. first - 1 + k) \cup {pid}
    OBVIOUS
  <2> HIDE DEF pid
  <2>4. t[pid] = add_pid_if_new(t[first - 1 + k], pid)
    BY <1>d, <2>2
  <2>5. S \cup ((first .. first - 1 + k) \ {0}) \cup ({pid} \ {0})
          = S \cup ((first .. pid) \ {0})
    BY <2>3
  <2>6. OpenOn(add_pid_if_new(t[first - 1 + k], pid),
               S \cup ((first .. first - 1 + k) \ {0}) \cup ({pid} \ {0}), (n + k) + 1)
    BY <2>1, <2>2, AddIfNew
  <2> QED
    BY <2>2, <2>4, <2>5, <2>6
<1>3. Nat \subseteq I
  <2> HIDE DEF I
  <2> QED
    BY <1>1, <1>2, NatSetInduction
<1>4. last - first + 1 \in Nat /\ first - 1 + (last - first + 1) = last
  OBVIOUS
<1>5. Fine(last - first + 1)
  BY <1>3, <1>4
<1> QED
  BY <1>d, <1>4, <1>5

\* The states the loop over the ranges goes through.
RangesAdded(f) ==
  CHOOSE added : added = [n \in 0 .. Len(f) |->
    IF n = 0 THEN Pat ELSE AddRange(added[n - 1], f[n][1], f[n][2])]

\* The loop over the ranges has a result.
LEMMA RangesAddedDef ==
  ASSUME NEW f \in Seq(Nat \X Nat)
  PROVE  /\ RangesAdded(f) = [n \in 0 .. Len(f) |->
              IF n = 0 THEN Pat ELSE AddRange(RangesAdded(f)[n - 1], f[n][1], f[n][2])]
         /\ AddRanges(f) = RangesAdded(f)[Len(f)]
<1> DEFINE Is(N, t) == t = [n \in 0 .. N |->
                 IF n = 0 THEN Pat ELSE AddRange(t[n - 1], f[n][1], f[n][2])]
           S == {N \in Nat : \E t : Is(N, t)}
<1>1. 0 \in S
  <2>1. Is(0, [n \in 0 .. 0 |-> Pat])
    OBVIOUS
  <2> QED
    BY <2>1
<1>2. ASSUME NEW N \in Nat, N \in S PROVE N + 1 \in S
  <2>1. PICK t : Is(N, t)
    BY <1>2
  <2> DEFINE u == [n \in 0 .. N + 1 |->
                IF n = N + 1 THEN AddRange(t[N], f[n][1], f[n][2]) ELSE t[n]]
  <2>2. ASSUME NEW n \in 0 .. N + 1
        PROVE  u[n] = IF n = 0 THEN Pat ELSE AddRange(u[n - 1], f[n][1], f[n][2])
    <3>1. CASE n = N + 1
      <4>1. u[n] = AddRange(t[N], f[n][1], f[n][2])
        BY <3>1
      <4>2. n # 0 /\ n - 1 = N /\ N \in 0 .. N + 1 /\ N # N + 1
        BY <3>1
      <4>3. u[N] = t[N]
        BY <4>2
      <4> HIDE DEF u
      <4> QED
        BY <4>1, <4>2, <4>3
    <3>2. CASE n # N + 1 /\ n # 0
      <4>1. n \in 0 .. N /\ n - 1 \in 0 .. N + 1 /\ n - 1 # N + 1
        BY <3>2
      <4>2. t[n] = AddRange(t[n - 1], f[n][1], f[n][2])
        BY <4>1, <2>1, <3>2
      <4>3. u[n] = t[n] /\ u[n - 1] = t[n - 1]
        BY <4>1, <3>2
      <4> HIDE DEF u
      <4> QED
        BY <4>2, <4>3, <3>2
    <3>3. CASE n = 0
      BY <3>3, <2>1
    <3> QED
      BY <3>1, <3>2, <3>3
  <2>3. Is(N + 1, u)
    BY <2>2
  <2> HIDE DEF u
  <2> QED
    BY <2>3
<1>3. Nat \subseteq S
  <2> HIDE DEF S
  <2> QED
    BY <1>1, <1>2, NatSetInduction
<1>4. \E t : Is(Len(f), t)
  BY <1>3
<1>5. Is(Len(f), RangesAdded(f))
  BY <1>4 DEF RangesAdded
<1>6. AddRanges(f) = RangesAdded(f)[Len(f)]
  BY DEF AddRanges, RangesAdded
<1> QED
  BY <1>5, <1>6

\* A filter as it is set: ranges that parse.
IsFilter(f) == f \in Seq(Nat \X Nat) /\ pid_filter_parse(f)

\* The counts grow with every range.
LEMMA TotalsGrow ==
  ASSUME NEW f, IsFilter(f)
  PROVE  /\ \A n \in 0 .. Len(f) : Totals(f)[n] \in Nat
         /\ \A n \in 1 .. Len(f) :
              Totals(f)[n] = Totals(f)[n - 1] + (f[n][2] - f[n][1] + 1)
         /\ \A n \in 0 .. Len(f) : Totals(f)[n] <= pid_filter_total_count(f)
         /\ Totals(f)[0] = 0
<1> DEFINE t == Totals(f)
<1>0. f \in Seq(Nat \X Nat) /\ Len(f) \in Nat
  BY DEF IsFilter
<1>d. /\ t = [n \in 0 .. Len(f) |->
              IF n = 0 THEN 0 ELSE t[n - 1] + (f[n][2] - f[n][1] + 1)]
      /\ pid_filter_total_count(f) = t[Len(f)]
  BY <1>0, TotalsDef
<1> HIDE DEF t
<1>r. ASSUME NEW n \in 1 .. Len(f) PROVE f[n][2] - f[n][1] + 1 \in Nat
  <2>1. n \in DOMAIN f /\ f[n] \in Nat \X Nat
    BY <1>0
  <2>2. f[n][1] <= f[n][2] /\ f[n][1] \in Nat /\ f[n][2] \in Nat
    BY <2>1 DEF IsFilter, pid_filter_parse
  <2> QED
    BY <2>2
<1>1. t[0] = 0
  BY <1>d, <1>0
<1>2. ASSUME NEW n \in 1 .. Len(f) PROVE t[n] = t[n - 1] + (f[n][2] - f[n][1] + 1)
  <2>1. n \in 0 .. Len(f) /\ n # 0
    BY <1>0
  <2> QED
    BY <1>d, <2>1
<1>3. ASSUME NEW n \in 0 .. Len(f) PROVE t[n] \in Nat
  <2> DEFINE I == {k \in Nat : k <= Len(f) => t[k] \in Nat}
  <2>1. 0 \in I
    BY <1>1
  <2>2. ASSUME NEW k \in Nat, k \in I PROVE k + 1 \in I
    <3> SUFFICES ASSUME k + 1 <= Len(f) PROVE t[k + 1] \in Nat
      OBVIOUS
    <3>1. t[k] \in Nat
      BY <1>0, <2>2
    <3>2. k + 1 \in 1 .. Len(f) /\ (k + 1) - 1 = k
      BY <1>0
    <3>3. t[k + 1] = t[k] + (f[k + 1][2] - f[k + 1][1] + 1)
      BY <1>2, <3>2
    <3> QED
      BY <3>1, <3>2, <3>3, <1>r
  <2>3. Nat \subseteq I
    <3> HIDE DEF I
    <3> QED
      BY <2>1, <2>2, NatSetInduction
  <2> QED
    BY <2>3, <1>0
<1>4. ASSUME NEW n \in 0 .. Len(f) PROVE t[n] <= t[Len(f)]
  <2> DEFINE I == {k \in Nat : k <= Len(f) => t[Len(f) - k] <= t[Len(f)]}
  <2>1. 0 \in I
    <3>1. Len(f) - 0 = Len(f) /\ Len(f) \in 0 .. Len(f)
      BY <1>0
    <3>2. t[Len(f)] \in Nat
      BY <1>3, <3>1
    <3> QED
      BY <3>1, <3>2
  <2>2. ASSUME NEW k \in Nat, k \in I PROVE k + 1 \in I
    <3> SUFFICES ASSUME k + 1 <= Len(f) PROVE t[Len(f) - (k + 1)] <= t[Len(f)]
      OBVIOUS
    <3> DEFINE j == Len(f) - k
    <3>1. j \in 1 .. Len(f) /\ j - 1 = Len(f) - (k + 1) /\ j - 1 \in 0 .. Len(f)
          /\ j \in 0 .. Len(f) /\ Len(f) \in 0 .. Len(f)
      BY <1>0
    <3>2. t[j] <= t[Len(f)]
      BY <1>0, <2>2
    <3> HIDE DEF j
    <3>3. t[j] \in Nat /\ t[j - 1] \in Nat /\ t[Len(f)] \in Nat
      BY <1>3, <3>1
    <3>4. t[j] = t[j - 1] + (f[j][2] - f[j][1] + 1) /\ f[j][2] - f[j][1] + 1 \in Nat
      BY <1>2, <1>r, <3>1
    <3>5. t[j - 1] <= t[Len(f)]
      BY <3>2, <3>3, <3>4
    <3> QED
      BY <3>1, <3>5
  <2>3. Nat \subseteq I
    <3> HIDE DEF I
    <3> QED
      BY <2>1, <2>2, NatSetInduction
  <2>4. Len(f) - n \in Nat /\ Len(f) - n <= Len(f) /\ Len(f) - (Len(f) - n) = n
    BY <1>0
  <2> QED
    BY <2>3, <2>4
<1> QED
  BY <1>1, <1>2, <1>3, <1>4, <1>d DEF t

\* A filter that leaves a slot for the PAT gets one demux filter for each of
\* its PIDs.
LEMMA AddRangesOpens ==
  ASSUME NEW f, IsFilter(f), pid_filter_total_count(f) <= MaxFds - 1
  PROVE  OpenOn(AddRanges(f), {0} \cup (Pids(f) \ {0}), MaxFds)
<1> USE FilterAssumption
<1> DEFINE t == RangesAdded(f)
           Of(n) == UNION {f[i][1] .. f[i][2] : i \in 1 .. n}
           Fine(n) == OpenOn(t[n], {0} \cup (Of(n) \ {0}), 1 + Totals(f)[n])
           I == {n \in Nat : n <= Len(f) => Fine(n)}
<1>0. f \in Seq(Nat \X Nat) /\ Len(f) \in Nat /\ DOMAIN f = 1 .. Len(f)
  BY DEF IsFilter
<1>d. /\ t = [n \in 0 .. Len(f) |->
              IF n = 0 THEN Pat ELSE AddRange(t[n - 1], f[n][1], f[n][2])]
      /\ AddRanges(f) = t[Len(f)]
  BY <1>0, RangesAddedDef
<1> HIDE DEF t
<1>g. /\ \A n \in 0 .. Len(f) : Totals(f)[n] \in Nat /\ Totals(f)[n] <= MaxFds - 1
      /\ \A n \in 1 .. Len(f) :
           Totals(f)[n] = Totals(f)[n - 1] + (f[n][2] - f[n][1] + 1)
      /\ Totals(f)[0] = 0
  <2>1. pid_filter_total_count(f) = Totals(f)[Len(f)] /\ Len(f) \in 0 .. Len(f)
    BY <1>0, TotalsDef
  <2>2. pid_filter_total_count(f) \in Nat
    BY <2>1, TotalsGrow
  <2>3. ASSUME NEW n \in 0 .. Len(f) PROVE Totals(f)[n] <= MaxFds - 1
    <3>1. Totals(f)[n] \in Nat /\ Totals(f)[n] <= pid_filter_total_count(f)
      BY TotalsGrow
    <3> QED
      BY <2>2, <3>1
  <2> QED
    BY <2>3, TotalsGrow
<1>1. 0 \in I
  <2>1. {0} \cup (Of(0) \ {0}) = {0} /\ 1 + Totals(f)[0] = 1
    BY <1>g
  <2>2. t[0] = Pat
    BY <1>d, <1>0
  <2> HIDE DEF Of
  <2>3. Fine(0)
    BY <2>1, <2>2, PatOpen
  <2> QED
    BY <2>3
<1>2. ASSUME NEW n \in Nat, n \in I PROVE n + 1 \in I
  <2> SUFFICES ASSUME n + 1 <= Len(f) PROVE Fine(n + 1)
    OBVIOUS
  <2>1. Fine(n)
    BY <1>0, <1>2
  <2> DEFINE m == n + 1  first == f[m][1]  last == f[m][2]
  <2>2. m \in 1 .. Len(f) /\ m - 1 = n /\ n \in 0 .. Len(f) /\ m \in 0 .. Len(f)
    BY <1>0
  <2>3. Of(m) = Of(n) \cup (first .. last)
    <3>1. 1 .. m = (1 .. n) \cup {m}
      OBVIOUS
    <3> HIDE DEF m
    <3> QED
      BY <3>1
  <2> HIDE DEF Of, m
  <2>4. f[m] \in Nat \X Nat /\ m \in DOMAIN f
    BY <1>0, <2>2
  <2>5. first \in Nat /\ last \in Nat /\ first <= last
    BY <2>4 DEF IsFilter, pid_filter_parse
  <2>6. t[m] = AddRange(t[n], first, last)
    BY <1>d, <2>2
  <2>7. Totals(f)[m] = Totals(f)[n] + (last - first + 1) /\ Totals(f)[m] <= MaxFds - 1
        /\ Totals(f)[n] \in Nat /\ Totals(f)[m] \in Nat
    BY <1>g, <2>2
  <2> HIDE DEF first, last
  <2>8. 1 + Totals(f)[n] \in Nat /\ (1 + Totals(f)[n]) + (last - first + 1) <= MaxFds
        /\ (1 + Totals(f)[n]) + (last - first + 1) = 1 + Totals(f)[m]
    BY <2>5, <2>7
  <2>9. OpenOn(AddRange(t[n], first, last),
               {0} \cup (Of(n) \ {0}) \cup ((first .. last) \ {0}),
               (1 + Totals(f)[n]) + (last - first + 1))
    BY <2>1, <2>5, <2>8, AddRangeOpens
  <2>10. {0} \cup (Of(n) \ {0}) \cup ((first .. last) \ {0}) = {0} \cup (Of(m) \ {0})
    BY <2>3
  <2>11. Fine(m)
    BY <2>6, <2>8, <2>9, <2>10
  <2> QED
    BY <2>11 DEF m
<1>3. Nat \subseteq I
  <2> HIDE DEF I
  <2> QED
    BY <1>1, <1>2, NatSetInduction
<1>4. Fine(Len(f))
  <2>1. Len(f) \in I
    BY <1>0, <1>3
  <2> HIDE DEF Fine
  <2> QED
    BY <1>0, <2>1
<1>5. Of(Len(f)) = Pids(f)
  BY <1>0 DEF Pids
<1> HIDE DEF Of
<1>6. Totals(f)[Len(f)] \in Nat /\ 1 + Totals(f)[Len(f)] <= MaxFds
  BY <1>0, <1>g
<1>7. OpenOn(t[Len(f)], {0} \cup (Pids(f) \ {0}), 1 + Totals(f)[Len(f)])
  BY <1>4, <1>5
<1>8. t[Len(f)].pids \in Seq(Nat) /\ Len(t[Len(f)].pids) <= 1 + Totals(f)[Len(f)]
  BY <1>7 DEF OpenOn
<1>9. Len(t[Len(f)].pids) <= MaxFds
  BY <1>6, <1>8
<1>10. OpenOn(t[Len(f)], {0} \cup (Pids(f) \ {0}), MaxFds)
  BY <1>7, <1>9 DEF OpenOn
<1> QED
  BY <1>10, <1>d

\* A program's PIDs always fit.
LEMMA AddProgramOpens ==
  ASSUME NEW row, {row.pmt, row.pcr, row.vid, row.aud} \subseteq Nat
  PROVE  OpenOn(AddProgram(row), {0} \cup ProgramPids(row), 5)
<1> DEFINE a == add_pid_if_new(Pat, row.pmt)
           b == add_pid_if_new(a, row.pcr)
           c == add_pid_if_new(b, row.vid)
           d == add_pid_if_new(c, row.aud)
           A == {0} \cup ({row.pmt} \ {0})
           B == A \cup ({row.pcr} \ {0})
           C == B \cup ({row.vid} \ {0})
           D == C \cup ({row.aud} \ {0})
<1>0. 1 < MaxFds /\ 2 < MaxFds /\ 3 < MaxFds /\ 4 < MaxFds
      /\ 1 + 1 = 2 /\ 2 + 1 = 3 /\ 3 + 1 = 4 /\ 4 + 1 = 5
  BY FilterAssumption
<1>1. OpenOn(a, A, 2)
  BY <1>0, PatOpen, AddIfNew
<1>2. OpenOn(b, B, 3)
  <2> HIDE DEF a, A
  <2> QED
    BY <1>0, <1>1, AddIfNew
<1>3. OpenOn(c, C, 4)
  <2> HIDE DEF b, B
  <2> QED
    BY <1>0, <1>2, AddIfNew
<1>4. OpenOn(d, D, 5)
  <2> HIDE DEF c, C
  <2> QED
    BY <1>0, <1>3, AddIfNew
<1>5. D = {0} \cup ProgramPids(row)
  BY DEF ProgramPids
<1>6. AddProgram(row) = d
  BY DEF AddProgram
<1> HIDE DEF D, d
<1> QED
  BY <1>4, <1>5, <1>6

-----------------------------------------------------------------------------
(* The text of a filter *)

RunStarts(S) == {p \in S : p - 1 \notin S}
RunEnds(S, p) == {q \in S : q >= p /\ q + 1 \notin S}

\* A run of PIDs has an end, and all of it is in the set.
LEMMA RunInside ==
  ASSUME NEW S, S \subseteq 0 .. MaxPid, NEW p \in S
  PROVE  /\ Min(RunEnds(S, p)) \in RunEnds(S, p)
         /\ p .. Min(RunEnds(S, p)) \subseteq S
<1> DEFINE Gaps == {x \in Nat : x >= p /\ x \notin S}
           g == Min(Gaps)
<1>0. p \in Nat /\ S \subseteq Nat
  BY DEF MaxPid
<1>1. MaxPid + 1 \in Gaps
  BY <1>0 DEF MaxPid
<1>2. g \in Gaps /\ \A y \in Gaps : g <= y
  BY <1>1, MinIsLeast
<1> HIDE DEF g
<1>3. g \in Nat /\ g > p /\ g \notin S
  BY <1>0, <1>2
<1>4. \A x \in p .. g - 1 : x \in S
  <2> SUFFICES ASSUME NEW x \in p .. g - 1, x \notin S PROVE FALSE
    OBVIOUS
  <2>1. x \in Gaps /\ ~(g <= x)
    BY <1>0, <1>3
  <2> QED
    BY <1>2, <2>1
<1>5. g - 1 \in RunEnds(S, p)
  <2>1. g - 1 \in p .. g - 1 /\ (g - 1) + 1 = g /\ g - 1 >= p
    BY <1>0, <1>3
  <2> QED
    BY <1>3, <1>4, <2>1 DEF RunEnds
<1>6. RunEnds(S, p) \subseteq Nat
  BY <1>0 DEF RunEnds
<1>7. Min(RunEnds(S, p)) \in RunEnds(S, p) /\ Min(RunEnds(S, p)) <= g - 1
  BY <1>5, <1>6, MinIsLeast
<1>8. p .. Min(RunEnds(S, p)) \subseteq p .. g - 1
  BY <1>0, <1>3, <1>6, <1>7
<1> QED
  BY <1>4, <1>7, <1>8

\* Every PID of a set is in the run that starts at one of its starts.
LEMMA RunCovers ==
  ASSUME NEW S, S \subseteq 0 .. MaxPid, NEW x \in S
  PROVE  \E p \in RunStarts(S) : x \in p .. Min(RunEnds(S, p))
<1> DEFINE Froms == {p \in Nat : p <= x /\ p .. x \subseteq S}
           p == Min(Froms)
<1>0. x \in Nat /\ S \subseteq Nat
  BY DEF MaxPid
<1>1. x \in Froms
  BY <1>0
<1>2. p \in Froms /\ \A y \in Froms : p <= y
  BY <1>1, MinIsLeast
<1> HIDE DEF p
<1>3. p \in Nat /\ p <= x /\ p .. x \subseteq S /\ p \in S
  BY <1>0, <1>2
<1>4. p - 1 \notin S
  <2> SUFFICES ASSUME p - 1 \in S PROVE FALSE
    OBVIOUS
  <2>1. p - 1 \in Nat /\ p - 1 <= x /\ ~(p <= p - 1)
    BY <1>0, <1>3
  <2>2. (p - 1) .. x = {p - 1} \cup (p .. x)
    BY <1>0, <1>3, <2>1
  <2>3. p - 1 \in Froms
    BY <1>3, <2>1, <2>2
  <2> QED
    BY <1>2, <2>1, <2>3
<1>5. p \in RunStarts(S)
  BY <1>3, <1>4 DEF RunStarts
<1> DEFINE e == Min(RunEnds(S, p))
<1>6. e \in RunEnds(S, p)
  BY <1>3, RunInside
<1> HIDE DEF e
<1>7. e \in Nat /\ e >= p /\ e + 1 \notin S
  BY <1>0, <1>6 DEF RunEnds
<1>8. x <= e
  <2> SUFFICES ASSUME e < x PROVE FALSE
    BY <1>0, <1>7
  <2>1. e + 1 \in p .. x
    BY <1>0, <1>3, <1>7
  <2> QED
    BY <1>3, <1>7, <2>1
<1>9. x \in p .. e
  BY <1>0, <1>3, <1>7, <1>8
<1> QED
  BY <1>5, <1>9 DEF e

\* The place of a number among those of a finite set.
Rank(T, p) == Cardinality({q \in T : q <= p})

\* Every place is taken by exactly one.
LEMMA RanksAreUnique ==
  ASSUME NEW T, T \subseteq Nat, IsFiniteSet(T)
  PROVE  /\ \A p \in T : Rank(T, p) \in 1 .. Cardinality(T)
         /\ \A p, q \in T : Rank(T, p) = Rank(T, q) => p = q
         /\ \A i \in 1 .. Cardinality(T) : \E p \in T : Rank(T, p) = i
<1> DEFINE Upto(p) == {q \in T : q <= p}
<1>1. ASSUME NEW p \in T
      PROVE  IsFiniteSet(Upto(p)) /\ Cardinality(Upto(p)) \in 1 .. Cardinality(T)
  <2>1. Upto(p) \in SUBSET T /\ p \in Upto(p)
    OBVIOUS
  <2> HIDE DEF Upto
  <2>2. IsFiniteSet(Upto(p)) /\ Cardinality(Upto(p)) <= Cardinality(T)
    BY <2>1, FS_Subset
  <2>3. Cardinality(Upto(p)) \in Nat /\ Cardinality(T) \in Nat
    BY <2>2, FS_CardinalityType
  <2>4. Cardinality(Upto(p)) # 0
    BY <2>1, <2>2, FS_EmptySet
  <2> QED
    BY <2>2, <2>3, <2>4
<1>2. ASSUME NEW p \in T, NEW q \in T, p < q PROVE Cardinality(Upto(p)) # Cardinality(Upto(q))
  <2>0. p \in Nat /\ q \in Nat /\ ~(q <= p) /\ q <= q /\ \A x \in T : x <= p => x <= q
    BY <1>2
  <2>1. Upto(p) \in SUBSET Upto(q) /\ q \in Upto(q) /\ q \notin Upto(p)
    BY <2>0, Zenon
  <2>2. IsFiniteSet(Upto(q))
    BY <1>1
  <2> HIDE DEF Upto
  <2> QED
    BY <2>1, <2>2, FS_Subset
<1>3. \A p \in T : Rank(T, p) \in 1 .. Cardinality(T)
  BY <1>1 DEF Rank
<1>4. ASSUME NEW p \in T, NEW q \in T, Rank(T, p) = Rank(T, q) PROVE p = q
  <2>1. Cardinality(Upto(p)) = Cardinality(Upto(q))
    BY <1>4 DEF Rank
  <2>2. p < q \/ q < p \/ p = q
    OBVIOUS
  <2> QED
    BY <1>2, <2>1, <2>2
<1> DEFINE r == [p \in T |-> Rank(T, p)]
<1>5. r \in Injection(T, 1 .. Cardinality(T))
  <2>1. r \in [T -> 1 .. Cardinality(T)]
    BY <1>3
  <2>2. IsInjective(r)
    BY <1>4 DEF IsInjective
  <2> QED
    BY <2>1, <2>2 DEF Injection, IsInjective
<1>6. r \in Surjection(T, 1 .. Cardinality(T))
  <2>1. Cardinality(T) \in Nat
    BY FS_CardinalityType
  <2>2. IsFiniteSet(1 .. Cardinality(T)) /\ Cardinality(1 .. Cardinality(T)) = Cardinality(T)
    BY <2>1, FS_Interval
  <2> HIDE DEF r
  <2> QED
    BY <1>5, <2>2, FS_Injection
<1>7. \A i \in 1 .. Cardinality(T) : \E p \in T : Rank(T, p) = i
  BY <1>6 DEF Surjection
<1> QED
  BY <1>3, <1>4, <1>7

\* pid_filter_format names the PIDs it is given, no more and no fewer.
LEMMA FormatKeepsPids ==
  ASSUME NEW S, S \subseteq 0 .. MaxPid
  PROVE  Pids(pid_filter_format(S)) = S
<1> DEFINE T == RunStarts(S)
           Nth(i) == CHOOSE p \in T : Rank(T, p) = i
           f == [i \in 1 .. Cardinality(T) |->
                   <<Nth(i), Min(RunEnds(S, Nth(i)))>>]
<1>1. pid_filter_format(S) = f
  BY DEF pid_filter_format, RunStarts, RunEnds, Rank
<1>2. IsFiniteSet(T) /\ T \subseteq S /\ T \subseteq Nat
  <2>1. MaxPid \in Int /\ 0 .. MaxPid \subseteq Nat
    BY DEF MaxPid
  <2>2. IsFiniteSet(0 .. MaxPid)
    BY <2>1, FS_Interval
  <2>3. T \subseteq S
    BY DEF RunStarts
  <2> HIDE DEF T
  <2>4. T \in SUBSET (0 .. MaxPid) /\ T \subseteq Nat
    BY <2>1, <2>3
  <2> QED
    BY <2>2, <2>3, <2>4, FS_Subset
<1> HIDE DEF T
<1>3. ASSUME NEW i \in 1 .. Cardinality(T) PROVE Nth(i) \in T /\ Rank(T, Nth(i)) = i
  BY <1>2, RanksAreUnique
<1>4. ASSUME NEW p \in T PROVE Rank(T, p) \in 1 .. Cardinality(T) /\ Nth(Rank(T, p)) = p
  <2>1. Rank(T, p) \in 1 .. Cardinality(T)
    BY <1>2, RanksAreUnique
  <2>2. Nth(Rank(T, p)) \in T /\ Rank(T, Nth(Rank(T, p))) = Rank(T, p)
    BY <1>3, <2>1
  <2> HIDE DEF Nth
  <2>3. Nth(Rank(T, p)) = p
    BY <1>2, <2>2, RanksAreUnique
  <2> QED
    BY <2>1, <2>3
<1> HIDE DEF Nth
<1>5. DOMAIN f = 1 .. Cardinality(T)
      /\ \A i \in 1 .. Cardinality(T) :
           f[i][1] = Nth(i) /\ f[i][2] = Min(RunEnds(S, Nth(i)))
  OBVIOUS
<1> HIDE DEF f
<1>6. ASSUME NEW x \in Pids(f) PROVE x \in S
  <2>1. PICK i \in 1 .. Cardinality(T) : x \in Nth(i) .. Min(RunEnds(S, Nth(i)))
    BY <1>5 DEF Pids
  <2>2. Nth(i) \in S
    BY <1>2, <1>3
  <2> QED
    BY <2>1, <2>2, RunInside
<1>7. ASSUME NEW x \in S PROVE x \in Pids(f)
  <2>1. PICK p \in T : x \in p .. Min(RunEnds(S, p))
    BY RunCovers DEF T
  <2>2. Rank(T, p) \in DOMAIN f /\ f[Rank(T, p)][1] = p
        /\ f[Rank(T, p)][2] = Min(RunEnds(S, p))
    BY <1>4, <1>5
  <2> QED
    BY <2>1, <2>2 DEF Pids
<1> QED
  BY <1>1, <1>6, <1>7

-----------------------------------------------------------------------------
(* The initial state *)

\* No filter parses.
LEMMA UnsetParses == pid_filter_parse(Ranges(Unset))
<1>1. Ranges(Unset) = <<>>
  BY DEF Ranges, Unset
<1> QED
  BY <1>1, FilterAssumption DEF pid_filter_parse

LEMMA UnsetIsFilter == Unset \in FilterValues
  BY UnsetParses DEF FilterValues

\* An idle tuner satisfies the invariant.
LEMMA InitInv == Init => IInv
<1> SUFFICES ASSUME Init PROVE IInv
  OBVIOUS
<1> USE DEF Init
<1>1. TypeOK
  <2>1. pid_filter_parse(Ranges(filter_override))
    BY UnsetParses
  <2>2. channelmap \in MapNames /\ tuned_delivery \in {Vsb, Qam}
    BY DEF MapNames
  <2>3. program \in Int /\ tuned_frequency_hz \in Nat
    BY DEF Default
  <2>4. TableOK
    BY DEF TableOK
  <2>5. busy \in BOOLEAN /\ scan_worker_active \in BOOLEAN /\ moved \in BOOLEAN
    BY Zenon
  <2>6. channel = None /\ vch = None /\ active_stream = None
    OBVIOUS
  <2> HIDE DEF Init
  <2> QED
    BY <2>1, <2>2, <2>3, <2>4, <2>5, <2>6 DEF TypeOK
<1>2. ThreadsOK
  BY UnsetIsFilter
     DEF ThreadsOK, ConnStates, PushStates, PullStates, WorkerStates, At
<1>3. ClaimInv
  BY DEF ClaimInv, PushOwns, PullOwns, ScanOwns, ConnOwns, At
<1>4. CoherentInv
  <2>1. \A r \in Rows : r.key # None
    BY SelectionAssumption
  <2>2. \A i \in Present : table[i].key # None
    BY <1>1, <2>1, PresentRow DEF TypeOK
  <2> QED
    BY <2>1, <2>2, RowsOf DEF CoherentInv, Find
<1>5. WriterInv
  BY DEF WriterInv, At
<1>6. PointersInv
  BY DEF PointersInv, At
<1> HIDE DEF Init
<1> QED
  BY <1>1, <1>2, <1>3, <1>4, <1>5, <1>6 DEF IInv

-----------------------------------------------------------------------------
(* The threads *)

\* udp_push_stop only marks the push.
LEMMA StopMarks ==
  ASSUME ThreadsOK, StopPush
  PROVE  /\ push' \in PushStates /\ push'.at = push.at
         /\ push.at # "none" => push'.row = push.row
<1>0. push \in PushStates
  BY DEF ThreadsOK
<1>1. CASE push.at \in {"claim", "open", "bind", "attach", "run"}
  <2>1. /\ push \in [at : {"claim", "open", "bind", "attach", "run", "free"},
                     row : Streamable, program : Int, filter : FilterValues,
                     stop : BOOLEAN]
        /\ push' = [push EXCEPT !.stop = TRUE]
    BY <1>0, <1>1, PushFields DEF StopPush
  <2> QED
    BY <2>1 DEF PushStates
<1>2. CASE push.at \notin {"claim", "open", "bind", "attach", "run"}
  BY <1>0, <1>2 DEF StopPush
<1> QED
  BY <1>1, <1>2

\* Every step leaves the threads with requests they can carry.
LEMMA ThreadStep == IInv /\ [Next]_vars => ThreadsOK'
<1> SUFFICES ASSUME IInv, [Next]_vars PROVE ThreadsOK'
  OBVIOUS
<1>0. ThreadsOK
  BY DEF IInv
<1>t. TypeOK /\ TableOK /\ PointersInv
  BY DEF IInv, TypeOK
<1>i. At("idle") \in ConnStates /\ Unset \in FilterValues
  BY UnsetIsFilter DEF ConnStates, At
<1> USE DEF ThreadsOK, selVars, ownVars, scanVars
<1>1. ASSUME NEW c \in Conns, NEW m \in Maps, SetMap(c, m) PROVE ThreadsOK'
  <2>1. push' \in PushStates
    BY <1>0, <1>1, StopMarks DEF SetMap
  <2>2. [at |-> "map", map |-> m] \in ConnStates
    BY SelectionAssumption DEF ConnStates
  <2> QED
    BY <1>0, <1>1, <2>1, <2>2 DEF SetMap, Begin, Go
<1>2. ASSUME NEW c \in Conns, WriteMap(c) PROVE ThreadsOK'
  BY <1>0, <1>i, <1>2 DEF WriteMap, Deselect, Done, Go
<1>3. ASSUME NEW c \in Conns, SetNone(c) PROVE ThreadsOK'
  <2>1. push' \in PushStates
    BY <1>0, <1>3, StopMarks DEF SetNone
  <2>2. At("none") \in ConnStates
    BY DEF ConnStates, At
  <2> QED
    BY <1>0, <1>3, <2>1, <2>2 DEF SetNone, Begin, Go
<1>4. ASSUME NEW c \in Conns, WriteNone(c) PROVE ThreadsOK'
  BY <1>0, <1>i, <1>4 DEF WriteNone, Deselect, Done, Go
<1>5. ASSUME NEW c \in Conns, NEW k \in Slots, SetVchannel(c, k)
       PROVE  ThreadsOK'
  <2>1. push' \in PushStates
    BY <1>0, <1>5, StopMarks DEF SetVchannel
  <2>2. [at |-> "bind", ch |-> k] \in ConnStates
    BY DEF ConnStates
  <2> QED
    BY <1>0, <1>5, <2>1, <2>2 DEF SetVchannel, Begin, Go
<1>6. ASSUME NEW c \in Conns, BindVchannel(c) PROVE ThreadsOK'
  <2>1. At("unfilter") \in ConnStates
    BY DEF ConnStates, At
  <2> QED
    BY <1>0, <1>6, <2>1 DEF BindVchannel, Bind, Go
<1>7. ASSUME NEW c \in Conns, ClearFilter(c) PROVE ThreadsOK'
  BY <1>0, <1>i, <1>7 DEF ClearFilter, Done, Go
<1>8. ASSUME NEW c \in Conns, NEW v \in Inputs, SetChannel(c, v) PROVE ThreadsOK'
  <2> DEFINE w == parse_channel_value(channelmap, v[1], v[2])
             q == [at |-> "raw", freq |-> w.freq, del |-> delivery_for_map(channelmap)]
  <2>1. conn' = [conn EXCEPT ![c] = IF w = Rejected THEN At("idle") ELSE q] /\ Still
    BY <1>8 DEF SetChannel, Begin, Go
  <2>2. w # Rejected => w.freq \in Freqs
    BY ParsedFreq, SelectionAssumption DEF Freqs
  <2>3. delivery_for_map(channelmap) \in Deliveries
    BY DEF delivery_for_map, Deliveries
  <2> HIDE DEF w
  <2>4. w # Rejected => q \in ConnStates
    BY <2>2, <2>3 DEF ConnStates
  <2> HIDE DEF q
  <2> QED
    BY <1>0, <1>i, <2>1, <2>4 DEF Still
<1>9. ASSUME NEW c \in Conns, ClaimRaw(c) PROVE ThreadsOK'
  <2>1. conn[c] \in [at : {"raw", "queue", "session"}, freq : Freqs, del : Deliveries]
    BY <1>0, <1>9, ConnFields DEF ClaimRaw
  <2>2. [conn[c] EXCEPT !.at = IF busy THEN "queue" ELSE "session"] \in ConnStates
    BY <2>1 DEF ConnStates
  <2> QED
    BY <1>0, <1>9, <2>2 DEF ClaimRaw, Go
<1>10. ASSUME NEW c \in Conns, OpenSession(c) PROVE ThreadsOK'
  <2>1. conn[c].freq \in Freqs /\ conn[c].del \in Deliveries
    BY <1>0, <1>10, ConnFields DEF OpenSession
  <2>2. [at |-> "tune", freq |-> conn[c].freq, del |-> conn[c].del, queue |-> <<>>]
          \in WorkerStates
    BY <2>1 DEF WorkerStates
  <2> QED
    BY <1>0, <1>i, <1>10, <2>2 DEF OpenSession, RawSelect, Done, Go, FilterValues
<1>11. ASSUME NEW c \in Conns, QueueRaw(c) PROVE ThreadsOK'
  <2>1. conn[c].freq \in Freqs
    BY <1>0, <1>11, ConnFields DEF QueueRaw
  <2>2. worker' \in WorkerStates
    <3>1. worker.at \notin {"none", "release"}
      BY <1>0, <1>11 DEF QueueRaw, Queueable, IInv, ClaimInv
    <3>2. worker \in [at : {"tune", "psip", "next", "leave"}, freq : Freqs,
                      del : Deliveries, queue : Seq(Freqs)]
      BY <1>0, <3>1, WorkerFields
    <3>3. worker' = [worker EXCEPT !.queue = Append(@, conn[c].freq)]
      BY <1>11 DEF QueueRaw, Queueable
    <3>4. Append(worker.queue, conn[c].freq) \in Seq(Freqs)
      BY <2>1, <3>2
    <3> QED
      BY <3>2, <3>3, <3>4 DEF WorkerStates
  <2> QED
    BY <1>0, <1>i, <1>11, <2>2 DEF QueueRaw, RawSelect, Done, Go, FilterValues
<1>12. ASSUME NEW c \in Conns, RefuseRaw(c) PROVE ThreadsOK'
  BY <1>0, <1>i, <1>12 DEF RefuseRaw, Still, Done, Go
<1>13. ASSUME NEW c \in Conns, NEW p \in Programs, SetProgram(c, p)
       PROVE  ThreadsOK'
  BY <1>0, <1>i, <1>13 DEF SetProgram, Touched, Begin, Done, Go
<1>14. ASSUME NEW c \in Conns, NEW f \in Filters, SetFilter(c, f) PROVE ThreadsOK'
  BY <1>0, <1>i, <1>14 DEF SetFilter, Touched, Begin, FilterValues, Done, Go
<1>15. ASSUME NEW c \in Conns, SetTarget(c) PROVE ThreadsOK'
  <2>1. push' \in PushStates
    BY <1>0, <1>15, StopMarks DEF SetTarget
  <2>2. At("target") \in ConnStates
    BY DEF ConnStates, At
  <2> QED
    BY <1>0, <1>15, <2>1, <2>2 DEF SetTarget, Begin, Go
<1>16. ASSUME NEW c \in Conns, SetTargetNone(c) PROVE ThreadsOK'
  <2>1. push' \in PushStates
    BY <1>0, <1>16, StopMarks DEF SetTargetNone
  <2>2. At("idle") \in ConnStates
    BY DEF ConnStates, At
  <2> QED
    BY <1>0, <1>16, <2>1, <2>2 DEF SetTargetNone, Begin, Go
<1>17. ASSUME NEW c \in Conns, TakeSnapshot(c) PROVE ThreadsOK'
  <2>1. Snapshot \in Snaps
    BY <1>t DEF Snapshot, Snaps, TypeOK, Deliveries
  <2>2. [at |-> "choose", snap |-> Snapshot] \in ConnStates
    BY <2>1 DEF ConnStates
  <2> QED
    BY <1>0, <1>17, <2>2 DEF TakeSnapshot, Go, Still
<1>18. ASSUME NEW c \in Conns, Choose(c) PROVE ThreadsOK'
  <2>1. conn[c].snap \in Snaps
    BY <1>0, <1>18, ConnFields DEF Choose
  <2>2. PICK k \in Chosen(conn[c].snap) :
          conn' = [conn EXCEPT ![c] =
            [at |-> IF Waits(conn[c].snap) THEN "recheck" ELSE "commit",
             snap |-> conn[c].snap, ch |-> k]]
    BY <1>18 DEF Choose, Go
  <2>3. k \in Slots \cup {Synthetic} /\ (k = Synthetic => conn[c].snap.freq # 0)
    BY <1>t, <2>1, <2>2, ChosenIs, SlotsAre DEF Present
  <2>4. [at |-> IF Waits(conn[c].snap) THEN "recheck" ELSE "commit",
         snap |-> conn[c].snap, ch |-> k] \in ConnStates
    BY <2>1, <2>3 DEF ConnStates
  <2> QED
    BY <1>0, <1>18, <2>2, <2>4 DEF Choose, Still
<1>19. ASSUME NEW c \in Conns, ChooseFails(c) PROVE ThreadsOK'
  BY <1>0, <1>i, <1>19 DEF ChooseFails, Still, Done, Go
<1>20. ASSUME NEW c \in Conns, Recheck(c) PROVE ThreadsOK'
  <2>1. /\ conn[c] \in [at : {"recheck", "commit"}, snap : Snaps,
                        ch : Slots \cup {Synthetic}]
        /\ conn[c].ch = Synthetic => conn[c].snap.freq # 0
    BY <1>0, <1>20, ConnFields DEF Recheck
  <2>2. [conn[c] EXCEPT !.at = "commit"] \in ConnStates
    BY <2>1 DEF ConnStates
  <2> QED
    BY <1>0, <1>i, <1>20, <2>2 DEF Recheck, Go, Done, Still
<1>21. ASSUME NEW c \in Conns, Commit(c) PROVE ThreadsOK'
  <2> DEFINE r == PushedRow(conn[c].snap, conn[c].ch)
             p == PushedProgram(conn[c].snap, conn[c].ch)
  <2>1. /\ conn[c].snap \in Snaps
        /\ conn[c].ch \in Present \/ (conn[c].ch = Synthetic /\ conn[c].snap.freq # 0)
    BY <1>0, <1>t, <1>21, ConnFields DEF Commit, PointersInv, Present
  <2>p. r \in Streamable /\ p \in Int
    BY <1>t, <2>1, PushedIs
  <2>q. push' = [at |-> "claim", row |-> r, program |-> p, filter |-> filter_override,
                 stop |-> FALSE]
    BY <1>21 DEF Commit
  <2> HIDE DEF r, p
  <2>2. push' \in PushStates
    BY <1>0, <2>p, <2>q DEF PushStates
  <2> QED
    BY <1>0, <1>i, <1>21, <2>2 DEF Commit, Done, Go
<1>22. ASSUME PushClaim PROVE ThreadsOK'
  <2>1. push' \in PushStates
    <3>1. push \in [at : {"claim", "open", "bind", "attach", "run", "free"},
                    row : Streamable, program : Int, filter : FilterValues,
                    stop : BOOLEAN]
      BY <1>0, <1>22, PushFields DEF PushClaim
    <3> QED
      BY <1>22, <3>1 DEF PushClaim, PushGoto, PushStates
  <2> QED
    BY <1>0, <1>22, <2>1 DEF PushClaim
<1>23. ASSUME PushGivesUp PROVE ThreadsOK'
  BY <1>0, <1>23 DEF PushGivesUp, At, PushStates
<1>24. ASSUME PushOpen PROVE ThreadsOK'
  <2>1. push' \in PushStates
    <3>1. push \in [at : {"claim", "open", "bind", "attach", "run", "free"},
                    row : Streamable, program : Int, filter : FilterValues,
                    stop : BOOLEAN]
      BY <1>0, <1>24, PushFields DEF PushOpen
    <3> QED
      BY <1>24, <3>1 DEF PushOpen, PushGoto, PushStates
  <2> QED
    BY <1>0, <1>24, <2>1 DEF PushOpen
<1>25. ASSUME PushBind PROVE ThreadsOK'
  <2>1. push' \in PushStates
    <3>1. push \in [at : {"claim", "open", "bind", "attach", "run", "free"},
                    row : Streamable, program : Int, filter : FilterValues,
                    stop : BOOLEAN]
      BY <1>0, <1>25, PushFields DEF PushBind
    <3> QED
      BY <1>25, <3>1 DEF PushBind, PushGoto, PushStates
  <2> QED
    BY <1>0, <1>25, <2>1 DEF PushBind, Bind
<1>26. ASSUME PushAttach PROVE ThreadsOK'
  <2>1. push' \in PushStates
    <3>1. push \in [at : {"claim", "open", "bind", "attach", "run", "free"},
                    row : Streamable, program : Int, filter : FilterValues,
                    stop : BOOLEAN]
      BY <1>0, <1>26, PushFields DEF PushAttach
    <3> QED
      BY <1>26, <3>1 DEF PushAttach, PushGoto, PushStates
  <2> QED
    BY <1>0, <1>26, <2>1 DEF PushAttach
<1>27. ASSUME PushEnds PROVE ThreadsOK'
  <2>1. push' \in PushStates
    <3>1. push \in [at : {"claim", "open", "bind", "attach", "run", "free"},
                    row : Streamable, program : Int, filter : FilterValues,
                    stop : BOOLEAN]
      BY <1>0, <1>27, PushFields DEF PushEnds
    <3> QED
      BY <1>27, <3>1 DEF PushEnds, PushGoto, PushStates
  <2> QED
    BY <1>0, <1>27, <2>1 DEF PushEnds
<1>28. ASSUME PushFree PROVE ThreadsOK'
  BY <1>0, <1>28 DEF PushFree, At, PushStates
<1>29. ASSUME NEW k \in Slots, PullClaim(k) PROVE ThreadsOK'
  BY <1>0, <1>29 DEF PullClaim, PullStates
<1>30. ASSUME PullOpen PROVE ThreadsOK'
  <2>1. pull' \in PullStates
    <3>1. pull.ch \in Slots /\ pull.ch \in Present
      BY <1>0, <1>t, <1>30, PullFields DEF PullOpen, PointersInv, Present
    <3>2. table[pull.ch] \in Rows
      BY <1>t, <3>1, PresentRow
    <3> QED
      BY <1>30, <3>1, <3>2 DEF PullOpen, PullStates
  <2> QED
    BY <1>0, <1>30, <2>1 DEF PullOpen
<1>31. ASSUME PullBind PROVE ThreadsOK'
  <2>1. pull' \in PullStates
    <3>1. pull \in [at : {"bind", "attach", "run", "detach", "free"}, ch : Slots,
                    row : Rows]
      BY <1>0, <1>31, PullFields DEF PullBind
    <3> QED
      BY <1>31, <3>1 DEF PullBind, PullGoto, PullStates
  <2> QED
    BY <1>0, <1>31, <2>1 DEF PullBind, Bind
<1>32. ASSUME PullAttach PROVE ThreadsOK'
  <2>1. pull' \in PullStates
    <3>1. pull \in [at : {"bind", "attach", "run", "detach", "free"}, ch : Slots,
                    row : Rows]
      BY <1>0, <1>32, PullFields DEF PullAttach
    <3> QED
      BY <1>32, <3>1 DEF PullAttach, PullGoto, PullStates
  <2> QED
    BY <1>0, <1>32, <2>1 DEF PullAttach
<1>33. ASSUME PullForgets PROVE ThreadsOK'
  <2>1. pull' \in PullStates
    <3>1. pull \in [at : {"bind", "attach", "run", "detach", "free"}, ch : Slots,
                    row : Rows]
      BY <1>0, <1>33, PullFields DEF PullForgets
    <3> QED
      BY <1>33, <3>1 DEF PullForgets, PullGoto, PullStates
  <2> QED
    BY <1>0, <1>33, <2>1, UnsetIsFilter DEF PullForgets
<1>34. ASSUME PullDetach PROVE ThreadsOK'
  <2>1. pull' \in PullStates
    <3>1. pull \in [at : {"bind", "attach", "run", "detach", "free"}, ch : Slots,
                    row : Rows]
      BY <1>0, <1>34, PullFields DEF PullDetach
    <3> QED
      BY <1>34, <3>1 DEF PullDetach, PullGoto, PullStates
  <2> QED
    BY <1>0, <1>34, <2>1 DEF PullDetach
<1>35. ASSUME PullFree PROVE ThreadsOK'
  BY <1>0, <1>35 DEF PullFree, At, PullStates
<1>36. ASSUME Attempt PROVE ThreadsOK'
  <2>1. worker \in [at : {"tune", "psip", "next", "leave"}, freq : Freqs,
                    del : Deliveries, queue : Seq(Freqs)]
    BY <1>0, <1>36, WorkerFields DEF Attempt
  <2>2. worker' \in WorkerStates
    BY <1>36, <2>1 DEF Attempt, WorkerStates
  <2> QED
    BY <1>0, <1>36, <2>2 DEF Attempt
<1>37. ASSUME PsipDone PROVE ThreadsOK'
  <2>1. worker \in [at : {"tune", "psip", "next", "leave"}, freq : Freqs,
                    del : Deliveries, queue : Seq(Freqs)]
    BY <1>0, <1>37, WorkerFields DEF PsipDone
  <2>2. worker' \in WorkerStates
    BY <1>37, <2>1 DEF PsipDone, WorkerStates
  <2> QED
    BY <1>0, <1>37, <2>2 DEF PsipDone
<1>38. ASSUME Dequeue PROVE ThreadsOK'
  <2>1. worker \in [at : {"tune", "psip", "next", "leave"}, freq : Freqs,
                    del : Deliveries, queue : Seq(Freqs)]
    BY <1>0, <1>38, WorkerFields DEF Dequeue
  <2>2. Head(worker.queue) \in Freqs /\ Tail(worker.queue) \in Seq(Freqs)
    BY <1>38, <2>1 DEF Dequeue
  <2>3. worker' \in WorkerStates
    BY <1>38, <2>1, <2>2 DEF Dequeue, WorkerStates
  <2> QED
    BY <1>0, <1>38, <2>3 DEF Dequeue
<1>39. ASSUME Leave PROVE ThreadsOK'
  <2>1. worker \in [at : {"tune", "psip", "next", "leave"}, freq : Freqs,
                    del : Deliveries, queue : Seq(Freqs)]
    BY <1>0, <1>39, WorkerFields DEF Leave
  <2>2. worker' \in WorkerStates
    BY <1>39, <2>1 DEF Leave, WorkerStates
  <2> QED
    BY <1>0, <1>39, <2>2 DEF Leave
<1>40. ASSUME Deactivate PROVE ThreadsOK'
  BY <1>0, <1>40 DEF Deactivate, At, WorkerStates
<1>41. ASSUME ReleaseScan PROVE ThreadsOK'
  BY <1>0, <1>41 DEF ReleaseScan, At, WorkerStates
<1>42. ASSUME UNCHANGED vars PROVE ThreadsOK'
  BY <1>0, <1>42 DEF vars
<1>43. ASSUME NEW k \in Slots, NEW r \in Lineup[k], ReadPsip(k, r) \/ OtherScan(k, r)
       PROVE  ThreadsOK'
  BY <1>0, <1>43 DEF ReadPsip, OtherScan, Store
<1> HIDE DEF ThreadsOK
<1> QED
  BY <1>1, <1>2, <1>3, <1>4, <1>5, <1>6, <1>7, <1>8, <1>9, <1>10, <1>11, <1>12,
     <1>13, <1>14, <1>15, <1>16, <1>17, <1>18, <1>19, <1>20, <1>21, <1>22,
     <1>23, <1>24, <1>25, <1>26, <1>27, <1>28, <1>29, <1>30, <1>31, <1>32,
     <1>33, <1>34, <1>35, <1>36, <1>37, <1>38, <1>39, <1>40, <1>41, <1>42,
     <1>43 DEF Next, Set, Push, Pull, Worker, Scan

-----------------------------------------------------------------------------
(* The selection *)

\* The steps that write the selection or the table; every other one leaves them
\* alone.
LEMMA SelectionFrame ==
  ASSUME [Next]_vars
  PROVE  \/ /\ \E c \in Conns :
                 \/ WriteMap(c) \/ WriteNone(c) \/ BindVchannel(c) \/ ClearFilter(c)
                 \/ OpenSession(c) \/ QueueRaw(c)
                 \/ \E q \in Programs : SetProgram(c, q)
                 \/ \E f \in Filters : SetFilter(c, f)
            /\ table' = table
         \/ (PushBind \/ PullBind \/ PullForgets) /\ table' = table
         \/ \E i \in Slots : \E r \in Lineup[i] : Store(i, r)
         \/ UNCHANGED <<selVars, table>>
<1> USE DEF scanVars
<1>1. ASSUME NEW c \in Conns,
             \/ \E m \in Maps : SetMap(c, m)
             \/ \E i \in Slots : SetVchannel(c, i)
             \/ \E v \in Inputs : SetChannel(c, v)
             \/ SetNone(c) \/ SetTarget(c) \/ SetTargetNone(c)
             \/ ClaimRaw(c) \/ RefuseRaw(c) \/ TakeSnapshot(c) \/ Choose(c)
             \/ ChooseFails(c) \/ Recheck(c) \/ Commit(c)
      PROVE  UNCHANGED <<selVars, table>>
  BY <1>1 DEF SetMap, SetVchannel, SetChannel, SetNone, SetTarget, SetTargetNone,
              ClaimRaw, RefuseRaw, TakeSnapshot, Choose, ChooseFails, Recheck,
              Commit, Still
<1>2. ASSUME PushClaim \/ PushGivesUp \/ PushOpen \/ PushAttach \/ PushEnds \/ PushFree
      PROVE  UNCHANGED <<selVars, table>>
  BY <1>2 DEF PushClaim, PushGivesUp, PushOpen, PushAttach, PushEnds, PushFree
<1>3. ASSUME \/ \E i \in Slots : PullClaim(i)
             \/ PullOpen \/ PullAttach \/ PullDetach \/ PullFree
      PROVE  UNCHANGED <<selVars, table>>
  BY <1>3 DEF PullClaim, PullOpen, PullAttach, PullDetach, PullFree
<1>4. ASSUME Worker PROVE UNCHANGED <<selVars, table>>
  BY <1>4 DEF Worker, Attempt, PsipDone, Dequeue, Leave, Deactivate, ReleaseScan
<1>5. ASSUME NEW c \in Conns,
             \/ WriteMap(c) \/ WriteNone(c) \/ BindVchannel(c) \/ ClearFilter(c)
             \/ OpenSession(c) \/ QueueRaw(c)
             \/ \E q \in Programs : SetProgram(c, q)
             \/ \E f \in Filters : SetFilter(c, f)
      PROVE  table' = table
  BY <1>5 DEF WriteMap, WriteNone, BindVchannel, ClearFilter, OpenSession, QueueRaw,
              SetProgram, SetFilter
<1>6. ASSUME PushBind \/ PullBind \/ PullForgets PROVE table' = table
  BY <1>6 DEF PushBind, PullBind, PullForgets
<1>7. ASSUME Scan PROVE \E i \in Slots : \E r \in Lineup[i] : Store(i, r)
  BY <1>7 DEF Scan, ReadPsip, OtherScan
<1> QED
  BY <1>1, <1>2, <1>3, <1>4, <1>5, <1>6, <1>7 DEF Next, Set, Push, Pull, vars

\* The table stays typed, and a slot that has a row keeps one.
LEMMA TableStep ==
  ASSUME TableOK, [Next]_vars
  PROVE  TableOK' /\ Present \subseteq Present'
<1>1. CASE table' = table
  BY <1>1 DEF TableOK, Present
<1>2. ASSUME NEW i \in Slots, NEW r \in Lineup[i], Store(i, r)
      PROVE  TableOK' /\ Present \subseteq Present'
  <2>1. table' = [table EXCEPT ![i] = r] /\ r # None
    BY <1>2, RowsOf, SelectionAssumption DEF Store
  <2> QED
    BY <2>1 DEF TableOK, Present
<1> QED
  BY <1>1, <1>2, SelectionFrame

\* The part of the type invariant that the selection has.
SelTypes ==
  /\ channelmap \in MapNames /\ program \in Int
  /\ channel = None \/ channel \in {Vsb, Qam} \X Nat
  /\ tuned_frequency_hz \in Nat /\ tuned_delivery \in {Vsb, Qam}
  /\ vch = None \/ vch \in Nat \X Nat
  /\ pid_filter_parse(Ranges(filter_override))

\* tuner_bind_channel writes a coherent selection.
LEMMA BindCoheres ==
  ASSUME SelTypes, TableOK, table' = table, NEW row \in Streamable, NEW o \in Int,
         NEW f, f = row.freq \/ row \in ByKey(row.key), NEW who, Bind(row, o, f, who)
  PROVE  SelTypes' /\ CoherentInv'
<1>1. /\ row.freq \in Nat /\ row.freq # 0 /\ row.del \in {Vsb, Qam}
      /\ row.prog \in Int /\ row.key \in Nat \X Nat
      /\ \A i \in Slots : \A q \in Lineup[i] : q.key = row.key => row \in Lineup[i]
  BY StreamableRow DEF Freqs, Deliveries
<1>2. /\ vch' = row.key /\ tuned_frequency_hz' = row.freq
      /\ tuned_delivery' = row.del /\ channel' = <<row.del, row.freq>>
      /\ program' = IF o = Default THEN row.prog ELSE o
      /\ channelmap' = channelmap /\ filter_override' = filter_override
  BY DEF Bind
<1>3. SelTypes'
  BY <1>1, <1>2 DEF SelTypes
<1>4. channel' \in {Vsb, Qam} \X Nat /\ channel' # None /\ channel'[2] = row.freq
  BY <1>1, <1>2, SelectionAssumption
<1>5. ASSUME ~moved', NEW i \in Find(row.key) PROVE table[i].freq = row.freq
  <2>1. \A r \in ByKey(row.key) : r.freq = f
    BY <1>5 DEF Bind
  <2>2. row.freq = f
    BY <2>1
  <2> QED
    BY <2>1, <2>2 DEF ByKey
<1>6. Find(vch)' = Find(row.key)
  BY <1>2 DEF Find, Present
<1>7. ~moved' => \A i \in Find(vch)' : table'[i].freq = tuned_frequency_hz'
  BY <1>2, <1>5, <1>6
<1>8. CoherentInv'
  BY <1>1, <1>2, <1>4, <1>7 DEF CoherentInv
<1> QED
  BY <1>3, <1>8

\* Without a virtual channel no slot is the selection's.
LEMMA NoneHasNoRow ==
  ASSUME TableOK
  PROVE  Find(None) = {} /\ \A i \in Slots : \A r \in Lineup[i] : r.key # None
<1>1. \A r \in Rows : r.key # None
  BY SelectionAssumption
<1> QED
  BY <1>1, RowsOf, PresentRow DEF Find

\* So does a deselection.
LEMMA DeselectCoheres ==
  ASSUME SelTypes, TableOK, table' = table, Deselect, channelmap' \in MapNames,
         program' = program
  PROVE  SelTypes' /\ CoherentInv'
<1>1. vch' = None /\ Find(vch)' = Find(None)
  BY DEF Deselect, Find, Present
<1> QED
  BY <1>1, NoneHasNoRow, UnsetParses DEF Deselect, SelTypes, CoherentInv

\* So does a raw channel SET.
LEMMA RawCoheres ==
  ASSUME SelTypes, TableOK, table' = table, NEW f \in Freqs, NEW d \in Deliveries,
         RawSelect(f, d)
  PROVE  SelTypes' /\ CoherentInv'
<1>2. /\ tuned_frequency_hz' = f /\ channel' = <<d, f>> /\ vch' = None
      /\ filter_override' = Unset /\ channelmap' = channelmap
      /\ tuned_delivery' = tuned_delivery /\ program' = program
  BY DEF RawSelect
<1>1. Find(vch)' = Find(None)
  BY <1>2 DEF Find, Present
<1>3. f \in Nat /\ f # 0 /\ d \in {Vsb, Qam}
  BY DEF Freqs, Deliveries
<1>4. SelTypes'
  BY <1>2, <1>3, UnsetParses DEF SelTypes
<1>5. channel' # None /\ channel'[2] = f
  BY <1>2, <1>3, SelectionAssumption
<1>6. CoherentInv'
  BY <1>1, <1>2, <1>3, <1>5, NoneHasNoRow DEF CoherentInv
<1> QED
  BY <1>4, <1>6

\* The selection stays coherent when nobody writes its fields.
LEMMA CoherentKeeps ==
  ASSUME CoherentInv, table' = table,
         UNCHANGED <<channel, tuned_frequency_hz, tuned_delivery, vch, moved>>
  PROVE  CoherentInv'
<1>1. Find(vch)' = Find(vch)
  BY DEF Find, Present
<1> QED
  BY <1>1 DEF CoherentInv

\* A row that is stored leaves the fields alone, and a channel that it moves is
\* marked.
LEMMA StoreCoheres ==
  ASSUME SelTypes, CoherentInv, TableOK, NEW i \in Slots, NEW r \in Lineup[i],
         Store(i, r)
  PROVE  SelTypes' /\ CoherentInv'
<1>1. /\ table' = [table EXCEPT ![i] = r]
      /\ UNCHANGED <<channelmap, channel, tuned_frequency_hz, tuned_delivery, vch,
                     program, filter_override>>
  BY DEF Store
<1>2. SelTypes'
  BY <1>1 DEF SelTypes
<1>3. ASSUME ~moved', NEW k \in Find(vch)' PROVE table'[k].freq = tuned_frequency_hz'
  <2>1. ~moved /\ ~(vch = r.key /\ r.freq # tuned_frequency_hz)
    BY <1>3 DEF Store
  <2>2. k \in Slots /\ table'[k] # None /\ table'[k].key = vch
    BY <1>1, <1>3 DEF Find, Present
  <2>3. CASE k = i
    <3>1. table'[k] = r
      BY <1>1, <2>3 DEF TableOK
    <3> QED
      BY <1>1, <2>1, <2>2, <3>1
  <2>4. CASE k # i
    <3>1. table'[k] = table[k]
      BY <1>1, <2>2, <2>4 DEF TableOK
    <3>2. k \in Find(vch)
      BY <2>2, <3>1 DEF Find, Present
    <3> QED
      BY <1>1, <2>1, <3>1, <3>2 DEF CoherentInv
  <2> QED
    BY <2>3, <2>4
<1>4. CoherentInv'
  BY <1>1, <1>3 DEF CoherentInv
<1> QED
  BY <1>2, <1>4

\* Every step leaves the selection typed and coherent.
LEMMA CoherentStep == IInv /\ [Next]_vars => SelTypes' /\ CoherentInv'
<1> SUFFICES ASSUME IInv, [Next]_vars PROVE SelTypes' /\ CoherentInv'
  OBVIOUS
<1>0. SelTypes /\ ThreadsOK /\ CoherentInv /\ TableOK /\ PointersInv
  BY DEF IInv, TypeOK, SelTypes
<1>d. Default \in Int
  BY DEF Default
<1>1. ASSUME NEW c \in Conns, WriteMap(c), table' = table PROVE SelTypes' /\ CoherentInv'
  <2>1. conn[c].map \in MapNames
    BY <1>0, <1>1, ConnFields DEF WriteMap, ThreadsOK
  <2> QED
    BY <1>0, <1>1, <2>1, DeselectCoheres DEF WriteMap
<1>2. ASSUME NEW c \in Conns, WriteNone(c), table' = table PROVE SelTypes' /\ CoherentInv'
  BY <1>0, <1>2, DeselectCoheres DEF WriteNone, SelTypes
<1>3. ASSUME NEW c \in Conns, BindVchannel(c), table' = table
      PROVE  SelTypes' /\ CoherentInv'
  <2> DEFINE row == table[conn[c].ch]
  <2>1. conn[c].ch \in Present
    BY <1>0, <1>3, ConnFields DEF BindVchannel, ThreadsOK, PointersInv, Present
  <2>2. row \in Streamable
    BY <1>0, <2>1, PresentRow DEF Streamable
  <2>3. Bind(row, Default, row.freq, "vchannel")
    BY <1>3 DEF BindVchannel
  <2> HIDE DEF row
  <2> QED
    BY <1>0, <1>3, <1>d, <2>2, <2>3, BindCoheres
<1>4. ASSUME NEW c \in Conns, ClearFilter(c), table' = table
      PROVE  SelTypes' /\ CoherentInv'
  BY <1>0, <1>4, UnsetParses, CoherentKeeps DEF ClearFilter, SelTypes
<1>5. ASSUME NEW c \in Conns, OpenSession(c), table' = table
      PROVE  SelTypes' /\ CoherentInv'
  <2>1. conn[c].freq \in Freqs /\ conn[c].del \in Deliveries
    BY <1>0, <1>5, ConnFields DEF OpenSession, ThreadsOK
  <2> QED
    BY <1>0, <1>5, <2>1, RawCoheres DEF OpenSession
<1>6. ASSUME NEW c \in Conns, QueueRaw(c), table' = table PROVE SelTypes' /\ CoherentInv'
  <2>1. conn[c].freq \in Freqs /\ conn[c].del \in Deliveries
    BY <1>0, <1>6, ConnFields DEF QueueRaw, ThreadsOK
  <2> QED
    BY <1>0, <1>6, <2>1, RawCoheres DEF QueueRaw
<1>7. ASSUME NEW c \in Conns, NEW q \in Programs, SetProgram(c, q), table' = table
      PROVE  SelTypes' /\ CoherentInv'
  BY <1>0, <1>7, UnsetParses, SelectionAssumption, CoherentKeeps DEF SetProgram, SelTypes
<1>8. ASSUME NEW c \in Conns, NEW f \in Filters, SetFilter(c, f), table' = table
      PROVE  SelTypes' /\ CoherentInv'
  BY <1>0, <1>8, CoherentKeeps DEF SetFilter, SelTypes
<1>9. ASSUME PushBind, table' = table PROVE SelTypes' /\ CoherentInv'
  <2>1. push.row \in Streamable /\ push.program \in Int
    BY <1>0, <1>9, PushFields DEF PushBind, ThreadsOK
  <2> QED
    BY <1>0, <1>9, <2>1, BindCoheres DEF PushBind
<1>10. ASSUME PullBind, table' = table PROVE SelTypes' /\ CoherentInv'
  <2> DEFINE row == table[pull.ch]
  <2>1. pull.ch \in Present
    BY <1>0, <1>10, PullFields DEF PullBind, ThreadsOK, PointersInv, Present
  <2>2. row \in Streamable /\ row \in ByKey(row.key)
    BY <1>0, <2>1, PresentRow DEF Streamable, ByKey, Find
  <2>3. Bind(row, Default, pull.row.freq, "pull")
    BY <1>10 DEF PullBind
  <2> HIDE DEF row
  <2> QED
    BY <1>0, <1>10, <1>d, <2>2, <2>3, BindCoheres
<1>11. ASSUME UNCHANGED <<selVars, table>> PROVE SelTypes' /\ CoherentInv'
  BY <1>0, <1>11, CoherentKeeps DEF selVars, SelTypes
<1>12. ASSUME PullForgets, table' = table PROVE SelTypes' /\ CoherentInv'
  <2>1. \/ UNCHANGED selVars
        \/ /\ channel' = None /\ tuned_frequency_hz' = 0 /\ vch' = None
           /\ program' = Default /\ filter_override' = Unset
           /\ UNCHANGED <<channelmap, tuned_delivery>>
    BY <1>12 DEF PullForgets
  <2>2. vch' = None => Find(vch)' = Find(None)
    BY <1>12 DEF Find, Present
  <2> QED
    BY <1>0, <1>11, <1>12, <1>d, <2>1, <2>2, UnsetParses, NoneHasNoRow
    DEF SelTypes, CoherentInv
<1>13. ASSUME NEW i \in Slots, NEW r \in Lineup[i], Store(i, r)
       PROVE  SelTypes' /\ CoherentInv'
  BY <1>0, <1>13, StoreCoheres
<1> QED
  BY SelectionFrame, <1>1, <1>2, <1>3, <1>4, <1>5, <1>6, <1>7, <1>8, <1>9, <1>10,
     <1>11, <1>12, <1>13

\* Every step preserves the type invariant.
LEMMA TypeStep == IInv /\ [Next]_vars => TypeOK'
<1> SUFFICES ASSUME IInv, [Next]_vars PROVE TypeOK'
  OBVIOUS
<1>0. TypeOK /\ ThreadsOK
  BY DEF IInv
<1>1. SelTypes'
  BY CoherentStep
<1>2. TableOK' /\ moved' \in BOOLEAN
  <2>1. TableOK'
    BY <1>0, TableStep DEF TypeOK
  <2>2. moved \in BOOLEAN
    BY <1>0 DEF TypeOK
  <2>3. \/ \E S, f : moved' = (\E r \in S : r.freq # f)
        \/ \E P \in BOOLEAN : moved' = P
    <3>1. ASSUME NEW row, NEW o, NEW f, NEW who, Bind(row, o, f, who)
          PROVE  \E S, g : moved' = (\E r \in S : r.freq # g)
      BY <3>1, Zenon DEF Bind
    <3>2. ASSUME NEW i, NEW r, Store(i, r) PROVE \E P \in BOOLEAN : moved' = P
      BY <2>2, <3>2, Zenon DEF Store
    <3>3. moved' = moved \/ moved' = FALSE \/ PushBind \/ PullBind
          \/ (\E c \in Conns : BindVchannel(c))
          \/ (\E i \in Slots : \E r \in Lineup[i] : Store(i, r))
      BY SelectionFrame DEF WriteMap, WriteNone, Deselect, ClearFilter, OpenSession,
         QueueRaw, RawSelect, SetProgram, SetFilter, PullForgets, selVars
    <3>4. PushBind \/ PullBind \/ (\E c \in Conns : BindVchannel(c)) =>
            \E row, o, f, who : Bind(row, o, f, who)
      BY Zenon DEF PushBind, PullBind, BindVchannel
    <3>5. moved' = moved \/ moved' = FALSE => \E P \in BOOLEAN : moved' = P
      BY <2>2
    <3> QED
      BY <3>1, <3>2, <3>3, <3>4, <3>5, Zenon
  <2>4. moved' \in BOOLEAN
    BY <2>3, Zenon
  <2> QED
    BY <2>1, <2>4
<1>3. busy' \in BOOLEAN /\ scan_worker_active' \in BOOLEAN
  <2>1. busy' \in {TRUE, FALSE, busy}
    BY DEF Next, Set, Push, Pull, Worker, vars, ownVars, Still, SetMap, WriteMap,
           SetNone, WriteNone, SetVchannel, BindVchannel, ClearFilter, SetChannel,
           ClaimRaw, OpenSession, QueueRaw, RefuseRaw, SetProgram, SetFilter,
           SetTarget, SetTargetNone, TakeSnapshot, Choose, ChooseFails, Recheck,
           Commit, PushClaim, PushGivesUp, PushOpen, PushBind, PushAttach, PushEnds,
           PushFree, PullClaim, PullOpen, PullBind, PullAttach, PullForgets,
           PullDetach, PullFree, Attempt, PsipDone, Dequeue, Leave, Deactivate,
           ReleaseScan, Scan, ReadPsip, OtherScan
  <2>2. scan_worker_active' \in {TRUE, FALSE, scan_worker_active}
    BY DEF Next, Set, Push, Pull, Worker, vars, scanVars, Still, SetMap, WriteMap,
           SetNone, WriteNone, SetVchannel, BindVchannel, ClearFilter, SetChannel,
           ClaimRaw, OpenSession, QueueRaw, RefuseRaw, SetProgram, SetFilter,
           SetTarget, SetTargetNone, TakeSnapshot, Choose, ChooseFails, Recheck,
           Commit, PushClaim, PushGivesUp, PushOpen, PushBind, PushAttach, PushEnds,
           PushFree, PullClaim, PullOpen, PullBind, PullAttach, PullForgets,
           PullDetach, PullFree, Attempt, PsipDone, Dequeue, Leave, Deactivate,
           ReleaseScan, Scan, ReadPsip, OtherScan
  <2>3. busy \in BOOLEAN /\ scan_worker_active \in BOOLEAN
    BY <1>0 DEF TypeOK
  <2> QED
    BY <2>1, <2>2, <2>3, Zenon
<1>4. active_stream' = None \/ active_stream'.freq \in Nat
  <2>1. ASSUME PushAttach PROVE active_stream'.freq \in Nat
    BY <1>0, <2>1, PushFields, StreamableRow DEF PushAttach, ThreadsOK, Freqs
  <2>2. ASSUME PullAttach PROVE active_stream'.freq \in Nat
    <3>1. pull.row \in Streamable
      BY <1>0, <2>2, PullFields DEF PullAttach, ThreadsOK, Streamable
    <3> QED
      BY <2>2, <3>1, StreamableRow DEF PullAttach, Freqs
  <2>3. PushAttach \/ PullAttach \/ active_stream' \in {None, active_stream}
    BY DEF Next, Set, Push, Pull, Worker, vars, ownVars, Still, SetMap, WriteMap,
           SetNone, WriteNone, SetVchannel, BindVchannel, ClearFilter, SetChannel,
           ClaimRaw, OpenSession, QueueRaw, RefuseRaw, SetProgram, SetFilter,
           SetTarget, SetTargetNone, TakeSnapshot, Choose, ChooseFails, Recheck,
           Commit, PushClaim, PushGivesUp, PushOpen, PushBind, PushEnds, PushFree,
           PullClaim, PullOpen, PullBind, PullForgets, PullDetach, PullFree,
           Attempt, PsipDone, Dequeue, Leave, Deactivate, ReleaseScan,
           Scan, ReadPsip, OtherScan
  <2> QED
    BY <1>0, <2>1, <2>2, <2>3 DEF TypeOK
<1> QED
  BY <1>1, <1>2, <1>3, <1>4 DEF SelTypes, TypeOK

-----------------------------------------------------------------------------
(* The claim *)

\* A connection that moves on, but not into a session.
LEMMA NoSession ==
  ASSUME ThreadsOK, NEW c \in Conns, NEW s, s.at # "session", Go(c, s)
  PROVE  \A d \in Conns : ConnOwns(d)' => d # c /\ ConnOwns(d)
<1>1. conn' = [conn EXCEPT ![c] = s] /\ DOMAIN conn = Conns
  BY DEF Go, ThreadsOK
<1> QED
  BY <1>1 DEF ConnOwns

\* The claim stays where it is when no thread moves in or out of it.
LEMMA ClaimKeeps ==
  ASSUME ClaimInv, UNCHANGED <<busy, active_stream, scan_worker_active, pull>>,
         push'.at = push.at, push.at # "none" => push'.row = push.row,
         worker'.at = worker.at, \A d \in Conns : ConnOwns(d)' => ConnOwns(d)
  PROVE  ClaimInv'
  BY DEF ClaimInv, PushOwns, PullOwns, ScanOwns

\* Without an owner nothing is attached and nobody is in a session.
LEMMA FreeHasNoOwner ==
  ASSUME ClaimInv, ~busy
  PROVE  /\ ~PushOwns /\ ~PullOwns /\ ~ScanOwns /\ active_stream = None
         /\ \A c \in Conns : ~ConnOwns(c)
  BY DEF ClaimInv, PushOwns, PullOwns

\* The claim of a push is nobody else's.
LEMMA PushSole ==
  ASSUME ClaimInv, PushOwns
  PROVE  /\ busy /\ pull.at = "none" /\ worker.at = "none" /\ ~scan_worker_active
         /\ \A c \in Conns : ~ConnOwns(c)
         /\ active_stream # None => push.at = "run" /\ active_stream = push.row
  BY DEF ClaimInv, PullOwns, ScanOwns

\* Nor is the claim of a pull.
LEMMA PullSole ==
  ASSUME ClaimInv, PullOwns
  PROVE  /\ busy /\ ~PushOwns /\ worker.at = "none" /\ ~scan_worker_active
         /\ \A c \in Conns : ~ConnOwns(c)
         /\ active_stream # None =>
              pull.at \in {"run", "detach"} /\ active_stream = pull.row
  BY DEF ClaimInv, PushOwns, PullOwns, ScanOwns

\* Nor is that of the scan worker, and nothing is attached.
LEMMA ScanSole ==
  ASSUME ClaimInv, ScanOwns
  PROVE  /\ busy /\ ~PushOwns /\ pull.at = "none" /\ active_stream = None
         /\ \A c \in Conns : ~ConnOwns(c)
  BY DEF ClaimInv, PushOwns, PullOwns, ScanOwns

\* Nor is that of a session that is about to open.
LEMMA SessionSole ==
  ASSUME ClaimInv, NEW c \in Conns, ConnOwns(c)
  PROVE  /\ busy /\ ~PushOwns /\ pull.at = "none" /\ worker.at = "none"
         /\ active_stream = None
         /\ \A d \in Conns : ConnOwns(d) => d = c
  BY DEF ClaimInv, PushOwns, PullOwns, ScanOwns

\* Every step leaves the claim with one owner at most.
LEMMA ClaimStep == IInv /\ [Next]_vars => ClaimInv'
<1> SUFFICES ASSUME IInv, [Next]_vars PROVE ClaimInv'
  OBVIOUS
<1>0. ThreadsOK /\ ClaimInv
  BY DEF IInv
<1> USE DEF selVars, ownVars, scanVars
<1>1. ASSUME NEW c \in Conns, NEW m \in Maps, SetMap(c, m) PROVE ClaimInv'
  <2>1. push'.at = push.at /\ (push.at # "none" => push'.row = push.row)
    BY <1>0, <1>1, StopMarks DEF SetMap
  <2>2. \A d \in Conns : ConnOwns(d)' => ConnOwns(d)
    BY <1>0, <1>1, NoSession DEF SetMap, Begin, At
  <2> QED
    BY <1>0, <1>1, <2>1, <2>2, ClaimKeeps DEF SetMap
<1>2. ASSUME NEW c \in Conns, WriteMap(c) PROVE ClaimInv'
  <2>1. \A d \in Conns : ConnOwns(d)' => ConnOwns(d)
    BY <1>0, <1>2, NoSession DEF WriteMap, Done, Begin, At
  <2> QED
    BY <1>0, <1>2, <2>1, ClaimKeeps DEF WriteMap
<1>3. ASSUME NEW c \in Conns, SetNone(c) PROVE ClaimInv'
  <2>1. push'.at = push.at /\ (push.at # "none" => push'.row = push.row)
    BY <1>0, <1>3, StopMarks DEF SetNone
  <2>2. \A d \in Conns : ConnOwns(d)' => ConnOwns(d)
    BY <1>0, <1>3, NoSession DEF SetNone, Begin, At
  <2> QED
    BY <1>0, <1>3, <2>1, <2>2, ClaimKeeps DEF SetNone
<1>4. ASSUME NEW c \in Conns, WriteNone(c) PROVE ClaimInv'
  <2>1. \A d \in Conns : ConnOwns(d)' => ConnOwns(d)
    BY <1>0, <1>4, NoSession DEF WriteNone, Done, Begin, At
  <2> QED
    BY <1>0, <1>4, <2>1, ClaimKeeps DEF WriteNone
<1>5. ASSUME NEW c \in Conns, NEW k \in Slots, SetVchannel(c, k)
       PROVE  ClaimInv'
  <2>1. push'.at = push.at /\ (push.at # "none" => push'.row = push.row)
    BY <1>0, <1>5, StopMarks DEF SetVchannel
  <2>2. \A d \in Conns : ConnOwns(d)' => ConnOwns(d)
    BY <1>0, <1>5, NoSession DEF SetVchannel, Begin, At
  <2> QED
    BY <1>0, <1>5, <2>1, <2>2, ClaimKeeps DEF SetVchannel
<1>6. ASSUME NEW c \in Conns, BindVchannel(c) PROVE ClaimInv'
  <2>1. \A d \in Conns : ConnOwns(d)' => ConnOwns(d)
    BY <1>0, <1>6, NoSession DEF BindVchannel, Done, Begin, At
  <2> QED
    BY <1>0, <1>6, <2>1, ClaimKeeps DEF BindVchannel
<1>7. ASSUME NEW c \in Conns, ClearFilter(c) PROVE ClaimInv'
  <2>1. \A d \in Conns : ConnOwns(d)' => ConnOwns(d)
    BY <1>0, <1>7, NoSession DEF ClearFilter, Done, Begin, At
  <2> QED
    BY <1>0, <1>7, <2>1, ClaimKeeps DEF ClearFilter
<1>8. ASSUME NEW c \in Conns, NEW v \in Inputs, SetChannel(c, v) PROVE ClaimInv'
  <2>1. \A d \in Conns : ConnOwns(d)' => ConnOwns(d)
    BY <1>0, <1>8, NoSession DEF SetChannel, Done, Begin, At
  <2> QED
    BY <1>0, <1>8, <2>1, ClaimKeeps DEF SetChannel, Still
<1>9. ASSUME NEW c \in Conns, ClaimRaw(c) PROVE ClaimInv'
  <2>1. conn[c] \in [at : {"raw", "queue", "session"}, freq : Freqs, del : Deliveries]
    BY <1>0, <1>9, ConnFields DEF ClaimRaw, ThreadsOK
  <2> DEFINE s == [conn[c] EXCEPT !.at = IF busy THEN "queue" ELSE "session"]
  <2>2. /\ s.at = IF busy THEN "queue" ELSE "session"
        /\ Go(c, s)
    BY <1>9, <2>1 DEF ClaimRaw
  <2> HIDE DEF s
  <2>3. CASE busy
    <3>1. \A d \in Conns : ConnOwns(d)' => ConnOwns(d)
      BY <1>0, <2>2, <2>3, NoSession
    <3>2. busy' = busy
      BY <1>9, <2>3 DEF ClaimRaw
    <3> QED
      BY <1>0, <1>9, <3>1, <3>2, ClaimKeeps DEF ClaimRaw
  <2>4. CASE ~busy
    <3>1. /\ ~PushOwns /\ ~PullOwns /\ ~ScanOwns /\ active_stream = None
          /\ \A d \in Conns : ~ConnOwns(d)
      BY <1>0, <2>4, FreeHasNoOwner
    <3>2. \A d \in Conns : ConnOwns(d)' => d = c
      BY <1>0, <2>2, <3>1 DEF Go, ThreadsOK, ConnOwns
    <3> QED
      BY <1>0, <1>9, <3>1, <3>2 DEF ClaimRaw, ClaimInv, PushOwns, PullOwns, ScanOwns
  <2> QED
    BY <2>3, <2>4
<1>10. ASSUME NEW c \in Conns, OpenSession(c) PROVE ClaimInv'
  <2>1. /\ busy /\ ~PushOwns /\ pull.at = "none" /\ worker.at = "none"
        /\ active_stream = None /\ \A d \in Conns : ConnOwns(d) => d = c
    BY <1>0, <1>10, SessionSole DEF OpenSession, ConnOwns
  <2>2. \A d \in Conns : ConnOwns(d)' => d # c /\ ConnOwns(d)
    BY <1>0, <1>10, NoSession DEF OpenSession, Done, At
  <2>3. worker'.at = "tune"
    BY <1>10 DEF OpenSession
  <2> QED
    BY <1>10, <2>1, <2>2, <2>3
    DEF OpenSession, ClaimInv, PushOwns, PullOwns, ScanOwns
<1>11. ASSUME NEW c \in Conns, QueueRaw(c) PROVE ClaimInv'
  <2>1. \A d \in Conns : ConnOwns(d)' => ConnOwns(d)
    BY <1>0, <1>11, NoSession DEF QueueRaw, Done, At
  <2>2. worker \in [at : {"tune", "psip", "next", "leave"}, freq : Freqs,
                    del : Deliveries, queue : Seq(Freqs)]
    BY <1>0, <1>11, WorkerFields DEF QueueRaw, Queueable, ThreadsOK, ClaimInv
  <2>3. worker'.at = worker.at
    BY <1>11, <2>2 DEF QueueRaw
  <2> QED
    BY <1>0, <1>11, <2>1, <2>3, ClaimKeeps DEF QueueRaw
<1>12. ASSUME NEW c \in Conns, RefuseRaw(c) PROVE ClaimInv'
  <2>1. \A d \in Conns : ConnOwns(d)' => ConnOwns(d)
    BY <1>0, <1>12, NoSession DEF RefuseRaw, Done, Begin, At
  <2> QED
    BY <1>0, <1>12, <2>1, ClaimKeeps DEF RefuseRaw, Still
<1>13. ASSUME NEW c \in Conns, NEW p \in Programs, SetProgram(c, p)
       PROVE  ClaimInv'
  <2>1. \A d \in Conns : ConnOwns(d)' => ConnOwns(d)
    BY <1>0, <1>13, NoSession DEF SetProgram, Done, Begin, At
  <2> QED
    BY <1>0, <1>13, <2>1, ClaimKeeps DEF SetProgram
<1>14. ASSUME NEW c \in Conns, NEW f \in Filters, SetFilter(c, f) PROVE ClaimInv'
  <2>1. \A d \in Conns : ConnOwns(d)' => ConnOwns(d)
    BY <1>0, <1>14, NoSession DEF SetFilter, Done, Begin, At
  <2> QED
    BY <1>0, <1>14, <2>1, ClaimKeeps DEF SetFilter
<1>15. ASSUME NEW c \in Conns, SetTarget(c) PROVE ClaimInv'
  <2>1. push'.at = push.at /\ (push.at # "none" => push'.row = push.row)
    BY <1>0, <1>15, StopMarks DEF SetTarget
  <2>2. \A d \in Conns : ConnOwns(d)' => ConnOwns(d)
    BY <1>0, <1>15, NoSession DEF SetTarget, Begin, At
  <2> QED
    BY <1>0, <1>15, <2>1, <2>2, ClaimKeeps DEF SetTarget
<1>16. ASSUME NEW c \in Conns, SetTargetNone(c) PROVE ClaimInv'
  <2>1. push'.at = push.at /\ (push.at # "none" => push'.row = push.row)
    BY <1>0, <1>16, StopMarks DEF SetTargetNone
  <2>2. \A d \in Conns : ConnOwns(d)' => ConnOwns(d)
    BY <1>0, <1>16, NoSession DEF SetTargetNone, Begin, At
  <2> QED
    BY <1>0, <1>16, <2>1, <2>2, ClaimKeeps DEF SetTargetNone
<1>17. ASSUME NEW c \in Conns, TakeSnapshot(c) PROVE ClaimInv'
  <2>1. \A d \in Conns : ConnOwns(d)' => ConnOwns(d)
    BY <1>0, <1>17, NoSession DEF TakeSnapshot, Done, Begin, At
  <2> QED
    BY <1>0, <1>17, <2>1, ClaimKeeps DEF TakeSnapshot, Still
<1>18. ASSUME NEW c \in Conns, Choose(c) PROVE ClaimInv'
  <2>1. PICK k \in Chosen(conn[c].snap) :
          Go(c, [at |-> IF Waits(conn[c].snap) THEN "recheck" ELSE "commit",
                 snap |-> conn[c].snap, ch |-> k])
    BY <1>18 DEF Choose
  <2>2. \A d \in Conns : ConnOwns(d)' => ConnOwns(d)
    BY <1>0, <2>1, NoSession
  <2> QED
    BY <1>0, <1>18, <2>2, ClaimKeeps DEF Choose, Still
<1>19. ASSUME NEW c \in Conns, ChooseFails(c) PROVE ClaimInv'
  <2>1. \A d \in Conns : ConnOwns(d)' => ConnOwns(d)
    BY <1>0, <1>19, NoSession DEF ChooseFails, Done, Begin, At
  <2> QED
    BY <1>0, <1>19, <2>1, ClaimKeeps DEF ChooseFails, Still
<1>20. ASSUME NEW c \in Conns, Recheck(c) PROVE ClaimInv'
  <2>1. conn[c] \in [at : {"recheck", "commit"}, snap : Snaps,
                     ch : Slots \cup {Synthetic}]
    BY <1>0, <1>20, ConnFields DEF Recheck, ThreadsOK
  <2>2. [conn[c] EXCEPT !.at = "commit"].at # "session" /\ At("idle").at # "session"
    BY <2>1 DEF At
  <2>3. \A d \in Conns : ConnOwns(d)' => ConnOwns(d)
    BY <1>0, <1>20, <2>2, NoSession DEF Recheck, Done
  <2> QED
    BY <1>0, <1>20, <2>3, ClaimKeeps DEF Recheck, Still
<1>21. ASSUME NEW c \in Conns, Commit(c) PROVE ClaimInv'
  <2>1. \A d \in Conns : ConnOwns(d)' => ConnOwns(d)
    BY <1>0, <1>21, NoSession DEF Commit, Done, At
  <2>2. push'.at = "claim"
    BY <1>21 DEF Commit
  <2> QED
    BY <1>0, <1>21, <2>1, <2>2 DEF Commit, ClaimInv, PushOwns, PullOwns, ScanOwns
<1>22. ASSUME PushClaim PROVE ClaimInv'
  <2>0. push \in [at : {"claim", "open", "bind", "attach", "run", "free"},
                  row : Streamable, program : Int, filter : FilterValues,
                  stop : BOOLEAN]
    BY <1>0, <1>22, PushFields DEF PushClaim, ThreadsOK
  <2>1. /\ ~PushOwns /\ ~PullOwns /\ ~ScanOwns /\ active_stream = None
        /\ \A d \in Conns : ~ConnOwns(d)
    BY <1>0, <1>22, FreeHasNoOwner DEF PushClaim
  <2>2. push'.at = "open"
    BY <1>22, <2>0 DEF PushClaim, PushGoto
  <2> QED
    BY <1>0, <1>22, <2>1, <2>2
    DEF PushClaim, ClaimInv, PushOwns, PullOwns, ScanOwns, ConnOwns
<1>23. ASSUME PushGivesUp PROVE ClaimInv'
  BY <1>0, <1>23 DEF PushGivesUp, At, ClaimInv, PushOwns, PullOwns, ScanOwns, ConnOwns
<1>24. ASSUME PushOpen PROVE ClaimInv'
  <2>0. push \in [at : {"claim", "open", "bind", "attach", "run", "free"},
                  row : Streamable, program : Int, filter : FilterValues,
                  stop : BOOLEAN]
    BY <1>0, <1>24, PushFields DEF PushOpen, ThreadsOK
  <2>1. /\ busy /\ pull.at = "none" /\ worker.at = "none" /\ ~scan_worker_active
        /\ \A d \in Conns : ~ConnOwns(d)
        /\ active_stream # None => push.at = "run" /\ active_stream = push.row
    BY <1>0, <1>24, PushSole DEF PushOpen, PushOwns
  <2>2. push'.at \in {"bind", "free"}
    BY <1>24, <2>0 DEF PushOpen, PushGoto
  <2> QED
    BY <1>0, <1>24, <2>1, <2>2
    DEF PushOpen, ClaimInv, PushOwns, PullOwns, ScanOwns, ConnOwns
<1>25. ASSUME PushBind PROVE ClaimInv'
  <2>0. push \in [at : {"claim", "open", "bind", "attach", "run", "free"},
                  row : Streamable, program : Int, filter : FilterValues,
                  stop : BOOLEAN]
    BY <1>0, <1>25, PushFields DEF PushBind, ThreadsOK
  <2>1. /\ busy /\ pull.at = "none" /\ worker.at = "none" /\ ~scan_worker_active
        /\ \A d \in Conns : ~ConnOwns(d)
        /\ active_stream # None => push.at = "run" /\ active_stream = push.row
    BY <1>0, <1>25, PushSole DEF PushBind, PushOwns
  <2>2. push'.at = "attach"
    BY <1>25, <2>0 DEF PushBind, PushGoto
  <2> QED
    BY <1>0, <1>25, <2>1, <2>2
    DEF PushBind, ClaimInv, PushOwns, PullOwns, ScanOwns, ConnOwns
<1>26. ASSUME PushAttach PROVE ClaimInv'
  <2>0. push \in [at : {"claim", "open", "bind", "attach", "run", "free"},
                  row : Streamable, program : Int, filter : FilterValues,
                  stop : BOOLEAN]
    BY <1>0, <1>26, PushFields DEF PushAttach, ThreadsOK
  <2>1. /\ busy /\ pull.at = "none" /\ worker.at = "none" /\ ~scan_worker_active
        /\ \A d \in Conns : ~ConnOwns(d)
        /\ active_stream # None => push.at = "run" /\ active_stream = push.row
    BY <1>0, <1>26, PushSole DEF PushAttach, PushOwns
  <2>2. push'.at = "run" /\ push'.row = push.row
    BY <1>26, <2>0 DEF PushAttach, PushGoto
  <2> QED
    BY <1>0, <1>26, <2>1, <2>2
    DEF PushAttach, ClaimInv, PushOwns, PullOwns, ScanOwns, ConnOwns
<1>27. ASSUME PushEnds PROVE ClaimInv'
  <2>0. push \in [at : {"claim", "open", "bind", "attach", "run", "free"},
                  row : Streamable, program : Int, filter : FilterValues,
                  stop : BOOLEAN]
    BY <1>0, <1>27, PushFields DEF PushEnds, ThreadsOK
  <2>1. /\ busy /\ pull.at = "none" /\ worker.at = "none" /\ ~scan_worker_active
        /\ \A d \in Conns : ~ConnOwns(d)
        /\ active_stream # None => push.at = "run" /\ active_stream = push.row
    BY <1>0, <1>27, PushSole DEF PushEnds, PushOwns
  <2>2. push'.at = "free"
    BY <1>27, <2>0 DEF PushEnds, PushGoto
  <2> QED
    BY <1>0, <1>27, <2>1, <2>2
    DEF PushEnds, ClaimInv, PushOwns, PullOwns, ScanOwns, ConnOwns
<1>28. ASSUME PushFree PROVE ClaimInv'
  <2>1. /\ busy /\ pull.at = "none" /\ worker.at = "none" /\ ~scan_worker_active
        /\ \A d \in Conns : ~ConnOwns(d)
        /\ active_stream # None => push.at = "run" /\ active_stream = push.row
    BY <1>0, <1>28, PushSole DEF PushFree, PushOwns
  <2>2. push'.at = "none"
    BY <1>28 DEF PushFree, At
  <2> QED
    BY <1>0, <1>28, <2>1, <2>2
    DEF PushFree, ClaimInv, PushOwns, PullOwns, ScanOwns, ConnOwns
<1>29. ASSUME NEW k \in Slots, PullClaim(k) PROVE ClaimInv'
  <2>1. /\ ~PushOwns /\ ~PullOwns /\ ~ScanOwns /\ active_stream = None
        /\ \A d \in Conns : ~ConnOwns(d)
    BY <1>0, <1>29, FreeHasNoOwner DEF PullClaim
  <2>2. pull'.at = "open"
    BY <1>29 DEF PullClaim
  <2> QED
    BY <1>0, <1>29, <2>1, <2>2
    DEF PullClaim, ClaimInv, PushOwns, PullOwns, ScanOwns, ConnOwns
<1>30. ASSUME PullOpen PROVE ClaimInv'
  <2>1. /\ busy /\ ~PushOwns /\ worker.at = "none" /\ ~scan_worker_active
        /\ \A d \in Conns : ~ConnOwns(d)
        /\ active_stream # None =>
             pull.at \in {"run", "detach"} /\ active_stream = pull.row
    BY <1>0, <1>30, PullSole DEF PullOpen, PullOwns
  <2>2. pull'.at \in {"bind", "free"}
    BY <1>30 DEF PullOpen
  <2> QED
    BY <1>0, <1>30, <2>1, <2>2
    DEF PullOpen, ClaimInv, PushOwns, PullOwns, ScanOwns, ConnOwns
<1>31. ASSUME PullBind PROVE ClaimInv'
  <2>0. pull \in [at : {"bind", "attach", "run", "detach", "free"}, ch : Slots,
                  row : Rows]
    BY <1>0, <1>31, PullFields DEF PullBind, ThreadsOK
  <2>1. /\ busy /\ ~PushOwns /\ worker.at = "none" /\ ~scan_worker_active
        /\ \A d \in Conns : ~ConnOwns(d)
        /\ active_stream # None =>
             pull.at \in {"run", "detach"} /\ active_stream = pull.row
    BY <1>0, <1>31, PullSole DEF PullBind, PullOwns
  <2>2. pull'.at = "attach"
    BY <1>31, <2>0 DEF PullBind, PullGoto
  <2> QED
    BY <1>0, <1>31, <2>1, <2>2
    DEF PullBind, ClaimInv, PushOwns, PullOwns, ScanOwns, ConnOwns
<1>32. ASSUME PullAttach PROVE ClaimInv'
  <2>0. pull \in [at : {"bind", "attach", "run", "detach", "free"}, ch : Slots,
                  row : Rows]
    BY <1>0, <1>32, PullFields DEF PullAttach, ThreadsOK
  <2>1. /\ busy /\ ~PushOwns /\ worker.at = "none" /\ ~scan_worker_active
        /\ \A d \in Conns : ~ConnOwns(d)
        /\ active_stream # None =>
             pull.at \in {"run", "detach"} /\ active_stream = pull.row
    BY <1>0, <1>32, PullSole DEF PullAttach, PullOwns
  <2>2. pull'.at = "run" /\ pull'.row = pull.row
    BY <1>32, <2>0 DEF PullAttach, PullGoto
  <2> QED
    BY <1>0, <1>32, <2>1, <2>2
    DEF PullAttach, ClaimInv, PushOwns, PullOwns, ScanOwns, ConnOwns
<1>33. ASSUME PullForgets PROVE ClaimInv'
  <2>0. pull \in [at : {"bind", "attach", "run", "detach", "free"}, ch : Slots,
                  row : Rows]
    BY <1>0, <1>33, PullFields DEF PullForgets, ThreadsOK
  <2>1. /\ busy /\ ~PushOwns /\ worker.at = "none" /\ ~scan_worker_active
        /\ \A d \in Conns : ~ConnOwns(d)
        /\ active_stream # None =>
             pull.at \in {"run", "detach"} /\ active_stream = pull.row
    BY <1>0, <1>33, PullSole DEF PullForgets, PullOwns
  <2>2. pull'.at = "detach" /\ pull'.row = pull.row
    BY <1>33, <2>0 DEF PullForgets, PullGoto
  <2> QED
    BY <1>0, <1>33, <2>1, <2>2
    DEF PullForgets, ClaimInv, PushOwns, PullOwns, ScanOwns, ConnOwns
<1>34. ASSUME PullDetach PROVE ClaimInv'
  <2>0. pull \in [at : {"bind", "attach", "run", "detach", "free"}, ch : Slots,
                  row : Rows]
    BY <1>0, <1>34, PullFields DEF PullDetach, ThreadsOK
  <2>1. /\ busy /\ ~PushOwns /\ worker.at = "none" /\ ~scan_worker_active
        /\ \A d \in Conns : ~ConnOwns(d)
        /\ active_stream # None =>
             pull.at \in {"run", "detach"} /\ active_stream = pull.row
    BY <1>0, <1>34, PullSole DEF PullDetach, PullOwns
  <2>2. pull'.at = "free"
    BY <1>34, <2>0 DEF PullDetach, PullGoto
  <2> QED
    BY <1>0, <1>34, <2>1, <2>2
    DEF PullDetach, ClaimInv, PushOwns, PullOwns, ScanOwns, ConnOwns
<1>35. ASSUME PullFree PROVE ClaimInv'
  <2>1. /\ busy /\ ~PushOwns /\ worker.at = "none" /\ ~scan_worker_active
        /\ \A d \in Conns : ~ConnOwns(d)
        /\ active_stream # None =>
             pull.at \in {"run", "detach"} /\ active_stream = pull.row
    BY <1>0, <1>35, PullSole DEF PullFree, PullOwns
  <2>2. pull'.at = "none"
    BY <1>35 DEF PullFree, At
  <2> QED
    BY <1>0, <1>35, <2>1, <2>2
    DEF PullFree, ClaimInv, PushOwns, PullOwns, ScanOwns, ConnOwns
<1>36. ASSUME Attempt PROVE ClaimInv'
  <2>0. worker \in [at : {"tune", "psip", "next", "leave"}, freq : Freqs,
                    del : Deliveries, queue : Seq(Freqs)]
    BY <1>0, <1>36, WorkerFields DEF Attempt, ThreadsOK
  <2>1. /\ busy /\ ~PushOwns /\ pull.at = "none" /\ active_stream = None
        /\ \A d \in Conns : ~ConnOwns(d)
    BY <1>0, <1>36, ScanSole DEF Attempt, ScanOwns
  <2>2. worker'.at \in {"psip", "next"}
    BY <1>36, <2>0 DEF Attempt
  <2> QED
    BY <1>0, <1>36, <2>1, <2>2
    DEF Attempt, ClaimInv, PushOwns, PullOwns, ScanOwns, ConnOwns
<1>37. ASSUME PsipDone PROVE ClaimInv'
  <2>0. worker \in [at : {"tune", "psip", "next", "leave"}, freq : Freqs,
                    del : Deliveries, queue : Seq(Freqs)]
    BY <1>0, <1>37, WorkerFields DEF PsipDone, ThreadsOK
  <2>1. /\ busy /\ ~PushOwns /\ pull.at = "none" /\ active_stream = None
        /\ \A d \in Conns : ~ConnOwns(d)
    BY <1>0, <1>37, ScanSole DEF PsipDone, ScanOwns
  <2>2. worker'.at = "next"
    BY <1>37, <2>0 DEF PsipDone
  <2> QED
    BY <1>0, <1>37, <2>1, <2>2
    DEF PsipDone, ClaimInv, PushOwns, PullOwns, ScanOwns, ConnOwns
<1>38. ASSUME Dequeue PROVE ClaimInv'
  <2>0. worker \in [at : {"tune", "psip", "next", "leave"}, freq : Freqs,
                    del : Deliveries, queue : Seq(Freqs)]
    BY <1>0, <1>38, WorkerFields DEF Dequeue, ThreadsOK
  <2>1. /\ busy /\ ~PushOwns /\ pull.at = "none" /\ active_stream = None
        /\ \A d \in Conns : ~ConnOwns(d)
    BY <1>0, <1>38, ScanSole DEF Dequeue, ScanOwns
  <2>2. worker'.at = "tune"
    BY <1>38, <2>0 DEF Dequeue
  <2> QED
    BY <1>0, <1>38, <2>1, <2>2
    DEF Dequeue, ClaimInv, PushOwns, PullOwns, ScanOwns, ConnOwns
<1>39. ASSUME Leave PROVE ClaimInv'
  <2>0. worker \in [at : {"tune", "psip", "next", "leave"}, freq : Freqs,
                    del : Deliveries, queue : Seq(Freqs)]
    BY <1>0, <1>39, WorkerFields DEF Leave, ThreadsOK
  <2>1. /\ busy /\ ~PushOwns /\ pull.at = "none" /\ active_stream = None
        /\ \A d \in Conns : ~ConnOwns(d)
    BY <1>0, <1>39, ScanSole DEF Leave, ScanOwns
  <2>2. worker'.at = "leave"
    BY <1>39, <2>0 DEF Leave
  <2> QED
    BY <1>0, <1>39, <2>1, <2>2
    DEF Leave, ClaimInv, PushOwns, PullOwns, ScanOwns, ConnOwns
<1>40. ASSUME Deactivate PROVE ClaimInv'
  <2>1. /\ busy /\ ~PushOwns /\ pull.at = "none" /\ active_stream = None
        /\ \A d \in Conns : ~ConnOwns(d)
    BY <1>0, <1>40, ScanSole DEF Deactivate, ScanOwns
  <2>2. worker'.at = "release"
    BY <1>40 DEF Deactivate, At
  <2> QED
    BY <1>0, <1>40, <2>1, <2>2
    DEF Deactivate, ClaimInv, PushOwns, PullOwns, ScanOwns, ConnOwns
<1>41. ASSUME ReleaseScan PROVE ClaimInv'
  <2>1. /\ busy /\ ~PushOwns /\ pull.at = "none" /\ active_stream = None
        /\ \A d \in Conns : ~ConnOwns(d)
    BY <1>0, <1>41, ScanSole DEF ReleaseScan, ScanOwns
  <2>2. worker'.at = "none"
    BY <1>41 DEF ReleaseScan, At
  <2> QED
    BY <1>0, <1>41, <2>1, <2>2
    DEF ReleaseScan, ClaimInv, PushOwns, PullOwns, ScanOwns, ConnOwns
<1>42. ASSUME UNCHANGED vars PROVE ClaimInv'
  BY <1>0, <1>42 DEF vars, ClaimInv, PushOwns, PullOwns, ScanOwns, ConnOwns
<1>43. ASSUME NEW k \in Slots, NEW r \in Lineup[k], ReadPsip(k, r) \/ OtherScan(k, r)
       PROVE  ClaimInv'
  BY <1>0, <1>43
  DEF ReadPsip, OtherScan, ClaimInv, PushOwns, PullOwns, ScanOwns, ConnOwns
<1> HIDE DEF ClaimInv, ThreadsOK
<1> QED
  BY <1>1, <1>2, <1>3, <1>4, <1>5, <1>6, <1>7, <1>8, <1>9, <1>10, <1>11, <1>12,
     <1>13, <1>14, <1>15, <1>16, <1>17, <1>18, <1>19, <1>20, <1>21, <1>22,
     <1>23, <1>24, <1>25, <1>26, <1>27, <1>28, <1>29, <1>30, <1>31, <1>32,
     <1>33, <1>34, <1>35, <1>36, <1>37, <1>38, <1>39, <1>40, <1>41, <1>42,
     <1>43 DEF Next, Set, Push, Pull, Worker, Scan

-----------------------------------------------------------------------------
(* The writers of the selection *)

\* Who wrote the selection last stays right when nobody writes it and no thread
\* comes to a binding, or from one of its own.
LEMMA WriterKeeps ==
  ASSUME WriterInv, UNCHANGED selVars,
         push'.at \in {"attach", "run"} =>
           push.at \in {"attach", "run"} /\ push'.row = push.row,
         pull'.at \in {"attach", "run", "detach"} =>
           pull.at \in {"attach", "run", "detach"},
         pull.at \in {"attach", "run"} =>
           /\ pull'.at \in {"attach", "run"}
           /\ pull'.row = pull.row /\ pull'.ch = pull.ch
  PROVE  WriterInv'
  BY DEF WriterInv, selVars

\* A deselection or a vchannel SET takes the selection from everybody.
LEMMA WriterTakes ==
  ASSUME by' \in {"none", "vchannel"}
  PROVE  WriterInv'
  BY DEF WriterInv

\* Every step leaves the selection to its writer.
LEMMA WriterStep == IInv /\ [Next]_vars => WriterInv'
<1> SUFFICES ASSUME IInv, [Next]_vars PROVE WriterInv'
  OBVIOUS
<1>0. ThreadsOK /\ ClaimInv /\ WriterInv /\ TableOK /\ PointersInv /\ CoherentInv
  BY DEF IInv, TypeOK
<1> USE DEF selVars
<1>1. ASSUME NEW c \in Conns, NEW m \in Maps, SetMap(c, m) PROVE WriterInv'
  <2>1. push'.at = push.at /\ (push.at # "none" => push'.row = push.row)
    BY <1>0, <1>1, StopMarks DEF SetMap
  <2> QED
    BY <1>0, <1>1, <2>1, WriterKeeps DEF SetMap
<1>2. ASSUME NEW c \in Conns, WriteMap(c) PROVE WriterInv'
  BY <1>2, WriterTakes DEF WriteMap, Deselect
<1>3. ASSUME NEW c \in Conns, SetNone(c) PROVE WriterInv'
  <2>1. push'.at = push.at /\ (push.at # "none" => push'.row = push.row)
    BY <1>0, <1>3, StopMarks DEF SetNone
  <2> QED
    BY <1>0, <1>3, <2>1, WriterKeeps DEF SetNone
<1>4. ASSUME NEW c \in Conns, WriteNone(c) PROVE WriterInv'
  BY <1>4, WriterTakes DEF WriteNone, Deselect
<1>5. ASSUME NEW c \in Conns, NEW k \in Slots, SetVchannel(c, k)
       PROVE  WriterInv'
  <2>1. push'.at = push.at /\ (push.at # "none" => push'.row = push.row)
    BY <1>0, <1>5, StopMarks DEF SetVchannel
  <2> QED
    BY <1>0, <1>5, <2>1, WriterKeeps DEF SetVchannel
<1>6. ASSUME NEW c \in Conns, BindVchannel(c) PROVE WriterInv'
  BY <1>6, WriterTakes DEF BindVchannel, Bind
<1>7. ASSUME NEW c \in Conns, ClearFilter(c) PROVE WriterInv'
  BY <1>0, <1>7 DEF ClearFilter, WriterInv
<1>8. ASSUME NEW c \in Conns, NEW v \in Inputs, SetChannel(c, v) PROVE WriterInv'
  BY <1>0, <1>8, WriterKeeps DEF SetChannel, Still
<1>9. ASSUME NEW c \in Conns, ClaimRaw(c) PROVE WriterInv'
  BY <1>0, <1>9, WriterKeeps DEF ClaimRaw
<1>10. ASSUME NEW c \in Conns, OpenSession(c) PROVE WriterInv'
  <2>1. ~PushOwns /\ pull.at = "none"
    BY <1>0, <1>10, SessionSole DEF OpenSession, ConnOwns
  <2>2. by' = "raw" /\ push' = push /\ pull' = pull
    BY <1>10 DEF OpenSession, RawSelect
  <2> QED
    BY <2>1, <2>2 DEF WriterInv, PushOwns
<1>11. ASSUME NEW c \in Conns, QueueRaw(c) PROVE WriterInv'
  <2>1. ScanOwns
    BY <1>0, <1>11 DEF QueueRaw, Queueable, ClaimInv, ScanOwns
  <2>2. ~PushOwns /\ pull.at = "none"
    BY <1>0, <2>1, ScanSole
  <2>3. by' = "raw" /\ push' = push /\ pull' = pull
    BY <1>11 DEF QueueRaw, RawSelect
  <2> QED
    BY <2>2, <2>3 DEF WriterInv, PushOwns
<1>12. ASSUME NEW c \in Conns, RefuseRaw(c) PROVE WriterInv'
  BY <1>0, <1>12, WriterKeeps DEF RefuseRaw, Still
<1>13. ASSUME NEW c \in Conns, NEW p \in Programs, SetProgram(c, p)
       PROVE  WriterInv'
  BY <1>0, <1>13 DEF SetProgram, Touched, WriterInv
<1>14. ASSUME NEW c \in Conns, NEW f \in Filters, SetFilter(c, f) PROVE WriterInv'
  BY <1>0, <1>14 DEF SetFilter, Touched, WriterInv
<1>15. ASSUME NEW c \in Conns, SetTarget(c) PROVE WriterInv'
  <2>1. push'.at = push.at /\ (push.at # "none" => push'.row = push.row)
    BY <1>0, <1>15, StopMarks DEF SetTarget
  <2> QED
    BY <1>0, <1>15, <2>1, WriterKeeps DEF SetTarget
<1>16. ASSUME NEW c \in Conns, SetTargetNone(c) PROVE WriterInv'
  <2>1. push'.at = push.at /\ (push.at # "none" => push'.row = push.row)
    BY <1>0, <1>16, StopMarks DEF SetTargetNone
  <2> QED
    BY <1>0, <1>16, <2>1, WriterKeeps DEF SetTargetNone
<1>17. ASSUME NEW c \in Conns, TakeSnapshot(c) PROVE WriterInv'
  BY <1>0, <1>17, WriterKeeps DEF TakeSnapshot, Still
<1>18. ASSUME NEW c \in Conns, Choose(c) PROVE WriterInv'
  BY <1>0, <1>18, WriterKeeps DEF Choose, Still
<1>19. ASSUME NEW c \in Conns, ChooseFails(c) PROVE WriterInv'
  BY <1>0, <1>19, WriterKeeps DEF ChooseFails, Still
<1>20. ASSUME NEW c \in Conns, Recheck(c) PROVE WriterInv'
  BY <1>0, <1>20, WriterKeeps DEF Recheck, Still
<1>21. ASSUME NEW c \in Conns, Commit(c) PROVE WriterInv'
  <2>1. push'.at = "claim"
    BY <1>21 DEF Commit
  <2> QED
    BY <1>0, <1>21, <2>1, WriterKeeps DEF Commit
<1>22. ASSUME PushClaim PROVE WriterInv'
  <2>0. push \in [at : {"claim", "open", "bind", "attach", "run", "free"},
                  row : Streamable, program : Int, filter : FilterValues,
                  stop : BOOLEAN]
    BY <1>0, <1>22, PushFields DEF PushClaim, ThreadsOK
  <2>1. push'.at = "open"
    BY <1>22, <2>0 DEF PushClaim, PushGoto
  <2> QED
    BY <1>0, <1>22, <2>1, WriterKeeps DEF PushClaim
<1>23. ASSUME PushGivesUp PROVE WriterInv'
  <2>1. push'.at = "none"
    BY <1>23 DEF PushGivesUp, At
  <2> QED
    BY <1>0, <1>23, <2>1, WriterKeeps DEF PushGivesUp
<1>24. ASSUME PushOpen PROVE WriterInv'
  <2>0. push \in [at : {"claim", "open", "bind", "attach", "run", "free"},
                  row : Streamable, program : Int, filter : FilterValues,
                  stop : BOOLEAN]
    BY <1>0, <1>24, PushFields DEF PushOpen, ThreadsOK
  <2>1. push'.at \in {"bind", "free"}
    BY <1>24, <2>0 DEF PushOpen, PushGoto
  <2> QED
    BY <1>0, <1>24, <2>1, WriterKeeps DEF PushOpen
<1>25. ASSUME PushBind PROVE WriterInv'
  <2>0. push \in [at : {"claim", "open", "bind", "attach", "run", "free"},
                  row : Streamable, program : Int, filter : FilterValues,
                  stop : BOOLEAN]
    BY <1>0, <1>25, PushFields DEF PushBind, ThreadsOK
  <2>1. pull.at = "none"
    BY <1>0, <1>25, PushSole DEF PushBind, PushOwns
  <2>2. push'.at = "attach" /\ push'.row = push.row
    BY <1>25, <2>0 DEF PushBind, PushGoto
  <2>3. by' = "push" /\ tuned_frequency_hz' = push.row.freq /\ pull' = pull
    BY <1>25 DEF PushBind, Bind
  <2> QED
    BY <2>1, <2>2, <2>3 DEF WriterInv
<1>26. ASSUME PushAttach PROVE WriterInv'
  <2>0. push \in [at : {"claim", "open", "bind", "attach", "run", "free"},
                  row : Streamable, program : Int, filter : FilterValues,
                  stop : BOOLEAN]
    BY <1>0, <1>26, PushFields DEF PushAttach, ThreadsOK
  <2>1. push'.at = "run" /\ push'.row = push.row
    BY <1>26, <2>0 DEF PushAttach, PushGoto
  <2> QED
    BY <1>0, <1>26, <2>1, WriterKeeps DEF PushAttach
<1>27. ASSUME PushEnds PROVE WriterInv'
  <2>0. push \in [at : {"claim", "open", "bind", "attach", "run", "free"},
                  row : Streamable, program : Int, filter : FilterValues,
                  stop : BOOLEAN]
    BY <1>0, <1>27, PushFields DEF PushEnds, ThreadsOK
  <2>1. push'.at = "free"
    BY <1>27, <2>0 DEF PushEnds, PushGoto
  <2> QED
    BY <1>0, <1>27, <2>1, WriterKeeps DEF PushEnds
<1>28. ASSUME PushFree PROVE WriterInv'
  <2>1. push'.at = "none"
    BY <1>28 DEF PushFree, At
  <2> QED
    BY <1>0, <1>28, <2>1, WriterKeeps DEF PushFree
<1>29. ASSUME NEW k \in Slots, PullClaim(k) PROVE WriterInv'
  <2>1. pull'.at = "open" /\ pull.at = "none"
    BY <1>29 DEF PullClaim
  <2> QED
    BY <1>0, <1>29, <2>1, WriterKeeps DEF PullClaim
<1>30. ASSUME PullOpen PROVE WriterInv'
  <2>1. pull'.at \in {"bind", "free"} /\ pull.at = "open"
    BY <1>30 DEF PullOpen
  <2> QED
    BY <1>0, <1>30, <2>1, WriterKeeps DEF PullOpen
<1>31. ASSUME PullBind PROVE WriterInv'
  <2>0. pull \in [at : {"bind", "attach", "run", "detach", "free"}, ch : Slots,
                  row : Rows]
    BY <1>0, <1>31, PullFields DEF PullBind, ThreadsOK
  <2>1. ~PushOwns
    BY <1>0, <1>31, PullSole DEF PullBind, PullOwns
  <2>2. pull'.at = "attach" /\ pull'.row = pull.row /\ pull'.ch = pull.ch
    BY <1>31, <2>0 DEF PullBind, PullGoto
  <2> DEFINE row == table[pull.ch]
  <2>3. pull.ch \in Present
    BY <1>0, <1>31, <2>0 DEF PullBind, PointersInv, Present
  <2>4. row \in Lineup[pull.ch] /\ row \in ByKey(row.key)
    BY <1>0, <2>3, PresentRow DEF ByKey, Find
  <2>5. Bind(row, Default, pull.row.freq, "pull") /\ push' = push
    BY <1>31 DEF PullBind
  <2> HIDE DEF row
  <2>6. /\ by' = "pull" /\ tuned_frequency_hz' = row.freq /\ vch' = row.key
        /\ ~moved' => row.freq = pull.row.freq
    BY <2>4, <2>5 DEF Bind
  <2> QED
    BY <2>1, <2>2, <2>4, <2>5, <2>6 DEF WriterInv, PushOwns
<1>32. ASSUME PullAttach PROVE WriterInv'
  <2>0. pull \in [at : {"bind", "attach", "run", "detach", "free"}, ch : Slots,
                  row : Rows]
    BY <1>0, <1>32, PullFields DEF PullAttach, ThreadsOK
  <2>1. pull'.at = "run" /\ pull'.row = pull.row /\ pull'.ch = pull.ch
    BY <1>32, <2>0 DEF PullAttach, PullGoto
  <2> QED
    BY <1>0, <1>32, <2>1, WriterKeeps DEF PullAttach
<1>33. ASSUME PullForgets PROVE WriterInv'
  <2>0. pull \in [at : {"bind", "attach", "run", "detach", "free"}, ch : Slots,
                  row : Rows]
    BY <1>0, <1>33, PullFields DEF PullForgets, ThreadsOK
  <2>1. ~PushOwns
    BY <1>0, <1>33, PullSole DEF PullForgets, PullOwns
  <2>2. pull'.at = "detach" /\ push' = push /\ pull.at = "run"
    BY <1>33, <2>0 DEF PullForgets, PullGoto
  <2>3. CASE vch = table[pull.ch].key /\ tuned_frequency_hz = table[pull.ch].freq
    <3>1. /\ by' = "idle" /\ channel' = None /\ program' = Default
          /\ filter_override' = Unset
      BY <1>33, <2>3 DEF PullForgets
    <3> QED
      BY <2>1, <2>2, <3>1 DEF WriterInv, PushOwns
  <2>4. CASE ~(vch = table[pull.ch].key /\ tuned_frequency_hz = table[pull.ch].freq)
    <3>1. UNCHANGED selVars
      BY <1>33, <2>4 DEF PullForgets
    <3>2. by = "pull" => moved
      <4> SUFFICES ASSUME by = "pull", ~moved PROVE FALSE
        OBVIOUS
      <4>1. PICK q \in Lineup[pull.ch] : vch = q.key
        BY <1>0 DEF WriterInv
      <4>2. pull.ch \in Present
        BY <1>0, <2>0, <2>2 DEF PointersInv, Present
      <4>3. pull.ch \in Slots /\ table[pull.ch] \in Lineup[pull.ch]
        BY <1>0, <4>2, PresentRow
      <4>4. table[pull.ch].key = vch
        BY <4>1, <4>3, SelectionAssumption
      <4>5. pull.ch \in Find(vch)
        BY <4>2, <4>4 DEF Find
      <4>6. table[pull.ch].freq = tuned_frequency_hz
        BY <1>0, <4>5 DEF CoherentInv
      <4> QED
        BY <2>4, <4>4, <4>6
    <3> QED
      BY <1>0, <2>1, <2>2, <3>1, <3>2 DEF WriterInv, PushOwns
  <2> QED
    BY <2>3, <2>4
<1>34. ASSUME PullDetach PROVE WriterInv'
  <2>0. pull \in [at : {"bind", "attach", "run", "detach", "free"}, ch : Slots,
                  row : Rows]
    BY <1>0, <1>34, PullFields DEF PullDetach, ThreadsOK
  <2>1. pull'.at = "free" /\ pull.at = "detach"
    BY <1>34, <2>0 DEF PullDetach, PullGoto
  <2> QED
    BY <1>0, <1>34, <2>1, WriterKeeps DEF PullDetach
<1>35. ASSUME PullFree PROVE WriterInv'
  <2>1. pull'.at = "none" /\ pull.at = "free"
    BY <1>35 DEF PullFree, At
  <2> QED
    BY <1>0, <1>35, <2>1, WriterKeeps DEF PullFree
<1>36. ASSUME Attempt PROVE WriterInv'
  BY <1>0, <1>36, WriterKeeps DEF Attempt
<1>37. ASSUME PsipDone PROVE WriterInv'
  BY <1>0, <1>37, WriterKeeps DEF PsipDone
<1>38. ASSUME Dequeue PROVE WriterInv'
  BY <1>0, <1>38, WriterKeeps DEF Dequeue
<1>39. ASSUME Leave PROVE WriterInv'
  BY <1>0, <1>39, WriterKeeps DEF Leave
<1>40. ASSUME Deactivate PROVE WriterInv'
  BY <1>0, <1>40, WriterKeeps DEF Deactivate
<1>41. ASSUME ReleaseScan PROVE WriterInv'
  BY <1>0, <1>41, WriterKeeps DEF ReleaseScan
<1>42. ASSUME UNCHANGED vars PROVE WriterInv'
  BY <1>0, <1>42, WriterKeeps DEF vars
<1>43. ASSUME NEW k \in Slots, NEW r \in Lineup[k], ReadPsip(k, r) \/ OtherScan(k, r)
       PROVE  WriterInv'
  BY <1>0, <1>43 DEF ReadPsip, OtherScan, Store, WriterInv
<1> HIDE DEF ClaimInv, ThreadsOK, WriterInv
<1> QED
  BY <1>1, <1>2, <1>3, <1>4, <1>5, <1>6, <1>7, <1>8, <1>9, <1>10, <1>11, <1>12,
     <1>13, <1>14, <1>15, <1>16, <1>17, <1>18, <1>19, <1>20, <1>21, <1>22,
     <1>23, <1>24, <1>25, <1>26, <1>27, <1>28, <1>29, <1>30, <1>31, <1>32,
     <1>33, <1>34, <1>35, <1>36, <1>37, <1>38, <1>39, <1>40, <1>41, <1>42,
     <1>43 DEF Next, Set, Push, Pull, Worker, Scan

-----------------------------------------------------------------------------
(* The pointers *)

\* A pointer that was good is good after any step.
LEMMA PointersStep == IInv /\ [Next]_vars => PointersInv'
<1> SUFFICES ASSUME IInv, [Next]_vars PROVE PointersInv'
  OBVIOUS
<1>0. ThreadsOK /\ TableOK /\ PointersInv
  BY DEF IInv, TypeOK
<1>1. Present \subseteq Present'
  BY <1>0, TableStep
<1>2. ASSUME NEW d \in Conns
      PROVE  /\ conn'[d].at = "bind" => table'[conn'[d].ch] # None
             /\ conn'[d].at \in {"recheck", "commit"} =>
                  conn'[d].ch = Synthetic \/ table'[conn'[d].ch] # None
  <2> DEFINE Good(q) == /\ q.at = "bind" => table'[q.ch] # None
                        /\ q.at \in {"recheck", "commit"} =>
                             q.ch = Synthetic \/ table'[q.ch] # None
  <2>0. Good(conn[d])
    <3>1. CASE conn[d].at = "bind"
      <4>1. conn[d].ch \in Present
        BY <1>0, <3>1, ConnFields DEF ThreadsOK, PointersInv, Present
      <4> QED
        BY <1>1, <3>1, <4>1 DEF Present
    <3>2. CASE conn[d].at \in {"recheck", "commit"}
      <4>1. conn[d].ch = Synthetic \/ conn[d].ch \in Present
        BY <1>0, <3>2, ConnFields DEF ThreadsOK, PointersInv, Present
      <4> QED
        BY <1>1, <3>2, <4>1 DEF Present
    <3>3. CASE conn[d].at \notin {"bind", "recheck", "commit"}
      BY <3>3
    <3> QED
      BY <3>1, <3>2, <3>3
  <2>1. ASSUME NEW c \in Conns, NEW q, Go(c, q), Good(q) PROVE Good(conn'[d])
    <3>1. conn' = [conn EXCEPT ![c] = q] /\ DOMAIN conn = Conns
      BY <1>0, <2>1 DEF Go, ThreadsOK
    <3>2. conn'[d] = IF d = c THEN q ELSE conn[d]
      BY <3>1
    <3> HIDE DEF Good
    <3> QED
      BY <2>0, <2>1, <3>2
  <2>2. ASSUME NEW c \in Conns, NEW k \in Slots, SetVchannel(c, k) PROVE Good(conn'[d])
    <3>1. k \in Present' /\ Go(c, [at |-> "bind", ch |-> k])
      BY <1>1, <2>2 DEF SetVchannel, Begin
    <3>2. Good([at |-> "bind", ch |-> k])
      BY <3>1 DEF Present
    <3> HIDE DEF Good
    <3> QED
      BY <2>1, <3>1, <3>2
  <2>3. ASSUME NEW c \in Conns, Choose(c) PROVE Good(conn'[d])
    <3>1. PICK k \in Chosen(conn[c].snap) :
            Go(c, [at |-> IF Waits(conn[c].snap) THEN "recheck" ELSE "commit",
                   snap |-> conn[c].snap, ch |-> k])
      BY <2>3 DEF Choose
    <3>2. conn[c].snap \in Snaps
      BY <1>0, <2>3, ConnFields DEF Choose, ThreadsOK
    <3>3. k \in Present \/ k = Synthetic
      BY <1>0, <3>1, <3>2, ChosenIs
    <3>4. Good([at |-> IF Waits(conn[c].snap) THEN "recheck" ELSE "commit",
                snap |-> conn[c].snap, ch |-> k])
      BY <1>1, <3>3 DEF Present
    <3> HIDE DEF Good
    <3> QED
      BY <2>1, <3>1, <3>4
  <2>4. ASSUME NEW c \in Conns, Recheck(c) PROVE Good(conn'[d])
    <3>1. \/ Go(c, At("idle"))
          \/ Go(c, [conn[c] EXCEPT !.at = "commit"])
      BY <2>4 DEF Recheck, Done
    <3>2. Good(At("idle"))
      BY DEF At
    <3>3. /\ conn[c] \in [at : {"recheck", "commit"}, snap : Snaps,
                          ch : Slots \cup {Synthetic}]
          /\ conn[c].ch = Synthetic \/ conn[c].ch \in Present
      BY <1>0, <2>4, ConnFields DEF Recheck, ThreadsOK, PointersInv, Present
    <3>4. Good([conn[c] EXCEPT !.at = "commit"])
      BY <1>1, <3>3 DEF Present
    <3> HIDE DEF Good
    <3> QED
      BY <2>1, <3>1, <3>2, <3>4
  <2>5. ASSUME NEW c \in Conns, NEW q, Go(c, q),
               q.at \notin {"bind", "recheck", "commit"}
        PROVE  Good(conn'[d])
    BY <2>1, <2>5
  <2>6. ASSUME NEW c \in Conns,
               \/ \E m \in Maps : SetMap(c, m)
               \/ WriteMap(c) \/ SetNone(c) \/ WriteNone(c) \/ BindVchannel(c)
               \/ ClearFilter(c) \/ OpenSession(c) \/ QueueRaw(c) \/ RefuseRaw(c)
               \/ \E p \in Programs : SetProgram(c, p)
               \/ \E f \in Filters : SetFilter(c, f)
               \/ SetTarget(c) \/ SetTargetNone(c) \/ TakeSnapshot(c)
               \/ ChooseFails(c) \/ Commit(c)
        PROVE  \E q : Go(c, q) /\ q.at \notin {"bind", "recheck", "commit"}
    <3> DEFINE Plain == {At("idle"), At("none"), At("unfilter"), At("target")}
    <3>1. \/ \E q \in Plain : Go(c, q)
          \/ \E m \in Maps : Go(c, [at |-> "map", map |-> m])
          \/ Go(c, [at |-> "choose", snap |-> Snapshot])
      BY <2>6 DEF SetMap, WriteMap, SetNone, WriteNone, BindVchannel, ClearFilter,
                  OpenSession, QueueRaw, RefuseRaw, SetProgram, SetFilter, SetTarget,
                  SetTargetNone, TakeSnapshot, ChooseFails, Commit, Begin, Done
    <3>2. \A q \in Plain : q.at \notin {"bind", "recheck", "commit"}
      BY DEF At
    <3>3. /\ \A m \in Maps : [at |-> "map", map |-> m].at \notin {"bind", "recheck", "commit"}
          /\ [at |-> "choose", snap |-> Snapshot].at \notin {"bind", "recheck", "commit"}
      OBVIOUS
    <3> HIDE DEF Plain
    <3> QED
      BY <3>1, <3>2, <3>3, Zenon
  <2>7. ASSUME NEW c \in Conns, ClaimRaw(c) PROVE Good(conn'[d])
    <3>1. conn[c] \in [at : {"raw", "queue", "session"}, freq : Freqs, del : Deliveries]
      BY <1>0, <2>7, ConnFields DEF ClaimRaw, ThreadsOK
    <3> DEFINE q == [conn[c] EXCEPT !.at = IF busy THEN "queue" ELSE "session"]
    <3>2. q.at \in {"queue", "session"} /\ Go(c, q)
      BY <2>7, <3>1 DEF ClaimRaw
    <3> HIDE DEF q, Good
    <3> QED
      BY <2>5, <3>2
  <2>8. ASSUME NEW c \in Conns, NEW v \in Inputs, SetChannel(c, v) PROVE Good(conn'[d])
    <3>1. \E q : Go(c, q) /\ q.at \in {"idle", "raw"}
      BY <2>8 DEF SetChannel, Begin, At
    <3> HIDE DEF Good
    <3> QED
      BY <2>5, <3>1
  <2>9. ASSUME conn' = conn PROVE Good(conn'[d])
    BY <2>0, <2>9
  <2>10. ASSUME Push \/ Pull \/ Worker \/ Scan \/ UNCHANGED vars PROVE conn' = conn
    BY <2>10
    DEF Push, Pull, Worker, Scan, vars, PushClaim, PushGivesUp, PushOpen, PushBind,
        PushAttach, PushEnds, PushFree, PullClaim, PullOpen, PullBind, PullAttach,
        PullForgets, PullDetach, PullFree, Attempt, PsipDone, Dequeue, Leave,
        Deactivate, ReleaseScan, ReadPsip, OtherScan
  <2>11. Good(conn'[d])
    <3> HIDE DEF Good
    <3> QED
      BY <2>2, <2>3, <2>4, <2>5, <2>6, <2>7, <2>8, <2>9, <2>10 DEF Next, Set
  <2> QED
    BY <2>11
<1>3. pull'.at # "none" => table'[pull'.ch] # None
  <2>0. pull.at # "none" => pull.ch \in Present
    BY <1>0, PullFields DEF ThreadsOK, PointersInv, Present
  <2>1. \/ \E k \in Slots : PullClaim(k)
        \/ pull'.at = "none"
        \/ pull.at # "none" /\ pull'.ch = pull.ch
    <3>1. ASSUME PullFree PROVE pull'.at = "none"
      BY <3>1 DEF PullFree, At
    <3>2. ASSUME PullOpen PROVE pull.at # "none" /\ pull'.ch = pull.ch
      BY <3>2 DEF PullOpen
    <3>3. ASSUME PullBind \/ PullAttach \/ PullForgets \/ PullDetach
          PROVE  pull.at # "none" /\ pull'.ch = pull.ch
      <4>1. pull.at \in {"bind", "attach", "run", "detach"}
        BY <3>3 DEF PullBind, PullAttach, PullForgets, PullDetach
      <4>2. pull \in [at : {"bind", "attach", "run", "detach", "free"}, ch : Slots,
                      row : Rows]
        BY <1>0, <4>1, PullFields DEF ThreadsOK
      <4>3. \E l : pull' = [pull EXCEPT !.at = l]
        BY <3>3 DEF PullBind, PullAttach, PullForgets, PullDetach, PullGoto
      <4> QED
        BY <4>1, <4>2, <4>3
    <3>4. Pull \/ pull' = pull
      BY DEF Next, Set, Push, Worker, Scan, vars, Still, SetMap, WriteMap,
           SetNone, WriteNone, SetVchannel, BindVchannel, ClearFilter, SetChannel,
           ClaimRaw, OpenSession, QueueRaw, RefuseRaw, SetProgram, SetFilter,
           SetTarget, SetTargetNone, TakeSnapshot, Choose, ChooseFails, Recheck,
           Commit, PushClaim, PushGivesUp, PushOpen, PushBind, PushAttach, PushEnds,
           PushFree, Attempt, PsipDone, Dequeue, Leave, Deactivate, ReleaseScan,
           ReadPsip, OtherScan
    <3> QED
      BY <3>1, <3>2, <3>3, <3>4 DEF Pull
  <2>2. ASSUME NEW k \in Slots, PullClaim(k) PROVE pull'.ch \in Present
    BY <2>2 DEF PullClaim
  <2>3. pull'.at # "none" => pull'.ch \in Present'
    BY <1>1, <2>0, <2>1, <2>2
  <2> QED
    BY <2>3 DEF Present
<1> QED
  BY <1>2, <1>3 DEF PointersInv

-----------------------------------------------------------------------------
(* Theorems *)

\* IInv is an invariant: the claim has one owner at most, the fields of the
\* selection agree, and a binding is written by the owner of its stream only.
THEOREM Inductive == Spec => []IInv
<1>1. IInv /\ [Next]_vars => IInv'
  BY ThreadStep, TypeStep, PointersStep, CoherentStep, ClaimStep, WriterStep DEF IInv
<1> QED
  BY InitInv, <1>1, PTL DEF Spec

\* However the SETs of several clients, scans, a push and a pull interleave, the
\* fields of the selection have values the code can give them, and label,
\* frequency and virtual channel name one selection, a virtual channel with the
\* delivery system of a row that some scan found for it (tuner_bind_channel and
\* the SETs of control.c).
THEOREM SelectionIsSound == Spec => []SelectionSound
<1>1. IInv => SelectionSound
  <2> SUFFICES ASSUME IInv PROVE SelectionCoherent
    BY DEF IInv, SelectionSound
  <2>1. ASSUME NEW i \in Find(vch)
        PROVE  \E r \in Lineup[i] :
                 /\ channel = <<r.del, r.freq>> /\ tuned_delivery = r.del
                 /\ ~moved => table[i].freq = r.freq
    <3>1. i \in Present /\ table[i].key = vch
      BY DEF Find
    <3>2. i \in Slots /\ table[i] \in Lineup[i]
      BY <3>1, PresentRow DEF IInv, TypeOK
    <3>3. PICK r \in Lineup[i] : channel = <<r.del, r.freq>> /\ tuned_delivery = r.del
      BY <3>1, <3>2 DEF IInv, CoherentInv
    <3>4. r.del \in {Vsb, Qam} /\ r.freq \in Nat
      BY <3>2, RowsOf, SelectionAssumption
    <3>5. channel # None /\ channel[2] = r.freq
      BY <3>3, <3>4, SelectionAssumption
    <3>6. tuned_frequency_hz = r.freq
      BY <3>5 DEF IInv, CoherentInv
    <3>7. ~moved => table[i].freq = r.freq
      BY <3>6 DEF IInv, CoherentInv
    <3> QED
      BY <3>3, <3>7
  <2> QED
    BY <2>1 DEF IInv, CoherentInv, SelectionCoherent
<1> QED
  BY Inductive, <1>1, PTL

\* No raw channel SET moves the selection under a stream, and a stream's own
\* binding is its mux, unless a scan moved the channel of a pull (control.c,
\* "tuner busy").
THEOREM StreamsKeepTheirMux == Spec => []RawNeverUnderStream
<1>1. IInv => RawNeverUnderStream
  <2> SUFFICES ASSUME ThreadsOK, ClaimInv, WriterInv, active_stream # None
               PROVE  /\ by # "raw"
                      /\ by = "push" \/ (by = "pull" /\ ~moved) =>
                           tuned_frequency_hz = active_stream.freq
    BY DEF IInv, RawNeverUnderStream
  <2>1. \/ push.at = "run" /\ active_stream = push.row
        \/ pull.at \in {"run", "detach"} /\ active_stream = pull.row
    BY DEF ClaimInv
  <2> QED
    BY <2>1 DEF WriterInv
<1> QED
  BY Inductive, <1>1, PTL

\* A pull's binding outlives the pull only where a scan moved its channel; what it
\* leaves otherwise is an idle tuner, whatever SETs of other clients came in
\* between (release_http_pull).
THEOREM PullsLeaveNothing == Spec => []PullLeavesIdle
<1>1. IInv => PullLeavesIdle
  BY DEF IInv, WriterInv, PullLeavesIdle
<1> QED
  BY Inductive, <1>1, PTL

-----------------------------------------------------------------------------
(* What a push streams *)

\* A filter that is set has ranges that parse.
LEMMA SetFiltersParse ==
  ASSUME NEW f \in FilterValues
  PROVE  IsFilter(Ranges(f)) /\ (f # Blank => Ranges(f) = f)
<1>1. CASE f \in Filters
  BY <1>1, RangeAssumption DEF FilterValues, IsFilter, Ranges
<1>2. CASE f = Unset
  <2>1. Ranges(f) = <<>>
    BY <1>2 DEF Ranges, Unset
  <2>2. <<>> \in Seq(Nat \X Nat)
    OBVIOUS
  <2> QED
    BY <2>1, <2>2, <1>2 DEF FilterValues, IsFilter, Unset
<1> QED
  BY <1>1, <1>2 DEF FilterValues

\* The siblings of a row that carry a program.
Hits(f, n) == {i \in DOMAIN OnFreq(f) : OnFreq(f)[i].prog = ProgramNumber(n)}

\* The first of them is a row of the mux with that program.
LEMMA FirstHit ==
  ASSUME TableOK, NEW f, NEW n, Hits(f, n) # {}
  PROVE  /\ Min(Hits(f, n)) \in DOMAIN OnFreq(f)
         /\ OnFreq(f)[Min(Hits(f, n))] \in Rows
         /\ OnFreq(f)[Min(Hits(f, n))].freq = f
         /\ OnFreq(f)[Min(Hits(f, n))].prog = ProgramNumber(n)
<1>1. Hits(f, n) \subseteq Nat
  BY OnFreqRows DEF Hits
<1>2. Min(Hits(f, n)) \in Hits(f, n)
  BY <1>1, MinIsLeast
<1>3. Min(Hits(f, n)) \in DOMAIN OnFreq(f)
      /\ OnFreq(f)[Min(Hits(f, n))].prog = ProgramNumber(n)
  BY <1>2 DEF Hits
<1> QED
  BY <1>3, OnFreqRows

\* The whole mux is no PID.
LEMMA FullMuxIsNoPid ==
  FullMux \notin 0 .. MaxPid /\ FullMux # 0 /\ 1 .. MaxPid \subseteq 0 .. MaxPid
<1>1. MaxPid \in Nat
  BY DEF MaxPid
<1>2. FullMux = MaxPid + 1
  BY DEF FullMux
<1> QED
  BY <1>1, <1>2

\* A number of 16 bits is not changed by the cast.
LEMMA CastKeeps == \A n \in 1 .. MaxProgram : ProgramNumber(n) = n
<1>1. MaxProgram \in Nat
  BY DEF MaxProgram
<1> QED
  BY <1>1 DEF ProgramNumber

\* The row whose program is streamed.
LEMMA TargetIs ==
  ASSUME NEW row, NEW n
  PROVE  Target(row, OnFreq(row.freq), n) =
           IF n <= 0 \/ n = row.prog \/ Hits(row.freq, n) = {} THEN row
           ELSE OnFreq(row.freq)[Min(Hits(row.freq, n))]
  BY DEF Target, Hits

\* The PIDs of a row are 13 bits.
LEMMA RowPids ==
  ASSUME NEW row \in Streamable
  PROVE  /\ {row.pmt, row.pcr, row.vid, row.aud} \subseteq 0 .. MaxPid
         /\ {row.pmt, row.pcr, row.vid, row.aud} \subseteq Nat
         /\ ProgramPids(row) \subseteq 1 .. MaxPid
<1>0. MaxPid \in Nat
  BY DEF MaxPid
<1>1. {row.pmt, row.pcr, row.vid, row.aud} \subseteq 0 .. MaxPid
  <2>1. CASE row \in Rows
    BY <2>1, ProgramAssumption
  <2>2. CASE row \in {Synth(f, d) : f \in Freqs, d \in Deliveries}
    <3>1. row.pmt = 0 /\ row.pcr = 0 /\ row.vid = 0 /\ row.aud = 0
      BY <2>2 DEF Synth, Row
    <3> QED
      BY <3>1, <1>0
  <2> QED
    BY <2>1, <2>2 DEF Streamable
<1>2. 0 .. MaxPid \subseteq Nat /\ (0 .. MaxPid) \ {0} \subseteq 1 .. MaxPid
  BY <1>0
<1> QED
  BY <1>1, <1>2 DEF ProgramPids

\* The demux filters a stream opens: those of a narrow filter, the whole mux, or
\* a program's.
LEMMA OpenPidsIs ==
  ASSUME TableOK, NEW row \in Streamable, NEW n \in Int, NEW fo \in FilterValues
  PROVE  LET s == OpenPids(row, OnFreq(row.freq), n, Ranges(fo))
             t == Target(row, OnFreq(row.freq), n)
         IN  /\ Narrow(Ranges(fo)) =>
                  OpenOn(s, {0} \cup (Pids(Ranges(fo)) \ {0}), MaxFds)
             /\ ~Narrow(Ranges(fo)) /\ (Ranges(fo) # <<>> \/ n = 0) =>
                  OpenOn(s, {FullMux}, 1)
             /\ Ranges(fo) = <<>> /\ n # 0 =>
                  /\ OpenOn(s, {0} \cup ProgramPids(t), 5)
                  /\ ProgramPids(t) \subseteq 1 .. MaxPid
<1> DEFINE s == OpenPids(row, OnFreq(row.freq), n, Ranges(fo))
           t == Target(row, OnFreq(row.freq), n)
<1>0. IsFilter(Ranges(fo))
  BY SetFiltersParse
<1>1. ASSUME Narrow(Ranges(fo))
      PROVE  OpenOn(s, {0} \cup (Pids(Ranges(fo)) \ {0}), MaxFds)
  <2>1. s = AddRanges(Ranges(fo))
    BY <1>1 DEF OpenPids
  <2>2. pid_filter_total_count(Ranges(fo)) <= MaxFds - 1
    BY <1>1 DEF Narrow
  <2> QED
    BY <1>0, <2>1, <2>2, AddRangesOpens
<1>2. ASSUME ~Narrow(Ranges(fo)), Ranges(fo) # <<>> \/ n = 0
      PROVE  OpenOn(s, {FullMux}, 1)
  <2>1. s = add_pid_if_new(Opened(TRUE, <<>>), FullMux)
    BY <1>2 DEF OpenPids
  <2>2. OpenOn(Opened(TRUE, <<>>), {}, 0)
    BY DEF OpenOn, Opened, IsInjective, Range
  <2>3. FullMux \in Nat /\ 0 < MaxFds /\ 0 + 1 = 1 /\ {} \cup ({FullMux} \ {0}) = {FullMux}
    BY FilterAssumption DEF FullMux, MaxPid
  <2>4. OpenOn(add_pid_if_new(Opened(TRUE, <<>>), FullMux), {} \cup ({FullMux} \ {0}), 0 + 1)
    BY <2>2, <2>3, AddIfNew
  <2> QED
    BY <2>1, <2>3, <2>4
<1>3. ASSUME Ranges(fo) = <<>>, n # 0
      PROVE  /\ OpenOn(s, {0} \cup ProgramPids(t), 5)
             /\ ProgramPids(t) \subseteq 1 .. MaxPid
  <2>1. s = AddProgram(t)
    BY <1>3 DEF OpenPids, Narrow
  <2>2. t \in Streamable
    <3>1. CASE n <= 0 \/ n = row.prog \/ Hits(row.freq, n) = {}
      BY <3>1, TargetIs
    <3>2. CASE ~(n <= 0 \/ n = row.prog \/ Hits(row.freq, n) = {})
      <4>1. t = OnFreq(row.freq)[Min(Hits(row.freq, n))]
        BY <3>2, TargetIs
      <4> HIDE DEF t
      <4> QED
        BY <3>2, <4>1, FirstHit DEF Streamable
    <3> QED
      BY <3>1, <3>2
  <2> HIDE DEF t
  <2> QED
    BY <2>1, <2>2, RowPids, AddProgramOpens
<1> QED
  BY <1>1, <1>2, <1>3

\* Whatever row, program and filter a push is started with, its PIDs fit the
\* demux slots, the PAT is among them unless the whole mux is, and no PID gets a
\* second demux filter (add_pid).
THEOREM FiltersAlwaysFit == Spec => []FiltersFit
<1>1. IInv => FiltersFit
  <2> SUFFICES ASSUME ThreadsOK, TableOK, push.at # "none"
               PROVE  LET s == PidsOf(push)
                      IN  /\ s.ok /\ IsInjective(s.pids)
                          /\ ({0, FullMux} \cap Range(s.pids)) # {}
    BY DEF IInv, TypeOK, FiltersFit
  <2> DEFINE s == PidsOf(push)
  <2>1. push.row \in Streamable /\ push.program \in Int /\ push.filter \in FilterValues
    BY PushFields DEF ThreadsOK
  <2>2. \E S, n : OpenOn(s, S, n) /\ ({0, FullMux} \cap S) # {}
    <3> DEFINE t == Target(push.row, OnFreq(push.row.freq), push.program)
    <3>1. s = OpenPids(push.row, OnFreq(push.row.freq), push.program, Ranges(push.filter))
      BY DEF PidsOf
    <3>2. /\ Narrow(Ranges(push.filter)) =>
               OpenOn(s, {0} \cup (Pids(Ranges(push.filter)) \ {0}), MaxFds)
          /\ ~Narrow(Ranges(push.filter)) /\ (Ranges(push.filter) # <<>> \/ push.program = 0) =>
               OpenOn(s, {FullMux}, 1)
          /\ Ranges(push.filter) = <<>> /\ push.program # 0 =>
               OpenOn(s, {0} \cup ProgramPids(t), 5)
      BY <2>1, <3>1, OpenPidsIs
    <3> HIDE DEF s, t
    <3>3. CASE Narrow(Ranges(push.filter))
      BY <3>2, <3>3
    <3>4. CASE ~Narrow(Ranges(push.filter)) /\ (Ranges(push.filter) # <<>> \/ push.program = 0)
      BY <3>2, <3>4
    <3>5. CASE Ranges(push.filter) = <<>> /\ push.program # 0
      BY <3>2, <3>5
    <3> QED
      BY <3>3, <3>4, <3>5
  <2>3. PICK S, n : OpenOn(s, S, n) /\ ({0, FullMux} \cap S) # {}
    BY <2>2
  <2>4. s = Opened(TRUE, s.pids) /\ IsInjective(s.pids) /\ Range(s.pids) = S
    BY <2>3 DEF OpenOn
  <2>5. s.ok
    BY <2>4 DEF Opened
  <2> HIDE DEF s
  <2>6. s.ok /\ IsInjective(s.pids) /\ ({0, FullMux} \cap Range(s.pids)) # {}
    BY <2>3, <2>4, <2>5
  <2> QED
    BY <2>6 DEF s
<1> QED
  BY Inductive, <1>1, PTL

\* The default filter, 0x0000-0x1fff, counts every PID.
LEMMA AllPidsCount == pid_filter_total_count(AllPids) >= MaxFds
<1>1. AllPids \in Seq(Nat \X Nat) /\ Len(AllPids) = 1
      /\ AllPids[1][1] = 0 /\ AllPids[1][2] = MaxPid
  BY DEF AllPids, MaxPid
<1>2. /\ Totals(AllPids) = [n \in 0 .. 1 |->
           IF n = 0 THEN 0
           ELSE Totals(AllPids)[n - 1] + (AllPids[n][2] - AllPids[n][1] + 1)]
      /\ pid_filter_total_count(AllPids) = Totals(AllPids)[1]
  BY <1>1, TotalsDef
<1>3. Totals(AllPids)[0] = 0
  BY <1>2
<1>4. Totals(AllPids)[1] = Totals(AllPids)[1 - 1] + (AllPids[1][2] - AllPids[1][1] + 1)
  BY <1>2
<1>5. Totals(AllPids)[1] = MaxPid + 1
  BY <1>1, <1>3, <1>4 DEF MaxPid
<1>6. MaxPid + 1 >= MaxFds
  BY FilterAssumption DEF MaxPid
<1> QED
  BY <1>2, <1>5, <1>6

\* The filter shown for a selection without one is that of the program a target=
\* would stream, and the whole mux where it would stream that.
LEMMA AutoShows ==
  ASSUME IInv, ~Stray, ~Wrapped, ~Displaced, filter_override = Unset,
         NEW i \in Chosen(Snapshot), NEW row, row = PushedRow(Snapshot, i),
         NEW prg, prg = PushedProgram(Snapshot, i)
  PROVE  /\ prg = 0 => compute_auto_filter = AllPids
         /\ prg # 0 => compute_auto_filter =
              pid_filter_format(ProgramPids(Target(row, OnFreq(row.freq), prg)))
<1> DEFINE f == tuned_frequency_hz
           t == Target(row, OnFreq(row.freq), prg)
           hits == Hits(f, program)
           q == OnFreq(f)[Min(hits)]
<1>0. /\ program \in Int /\ f \in Nat /\ TableOK
      /\ Snapshot.vch = vch /\ Snapshot.freq = f /\ Snapshot.program = program
      /\ Snapshot.del = tuned_delivery
  BY DEF IInv, TypeOK, Snapshot
<1>a. /\ program = 0 \/ f = 0 => compute_auto_filter = AllPids
      /\ program # 0 /\ f # 0 /\ hits # {} =>
           compute_auto_filter = pid_filter_format(ProgramPids(q))
      /\ program # 0 /\ f # 0 /\ hits = {} /\ vch = None =>
           compute_auto_filter = AllPids
  BY DEF compute_auto_filter, Hits
<1>s. vch = None /\ program > 0 => hits # {}
  BY DEF Stray, Hits
<1>w. program < 0 => hits = {}
  BY DEF Wrapped, Hits
<1>p. \A n \in 1 .. MaxProgram : ProgramNumber(n) = n
  BY CastKeeps
\* On its own mux a row that is chosen with a program gives what is shown.
<1>r. ASSUME row \in Rows, row.freq = f, prg = program,
             program # 0, f # 0, hits # {}
      PROVE  compute_auto_filter = pid_filter_format(ProgramPids(t))
  <2>1. compute_auto_filter = pid_filter_format(ProgramPids(q))
    BY <1>a, <1>r
  <2>2. q \in Rows /\ q.freq = f /\ q.prog = ProgramNumber(program)
    BY <1>0, <1>r, FirstHit
  <2>3. program > 0
    BY <1>0, <1>w, <1>r
  <2>4. t = IF program <= 0 \/ program = row.prog \/ hits = {} THEN row ELSE q
    <3>1. Target(row, OnFreq(row.freq), program) =
            IF program <= 0 \/ program = row.prog \/ Hits(row.freq, program) = {}
            THEN row ELSE OnFreq(row.freq)[Min(Hits(row.freq, program))]
      BY TargetIs, Zenon
    <3> QED
      BY <1>r, <3>1, Zenon
  <2>5. CASE program = row.prog
    <3>1. t = row
      BY <2>4, <2>5
    <3>2. row.prog \in 1 .. MaxProgram
      BY <1>r, ProgramAssumption
    <3>3. q.prog = row.prog
      BY <1>p, <2>2, <2>5, <3>2
    <3> HIDE DEF t, q
    <3>4. ProgramPids(q) = ProgramPids(row)
      BY <1>r, <2>2, <3>3, ProgramAssumption
    <3> QED
      BY <2>1, <3>1, <3>4
  <2>6. CASE program # row.prog
    <3>1. t = q
      BY <1>0, <1>r, <2>3, <2>4, <2>6
    <3> HIDE DEF t, q
    <3> QED
      BY <2>1, <3>1
  <2> QED
    BY <2>5, <2>6
<1>1. CASE vch # None
  <2> DEFINE r == table[i]
  <2>1. i \in Find(vch)
    BY <1>0, <1>1 DEF Chosen
  <2>2. i \in Present /\ i \in Slots /\ r \in Lineup[i] /\ r \in Rows /\ r.key = vch
    BY <1>0, <2>1, PresentRow DEF Find
  <2>a. row = r /\ prg = program
    BY <1>0, <2>2, SlotsAre DEF PushedRow, PushedProgram
  <2>b. r \in ByKey(vch)
    BY <2>1 DEF ByKey
  <2> HIDE DEF r
  <2>3. r.freq = f /\ f # 0 /\ row = r /\ prg = program
    <3>1. r.freq = f
      BY <2>b DEF Displaced
    <3>2. r.freq # 0
      BY <2>2, SelectionAssumption
    <3> QED
      BY <2>a, <3>1, <3>2
  <2>4. CASE program = 0
    BY <1>a, <2>3, <2>4
  <2>5. CASE program # 0 /\ hits # {}
    BY <1>r, <2>2, <2>3, <2>5
  <2>6. CASE program # 0 /\ hits = {}
    <3>1. t = r
      BY <2>3, <2>6, TargetIs
    <3>2. ByKey(vch) = {r}
      <4>1. ASSUME NEW k \in Find(vch) PROVE k = i
        <5>1. k \in Slots /\ table[k] \in Lineup[k] /\ table[k].key = vch
          BY <1>0, <4>1, PresentRow DEF Find
        <5> QED
          BY <2>2, <5>1, SelectionAssumption
      <4> QED
        BY <2>1, <2>b, <4>1 DEF ByKey, r
    <3>3. compute_auto_filter = pid_filter_format(ProgramPids(CHOOSE x \in {r} : TRUE))
      BY <1>1, <2>3, <2>6, <3>2 DEF compute_auto_filter, Hits
    <3>4. (CHOOSE x \in {r} : TRUE) = r
      OBVIOUS
    <3>5. compute_auto_filter = pid_filter_format(ProgramPids(r)) /\ prg # 0
      BY <2>3, <2>6, <3>3, <3>4
    <3> HIDE DEF t
    <3>6. compute_auto_filter = pid_filter_format(ProgramPids(t))
      BY <3>1, <3>5
    <3> QED
      BY <3>5, <3>6 DEF t
  <2> QED
    BY <2>4, <2>5, <2>6
<1>2. CASE vch = None /\ f # 0 /\ program <= 0
  <2>1. prg = 0
    <3>1. ~(program > 0)
      BY <1>0, <1>2
    <3>2. i \in IF Locked(f) THEN {Synthetic} ELSE {}
      BY <1>0, <1>2, <3>1 DEF Chosen
    <3> QED
      BY <3>2 DEF PushedProgram
  <2>2. program = 0 \/ hits = {}
    BY <1>0, <1>2, <1>w
  <2> QED
    BY <1>2, <1>a, <2>1, <2>2
<1>3. CASE vch = None /\ f # 0 /\ program > 0
  <2> DEFINE on == DOMAIN OnFreq(f)
  <2>1. on # {} /\ i = Min(on)
    <3>1. ~(program <= 0)
      BY <1>0, <1>3
    <3>2. i \in IF on = {} THEN {} ELSE {Min(on)}
      BY <1>0, <1>3, <3>1 DEF Chosen
    <3> QED
      BY <3>2
  <2>2. i \in on
    BY <1>0, <2>1, OnFreqRows, MinIsLeast
  <2>a. i # Synthetic
    BY <1>0, <2>2, OnFreqRows, SlotsAre DEF Present
  <2>3. row \in Rows /\ row.freq = f /\ prg = program
    BY <1>0, <2>2, <2>a, OnFreqRows DEF PushedRow, PushedProgram
  <2>4. program # 0 /\ hits # {}
    BY <1>0, <1>3, <1>s
  <2> QED
    BY <1>3, <1>r, <2>3, <2>4
<1>4. CASE vch = None /\ f = 0
  <2>1. Chosen(Snapshot) = {}
    BY <1>0, <1>4 DEF Chosen
  <2> QED
    BY <2>1
<1>5. program <= 0 \/ program > 0
  BY <1>0
<1> QED
  BY <1>1, <1>2, <1>3, <1>4, <1>5

\* Whatever is selected, GET /filter names the PIDs that a target= would stream
\* (compute_auto_filter and dvb_stream_open agree), but for a blank filter, a
\* program the mux does not carry, a negative one and a channel whose row a scan
\* has moved.
THEOREM FilterIsWhatStreams == Spec => []FilterShowsStream
<1>1. IInv => FilterShowsStream
  <2> SUFFICES ASSUME IInv, ~Stray, ~Wrapped, ~Displaced, filter_override # Blank,
                      NEW p \in NextPush
               PROVE  LET pids == Range(PidsOf(p).pids)
                      IN  IF FullMux \in pids
                          THEN pid_filter_total_count(ShownFilter) >= MaxFds
                          ELSE pids \ {0} = Pids(ShownFilter) \ {0}
    BY DEF FilterShowsStream
  <2> DEFINE pids == Range(PidsOf(p).pids)
             fo == filter_override
  <2>c. PICK i \in Chosen(Snapshot) :
               p = [row |-> PushedRow(Snapshot, i),
                    program |-> PushedProgram(Snapshot, i), filter |-> fo]
    BY DEF NextPush
  <2> DEFINE row == PushedRow(Snapshot, i)
             prg == PushedProgram(Snapshot, i)
  <2>1. p = [row |-> row, program |-> prg, filter |-> fo] /\ TableOK
    BY <2>c DEF IInv, TypeOK
  <2>2. Snapshot \in Snaps
    BY DEF IInv, TypeOK, Snapshot, Snaps, Deliveries
  <2>3. row \in Streamable /\ prg \in Int
    <3>1. i \in Present \/ (i = Synthetic /\ Snapshot.freq # 0)
      BY <2>1, <2>2, <2>c, ChosenIs
    <3> QED
      BY <2>1, <2>2, <3>1, PushedIs
  <2>d. /\ fo = Unset /\ prg = 0 => compute_auto_filter = AllPids
        /\ fo = Unset /\ prg # 0 => compute_auto_filter =
             pid_filter_format(ProgramPids(Target(row, OnFreq(row.freq), prg)))
    BY <2>c, AutoShows
  <2> HIDE DEF row, prg
  <2>4. fo \in FilterValues
    BY DEF IInv, ThreadsOK
  <2>5. Ranges(fo) = fo /\ IsFilter(Ranges(fo)) /\ IsFilter(fo)
    BY <2>4, SetFiltersParse
  <2> DEFINE t == Target(row, OnFreq(row.freq), prg)
             s == PidsOf(p)
  <2>6. s = OpenPids(row, OnFreq(row.freq), prg, Ranges(fo))
    BY <2>1 DEF PidsOf
  <2>7. /\ Narrow(Ranges(fo)) => OpenOn(s, {0} \cup (Pids(Ranges(fo)) \ {0}), MaxFds)
        /\ ~Narrow(Ranges(fo)) /\ (Ranges(fo) # <<>> \/ prg = 0) =>
             OpenOn(s, {FullMux}, 1)
        /\ Ranges(fo) = <<>> /\ prg # 0 =>
             /\ OpenOn(s, {0} \cup ProgramPids(t), 5)
             /\ ProgramPids(t) \subseteq 1 .. MaxPid
    BY <2>1, <2>3, <2>4, <2>6, OpenPidsIs
  <2> HIDE DEF s, t
  <2>8. FullMux \notin 0 .. MaxPid /\ FullMux # 0 /\ 1 .. MaxPid \subseteq 0 .. MaxPid
    BY FullMuxIsNoPid
  <2>9. CASE fo # Unset
    <3>1. ShownFilter = Ranges(fo) /\ Ranges(fo) # <<>>
      BY <2>5, <2>9 DEF ShownFilter, Unset
    <3>2. CASE Narrow(Ranges(fo))
      <4>1. pids = {0} \cup (Pids(Ranges(fo)) \ {0})
        BY <2>7, <3>2 DEF OpenOn, s
      <4>2. Pids(Ranges(fo)) \subseteq 0 .. MaxPid
        <5>1. ASSUME NEW k \in DOMAIN Ranges(fo)
              PROVE  Ranges(fo)[k][1] .. Ranges(fo)[k][2] \subseteq 0 .. MaxPid
          <6>1. Ranges(fo)[k] \in Nat \X Nat /\ Ranges(fo)[k][2] <= MaxPid
            BY <2>5 DEF IsFilter, pid_filter_parse
          <6>2. Ranges(fo)[k][1] \in Nat /\ Ranges(fo)[k][2] \in Nat /\ MaxPid \in Nat
            BY <6>1 DEF MaxPid
          <6> QED
            BY <6>1, <6>2
        <5> QED
          BY <5>1 DEF Pids
      <4> HIDE DEF pids
      <4>3. FullMux \notin pids
        BY <2>8, <4>1, <4>2
      <4>4. pids \ {0} = Pids(ShownFilter) \ {0}
        BY <3>1, <4>1
      <4> QED
        BY <4>3, <4>4 DEF pids
    <3>3. CASE ~Narrow(Ranges(fo))
      <4>1. pids = {FullMux}
        BY <2>7, <3>1, <3>3 DEF OpenOn, s
      <4>2. ~(pid_filter_total_count(Ranges(fo)) <= MaxFds - 1)
        BY <3>1, <3>3 DEF Narrow
      <4>3. pid_filter_total_count(Ranges(fo)) \in Nat
        <5>1. Ranges(fo) \in Seq(Nat \X Nat)
          BY <2>5 DEF IsFilter
        <5>2. pid_filter_total_count(Ranges(fo)) = Totals(Ranges(fo))[Len(Ranges(fo))]
              /\ Len(Ranges(fo)) \in 0 .. Len(Ranges(fo))
          BY <5>1, TotalsDef
        <5> QED
          BY <2>5, <5>2, TotalsGrow
      <4>4. pid_filter_total_count(ShownFilter) >= MaxFds
        BY <3>1, <4>2, <4>3, FilterAssumption
      <4> HIDE DEF pids
      <4> QED
        BY <4>1, <4>4 DEF pids
    <3> QED
      BY <3>2, <3>3
  <2>10. CASE fo = Unset
    <3>1. ShownFilter = compute_auto_filter /\ Ranges(fo) = <<>> /\ ~Narrow(Ranges(fo))
      BY <2>5, <2>10 DEF ShownFilter, Unset, Narrow
    <3>2. /\ prg = 0 => compute_auto_filter = AllPids
          /\ prg # 0 => compute_auto_filter = pid_filter_format(ProgramPids(t))
      BY <2>10, <2>d DEF t
    <3>3. CASE prg = 0
      <4>1. pids = {FullMux}
        BY <2>7, <3>1, <3>3 DEF OpenOn, s
      <4>2. pid_filter_total_count(ShownFilter) >= MaxFds
        BY <3>1, <3>2, <3>3, AllPidsCount
      <4> HIDE DEF pids
      <4> QED
        BY <4>1, <4>2 DEF pids
    <3>4. CASE prg # 0
      <4>1. pids = {0} \cup ProgramPids(t) /\ ProgramPids(t) \subseteq 0 .. MaxPid
        BY <2>7, <2>8, <3>1, <3>4 DEF OpenOn, s
      <4>2. Pids(ShownFilter) = ProgramPids(t)
        BY <3>1, <3>2, <3>4, <4>1, FormatKeepsPids
      <4> HIDE DEF pids
      <4>3. FullMux \notin pids /\ pids \ {0} = Pids(ShownFilter) \ {0}
        BY <2>8, <4>1, <4>2
      <4> QED
        BY <4>3 DEF pids
    <3> QED
      BY <3>3, <3>4
  <2> QED
    BY <2>9, <2>10
<1> QED
  BY Inductive, <1>1, PTL

=============================================================================
