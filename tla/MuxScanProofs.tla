--------------------------- MODULE MuxScanProofs ---------------------------
(* Theorems about MuxScan, for any muxes on the air, any numbers asked for   *)
(* and any times, rates and array sizes.                                     *)
EXTENDS MuxScan, WellFoundedInduction, FiniteSetTheorems, TLAPS

-----------------------------------------------------------------------------
(* The frequency plans *)

\* A set of numbers that is not empty has a least one.
LEMMA MinIsLeast ==
  ASSUME NEW S, S \subseteq Nat, S # {}
  PROVE  Min(S) \in S /\ \A y \in S : Min(S) <= y
<1>1. \E x \in S : \A y \in S : ~(<<y, x>> \in OpToRel(<, Nat))
  BY WFMin, NatLessThanWellFounded
<1>2. PICK x \in S : \A y \in S : ~(<<y, x>> \in OpToRel(<, Nat))
  BY <1>1
<1>3. \A y \in S : x <= y
  <2> SUFFICES ASSUME NEW y \in S PROVE x <= y
    OBVIOUS
  <2>1. x \in Nat /\ y \in Nat
    OBVIOUS
  <2>2. ~(y < x)
    BY <1>2, <2>1 DEF OpToRel
  <2> QED
    BY <2>1, <2>2
<1> QED
  BY <1>2, <1>3 DEF Min

\* The frequency of a range's last channel.
Top(r) == r[3] + (r[2] - r[1]) * r[4]

\* A plan's ranges hold numbers below 1000 and lie apart in frequency.
IsPlan(ranges) ==
  /\ DOMAIN ranges \subseteq Nat
  /\ \A k \in DOMAIN ranges :
       /\ ranges[k] \in Nat \X Nat \X Nat \X (Nat \ {0})
       /\ ranges[k][2] < 1000 /\ ranges[k][3] >= 1000
  /\ \A j, k \in DOMAIN ranges :
       j # k => Top(ranges[j]) < ranges[k][3] \/ Top(ranges[k]) < ranges[j][3]

\* Every table of channel_map.c is a plan.
LEMMA PlansArePlans == \A map \in DOMAIN maps : IsPlan(maps[map])
<1>1. IsPlan(us_cable)
  BY DEF IsPlan, Top, us_cable
<1>2. IsPlan(us_hrc)
  BY DEF IsPlan, Top, us_hrc
<1>3. IsPlan(us_irc)
  BY DEF IsPlan, Top, us_irc
<1>4. IsPlan(kr_cable)
  BY DEF IsPlan, Top, kr_cable
<1>5. IsPlan(kr_bcast)
  BY DEF IsPlan, Top, kr_bcast
<1> HIDE DEF IsPlan
<1> QED
  BY <1>1, <1>2, <1>3, <1>4, <1>5 DEF maps

\* A channel of a range has a frequency within the range, and its own.
LEMMA RangeFreqs ==
  ASSUME NEW r \in Nat \X Nat \X Nat \X (Nat \ {0}), NEW n \in r[1] .. r[2]
  PROVE  /\ RangeFreq(r, n) \in Nat /\ r[3] <= RangeFreq(r, n)
         /\ RangeFreq(r, n) <= Top(r)
         /\ \A q \in r[1] .. r[2] : RangeFreq(r, q) = RangeFreq(r, n) => q = n
<1> DEFINE a == r[1]  b == r[2]  s == r[4]
<1>0. a \in Nat /\ b \in Nat /\ r[3] \in Nat /\ s \in Nat \ {0} /\ n \in a .. b
  OBVIOUS
<1>1. RangeFreq(r, n) = r[3] + (n - a) * s /\ Top(r) = r[3] + (b - a) * s
  BY DEF RangeFreq, Top
<1> HIDE DEF a, b, s
<1>2. n - a \in Nat /\ b - a \in Nat /\ n - a <= b - a
  BY <1>0
<1>3. (n - a) * s \in Nat /\ (n - a) * s <= (b - a) * s
  BY <1>0, <1>2
<1>4. ASSUME NEW q \in a .. b, RangeFreq(r, q) = RangeFreq(r, n) PROVE q = n
  <2>1. RangeFreq(r, q) = r[3] + (q - a) * s
    BY DEF RangeFreq, a, s
  <2>2. q - a \in Int /\ n - a \in Int /\ (q - a) * s \in Int
    BY <1>0
  <2>3. (q - a) * s = (n - a) * s
    BY <1>0, <1>1, <1>3, <1>4, <2>1, <2>2
  <2>4. q - a = n - a
    BY <1>0, <2>2, <2>3
  <2> QED
    BY <1>0, <2>4
<1> QED
  BY <1>0, <1>1, <1>3, <1>4 DEF a, b

\* channel_map.c: looking up the frequency of a number gives the number.
LEMMA PlanInverse ==
  ASSUME NEW ranges, IsPlan(ranges), NEW n \in Nat, ChannelToFreq(ranges, n) # 0
  PROVE  /\ n < 1000 /\ ChannelToFreq(ranges, n) \in Nat
         /\ ChannelToFreq(ranges, n) >= 1000
         /\ FreqToChannel(ranges, ChannelToFreq(ranges, n)) = n
<1> DEFINE hits == {k \in DOMAIN ranges : n \in ranges[k][1] .. ranges[k][2]}
           k0 == Min(hits)
           f == ChannelToFreq(ranges, n)
           On(k) == {q \in ranges[k][1] .. ranges[k][2] : RangeFreq(ranges[k], q) = f}
           back == {k \in DOMAIN ranges : On(k) # {}}
<1>1. hits # {} /\ f = RangeFreq(ranges[k0], n)
  BY DEF ChannelToFreq
<1>2. k0 \in DOMAIN ranges /\ n \in ranges[k0][1] .. ranges[k0][2]
  <2>1. hits \subseteq Nat
    BY DEF IsPlan
  <2> QED
    BY <1>1, <2>1, MinIsLeast
<1>3. FreqToChannel(ranges, f) = IF back = {} THEN 0 ELSE Min(On(Min(back)))
  BY DEF FreqToChannel
<1> HIDE DEF hits, k0, f
<1>4. \A k \in DOMAIN ranges : ranges[k] \in Nat \X Nat \X Nat \X (Nat \ {0})
  BY DEF IsPlan
<1>5. f \in Nat /\ f >= 1000 /\ n < 1000
  <2>1. f \in Nat /\ ranges[k0][3] <= f
    BY <1>1, <1>2, <1>4, RangeFreqs
  <2>2. ranges[k0][2] < 1000 /\ ranges[k0][3] >= 1000
    BY <1>2 DEF IsPlan
  <2> QED
    BY <1>2, <1>4, <2>1, <2>2
<1>6. ASSUME NEW k \in DOMAIN ranges, NEW q \in On(k) PROVE k = k0 /\ q = n
  <2>1. q \in ranges[k][1] .. ranges[k][2] /\ RangeFreq(ranges[k], q) = f
    OBVIOUS
  <2>2. ranges[k][3] <= f /\ f <= Top(ranges[k])
    BY <1>4, <2>1, RangeFreqs
  <2>3. ranges[k0][3] <= f /\ f <= Top(ranges[k0])
    BY <1>1, <1>2, <1>4, RangeFreqs
  <2>4. /\ Top(ranges[k]) \in Int /\ Top(ranges[k0]) \in Int
        /\ ranges[k][3] \in Int /\ ranges[k0][3] \in Int
    BY <1>2, <1>4 DEF Top
  <2>5. k = k0
    BY <1>2, <1>5, <2>2, <2>3, <2>4 DEF IsPlan
  <2> QED
    BY <1>1, <1>2, <1>4, <2>1, <2>5, RangeFreqs
<1>7. On(k0) = {n}
  BY <1>1, <1>2, <1>6
<1>8. back = {k0}
  BY <1>2, <1>6, <1>7
<1>9. Min({k0}) = k0 /\ Min({n}) = n
  BY <1>2, MinIsLeast DEF IsPlan
<1> HIDE DEF On, back
<1> QED
  BY <1>3, <1>5, <1>7, <1>8, <1>9 DEF f

\* atsc_freq.c: the same of the one table of us_bcast.
LEMMA AtscInverse ==
  ASSUME NEW n \in Nat, atsc_channel_to_freq(n) # 0
  PROVE  /\ n < 1000 /\ atsc_channel_to_freq(n) \in Nat
         /\ atsc_channel_to_freq(n) >= 1000
         /\ atsc_freq_to_channel(atsc_channel_to_freq(n)) = n
<1> DEFINE T == atsc_freq_table
           f == atsc_channel_to_freq(n)
           hits == {k \in DOMAIN T : T[k] * 1000000 = f}
<1>1. DOMAIN T = 1 .. 35
  BY DEF atsc_freq_table
<1>2. \A k \in 1 .. 35 : T[k] \in Nat /\ T[k] >= 57
  BY DEF atsc_freq_table
<1>3. \A j, k \in 1 .. 35 : j < k => T[j] < T[k]
  BY DEF atsc_freq_table
<1>4. n - 1 \in 1 .. 35 /\ f = T[n - 1] * 1000000
  BY <1>1 DEF atsc_channel_to_freq
<1>5. atsc_freq_to_channel(f) = IF hits = {} THEN 0 ELSE Min(hits) + 1
  BY DEF atsc_freq_to_channel
<1> HIDE DEF T, f
<1>6. hits = {n - 1}
  <2>1. ASSUME NEW k \in 1 .. 35, T[k] * 1000000 = f PROVE k = n - 1
    <3>1. T[k] = T[n - 1]
      BY <1>2, <1>4, <2>1
    <3> QED
      BY <1>3, <1>2, <1>4, <3>1
  <2> QED
    BY <1>1, <1>4, <2>1
<1>7. Min({n - 1}) = n - 1
  BY <1>4, MinIsLeast
<1>8. f \in Nat /\ f >= 1000
  BY <1>2, <1>4
<1> HIDE DEF hits
<1> QED
  BY <1>4, <1>5, <1>6, <1>7, <1>8 DEF f

\* In every map, looking up the frequency of a number gives the number.
LEMMA MapInverse ==
  ASSUME NEW m \in MapNames, NEW n \in Nat, resolve_channel_in_map(m, n) # 0
  PROVE  /\ n < 1000 /\ resolve_channel_in_map(m, n) \in Nat
         /\ resolve_channel_in_map(m, n) >= 1000
         /\ reverse_resolve_freq_in_map(m, resolve_channel_in_map(m, n)) = n
<1>0. "us_bcast" \notin DOMAIN maps
  BY DEF maps
<1>1. CASE m = "us_bcast"
  <2>1. /\ resolve_channel_in_map(m, n) = atsc_channel_to_freq(n)
        /\ \A f : reverse_resolve_freq_in_map(m, f) = atsc_freq_to_channel(f)
    BY <1>0, <1>1 DEF resolve_channel_in_map, reverse_resolve_freq_in_map, MapNames
  <2> QED
    BY <2>1, AtscInverse
<1>2. CASE m \in DOMAIN maps
  <2>1. /\ resolve_channel_in_map(m, n) = ChannelToFreq(maps[m], n)
        /\ \A f : reverse_resolve_freq_in_map(m, f) = FreqToChannel(maps[m], f)
    BY <1>0, <1>2 DEF resolve_channel_in_map, reverse_resolve_freq_in_map, MapNames
  <2> QED
    BY <1>2, <2>1, PlansArePlans, PlanInverse
<1> QED
  BY <1>1, <1>2 DEF MapNames

\* A number and the frequency it stands for are parsed to the same.
LEMMA NumberIsFrequency ==
  ASSUME NEW map \in MapNames, NEW prefix \in {"auto"} \cup MapNames, NEW n \in Nat,
         NEW to, to = parse_channel_value(map, prefix, n), to # Rejected
  PROVE  parse_channel_value(IF prefix = "auto" THEN map ELSE prefix, "auto", to.freq)
           = to
<1>0. "auto" \notin MapNames /\ MapNames \cap {"auto6t", Vsb, Qam} = {}
  BY DEF MapNames, maps, Vsb, Qam
<1>a. \A m, f : parse_channel_value(m, "auto", f)
                  = IF f < 1000 THEN ByNumber(m, f) ELSE ByFreq(m, f)
  BY DEF parse_channel_value, Vsb, Qam
<1>1. ASSUME NEW m \in MapNames, to = ByNumber(m, n)
      PROVE  parse_channel_value(m, "auto", to.freq) = to
  <2> DEFINE f == resolve_channel_in_map(m, n)
  <2>1. f # 0 /\ to = [freq |-> f, rf |-> n]
    BY <1>1 DEF ByNumber
  <2>2. f \in Nat /\ f >= 1000 /\ reverse_resolve_freq_in_map(m, f) = n
    BY <2>1, MapInverse
  <2> HIDE DEF f
  <2>3. ByFreq(m, f) = to
    BY <2>1, <2>2 DEF ByFreq
  <2>4. ~(f < 1000) /\ to.freq = f
    BY <2>1, <2>2
  <2> QED
    BY <1>a, <2>3, <2>4
<1>2. CASE prefix = "auto" /\ n < 1000
  BY <1>1, <1>2, <1>a
<1>3. CASE prefix = "auto" /\ ~(n < 1000)
  <2>1. to = ByFreq(map, n)
    BY <1>3, <1>a
  <2>2. to.freq = n
    BY <1>3, <2>1 DEF ByFreq
  <2> QED
    BY <1>3, <1>a, <2>1, <2>2
<1>4. CASE prefix # "auto"
  <2>1. to = ByNumber(prefix, n)
    BY <1>0, <1>4 DEF parse_channel_value
  <2> QED
    BY <1>1, <1>4, <2>1
<1> QED
  BY <1>2, <1>3, <1>4

-----------------------------------------------------------------------------
(* The symbol quality *)

SeqStates == [have : BOOLEAN, base : Nat, at : Nat, pct : -1 .. 100]

\* A share is a percentage, and a full one leaves room for half a percent of
\* bad blocks at most.
LEMMA GoodShare ==
  ASSUME NEW bad \in Nat, NEW expected \in Nat
  PROVE  /\ GoodPct(bad, expected) \in 0 .. 100
         /\ GoodPct(bad, expected) = 100 => 200 * bad <= expected
<1>1. CASE bad >= expected
  BY <1>1 DEF GoodPct
<1>2. CASE bad < expected
  <2> DEFINE x == 200 * (expected - bad) + expected
             y == 2 * expected
             q == x \div y
  <2>1. x \in Nat /\ y \in Nat /\ y > 0
    BY <1>2
  <2>2. GoodPct(bad, expected) = clamp_pct(q)
    BY <1>2 DEF GoodPct
  <2>3. q \in Int /\ y * q <= x
    <3> HIDE DEF x, y
    <3> QED
      BY <2>1
  <2>4. clamp_pct(q) \in 0 .. 100 /\ (clamp_pct(q) = 100 => q >= 100)
    <3> HIDE DEF q
    <3> QED
      BY <2>3 DEF clamp_pct
  <2>5. q >= 100 => 100 * y <= x
    <3> HIDE DEF x, y, q
    <3>1. q >= 100 => 100 * y <= y * q
      BY <2>1, <2>3
    <3>2. y * q \in Int /\ 100 * y \in Int
      BY <2>1, <2>3
    <3> QED
      BY <2>1, <2>3, <3>1, <3>2
  <2>6. 100 * y <= x => 200 * bad <= expected
    BY <1>2
  <2> HIDE DEF x, y, q
  <2> QED
    BY <2>2, <2>4, <2>5, <2>6
<1> QED
  BY <1>1, <1>2

\* What dvb_frontend_legacy_seq_pct makes of a sample.
LEMMA SeqSample ==
  ASSUME NEW st \in SeqStates, NEW has_lock \in BOOLEAN, NEW readable \in BOOLEAN,
         NEW count \in Nat, NEW t \in Nat, st.at <= t,
         NEW r, r = legacy_seq_pct(st, has_lock, readable, count, t)
  PROVE  /\ r[1] \in SeqStates /\ r[2] \in -1 .. 100 /\ r[1].at <= t
         /\ r[1].have => has_lock /\ (st.have \/ r[1].at = t)
         /\ has_lock /\ readable => r[1].have
         /\ has_lock /\ readable /\ st.have /\ t - st.at >= Window => r[2] >= 0
         /\ r[2] >= 0 => st.have
         /\ r[2] = 100 /\ r[1] # st =>
              200 * (count - st.base) <= Rate * (t - st.at)
<1>0. Window \in Nat /\ Rate \in Nat /\ Rate > 0
  BY MuxScanAssumption
<1>1. CASE ~has_lock
  <2>1. r[1] = [st EXCEPT !.have = FALSE] /\ r[2] = -1
    BY <1>1 DEF legacy_seq_pct
  <2>2. r[1] \in SeqStates /\ r[1].at = st.at /\ r[1].have = FALSE
    BY <2>1 DEF SeqStates
  <2>3. r[2] \in -1 .. 100 /\ ~(r[2] >= 0) /\ r[2] # 100
    BY <2>1
  <2> QED
    BY <1>1, <2>2, <2>3
<1>2. CASE has_lock /\ ~readable
  BY <1>2 DEF legacy_seq_pct, SeqStates
<1>3. CASE has_lock /\ readable /\ ~st.have
  BY <1>3 DEF legacy_seq_pct, SeqStates
<1>4. CASE has_lock /\ readable /\ st.have /\ t - st.at < Window
  <2>1. r = <<st, st.pct>>
    BY <1>4 DEF legacy_seq_pct
  <2>2. ~(t - st.at >= Window)
    BY <1>0, <1>4 DEF SeqStates
  <2>3. r[1] = st /\ r[2] \in -1 .. 100
    BY <2>1 DEF SeqStates
  <2> QED
    BY <1>4, <2>2, <2>3
<1>5. CASE has_lock /\ readable /\ st.have /\ ~(t - st.at < Window)
  <2> DEFINE bad == IF count >= st.base THEN count - st.base ELSE 0
             e == Rate * (t - st.at)
             pct == GoodPct(bad, e)
  <2>1. r = <<[have |-> TRUE, base |-> count, at |-> t, pct |-> pct], pct>>
    BY <1>5 DEF legacy_seq_pct
  <2>2. st.at \in Nat /\ st.base \in Nat
    BY DEF SeqStates
  <2>3. bad \in Nat /\ t - st.at \in Nat /\ count - st.base <= bad
    BY <2>2
  <2>4. e \in Nat
    BY <1>0, <2>3
  <2> HIDE DEF bad, e
  <2>5. pct \in 0 .. 100 /\ (pct = 100 => 200 * bad <= e)
    BY <2>3, <2>4, GoodShare
  <2> HIDE DEF pct
  <2>6. pct = 100 => 200 * (count - st.base) <= e
    BY <2>2, <2>3, <2>4, <2>5
  <2>7. pct \in -1 .. 100 /\ pct >= 0
    BY <2>5
  <2>8. r[1] \in SeqStates /\ r[1].at = t /\ r[1].have = TRUE /\ r[2] = pct
    BY <2>1, <2>7 DEF SeqStates
  <2>9. r[2] = 100 => 200 * (count - st.base) <= Rate * (t - st.at)
    BY <2>6, <2>8 DEF e
  <2>10. r[2] \in -1 .. 100 /\ r[2] >= 0 /\ r[1].at <= t /\ r[1].have
    BY <2>7, <2>8
  <2> QED
    BY <1>5, <2>8, <2>9, <2>10, Zenon
<1> QED
  BY <1>1, <1>2, <1>3, <1>4, <1>5

\* A sample at or after t: what publish_scan_stats leaves.
LEMMA SampleLeaves ==
  ASSUME TypeOK, SampleInv, NEW t \in Nat, now <= t,
         NEW has_lock \in BOOLEAN, NEW readable \in BOOLEAN,
         Sample(t, has_lock, readable)
  PROVE  /\ now' \in Nat /\ t <= now' /\ ucblocks' \in Nat
         /\ seq' \in SeqStates /\ quality' \in -1 .. 100 /\ seq'.at <= now'
         /\ gap' \in BOOLEAN /\ steady' \in BOOLEAN
         /\ seq'.have => ~gap'
         /\ steady' => seq'.have /\ (phase = "settle2" => steady)
         /\ steady' /\ seq.have /\ t - now >= Window => quality' >= 0
         /\ quality' >= 0 => ~gap
         /\ quality' = 100 /\ seq' # seq =>
              200 * (ucblocks' - seq.base) <= Rate * (now' - seq.at)
<1>0. /\ now \in Nat /\ ucblocks \in Nat /\ seq \in SeqStates /\ gap \in BOOLEAN
      /\ seq.at <= now /\ (seq.have => ~gap)
  BY DEF TypeOK, SampleInv, SeqStates
<1>1. now' \in Nat /\ t <= now'
  <2>1. PICK d \in 0 .. MaxBlock : now' = t + d
    BY DEF Sample, Blocked
  <2> QED
    BY <2>1, MuxScanAssumption
<1>2. ucblocks' \in Nat
  <2>1. PICK e \in 0 .. MaxErrors :
          ucblocks' = IF has_lock THEN ucblocks + e ELSE ucblocks
    BY DEF Sample
  <2> QED
    BY <1>0, <2>1, MuxScanAssumption
<1> DEFINE r == legacy_seq_pct(seq, has_lock, readable, ucblocks', now')
<1>3. seq' = r[1] /\ quality' = r[2]
  BY DEF Sample
<1>4. seq.at <= now'
  BY <1>0, <1>1 DEF SeqStates
<1>5. /\ r[1] \in SeqStates /\ r[2] \in -1 .. 100 /\ r[1].at <= now'
      /\ r[1].have => has_lock /\ (seq.have \/ r[1].at = now')
      /\ has_lock /\ readable => r[1].have
      /\ has_lock /\ readable /\ seq.have /\ now' - seq.at >= Window => r[2] >= 0
      /\ r[2] >= 0 => seq.have
      /\ r[2] = 100 /\ r[1] # seq =>
           200 * (ucblocks' - seq.base) <= Rate * (now' - seq.at)
  BY <1>0, <1>1, <1>2, <1>4, SeqSample
<1> HIDE DEF r
<1>6. gap' = (~has_lock \/ (gap /\ seq'.at # now'))
  BY DEF Sample
<1>7. steady' = (has_lock /\ readable /\ (phase = "settle2" => steady))
  BY DEF Sample
<1>8. gap' \in BOOLEAN /\ steady' \in BOOLEAN
  <2>1. steady \in BOOLEAN
    BY DEF TypeOK
  <2> QED
    BY <1>0, <1>6, <1>7, <2>1
<1>9. seq'.have => ~gap'
  BY <1>0, <1>3, <1>5, <1>6
<1>10. steady' => has_lock /\ readable
  BY <1>7
<1>11. t - now >= Window => now' - seq.at >= Window
  <2>1. seq.at \in Nat /\ Window \in Nat
    BY <1>0, MuxScanAssumption DEF SeqStates
  <2> QED
    BY <1>0, <1>1, <2>1
<1> QED
  BY <1>0, <1>1, <1>2, <1>3, <1>5, <1>7, <1>8, <1>9, <1>10, <1>11

-----------------------------------------------------------------------------
(* Phases, requests and the lock *)

Phases == {"idle", "asked", "poll", "publish", "turn", "settle1", "settle2", "psip",
           "pat", "pmt", "vct", "join"}

\* The part of the type invariant that is about control.
ControlOK ==
  /\ phase \in Phases
  /\ phase = "asked" <=> ask # None
  /\ live \in BOOLEAN /\ got \in BOOLEAN
  /\ delivery \in {Vsb, Qam}
  /\ mux \in Muxes \cup {None}
  /\ heard \in [Filters -> SUBSET Muxes] /\ failed \subseteq Filters

\* Only a mux that is there is heard.
LEMMA HearsMuxes ==
  ASSUME ControlOK, NEW locked, Hears(locked), locked => mux # None
  PROVE  heard' \in [Filters -> SUBSET Muxes]
  BY DEF ControlOK, Hears

\* Every step leaves a budget to wait in and a mux behind a lock.
LEMMA ControlStep == IInv /\ [Next]_vars => ControlOK' /\ WaitInv'
<1> SUFFICES ASSUME IInv, [Next]_vars PROVE ControlOK' /\ WaitInv'
  OBVIOUS
<1>0. ControlOK /\ WaitInv
  BY DEF IInv, TypeOK, ControlOK, Phases
<1>1. ASSUME NEW map \in MapNames, NEW prefix \in {"auto"} \cup MapNames,
             NEW n \in Numbers, Ask(map, prefix, n)
      PROVE  ControlOK' /\ WaitInv'
  <2>1. Request(map, prefix, n) \in Requests
    BY DEF Requests
  <2>2. ask' \in Requests /\ ask' # None
    BY <1>1, <2>1, MuxScanAssumption DEF Ask
  <2> QED
    BY <1>0, <1>1, <2>2 DEF Ask, ControlOK, WaitInv, WithinBudget, Phases, Reading
<1>2. ASSUME Rejects PROVE ControlOK' /\ WaitInv'
  BY <1>0, <1>2 DEF Rejects, ControlOK, WaitInv, WithinBudget, Phases, Reading, waitVars,
         tableVars, sampleVars
<1>3. ASSUME NEW m \in Muxes \cup {None}, NEW c \in BOOLEAN, Tune(m, c)
      PROVE  ControlOK' /\ WaitInv'
  <2>1. delivery' \in {Vsb, Qam}
    BY <1>3 DEF Tune, delivery_for_map
  <2>2. phase' \in {"poll", "idle"} /\ now' = 0 /\ got' = FALSE /\ live' = c
    BY <1>3 DEF Tune, FreshSamples
  <2>3. got' \in BOOLEAN /\ live' \in BOOLEAN
    BY <2>2, Zenon
  <2>4. 0 < LockTimeout
    BY MuxScanAssumption
  <2>5. ask' = None /\ mux' = m /\ heard' = heard /\ failed' = failed
    BY <1>3 DEF Tune
  <2> QED
    BY <1>0, <2>1, <2>2, <2>3, <2>4, <2>5
    DEF ControlOK, WaitInv, WithinBudget, Phases, Reading
<1>4. ASSUME NEW a \in BOOLEAN, NEW b \in BOOLEAN, Poll(a, b)
      PROVE  ControlOK' /\ WaitInv'
  <2>1. heard' \in [Filters -> SUBSET Muxes]
    BY <1>0, <1>4, HearsMuxes DEF Poll
  <2>2. /\ phase' \in {"publish", "turn"} /\ got' = b /\ (b => mux # None)
        /\ phase = "poll" /\ UNCHANGED <<ask, live, delivery, mux, failed>>
    BY <1>4 DEF Poll
  <2> QED
    BY <1>0, <2>1, <2>2 DEF ControlOK, WaitInv, WithinBudget, Phases, Reading
<1>5. ASSUME NEW a \in BOOLEAN, NEW b \in BOOLEAN, Publish(a, b)
      PROVE  ControlOK' /\ WaitInv'
  <2>1. /\ Hears(a) /\ (a => mux # None)
        /\ UNCHANGED <<ask, live, delivery, mux, got, failed>>
    BY <1>5 DEF Publish, Sample
  <2>2. heard' \in [Filters -> SUBSET Muxes]
    BY <1>0, <2>1, HearsMuxes
  <2>3. phase' = "turn" /\ phase = "publish"
    BY <1>5 DEF Publish
  <2> QED
    BY <1>0, <2>1, <2>2, <2>3 DEF ControlOK, WaitInv, WithinBudget, Phases, Reading
<1>6. ASSUME Turn PROVE ControlOK' /\ WaitInv'
  <2>0. phase = "turn" /\ UNCHANGED <<ask, live, delivery, mux, heard, failed>>
    BY <1>6 DEF Turn
  <2>1. CASE got /\ phase' = (IF live THEN "settle1" ELSE "psip") /\ UNCHANGED got
    BY <1>0, <2>0, <2>1 DEF ControlOK, WaitInv, WithinBudget, Phases, Reading
  <2>2. CASE now' < LockTimeout /\ phase' = "poll" /\ UNCHANGED got
    BY <1>0, <2>0, <2>2 DEF ControlOK, WaitInv, WithinBudget, Phases, Reading
  <2>3. CASE phase' = "idle" /\ FreshSamples
    <3>1. got' \in BOOLEAN
      BY <2>3, Zenon DEF FreshSamples
    <3> QED
      BY <1>0, <2>0, <2>3, <3>1 DEF ControlOK, WaitInv, WithinBudget, Phases, Reading
  <2> QED
    BY <1>6, <2>1, <2>2, <2>3 DEF Turn
<1>7. ASSUME NEW a \in BOOLEAN, NEW b \in BOOLEAN, Settle1(a, b)
      PROVE  ControlOK' /\ WaitInv'
  <2>1. /\ Hears(a) /\ (a => mux # None)
        /\ UNCHANGED <<ask, live, delivery, mux, got, failed>>
    BY <1>7 DEF Settle1, Sample
  <2>2. heard' \in [Filters -> SUBSET Muxes]
    BY <1>0, <2>1, HearsMuxes
  <2>3. phase' = "settle2" /\ phase = "settle1"
    BY <1>7 DEF Settle1
  <2> QED
    BY <1>0, <2>1, <2>2, <2>3 DEF ControlOK, WaitInv, WithinBudget, Phases, Reading
<1>8. ASSUME NEW a \in BOOLEAN, NEW b \in BOOLEAN, Settle2(a, b)
      PROVE  ControlOK' /\ WaitInv'
  <2>1. /\ Hears(a) /\ (a => mux # None)
        /\ UNCHANGED <<ask, live, delivery, mux, got, failed>>
    BY <1>8 DEF Settle2, Sample
  <2>2. heard' \in [Filters -> SUBSET Muxes]
    BY <1>0, <2>1, HearsMuxes
  <2>3. phase' = "psip" /\ phase = "settle2"
    BY <1>8 DEF Settle2
  <2> QED
    BY <1>0, <2>1, <2>2, <2>3 DEF ControlOK, WaitInv, WithinBudget, Phases, Reading
<1>9. ASSUME Rearm PROVE ControlOK' /\ WaitInv'
  <2>1. phase = "psip" /\ phase' = "pat" /\ UNCHANGED <<ask, live, delivery, mux>>
    BY <1>9 DEF Rearm
  <2>2. /\ failed' \subseteq Filters /\ mux \in Muxes
        /\ heard' = [f \in Filters |-> IF f \in failed' THEN heard[f] ELSE {mux}]
    BY <1>0, <1>9 DEF Rearm, ControlOK, WaitInv
  <2>3. got' \in BOOLEAN
    BY <1>9, Zenon DEF Rearm, FreshSamples
  <2> QED
    BY <1>0, <2>1, <2>2, <2>3 DEF ControlOK, WaitInv, WithinBudget, Phases, Reading
<1>10. ASSUME ReadPat PROVE ControlOK' /\ WaitInv'
  BY <1>0, <1>10 DEF ReadPat, ControlOK, WaitInv, WithinBudget, Phases, Reading, waitVars,
         tableVars, sampleVars
<1>11. ASSUME ReadPmts PROVE ControlOK' /\ WaitInv'
  BY <1>0, <1>11 DEF ReadPmts, ControlOK, WaitInv, WithinBudget, Phases, Reading, waitVars,
         tableVars, sampleVars
<1>12. ASSUME ReadVct PROVE ControlOK' /\ WaitInv'
  BY <1>0, <1>12 DEF ReadVct, ControlOK, WaitInv, WithinBudget, Phases, Reading, waitVars,
         tableVars, sampleVars
<1>13. ASSUME EndVct PROVE ControlOK' /\ WaitInv'
  BY <1>0, <1>13 DEF EndVct, ControlOK, WaitInv, WithinBudget, Phases, Reading, waitVars,
         tableVars, sampleVars
<1>14. ASSUME Join PROVE ControlOK' /\ WaitInv'
  BY <1>0, <1>14 DEF Join, ControlOK, WaitInv, WithinBudget, Phases, Reading, waitVars,
         tableVars, sampleVars
<1>15. ASSUME UNCHANGED vars PROVE ControlOK' /\ WaitInv'
  BY <1>0, <1>15 DEF vars, ControlOK, WaitInv, WithinBudget, sampleVars, tableVars
<1> QED
  BY <1>1, <1>2, <1>3, <1>4, <1>5, <1>6, <1>7, <1>8, <1>9, <1>10, <1>11, <1>12,
     <1>13, <1>14, <1>15
     DEF Next, Attempt

-----------------------------------------------------------------------------
(* The samples *)

\* The part of the type invariant that is about times and counters.
TimesOK == now \in Nat /\ since_cb \in Nat /\ ucblocks \in Nat /\ quality \in -1 .. 100

\* The locals of a new attempt are sound.
LEMMA FreshSound ==
  ASSUME FreshSamples, phase' \notin {"settle2", "publish"}
  PROVE  TimesOK' /\ SampleInv'
<1>1. now' = 0 /\ since_cb' \in Nat /\ ucblocks' = 0 /\ quality' = -1
  BY MuxScanAssumption DEF FreshSamples
<1>2. seq' = NoSeq /\ gap' = FALSE /\ steady' = FALSE
  BY DEF FreshSamples
<1>3. /\ NoSeq \in [have : BOOLEAN, base : Nat, at : Nat, pct : -1 .. 100]
      /\ NoSeq.at = 0 /\ NoSeq.have = FALSE
  BY DEF NoSeq
<1>4. gap' \in BOOLEAN /\ steady' \in BOOLEAN
  BY <1>2, Zenon
<1>5. SampleInv'
  BY <1>1, <1>2, <1>3, <1>4 DEF SampleInv, SettleGivesQuality
<1> QED
  BY <1>1, <1>5 DEF TimesOK

\* Nor does a step that takes no sample spoil them.
LEMMA SamplesKept ==
  ASSUME TimesOK, SampleInv, UNCHANGED <<live, seq, ucblocks, quality, gap, steady>>,
         now' \in Nat, now <= now', since_cb' \in Nat,
         phase' \notin {"settle2", "publish", "psip"},
         phase' \in {"poll", "turn"} => phase \in {"poll", "turn"}
  PROVE  TimesOK' /\ SampleInv'
<1>1. seq.at <= now'
  BY DEF SampleInv, TimesOK
<1> QED
  BY <1>1 DEF TimesOK, SampleInv, SettleGivesQuality

\* Every step leaves the samples sound.
LEMMA SampleStep == IInv /\ [Next]_vars => TimesOK' /\ SampleInv'
<1> SUFFICES ASSUME IInv, [Next]_vars PROVE TimesOK' /\ SampleInv'
  OBVIOUS
<1>0. TypeOK /\ TimesOK /\ SampleInv
  BY DEF IInv, TypeOK, TimesOK
<1>1. ASSUME NEW map \in MapNames, NEW prefix \in {"auto"} \cup MapNames,
             NEW n \in Numbers, Ask(map, prefix, n)
      PROVE  TimesOK' /\ SampleInv'
  <2>1. phase = "idle" /\ phase' = "asked" /\ UNCHANGED <<now, since_cb, sampleVars>>
    BY <1>1 DEF Ask
  <2> QED
    BY <1>0, <2>1 DEF TimesOK, SampleInv, SettleGivesQuality, sampleVars
<1>2. ASSUME Rejects PROVE TimesOK' /\ SampleInv'
  BY <1>0, <1>2, SamplesKept DEF Rejects, TimesOK, sampleVars, waitVars
<1>3. ASSUME NEW m \in Muxes \cup {None}, NEW c \in BOOLEAN, Tune(m, c)
      PROVE  TimesOK' /\ SampleInv'
  BY <1>3, FreshSound DEF Tune
<1>4. ASSUME NEW a \in BOOLEAN, NEW b \in BOOLEAN, Poll(a, b)
      PROVE  TimesOK' /\ SampleInv'
  <2>1. now' \in Nat /\ now <= now'
    <3>1. PICK d \in 0 .. MaxBlock : now' = now + d
      BY <1>4 DEF Poll, Blocked
    <3> QED
      BY <1>0, <3>1, MuxScanAssumption DEF TimesOK
  <2>2. /\ UNCHANGED <<live, since_cb, sampleVars>> /\ phase' \in {"publish", "turn"}
        /\ (phase' = "publish" => live) /\ phase = "poll"
    BY <1>4 DEF Poll
  <2>3. seq.at <= now'
    BY <1>0, <2>1 DEF TimesOK, SampleInv
  <2> QED
    BY <1>0, <2>1, <2>2, <2>3 DEF TimesOK, SampleInv, SettleGivesQuality, sampleVars
<1>5. ASSUME NEW a \in BOOLEAN, NEW b \in BOOLEAN, Publish(a, b)
      PROVE  TimesOK' /\ SampleInv'
  <2>1. Sample(now, a, b) /\ phase = "publish" /\ phase' = "turn" /\ live' = live
    BY <1>5 DEF Publish, Sample
  <2>2. now \in Nat /\ now <= now
    BY <1>0, MuxScanAssumption DEF TimesOK
  <2>3. /\ now' \in Nat /\ ucblocks' \in Nat /\ quality' \in -1 .. 100
        /\ seq' \in SeqStates /\ seq'.at <= now'
        /\ gap' \in BOOLEAN /\ steady' \in BOOLEAN /\ (seq'.have => ~gap')
        /\ steady' => seq'.have /\ (phase = "settle2" => steady)
        /\ steady' /\ seq.have /\ now - now >= Window => quality' >= 0
    BY <1>0, <2>1, <2>2, SampleLeaves
  <2>4. since_cb' \in Nat
    BY <1>0, <1>5 DEF Publish, TimesOK
  <2>5. live
    BY <1>0, <2>1 DEF SampleInv
  <2> QED
    BY <2>1, <2>3, <2>4, <2>5 DEF TimesOK, SampleInv, SettleGivesQuality, SeqStates
<1>6. ASSUME Turn PROVE TimesOK' /\ SampleInv'
  <2>0. phase = "turn" /\ live' = live
    BY <1>6 DEF Turn
  <2>1. CASE /\ got /\ phase' = (IF live THEN "settle1" ELSE "psip")
             /\ UNCHANGED <<now, since_cb, sampleVars>>
    BY <1>0, <2>0, <2>1 DEF TimesOK, SampleInv, SettleGivesQuality, sampleVars
  <2>2. CASE /\ now' = now + Step /\ since_cb' = since_cb + Step /\ phase' = "poll"
             /\ UNCHANGED sampleVars
    <3>1. now' \in Nat /\ now <= now' /\ since_cb' \in Nat
      BY <1>0, <2>2, MuxScanAssumption DEF TimesOK
    <3> QED
      BY <1>0, <2>0, <2>2, <3>1, SamplesKept DEF sampleVars
  <2>3. CASE phase' = "idle" /\ FreshSamples
    BY <2>3, FreshSound
  <2> QED
    BY <1>6, <2>1, <2>2, <2>3 DEF Turn
<1>7. ASSUME NEW a \in BOOLEAN, NEW b \in BOOLEAN, Settle1(a, b)
      PROVE  TimesOK' /\ SampleInv'
  <2>1. Sample(now, a, b) /\ phase = "settle1" /\ phase' = "settle2" /\ live' = live
    BY <1>7 DEF Settle1, Sample
  <2>2. now \in Nat /\ now <= now
    BY <1>0, MuxScanAssumption DEF TimesOK
  <2>3. /\ now' \in Nat /\ ucblocks' \in Nat /\ quality' \in -1 .. 100
        /\ seq' \in SeqStates /\ seq'.at <= now'
        /\ gap' \in BOOLEAN /\ steady' \in BOOLEAN /\ (seq'.have => ~gap')
        /\ steady' => seq'.have /\ (phase = "settle2" => steady)
        /\ steady' /\ seq.have /\ now - now >= Window => quality' >= 0
    BY <1>0, <2>1, <2>2, SampleLeaves
  <2>4. since_cb' \in Nat
    BY <1>0, <1>7 DEF Settle1, TimesOK
  <2> QED
    BY <2>1, <2>3, <2>4 DEF TimesOK, SampleInv, SettleGivesQuality, SeqStates
<1>8. ASSUME NEW a \in BOOLEAN, NEW b \in BOOLEAN, Settle2(a, b)
      PROVE  TimesOK' /\ SampleInv'
  <2> DEFINE t == now + Settle
  <2>1. Sample(t, a, b) /\ phase = "settle2" /\ phase' = "psip" /\ live' = live
    BY <1>8 DEF Settle2, Sample
  <2>2. t \in Nat /\ now <= t
    BY <1>0, MuxScanAssumption DEF TimesOK
  <2>3. t - now >= Window
    BY <1>0, MuxScanAssumption DEF TimesOK
  <2> HIDE DEF t
  <2>4. /\ now' \in Nat /\ ucblocks' \in Nat /\ quality' \in -1 .. 100
        /\ seq' \in SeqStates /\ seq'.at <= now'
        /\ gap' \in BOOLEAN /\ steady' \in BOOLEAN /\ (seq'.have => ~gap')
        /\ steady' => seq'.have /\ (phase = "settle2" => steady)
        /\ steady' /\ seq.have /\ t - now >= Window => quality' >= 0
    BY <1>0, <2>1, <2>2, SampleLeaves
  <2>5. since_cb' \in Nat
    BY <1>0, <1>8 DEF Settle2, TimesOK
  <2>6. steady => seq.have
    BY <1>0, <2>1 DEF SampleInv
  <2>7. steady' => quality' >= 0
    BY <2>1, <2>3, <2>4, <2>6
  <2> QED
    BY <2>1, <2>4, <2>5, <2>7 DEF TimesOK, SampleInv, SettleGivesQuality, SeqStates
<1>9. ASSUME Rearm PROVE TimesOK' /\ SampleInv'
  BY <1>9, FreshSound DEF Rearm
<1>10. ASSUME ReadPat PROVE TimesOK' /\ SampleInv'
  BY <1>0, <1>10, SamplesKept DEF ReadPat, TimesOK, sampleVars, waitVars
<1>11. ASSUME ReadPmts PROVE TimesOK' /\ SampleInv'
  BY <1>0, <1>11, SamplesKept DEF ReadPmts, TimesOK, sampleVars, waitVars
<1>12. ASSUME ReadVct PROVE TimesOK' /\ SampleInv'
  BY <1>0, <1>12, SamplesKept DEF ReadVct, TimesOK, sampleVars, waitVars
<1>13. ASSUME EndVct PROVE TimesOK' /\ SampleInv'
  BY <1>0, <1>13, SamplesKept DEF EndVct, TimesOK, sampleVars, waitVars
<1>14. ASSUME Join PROVE TimesOK' /\ SampleInv'
  BY <1>0, <1>14, SamplesKept DEF Join, TimesOK, sampleVars, waitVars
<1>15. ASSUME UNCHANGED vars PROVE TimesOK' /\ SampleInv'
  BY <1>0, <1>15 DEF vars, TimesOK, SampleInv, SettleGivesQuality, sampleVars
<1> QED
  BY <1>1, <1>2, <1>3, <1>4, <1>5, <1>6, <1>7, <1>8, <1>9, <1>10, <1>11, <1>12,
     <1>13, <1>14, <1>15
     DEF Next, Attempt

-----------------------------------------------------------------------------
(* The tables *)

\* The part of the type invariant that is about the tables.
TablesOK ==
  /\ attempts \in Nat /\ attempts <= VctAttempts
  /\ Cardinality(pat) <= PatMax /\ Len(vct) <= VctMax

\* psip_parse_pat takes programs of the section, and no more than fit.
LEMMA ParsedPat ==
  ASSUME NEW section, section \in Seq(Range(section))
  PROVE  /\ \A e \in psip_parse_pat(section) : e \in Range(section) /\ e.program # 0
         /\ Cardinality(psip_parse_pat(section)) <= PatMax
<1> DEFINE programs == {k \in DOMAIN section : section[k].program # 0}
           kept == {j \in programs : Cardinality(programs \cap 1 .. j) <= PatMax}
           l == Len(section)
<1>1. psip_parse_pat(section) = {section[k] : k \in kept}
  BY DEF psip_parse_pat
<1>2. l \in Nat /\ DOMAIN section = 1 .. l
  OBVIOUS
<1>3. \A e \in psip_parse_pat(section) : e \in Range(section) /\ e.program # 0
  BY <1>1 DEF Range
<1>4. PatMax \in Nat
  BY MuxScanAssumption
<1>5. kept \subseteq 1 .. l /\ programs \subseteq 1 .. l
  BY <1>2
<1>k. \A j \in kept : j \in programs /\ Cardinality(programs \cap 1 .. j) <= PatMax
  OBVIOUS
<1> HIDE DEF kept, programs, l
<1>6. IsFiniteSet(kept) /\ IsFiniteSet(programs)
  <2>1. IsFiniteSet(1 .. l)
    BY <1>2, FS_Interval
  <2> QED
    BY <1>5, <2>1, FS_Subset
<1>7. Cardinality(kept) <= PatMax
  <2>1. CASE kept = {}
    BY <1>4, <2>1, FS_EmptySet
  <2>2. CASE kept # {}
    <3> DEFINE below == {l - k : k \in kept}
               top == l - Min(below)
    <3>0. \A k \in kept : k \in 1 .. l /\ l - k \in Nat
      BY <1>2, <1>5
    <3>1. below \subseteq Nat /\ below # {}
      BY <2>2, <3>0
    <3>2. Min(below) \in below /\ \A y \in below : Min(below) <= y
      BY <3>1, MinIsLeast
    <3>3. PICK k \in kept : Min(below) = l - k
      BY <3>2
    <3>4. top = k /\ k \in 1 .. l
      BY <1>2, <1>5, <3>3
    <3>5. \A j \in kept : j <= k
      <4> SUFFICES ASSUME NEW j \in kept PROVE j <= k
        OBVIOUS
      <4>1. l - k <= l - j
        BY <3>2, <3>3
      <4> QED
        BY <1>2, <1>5, <3>4, <4>1
    <3>6. kept \subseteq programs \cap 1 .. k
      <4> SUFFICES ASSUME NEW j \in kept PROVE j \in programs /\ j \in 1 .. k
        OBVIOUS
      <4>1. j \in 1 .. l /\ j <= k
        BY <3>0, <3>5
      <4>2. j \in programs
        BY <1>k
      <4>3. j \in 1 .. k
        BY <1>2, <3>4, <4>1
      <4> QED
        BY <4>2, <4>3
    <3>7. IsFiniteSet(programs \cap 1 .. k)
      BY <1>6, FS_Subset
    <3>8. /\ Cardinality(kept) <= Cardinality(programs \cap 1 .. k)
          /\ Cardinality(programs \cap 1 .. k) <= PatMax
      BY <1>k, <3>6, <3>7, FS_Subset
    <3>9. Cardinality(kept) \in Nat /\ Cardinality(programs \cap 1 .. k) \in Nat
      BY <1>6, <3>7, FS_CardinalityType
    <3> QED
      BY <1>4, <3>8, <3>9
  <2> QED
    BY <2>1, <2>2
<1>8. Cardinality(psip_parse_pat(section)) <= Cardinality(kept)
  <2> DEFINE g == [k \in kept |-> section[k]]
  <2>1. g \in Surjection(kept, psip_parse_pat(section))
    BY <1>1 DEF Surjection
  <2> QED
    BY <1>6, <2>1, FS_Surjection
<1>9. /\ Cardinality(psip_parse_pat(section)) \in Nat /\ Cardinality(kept) \in Nat
  <2> DEFINE g == [k \in kept |-> section[k]]
  <2>1. g \in Surjection(kept, psip_parse_pat(section))
    BY <1>1 DEF Surjection
  <2>2. IsFiniteSet(psip_parse_pat(section))
    BY <1>6, <2>1, FS_Surjection
  <2> QED
    BY <1>6, <2>2, FS_CardinalityType
<1> QED
  BY <1>3, <1>4, <1>7, <1>8, <1>9

\* A table that is cut fits, and has the entries it had.
LEMMA CutFits ==
  ASSUME NEW S, NEW s \in Seq(S), NEW n \in Nat
  PROVE  /\ Cut(s, n) \in Seq(S) /\ Len(Cut(s, n)) <= n
         /\ Len(Cut(s, n)) \in Nat /\ Len(Cut(s, n)) <= Len(s)
         /\ \A i \in 1 .. Len(Cut(s, n)) : Cut(s, n)[i] = s[i]
  BY DEF Cut

\* The PMT on a PID is that of a program of this mux, and on the PID its PAT gives
\* a program it is that program's.
LEMMA PmtIs ==
  ASSUME NEW m \in Muxes, mux = m, NEW pid, NEW p \in PmtOn(pid)
  PROVE  \E e \in Range(Air[m].pat) :
           /\ e.program # 0 /\ e.pid = pid /\ p = Air[m].pmt[e.program]
           /\ \A d \in Range(Air[m].pat) : d.pid = pid => d = e
<1> DEFINE T == Air[m].pat
<1>1. PICK k \in DOMAIN T :
        T[k].pid = pid /\ T[k].program # 0 /\ p = Air[m].pmt[T[k].program]
  BY DEF PmtOn
<1>2. \A i, j \in DOMAIN T : T[i].pid = T[j].pid => i = j
  <2>1. IsInjective([i \in DOMAIN T |-> T[i].pid])
    BY MuxScanAssumption
  <2> QED
    BY <2>1 DEF IsInjective
<1> QED
  BY <1>1, <1>2 DEF Range

\* Tables that have not been read are sound.
LEMMA EmptyTables ==
  ASSUME pat' = {}, pmts' = {}, vct' = <<>>, seen' = {}, attempts' = 0,
         phase' \in Reading => \A f \in Filters \ failed' : heard'[f] = {mux'}
  PROVE  TablesOK' /\ PatInv' /\ VctInv'
<1>1. PatInv'
  BY DEF PatInv
<1>2. EntryOnce'
  BY DEF EntryOnce, IsInjective
<1>3. NoWaitWhenComplete'
  BY DEF NoWaitWhenComplete
<1>4. VctInv'
  BY <1>2, <1>3 DEF VctInv
<1>5. PatMax \in Nat /\ VctMax \in Nat /\ VctAttempts \in Nat
  BY MuxScanAssumption
<1>6. Cardinality({}) = 0
  BY FS_EmptySet
<1>7. TablesOK'
  BY <1>5, <1>6 DEF TablesOK
<1> QED
  BY <1>1, <1>4, <1>7

\* Every step leaves the tables with what this mux sends, each channel once.
LEMMA TableStep == IInv /\ [Next]_vars => TablesOK' /\ PatInv' /\ VctInv'
<1> SUFFICES ASSUME IInv, [Next]_vars PROVE TablesOK' /\ PatInv' /\ VctInv'
  OBVIOUS
<1>0. ControlOK /\ WaitInv /\ TablesOK /\ PatInv /\ VctInv
  BY DEF IInv, TypeOK, ControlOK, Phases, TablesOK
<1>1. ASSUME NEW map \in MapNames, NEW prefix \in {"auto"} \cup MapNames,
             NEW n \in Numbers, Ask(map, prefix, n)
      PROVE  TablesOK' /\ PatInv' /\ VctInv'
  <2>1. pat = {} /\ pmts = {} /\ vct = <<>> /\ seen = {} /\ attempts = 0
    BY <1>0, <1>1 DEF Ask, PatInv
  <2>2. UNCHANGED <<pat, pmts, vct, seen, attempts>> /\ phase' \notin Reading
    BY <1>1 DEF Ask, Reading
  <2> QED
    BY <2>1, <2>2, EmptyTables
<1>2. ASSUME Rejects PROVE TablesOK' /\ PatInv' /\ VctInv'
  <2>1. pat = {} /\ pmts = {} /\ vct = <<>> /\ seen = {} /\ attempts = 0
    BY <1>0, <1>2 DEF Rejects, PatInv
  <2>2. UNCHANGED tableVars /\ phase' \notin Reading
    BY <1>2 DEF Rejects, Sample, Reading
  <2> QED
    BY <2>1, <2>2, EmptyTables DEF tableVars
<1>3. ASSUME NEW m \in Muxes \cup {None}, NEW c \in BOOLEAN, Tune(m, c)
      PROVE  TablesOK' /\ PatInv' /\ VctInv'
  <2>1. pat = {} /\ pmts = {} /\ vct = <<>> /\ seen = {} /\ attempts = 0
    BY <1>0, <1>3 DEF Tune, PatInv
  <2>2. UNCHANGED tableVars /\ phase' \notin Reading
    BY <1>3 DEF Tune, Sample, Reading
  <2> QED
    BY <2>1, <2>2, EmptyTables DEF tableVars
<1>4. ASSUME NEW a \in BOOLEAN, NEW b \in BOOLEAN, Poll(a, b)
      PROVE  TablesOK' /\ PatInv' /\ VctInv'
  <2>1. pat = {} /\ pmts = {} /\ vct = <<>> /\ seen = {} /\ attempts = 0
    BY <1>0, <1>4 DEF Poll, PatInv
  <2>2. UNCHANGED tableVars /\ phase' \notin Reading
    BY <1>4 DEF Poll, Sample, Reading
  <2> QED
    BY <2>1, <2>2, EmptyTables DEF tableVars
<1>5. ASSUME NEW a \in BOOLEAN, NEW b \in BOOLEAN, Publish(a, b)
      PROVE  TablesOK' /\ PatInv' /\ VctInv'
  <2>1. pat = {} /\ pmts = {} /\ vct = <<>> /\ seen = {} /\ attempts = 0
    BY <1>0, <1>5 DEF Publish, PatInv
  <2>2. UNCHANGED tableVars /\ phase' \notin Reading
    BY <1>5 DEF Publish, Sample, Reading
  <2> QED
    BY <2>1, <2>2, EmptyTables DEF tableVars
<1>6. ASSUME Turn PROVE TablesOK' /\ PatInv' /\ VctInv'
  <2>1. pat = {} /\ pmts = {} /\ vct = <<>> /\ seen = {} /\ attempts = 0
    BY <1>0, <1>6 DEF Turn, PatInv
  <2>2. UNCHANGED tableVars /\ phase' \notin Reading
    BY <1>6 DEF Turn, Sample, Reading
  <2> QED
    BY <2>1, <2>2, EmptyTables DEF tableVars
<1>7. ASSUME NEW a \in BOOLEAN, NEW b \in BOOLEAN, Settle1(a, b)
      PROVE  TablesOK' /\ PatInv' /\ VctInv'
  <2>1. pat = {} /\ pmts = {} /\ vct = <<>> /\ seen = {} /\ attempts = 0
    BY <1>0, <1>7 DEF Settle1, PatInv
  <2>2. UNCHANGED tableVars /\ phase' \notin Reading
    BY <1>7 DEF Settle1, Sample, Reading
  <2> QED
    BY <2>1, <2>2, EmptyTables DEF tableVars
<1>8. ASSUME NEW a \in BOOLEAN, NEW b \in BOOLEAN, Settle2(a, b)
      PROVE  TablesOK' /\ PatInv' /\ VctInv'
  <2>1. pat = {} /\ pmts = {} /\ vct = <<>> /\ seen = {} /\ attempts = 0
    BY <1>0, <1>8 DEF Settle2, PatInv
  <2>2. UNCHANGED tableVars /\ phase' \notin Reading
    BY <1>8 DEF Settle2, Sample, Reading
  <2> QED
    BY <2>1, <2>2, EmptyTables DEF tableVars
<1>9. ASSUME Rearm PROVE TablesOK' /\ PatInv' /\ VctInv'
  <2>1. pat = {} /\ pmts = {} /\ vct = <<>> /\ seen = {} /\ attempts = 0
    BY <1>0, <1>9 DEF Rearm, PatInv
  <2>2. /\ UNCHANGED tableVars /\ mux' = mux
        /\ \A f \in Filters \ failed' : heard'[f] = {mux'}
    BY <1>9 DEF Rearm
  <2> QED
    BY <2>1, <2>2, EmptyTables DEF tableVars
<1>10. ASSUME ReadPat PROVE TablesOK' /\ PatInv' /\ VctInv'
  <2>1. /\ pat = {} /\ pmts' = {} /\ vct' = <<>> /\ seen' = {} /\ attempts' = 0
        /\ mux' = mux /\ heard' = heard /\ failed' = failed /\ phase = "pat"
        /\ mux \in Muxes /\ heard["pat"] \subseteq Muxes
        /\ \A f \in Filters \ failed : heard[f] = {mux}
    BY <1>0, <1>10
    DEF ReadPat, PatInv, waitVars, WaitInv, Reading, ControlOK, Filters
  <2>2. CASE phase' = "idle" /\ pat' = {}
    BY <2>1, <2>2, EmptyTables DEF Reading
  <2>3. ASSUME NEW m \in heard["pat"], pat' = psip_parse_pat(Air[m].pat), phase' = "pmt"
        PROVE  TablesOK' /\ PatInv' /\ VctInv'
    <3>1. /\ \A e \in pat' : e \in Range(Air[m].pat) /\ e.program # 0
          /\ Cardinality(pat') <= PatMax
      BY <2>1, <2>3, ParsedPat, MuxScanAssumption
    <3>2. "pat" \notin failed' => m = mux
      BY <2>1 DEF Filters
    <3>3. PatInv'
      BY <2>1, <2>3, <3>1, <3>2 DEF PatInv
    <3>4. EntryOnce' /\ NoWaitWhenComplete'
      BY <2>1 DEF EntryOnce, NoWaitWhenComplete, IsInjective
    <3>5. VctInv'
      BY <2>1, <3>4 DEF VctInv
    <3>6. TablesOK'
      BY <2>1, <3>1, MuxScanAssumption DEF TablesOK
    <3> QED
      BY <3>3, <3>5, <3>6
  <2> QED
    BY <1>10, <2>1, <2>2, <2>3 DEF ReadPat
<1>11. ASSUME ReadPmts PROVE TablesOK' /\ PatInv' /\ VctInv'
  <2>1. /\ vct = <<>> /\ seen = {} /\ attempts = 0 /\ mux \in Muxes
        /\ mux' = mux /\ heard' = heard /\ failed' = failed
        /\ phase' = "vct" /\ phase = "pmt"
        /\ UNCHANGED <<pat, vct, seen, attempts>>
    BY <1>0, <1>11 DEF ReadPmts, PatInv, waitVars, WaitInv, Reading, ControlOK
  <2>2. PICK answered \in SUBSET pat :
          pmts' = UNION {{[program |-> e.program, streams |-> p] : p \in PmtOn(e.pid)}
                         : e \in answered}
    BY <1>11 DEF ReadPmts
  <2>3. ASSUME NEW p \in pmts'
        PROVE  \E e \in Range(Air[mux].pat) :
                 /\ e.program # 0 /\ p.streams = Air[mux].pmt[e.program]
                 /\ "pat" \notin failed => p.program = e.program
    <3>0. PICK d \in answered :
            p \in {[program |-> d.program, streams |-> q] : q \in PmtOn(d.pid)}
      BY <2>2
    <3>1. PICK q \in PmtOn(d.pid) : p = [program |-> d.program, streams |-> q]
      BY <3>0
    <3>2. "pat" \notin failed => d \in Range(Air[mux].pat)
      BY <1>0 DEF PatInv
    <3>3. PICK e \in Range(Air[mux].pat) :
            /\ e.program # 0 /\ q = Air[mux].pmt[e.program]
            /\ \A x \in Range(Air[mux].pat) : x.pid = d.pid => x = e
      BY <2>1, <3>1, PmtIs
    <3> QED
      BY <3>1, <3>2, <3>3
  <2>4. PatInv'
    BY <1>0, <2>1, <2>3 DEF PatInv, Reading
  <2>5. VctInv' /\ TablesOK'
    BY <1>0, <2>1 DEF VctInv, EntryOnce, NoWaitWhenComplete, IsInjective, TablesOK
  <2> QED
    BY <2>4, <2>5
<1>12. ASSUME ReadVct PROVE TablesOK' /\ PatInv' /\ VctInv'
  <2>0. /\ phase = "vct" /\ mux' = mux /\ heard' = heard /\ failed' = failed
        /\ mux \in Muxes /\ heard["vct"] \subseteq Muxes
        /\ UNCHANGED <<pat, pmts>> /\ phase' \in {"vct", "join"}
        /\ ("vct" \notin failed => heard["vct"] = {mux}) /\ Len(vct) < VctMax
    BY <1>0, <1>12 DEF ReadVct, PatInv, waitVars, WaitInv, Reading, ControlOK, Filters
  <2>1. attempts' \in Nat /\ attempts' <= VctAttempts
    BY <1>0, <1>12, MuxScanAssumption DEF ReadVct, TablesOK
  <2>2. PatInv'
    BY <1>0, <2>0 DEF PatInv, Reading
  <2>3. CASE UNCHANGED <<vct, seen>> /\ phase' \in {"vct", "join"}
    <3>1. TablesOK'
      BY <1>0, <2>0, <2>1, <2>3 DEF TablesOK
    <3>2. VctInv'
      BY <1>0, <2>0, <2>3 DEF VctInv, EntryOnce, NoWaitWhenComplete
    <3> QED
      BY <2>2, <3>1, <3>2
  <2>4. ASSUME NEW m \in heard["vct"], NEW s \in DOMAIN Air[m].vct, s \notin seen,
               seen' = seen \cup {s},
               vct' = vct \o Cut(Air[m].vct[s], VctMax - Len(vct)),
               phase' = "vct" => ~(DOMAIN Air[m].vct \subseteq seen')
        PROVE  TablesOK' /\ PatInv' /\ VctInv'
    <3> DEFINE E == AllEntries
               S == Air[m].vct[s]
               room == VctMax - Len(vct)
               new == Cut(S, room)
    <3>0. m \in Muxes /\ ("vct" \notin failed => m = mux)
      BY <2>0
    <3>1. /\ S \in Seq(E) /\ vct \in Seq(E) /\ DOMAIN S = 1 .. Len(S)
          /\ "vct" \notin failed => seen \subseteq DOMAIN Air[mux].vct
      <4>1. S \in Seq(Entries(m)) /\ Entries(m) \subseteq E
        BY <3>0, MuxScanAssumption DEF AllEntries
      <4> HIDE DEF S, E
      <4>2. S \in Seq(E) /\ DOMAIN S = 1 .. Len(S)
        BY <4>1
      <4> QED
        BY <1>0, <2>0, <3>0, <4>2, MuxScanAssumption DEF VctInv, E
    <3>2. Len(vct) \in Nat /\ room \in Nat
      BY <2>0, <3>1, MuxScanAssumption
    <3> HIDE DEF room
    <3>3. /\ new \in Seq(E) /\ Len(new) <= room /\ Len(new) \in Nat
          /\ Len(new) <= Len(S) /\ \A i \in 1 .. Len(new) : new[i] = S[i]
      BY <3>1, <3>2, CutFits
    <3>4. vct' = vct \o new
      BY <2>4 DEF room
    <3> HIDE DEF new, S, E
    <3>5. /\ vct' \in Seq(E) /\ Len(vct') = Len(vct) + Len(new)
          /\ DOMAIN vct' = 1 .. Len(vct) + Len(new)
          /\ \A i \in 1 .. Len(vct) : vct'[i] = vct[i]
          /\ \A i \in Len(vct) + 1 .. Len(vct) + Len(new) : vct'[i] = new[i - Len(vct)]
      BY <3>1, <3>3, <3>4
    <3>6. \A i \in Len(vct) + 1 .. Len(vct) + Len(new) :
            i - Len(vct) \in DOMAIN S /\ vct'[i] = S[i - Len(vct)]
      <4> SUFFICES ASSUME NEW i \in Len(vct) + 1 .. Len(vct) + Len(new)
                   PROVE  i - Len(vct) \in DOMAIN S /\ vct'[i] = S[i - Len(vct)]
        OBVIOUS
      <4> DEFINE k == i - Len(vct)
      <4>1. k \in 1 .. Len(new) /\ Len(S) \in Nat /\ vct'[i] = new[k]
        BY <3>1, <3>2, <3>3, <3>5
      <4> HIDE DEF k
      <4>2. k \in DOMAIN S /\ new[k] = S[k]
        BY <3>1, <3>3, <4>1
      <4> QED
        BY <4>1, <4>2 DEF k
    <3>7. TablesOK'
      <4>1. Len(vct') <= VctMax
        BY <3>2, <3>3, <3>5, MuxScanAssumption DEF room
      <4> QED
        BY <1>0, <2>0, <2>1, <4>1 DEF TablesOK
    <3>8. ASSUME "vct" \notin failed, NEW i \in DOMAIN vct'
          PROVE  \E t \in seen' :
                   \E j \in DOMAIN Air[mux].vct[t] : vct'[i] = Air[mux].vct[t][j]
      <4>1. CASE i \in 1 .. Len(vct)
        <5>1. i \in DOMAIN vct
          BY <3>1, <4>1
        <5>2. PICK t \in seen : \E j \in DOMAIN Air[mux].vct[t] :
                vct[i] = Air[mux].vct[t][j]
          BY <1>0, <3>8, <5>1 DEF VctInv
        <5>3. t \in seen' /\ vct'[i] = vct[i]
          BY <2>4, <3>5, <4>1
        <5> QED
          BY <5>2, <5>3
      <4>2. CASE i \in Len(vct) + 1 .. Len(vct) + Len(new)
        BY <2>4, <3>0, <3>6, <3>8, <4>2 DEF S
      <4> QED
        BY <3>2, <3>3, <3>5, <3>8, <4>1, <4>2
    <3>9. EntryOnce'
      <4> SUFFICES ASSUME "vct" \notin failed PROVE IsInjective(vct')
        BY <2>0 DEF EntryOnce
      <4>0. m = mux
        BY <3>0
      <4>1. ASSUME NEW i \in 1 .. Len(vct),
                   NEW j \in Len(vct) + 1 .. Len(vct) + Len(new), vct'[i] = vct'[j]
            PROVE  FALSE
        <5>1. vct'[i] = vct[i] /\ i \in DOMAIN vct
          BY <3>1, <3>5
        <5>2. PICK t \in seen : \E q \in DOMAIN Air[mux].vct[t] :
                vct[i] = Air[mux].vct[t][q]
          BY <1>0, <5>1 DEF VctInv
        <5>3. PICK q \in DOMAIN Air[mux].vct[t] : vct[i] = Air[mux].vct[t][q]
          BY <5>2
        <5> DEFINE k == j - Len(vct)
        <5>4. k \in DOMAIN S /\ vct'[j] = S[k]
          BY <3>6
        <5> HIDE DEF k
        <5>5. Air[mux].vct[t][q] = Air[mux].vct[s][k]
          BY <4>0, <4>1, <5>1, <5>3, <5>4 DEF S
        <5>6. t = s
          BY <2>0, <2>4, <3>1, <4>0, <5>3, <5>4, <5>5, MuxScanAssumption DEF S
        <5> QED
          BY <2>4, <5>6
      <4>2. ASSUME NEW i \in Len(vct) + 1 .. Len(vct) + Len(new),
                   NEW j \in Len(vct) + 1 .. Len(vct) + Len(new), vct'[i] = vct'[j]
            PROVE  i = j
        <5> DEFINE k == i - Len(vct)
                   q == j - Len(vct)
        <5>1. k \in DOMAIN S /\ q \in DOMAIN S /\ S[k] = S[q]
          BY <3>6, <4>2
        <5> HIDE DEF k, q
        <5>2. k = q
          BY <3>0, <5>1, MuxScanAssumption DEF S
        <5> QED
          BY <3>2, <3>3, <5>2 DEF k, q
      <4>3. ASSUME NEW i \in 1 .. Len(vct), NEW j \in 1 .. Len(vct), vct'[i] = vct'[j]
            PROVE  i = j
        <5>1. DOMAIN vct = 1 .. Len(vct)
          BY <3>1
        <5> QED
          BY <1>0, <3>5, <4>3, <5>1 DEF VctInv, EntryOnce, IsInjective
      <4>4. \A i \in DOMAIN vct' : \/ i \in 1 .. Len(vct)
                                   \/ i \in Len(vct) + 1 .. Len(vct) + Len(new)
        BY <3>2, <3>3, <3>5
      <4> QED
        BY <4>1, <4>2, <4>3, <4>4 DEF IsInjective
    <3>10. NoWaitWhenComplete'
      BY <2>0, <2>4, <3>0 DEF NoWaitWhenComplete
    <3>11. VctInv'
      <4>1. vct' \in Seq(AllEntries)
        BY <3>5 DEF E
      <4>2. "vct" \notin failed' => seen' \subseteq DOMAIN Air[mux'].vct
        BY <2>0, <2>4, <3>0, <3>1
      <4> QED
        BY <2>0, <3>8, <3>9, <3>10, <4>1, <4>2 DEF VctInv
    <3> QED
      BY <2>2, <3>7, <3>11
  <2>5. \/ UNCHANGED <<vct, seen>> /\ phase' \in {"vct", "join"}
        \/ \E m \in heard["vct"] : \E s \in DOMAIN Air[m].vct :
             /\ TakeSection(m, s)
             /\ phase' = IF s \notin seen /\ DOMAIN Air[m].vct \subseteq seen'
                         THEN "join" ELSE "vct"
    BY <1>12, <2>0 DEF ReadVct
  <2>6. ASSUME NEW m \in heard["vct"], NEW s \in DOMAIN Air[m].vct, TakeSection(m, s),
               phase' = IF s \notin seen /\ DOMAIN Air[m].vct \subseteq seen'
                        THEN "join" ELSE "vct"
        PROVE  TablesOK' /\ PatInv' /\ VctInv'
    <3>1. CASE s \in seen
      BY <2>0, <2>3, <2>6, <3>1 DEF TakeSection
    <3>2. CASE s \notin seen
      BY <2>4, <2>6, <3>2 DEF TakeSection
    <3> QED
      BY <3>1, <3>2
  <2> QED
    BY <2>3, <2>5, <2>6
<1>13. ASSUME EndVct PROVE TablesOK' /\ PatInv' /\ VctInv'
  <2>1. /\ phase = "vct" /\ phase' = "join" /\ mux' = mux /\ heard' = heard
        /\ UNCHANGED <<failed, pat, pmts, vct, seen, attempts>>
    BY <1>13 DEF EndVct, waitVars, tableVars
  <2>2. PatInv' /\ TablesOK'
    BY <1>0, <2>1 DEF PatInv, TablesOK, Reading
  <2>3. VctInv'
    BY <1>0, <2>1 DEF VctInv, EntryOnce, NoWaitWhenComplete
  <2> QED
    BY <2>2, <2>3
<1>14. ASSUME Join PROVE TablesOK' /\ PatInv' /\ VctInv'
  <2>1. phase' \notin Reading
    BY <1>14 DEF Join, Reading
  <2> QED
    BY <1>14, <2>1, EmptyTables DEF Join, FreshTables
<1>15. ASSUME UNCHANGED vars PROVE TablesOK' /\ PatInv' /\ VctInv'
  <2>1. /\ UNCHANGED <<phase, mux, heard, failed, pat, pmts, vct, seen, attempts>>
    BY <1>15 DEF vars, tableVars
  <2>2. PatInv' /\ TablesOK'
    BY <1>0, <2>1 DEF PatInv, TablesOK
  <2>3. VctInv'
    BY <1>0, <2>1 DEF VctInv, EntryOnce, NoWaitWhenComplete
  <2> QED
    BY <2>2, <2>3
<1> QED
  BY <1>1, <1>2, <1>3, <1>4, <1>5, <1>6, <1>7, <1>8, <1>9, <1>10, <1>11, <1>12,
     <1>13, <1>14, <1>15
     DEF Next, Attempt

-----------------------------------------------------------------------------
(* The rows *)

\* An attempt under way has added nothing yet.
LEMMA NoRowsYet ==
  ASSUME RowInv, phase # "idle", rows' = rows
  PROVE  RowInv'
  BY DEF RowInv, RowsOfThisMux

\* Every step leaves no rows but those that this mux broadcasts.
LEMMA RowStep == IInv /\ [Next]_vars => RowInv'
<1> SUFFICES ASSUME IInv, [Next]_vars PROVE RowInv'
  OBVIOUS
<1>0. ControlOK /\ WaitInv /\ PatInv /\ VctInv /\ RowInv
  BY DEF IInv, TypeOK, ControlOK, Phases
<1>1. ASSUME NEW map \in MapNames, NEW prefix \in {"auto"} \cup MapNames,
             NEW n \in Numbers, Ask(map, prefix, n)
      PROVE  RowInv'
  BY <1>1 DEF Ask, RowInv, RowsOfThisMux
<1>2. ASSUME Rejects PROVE RowInv'
  BY <1>0, <1>2, NoRowsYet DEF Rejects, tableVars
<1>3. ASSUME NEW m \in Muxes \cup {None}, NEW c \in BOOLEAN, Tune(m, c)
      PROVE  RowInv'
  BY <1>0, <1>3, NoRowsYet DEF Tune, tableVars
<1>4. ASSUME NEW a \in BOOLEAN, NEW b \in BOOLEAN, Poll(a, b) PROVE RowInv'
  BY <1>0, <1>4, NoRowsYet DEF Poll, tableVars
<1>5. ASSUME NEW a \in BOOLEAN, NEW b \in BOOLEAN, Publish(a, b) PROVE RowInv'
  BY <1>0, <1>5, NoRowsYet DEF Publish, Sample, tableVars
<1>6. ASSUME Turn PROVE RowInv'
  BY <1>0, <1>6, NoRowsYet DEF Turn, tableVars
<1>7. ASSUME NEW a \in BOOLEAN, NEW b \in BOOLEAN, Settle1(a, b) PROVE RowInv'
  BY <1>0, <1>7, NoRowsYet DEF Settle1, Sample, tableVars
<1>8. ASSUME NEW a \in BOOLEAN, NEW b \in BOOLEAN, Settle2(a, b) PROVE RowInv'
  BY <1>0, <1>8, NoRowsYet DEF Settle2, Sample, tableVars
<1>9. ASSUME Rearm PROVE RowInv'
  BY <1>0, <1>9, NoRowsYet DEF Rearm, tableVars
<1>10. ASSUME ReadPat PROVE RowInv'
  BY <1>0, <1>10, NoRowsYet DEF ReadPat, tableVars
<1>11. ASSUME ReadPmts PROVE RowInv'
  BY <1>0, <1>11, NoRowsYet DEF ReadPmts, tableVars
<1>12. ASSUME ReadVct PROVE RowInv'
  BY <1>0, <1>12, NoRowsYet DEF ReadVct, tableVars
<1>13. ASSUME EndVct PROVE RowInv'
  BY <1>0, <1>13, NoRowsYet DEF EndVct, tableVars
<1>14. ASSUME Join PROVE RowInv'
  <2>1. /\ mux \in Muxes /\ mux # None /\ mux' = mux /\ delivery' = delivery
        /\ phase' = "idle"
    BY <1>0, <1>14 DEF Join, waitVars, WaitInv, ControlOK, Reading
  <2>2. ASSUME NEW p \in pmts, NEW key PROVE PidsAreOurs(Row(key, p))
    <3>1. PICK e \in Range(Air[mux].pat) :
            /\ e.program # 0 /\ p.streams = Air[mux].pmt[e.program]
            /\ "pat" \notin failed => p.program = e.program
      BY <1>0 DEF PatInv
    <3>2. /\ Row(key, p).program = p.program
          /\ Row(key, p).av = psip_pmt_pick_av(Air[mux].pmt[e.program])
      BY <3>1 DEF Row
    <3> QED
      BY <3>1, <3>2 DEF PidsAreOurs
  <2>3. ASSUME NEW r \in rows' PROVE PidsAreOurs(r) /\ ("vct" \notin failed => KeyIsOurs(r))
    <3>1. CASE /\ vct = <<>>
               /\ rows' = IF delivery = Qam THEN {Row(<<0, p.program>>, p) : p \in pmts}
                          ELSE {}
      <4>1. delivery = Qam
        BY <3>1
      <4>2. PICK p \in pmts : r = Row(<<0, p.program>>, p)
        BY <3>1, <4>1
      <4>3. r.key = <<0, r.program>>
        BY <4>2 DEF Row
      <4> QED
        BY <2>2, <4>1, <4>2, <4>3 DEF KeyIsOurs
    <3>2. CASE rows' = {Row(x[1].key, x[2]) : x \in
                          {ep \in Range(vct) \X pmts :
                             ~ep[1].hidden /\ ep[1].program = ep[2].program}}
      <4>1. PICK ep \in Range(vct) \X pmts :
              /\ ~ep[1].hidden /\ ep[1].program = ep[2].program
              /\ r = Row(ep[1].key, ep[2])
        BY <3>2
      <4>2. r.key = ep[1].key /\ r.program = ep[1].program
        BY <4>1 DEF Row
      <4>3. ASSUME "vct" \notin failed PROVE ep[1] \in Entries(mux)
        <5>1. PICK i \in DOMAIN vct : ep[1] = vct[i]
          BY <4>1 DEF Range
        <5>2. PICK t \in seen : \E j \in DOMAIN Air[mux].vct[t] :
                vct[i] = Air[mux].vct[t][j]
          BY <1>0, <4>3 DEF VctInv
        <5>3. t \in DOMAIN Air[mux].vct
          BY <1>0, <2>1, <4>3 DEF VctInv
        <5> QED
          BY <5>1, <5>2, <5>3 DEF Entries, Range
      <4>4. ep[2] \in pmts
        BY <4>1
      <4> QED
        BY <2>2, <4>1, <4>2, <4>3, <4>4 DEF KeyIsOurs
    <3> QED
      BY <1>14, <3>1, <3>2 DEF Join
  <2>4. failed' = failed
    BY <1>14 DEF Join, waitVars
  <2> QED
    BY <2>1, <2>3, <2>4 DEF RowInv, RowsOfThisMux, PidsAreOurs, KeyIsOurs
<1>15. ASSUME UNCHANGED vars PROVE RowInv'
  BY <1>0, <1>15 DEF vars, tableVars, RowInv, RowsOfThisMux, PidsAreOurs, KeyIsOurs
<1> QED
  BY <1>1, <1>2, <1>3, <1>4, <1>5, <1>6, <1>7, <1>8, <1>9, <1>10, <1>11, <1>12,
     <1>13, <1>14, <1>15
     DEF Next, Attempt

-----------------------------------------------------------------------------
(* Theorems *)

\* A scanning thread starts sound.
LEMMA InitInv == Init => IInv
<1> SUFFICES ASSUME Init PROVE IInv
  OBVIOUS
<1>1. ControlOK /\ WaitInv
  <2>1. live \in BOOLEAN /\ got \in BOOLEAN
    BY Zenon DEF Init
  <2> QED
    BY <2>1 DEF Init, ControlOK, WaitInv, WithinBudget, Phases, Reading
<1>2. TimesOK /\ SampleInv
  <2>1. /\ NoSeq \in [have : BOOLEAN, base : Nat, at : Nat, pct : -1 .. 100]
        /\ NoSeq.at = 0 /\ NoSeq.have = FALSE
    BY DEF NoSeq
  <2>2. gap \in BOOLEAN /\ steady \in BOOLEAN
    BY Zenon DEF Init
  <2>3. CbInterval \in Nat
    BY MuxScanAssumption
  <2> QED
    BY <2>1, <2>2, <2>3 DEF Init, TimesOK, SampleInv, SettleGivesQuality
<1>3. PatInv /\ VctInv /\ RowInv
  BY DEF Init, PatInv, VctInv, RowInv, RowsOfThisMux, EntryOnce, NoWaitWhenComplete,
         IsInjective, Reading
<1>4. TablesOK
  <2>1. Cardinality({}) = 0
    BY FS_EmptySet
  <2> QED
    BY <2>1, MuxScanAssumption DEF Init, TablesOK
<1> QED
  BY <1>1, <1>2, <1>3, <1>4
  DEF IInv, TypeOK, ControlOK, Phases, TimesOK, SampleInv, TablesOK

\* IInv is an invariant: the samples are those of one unbroken window, and the
\* tables, read through filters that could be armed again, are those of the mux
\* that is tuned in.
THEOREM Inductive == Spec => []IInv
<1>1. IInv /\ [Next]_vars => IInv'
  <2> SUFFICES ASSUME IInv, [Next]_vars PROVE IInv'
    OBVIOUS
  <2>1. /\ ControlOK' /\ WaitInv' /\ TimesOK' /\ SampleInv' /\ TablesOK'
        /\ PatInv' /\ VctInv' /\ RowInv'
    BY ControlStep, SampleStep, TableStep, RowStep
  <2>2. TypeOK'
    BY <2>1 DEF TypeOK, ControlOK, Phases, TimesOK, SampleInv, TablesOK
  <2> QED
    BY <2>1, <2>2 DEF IInv
<1> QED
  BY InitInv, <1>1, PTL DEF Spec

\* The tables of a scan fit their arrays; those read through a filter that could
\* be armed again list a channel once and become rows of the mux that is tuned in,
\* whatever was buffered; the PIDs of a row are this mux's even if neither filter
\* could be (dvb_scan.c).
THEOREM TablesAreSound == Spec => []TablesSound
<1>1. IInv => TablesSound
  BY DEF IInv, VctInv, RowInv, TablesSound, RowsOfThisMux
<1> QED
  BY Inductive, <1>1, PTL

\* In every frequency plan a number and its frequency select the same channel
\* (parse_channel_value).
THEOREM NumbersNameFrequencies == Spec => []NumberNamesFrequency
<1>1. IInv => NumberNamesFrequency
  <2> SUFFICES ASSUME IInv, phase = "asked", ask.to # Rejected
               PROVE  parse_channel_value(IF ask.prefix = "auto" THEN ask.map
                                          ELSE ask.prefix, "auto", ask.to.freq) = ask.to
    BY DEF NumberNamesFrequency
  <2>1. ask \in Requests
    BY DEF IInv, TypeOK, WaitInv
  <2>2. PICK map \in MapNames, prefix \in {"auto"} \cup MapNames, n \in Numbers :
          ask = Request(map, prefix, n)
    BY <2>1 DEF Requests
  <2>3. /\ ask.map = map /\ ask.prefix = prefix
        /\ ask.to = parse_channel_value(map, prefix, n)
    BY <2>2 DEF Request
  <2>4. n \in Nat
    BY MuxScanAssumption
  <2> QED
    BY <2>3, <2>4, NumberIsFrequency
<1> QED
  BY Inductive, <1>1, PTL

\* A scan worker that keeps its lock has published a symbol quality before it
\* turns to the tables (channel_scan_thread_main).
THEOREM SettlingGivesQuality == Spec => []SettleGivesQuality
<1>1. IInv => SettleGivesQuality
  BY DEF IInv, SampleInv
<1> QED
  BY Inductive, <1>1, PTL

\* dvb_frontend_wait_lock never polls past its budget, and read_vct never waits
\* for a section of a table it has, through a filter that could be armed again.
THEOREM NeverWaitsInVain == Spec => [](WithinBudget /\ NoWaitWhenComplete)
<1>1. IInv => WithinBudget /\ NoWaitWhenComplete
  BY DEF IInv, WaitInv, VctInv
<1> QED
  BY Inductive, <1>1, PTL

\* A symbol quality that is published was earned: its window had no gap, and a
\* perfect one next to no errors (dvb_frontend_legacy_seq_pct).
THEOREM QualityIsEarned == Spec => QualityEarned
<1> DEFINE Earned ==
      quality' >= 0 /\ phase \in {"publish", "settle1", "settle2"} =>
        /\ ~gap
        /\ (quality' = 100 /\ seq' # seq) =>
             (200 * (ucblocks' - seq.base) <= Rate * (now' - seq.at))
<1>1. IInv /\ [Next]_vars => [Earned]_vars
  <2> SUFFICES ASSUME IInv, Next, phase \in {"publish", "settle1", "settle2"},
                      quality' >= 0
               PROVE  /\ ~gap
                      /\ (quality' = 100 /\ seq' # seq) =>
                           (200 * (ucblocks' - seq.base) <= Rate * (now' - seq.at))
    OBVIOUS
  <2>1. TypeOK /\ SampleInv /\ now \in Nat /\ Settle \in Nat
    BY MuxScanAssumption DEF IInv, TypeOK
  <2>2. PICK a \in BOOLEAN, b \in BOOLEAN : Publish(a, b) \/ Settle1(a, b) \/ Settle2(a, b)
    BY DEF Next, Attempt, Ask, Rejects, Tune, Poll, Turn, Rearm, ReadPat, ReadPmts,
           ReadVct, EndVct, Join
  <2>3. PICK t \in Nat : now <= t /\ Sample(t, a, b)
    <3>1. now <= now /\ now <= now + Settle /\ now + Settle \in Nat
      BY <2>1
    <3> QED
      BY <2>1, <2>2, <3>1 DEF Publish, Settle1, Settle2
  <2> QED
    BY <2>1, <2>3, SampleLeaves
<1> QED
  BY Inductive, <1>1, PTL DEF Spec, QualityEarned
=============================================================================
