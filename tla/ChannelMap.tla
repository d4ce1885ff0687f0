----------------------------- MODULE ChannelMap -----------------------------
(* The frequency plans (channel_map.c, atsc_freq.c) and what control.c makes *)
(* of a /tunerN/channel value with them.  Frequencies are in Hz.  A value is *)
(* a prefix and the number after the colon, 0 when there is none; "auto6t"   *)
(* stands for every "auto<digits>t".  Numbers stay below 2^31.               *)
EXTENDS Integers, Sequences, FiniteSets, FiniteSetsExt

Vsb == "8vsb"
Qam == "qam"

\* Ranges: first channel, last channel, frequency of the first, spacing.
us_cable ==
  << <<2, 4, 57000000, 6000000>>, <<5, 6, 79000000, 6000000>>,
     <<7, 13, 177000000, 6000000>>, <<14, 22, 123000000, 6000000>>,
     <<23, 94, 219000000, 6000000>>, <<95, 99, 93000000, 6000000>>,
     <<100, 158, 651000000, 6000000>> >>

us_hrc ==
  << <<2, 4, 55752700, 6000300>>, <<5, 6, 79753900, 6000300>>,
     <<7, 13, 175758700, 6000300>>, <<14, 22, 121756000, 6000300>>,
     <<23, 94, 217760800, 6000300>>, <<95, 99, 91754500, 6000300>>,
     <<100, 158, 649782400, 6000300>> >>

us_irc ==
  << <<2, 4, 57012500, 6000000>>, <<5, 6, 81012500, 6000000>>,
     <<7, 13, 177012500, 6000000>>, <<14, 22, 123012500, 6000000>>,
     <<23, 41, 219012500, 6000000>>, <<42, 42, 333025000, 6000000>>,
     <<43, 94, 339012500, 6000000>>, <<95, 97, 93012500, 6000000>>,
     <<98, 99, 111025000, 6000000>>, <<100, 158, 651012500, 6000000>> >>

kr_cable ==
  << <<2, 4, 57000000, 6000000>>, <<5, 6, 79000000, 6000000>>,
     <<7, 13, 177000000, 6000000>>, <<14, 22, 123000000, 6000000>>,
     <<23, 153, 219000000, 6000000>> >>

kr_bcast ==
  << <<2, 4, 57000000, 6000000>>, <<5, 6, 79000000, 6000000>>,
     <<7, 13, 177000000, 6000000>>, <<14, 36, 473000000, 6000000>> >>

\* atsc_freq_table, in MHz, from channel 2 on: every entry ends in 000000.
atsc_freq_table ==
  <<57, 63, 69, 79, 85, 177, 183, 189, 195, 201, 207, 213,
    473, 479, 485, 491, 497, 503, 509, 515, 521, 527, 533, 539, 545,
    551, 557, 563, 569, 575, 581, 587, 593, 599, 605>>

maps ==
  [us_cable |-> us_cable, us_hrc |-> us_hrc, us_irc |-> us_irc,
   kr_cable |-> kr_cable, kr_bcast |-> kr_bcast]

MapNames == DOMAIN maps \cup {"us_bcast"}

-----------------------------------------------------------------------------
(* channel_map.c *)

RangeFreq(r, channel) == r[3] + (channel - r[1]) * r[4]

\* The first range that has the channel; 0 if none has.
ChannelToFreq(ranges, channel) ==
  LET hits == {k \in DOMAIN ranges : channel \in ranges[k][1] .. ranges[k][2]}
  IN  IF hits = {} THEN 0 ELSE RangeFreq(ranges[Min(hits)], channel)

\* The first channel, range by range, that has the frequency; 0 if none has.
FreqToChannel(ranges, freq) ==
  LET On(k) == {n \in ranges[k][1] .. ranges[k][2] : RangeFreq(ranges[k], n) = freq}
      hits  == {k \in DOMAIN ranges : On(k) # {}}
  IN  IF hits = {} THEN 0 ELSE Min(On(Min(hits)))

-----------------------------------------------------------------------------
(* atsc_freq.c *)

atsc_channel_to_freq(channel) ==
  IF channel - 1 \in DOMAIN atsc_freq_table
  THEN atsc_freq_table[channel - 1] * 1000000 ELSE 0

atsc_freq_to_channel(freq) ==
  LET hits == {k \in DOMAIN atsc_freq_table : atsc_freq_table[k] * 1000000 = freq}
  IN  IF hits = {} THEN 0 ELSE Min(hits) + 1

-----------------------------------------------------------------------------
(* control.c: us_bcast goes to the one table, every other map to the other.  *)

resolve_channel_in_map(map, channel) ==
  CASE map = "us_bcast"      -> atsc_channel_to_freq(channel)
    [] map \in DOMAIN maps   -> ChannelToFreq(maps[map], channel)
    [] map \notin MapNames   -> 0

reverse_resolve_freq_in_map(map, freq) ==
  CASE map = "us_bcast"      -> atsc_freq_to_channel(freq)
    [] map \in DOMAIN maps   -> FreqToChannel(maps[map], freq)
    [] map \notin MapNames   -> 0

delivery_for_map(map) ==
  IF map \in {"us_cable", "us_hrc", "us_irc", "kr_cable"} THEN Qam ELSE Vsb

Rejected == [freq |-> 0, rf |-> 0]

\* A number resolved in a map, or an explicit frequency named by the map.
ByNumber(map, n) ==
  LET f == resolve_channel_in_map(map, n)
  IN  IF f = 0 THEN Rejected ELSE [freq |-> f, rf |-> n]

ByFreq(map, f) ==
  IF f = 0 THEN Rejected
  ELSE [freq |-> f, rf |-> reverse_resolve_freq_in_map(map, f)]

\* Mutant: the prefix is ignored and the number looked up in the active map.
ParseInActiveMap(map, prefix, n) ==
  IF prefix \in {"auto6t", Vsb, Qam} \/ n >= 1000 THEN ByFreq(map, n)
  ELSE ByNumber(map, n)

\* parse_channel_value, with the tuner's channelmap.
parse_channel_value(map, prefix, n) ==
  CASE prefix \in {"auto6t", Vsb, Qam} -> ByFreq(map, n)
    [] prefix = "auto"                 -> IF n < 1000 THEN ByNumber(map, n)
                                          ELSE ByFreq(map, n)
    [] OTHER                           -> ByNumber(prefix, n)
=============================================================================
