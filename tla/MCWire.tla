------------------------------- MODULE MCWire -------------------------------
(* Instance of Wire for TLC.  Base 4: lengths of 3, 4 and 5 lie on both      *)
(* sides of the second length byte.                                          *)
EXTENDS Wire

Known   == Text(20, 2)
Longer  == Text(21, 3)
Unknown == Text(22, 1)
TooLong == Text(23, 5)

MCParams == {Known, Longer}

F(kind, name, value) == [kind |-> kind, name |-> name, value |-> value]

\* Values of 2, 3 and 4 characters, the shortest that is too long for the
\* daemon, and an empty one; TooLong is the shortest such name.
MCFrames ==
  {F("get", Known, <<>>), F("get", Longer, <<>>), F("get", Unknown, <<>>),
   F("get", TooLong, <<>>),
   F("set", Known, Text(30, 2)), F("set", Longer, Text(31, 3)),
   F("set", Known, Text(32, 4)), F("set", Known, Text(33, 6)), F("set", Known, <<>>),
   F("other", Known, <<>>), F("noname", <<>>, Text(30, 2)), F("short", Known, <<>>),
   F("badcrc", Known, <<>>), F("absurd", <<>>, <<>>)}

\* Every frame alone, before each of three, and between two that are served; and
\* an announced length with more behind it than a buffer holds.
MCScripts ==
  {<<f>> : f \in MCFrames}
  \cup {<<f, g>> : f \in MCFrames,
                   g \in {F("get", Known, <<>>), F("set", Longer, Text(31, 3)),
                          F("short", Known, <<>>)}}
  \cup {<<F("set", Known, Text(32, 4)), f, F("get", Known, <<>>)>> : f \in MCFrames}
  \cup {<<F("absurd", <<>>, <<>>)>> \o [i \in 1 .. 3 |-> F("set", Known, Text(33, 6))]}

\* The clock's seed with several values of every nibble; and files with an id:
\* one that passes the checksum, one that does not, and the wildcard.
MCSeeds ==
  {[i \in 1 .. 6 |-> IF i = k THEN n ELSE 5] : k \in 1 .. 6, n \in {0, 7, 8, 15}}
SomeSeed == <<5, 5, 5, 5, 5, 0>>
MCConfigs ==
  {[seed |-> seed, device_id |-> {}] : seed \in MCSeeds}
  \cup {[seed |-> SomeSeed, device_id |-> {d}] :
          d \in {hdhr_device_id_generate(<<1, 2, 3, 4, 5, 6>>),
                <<1, 2, 3, 4, 5, 6, 7, 8>>, [i \in 1 .. 8 |-> 15]}}

\* Ids of daemons that are asked for: of one with a seed, of one with a file.
AskedIds ==
  {IdBytes(hdhr_device_id_generate(SomeSeed)), IdBytes(<<1, 2, 3, 4, 5, 6, 7, 8>>)}
Types == {<<>>} \cup {<<Tlv(DEVICE_TYPE, v)>> : v \in {Wildcard, Tuner, Four(5), Text(5, 2)}}
Ids   == {<<>>} \cup {<<Tlv(DEVICE_ID, v)>> : v \in {Wildcard, Four(6), Text(6, 5)} \cup AskedIds}

\* Requests, replies and other frames, with and without each TLV, with one
\* repeated, and one that is cut.
MCDatagrams ==
  {[type |-> t, tlvs |-> a \o b, cut |-> c] :
     t \in {DISCOVER_REQ, DISCOVER_RPY, GETSET_REQ}, a \in Types, b \in Ids, c \in BOOLEAN}
  \cup {[type |-> DISCOVER_REQ, tlvs |-> a \o b, cut |-> FALSE] : a, b \in Ids}
=============================================================================
