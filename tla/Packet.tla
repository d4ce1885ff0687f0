------------------------------- MODULE Packet -------------------------------
(* The wire format (hdhr_pkt.c) and the device id (device_id.c).  A byte is  *)
(* a 1-tuple <<n>>.  The two bytes of a type, or of a frame length, are one  *)
(* such tuple, and so are the four bytes of a CRC, which is taken for ideal: *)
(* it is the bytes it covers.  Base stands for 128, the number of lengths    *)
(* one byte holds.  The buffer of a packet (3074 bytes) is larger than any   *)
(* frame the daemon builds, so its limit is left out.                        *)
EXTENDS Integers, Sequences, FiniteSets, SequencesExt

CONSTANT Base

HeaderLen == 2
CrcLen    == 1

\* The lengths that two bytes hold.
LengthCap == Base * (2 * Base)

\* A sequence of bytes, and a text: it has no NUL.
IsBytes(s) ==
  /\ s \in Seq(Range(s))
  /\ \A i \in DOMAIN s : s[i][1] \in Nat /\ s[i] = <<s[i][1]>>
IsText(s) == IsBytes(s) /\ \A i \in DOMAIN s : s[i][1] # 0

\* hdhr_crc32
Crc(s) == <<-1, s>>

\* hdhr_pkt_write_var_length
write_var_length(n) ==
  IF n < Base THEN <<<<n>>>>
  ELSE <<<<(n % Base) + Base>>, <<(n \div Base) % (2 * Base)>>>>

\* hdhr_pkt_write_tlv
write_tlv(tag, v) == <<<<tag>>>> \o write_var_length(Len(v)) \o v

\* hdhr_pkt_seal_frame
seal_frame(type, payload) ==
  LET s == <<<<type>>, <<Len(payload)>>>> \o payload
  IN  Append(s, Crc(s))

\* hdhr_pkt_open_frame: the frame is well formed.
open_frame(data) ==
  /\ Len(data) >= HeaderLen + CrcLen
  /\ data[2] = <<Len(data) - HeaderLen - CrcLen>>
  /\ data[Len(data)] = Crc(Front(data))

Payload(data) == SubSeq(data, HeaderLen + 1, Len(data) - CrcLen)

Malformed == [ok |-> FALSE, tlvs |-> <<>>]

\* The TLV at byte i: whether its length takes two bytes, the length, where its
\* value begins and what comes after it.
Long(p, i)   == p[i + 1][1] >= Base
LenAt(p, i)  == IF Long(p, i) THEN p[i + 1][1] - Base + Base * p[i + 2][1] ELSE p[i + 1][1]
FromAt(p, i) == IF Long(p, i) THEN i + 3 ELSE i + 2
After(p, i)  == FromAt(p, i) + LenAt(p, i)
TlvAt(p, i)  == [tag |-> p[i][1], val |-> SubSeq(p, FromAt(p, i), After(p, i) - 1)]

\* Its header is cut off.
NoHeader(p, i) == i + 1 > Len(p) \/ (Long(p, i) /\ i + 2 > Len(p))

\* Mutant: a length is not compared with what is left of the payload.
ReadTlvsUnchecked(p) ==
  LET Next(i) == IF After(p, i) - 1 > Len(p) THEN Len(p) + 1 ELSE After(p, i)
      at[i \in 1 .. Len(p) + 1] ==
        IF i > Len(p) THEN [ok |-> TRUE, tlvs |-> <<>>]
        ELSE IF NoHeader(p, i) THEN Malformed
        ELSE [ok |-> at[Next(i)].ok,
              tlvs |-> <<[tag |-> p[i][1], val |-> SubSeq(p, FromAt(p, i), Next(i) - 1)]>>
                       \o at[Next(i)].tlvs]
  IN  at[1]

\* hdhr_pkt_read_tlv until it returns something else than 1: the TLVs of a
\* payload, or Malformed.
read_tlvs(p) ==
  LET at[i \in 1 .. Len(p) + 1] ==
        IF i > Len(p) THEN [ok |-> TRUE, tlvs |-> <<>>]
        ELSE IF NoHeader(p, i) \/ After(p, i) - 1 > Len(p) THEN Malformed
        ELSE [ok |-> at[After(p, i)].ok, tlvs |-> <<TlvAt(p, i)>> \o at[After(p, i)].tlvs]
  IN  at[1]

\* The last value of a tag that has one of the sizes, or {}: later TLVs overwrite.
LastOf(tlvs, tag, sizes) ==
  LET hits == {i \in DOMAIN tlvs : tlvs[i].tag = tag /\ Len(tlvs[i].val) \in sizes}
  IN  {tlvs[i].val : i \in {i \in hits : \A j \in hits : j <= i}}

-----------------------------------------------------------------------------
(* device_id.c: an id is its eight nibbles, the most significant first.      *)

Nibbles == 0 .. 15

nibble_lut == <<10, 5, 15, 6, 7, 12, 1, 11, 9, 2, 8, 13, 4, 3, 14, 0>>

Lut(n) == nibble_lut[n + 1]

\* The exclusive or of two nibbles, bit by bit.
Xor(a, b) ==
  LET Differ(w) == w * (((a \div w) + (b \div w)) % 2)
  IN  Differ(8) + Differ(4) + Differ(2) + Differ(1)

\* The checksum of the first k nibbles; every other one goes through the table.
Checksum(d, k) ==
  LET sum[n \in 0 .. k] ==
        IF n = 0 THEN 0 ELSE Xor(sum[n - 1], IF n % 2 = 1 THEN Lut(d[n]) ELSE d[n])
  IN  sum[k]

hdhr_device_id_is_valid(d) == Checksum(d, 8) = 0

\* From the six nibbles of a seed: the last nibble makes the sum zero.
hdhr_device_id_generate(seed) == LET s == <<1>> \o seed IN Append(s, Checksum(s, 7))
=============================================================================
