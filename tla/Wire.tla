-------------------------------- MODULE Wire --------------------------------
(***************************************************************************)
(* The control connection and discovery.  A client writes a script of      *)
(* frames, the connection thread (control.c) cuts them out of the byte     *)
(* stream, serves them and replies, and the client (getset_client.c) reads *)
(* the replies.  Both sides read in pieces of any size; the client may     *)
(* time out, or be gone, at any moment.  getset_client_call is a script of *)
(* one frame; other clients write several.  Discovery (discovery.c)        *)
(* answers single datagrams, keeps nothing between them and shares no      *)
(* state with the connection: a behaviour has one datagram or a connection. *)
(***************************************************************************)
EXTENDS Packet

CONSTANTS
  NameCap, ValueCap,  \* sizes of the connection thread's name and value
  MaxPacket,          \* HDHR_MAX_PACKET_SIZE
  Scripts,            \* sequences of frames a client writes
  Params,             \* names that exist
  Datagrams,          \* discovery requests, as records of what they ask
  Configs             \* a clock's seed and the device id of the file, if any

\* A reply fits a packet, and its lengths two bytes; the code has 128, 192 and
\* 1460 bytes.
ASSUME WireAssumption ==
  /\ Base \in Nat \ {0, 1} /\ NameCap \in Nat /\ ValueCap \in Nat \ {0, 1}
  /\ NameCap <= LengthCap /\ ValueCap <= LengthCap
  /\ MaxPacket \in Nat
  /\ HeaderLen + (NameCap + 3) + (ValueCap + 3) + CrcLen <= MaxPacket

VARIABLES
  script,     \* what the client writes: history of the connection
  c2s, s2c,   \* bytes under way
  sv,         \* connection thread: at, buf, request
  cl,         \* client: at, buf
  got,        \* what the client's calls returned
  handled,    \* requests dispatched, in their order: history
  param,      \* the value of every parameter
  disc        \* the last datagram and its answer: history

wireVars == <<script, c2s, s2c, sv, cl, got, handled, param, disc>>

DISCOVER_REQ == 2
DISCOVER_RPY == 3
GETSET_REQ   == 4
GETSET_RPY   == 5
UPGRADE_REQ  == 6

DEVICE_TYPE   == 1
DEVICE_ID     == 2
GETSET_NAME   == 3
GETSET_VALUE  == 4
ERROR_MESSAGE == 5
TUNER_COUNT   == 16

\* A text of n characters k; on the wire it ends in a NUL.
Text(k, n) == [i \in 1 .. n |-> <<k>>]
Nul        == <<<<0>>>>
Error      == Text(9, 1)
Initially  == Text(8, 1)

\* What C takes for the string.
CString(v) ==
  LET ends == {i \in DOMAIN v : v[i] = <<0>>}
  IN  IF ends = {} THEN v ELSE SubSeq(v, 1, (CHOOSE i \in ends : \A j \in ends : i <= j) - 1)

\* hdhr_pkt_write_tlv_str
write_tlv_str(tag, s) == write_tlv(tag, s \o Nul)

NoDatagram == [asked |-> FALSE]

WireInit ==
  /\ script = <<>> /\ c2s = <<>> /\ s2c = <<>>
  /\ sv = [at |-> "none"] /\ cl = [at |-> "idle"]
  /\ got = <<>> /\ handled = <<>>
  /\ param = [p \in Params |-> Initially]
  /\ disc = NoDatagram

-----------------------------------------------------------------------------
(* What clients write.  A frame is a record: its kind, a name and a value.   *)

Name(f)  == write_tlv_str(GETSET_NAME, f.name)
Value(f) == write_tlv_str(GETSET_VALUE, f.value)

Bytes(f) ==
  CASE f.kind = "get"    -> seal_frame(GETSET_REQ, Name(f))
    [] f.kind = "set"    -> seal_frame(GETSET_REQ, Name(f) \o Value(f))
    [] f.kind = "other"  -> seal_frame(UPGRADE_REQ, Name(f))
    [] f.kind = "noname" -> seal_frame(GETSET_REQ, Value(f))
    [] f.kind = "short"  -> seal_frame(GETSET_REQ, Front(Name(f)))
    [] f.kind = "badcrc" -> Append(Front(seal_frame(GETSET_REQ, Name(f))), <<0>>)
    [] f.kind = "absurd" -> <<<<GETSET_REQ>>, <<MaxPacket - HeaderLen - CrcLen + 1>>>>

Kinds == {"get", "set", "other", "noname", "short", "badcrc", "absurd"}

\* Clients write names and values that are C strings, of a length two bytes hold,
\* and frames that fit a packet unless they only announce one.
ASSUME ScriptAssumption ==
  \A s \in Scripts :
    /\ s \in Seq(Range(s))
    /\ \A i \in DOMAIN s :
         /\ s[i].kind \in Kinds
         /\ IsText(s[i].name) /\ Len(s[i].name) + 1 < LengthCap
         /\ IsText(s[i].value) /\ Len(s[i].value) + 1 < LengthCap
         /\ s[i].kind # "absurd" => Len(Bytes(s[i])) <= MaxPacket

Connect(s) ==
  /\ cl.at = "idle" /\ ~disc.asked
  /\ script' = s /\ c2s' = FlattenSeq([i \in DOMAIN s |-> Bytes(s[i])])
  /\ sv' = [at |-> "header", buf |-> <<>>]
  /\ cl' = [at |-> "header", buf |-> <<>>]
  /\ UNCHANGED <<s2c, got, handled, param, disc>>

-----------------------------------------------------------------------------
(* The connection thread *)

\* read_full wants a header, then the payload and the CRC it announces.
Wanted(b) == IF Len(b) < HeaderLen THEN HeaderLen ELSE HeaderLen + b[2][1] + CrcLen

\* Mutant: the announced length is believed.
ReadUnbounded(k) ==
  /\ sv.at = "header" /\ k <= Len(c2s) /\ Len(sv.buf) + k <= Wanted(sv.buf)
  /\ Len(sv.buf) < Wanted(sv.buf)
  /\ sv' = [sv EXCEPT !.buf = @ \o SubSeq(c2s, 1, k)]
  /\ c2s' = SubSeq(c2s, k + 1, Len(c2s))
  /\ UNCHANGED <<script, s2c, cl, got, handled, param, disc>>

\* One read of k bytes; a header that announces more than the buffer holds ends
\* the connection.
Read(k) ==
  /\ sv.at = "header" /\ k <= Len(c2s) /\ Len(sv.buf) + k <= Wanted(sv.buf)
  /\ Len(sv.buf) < Wanted(sv.buf)
  /\ sv' = [sv EXCEPT !.buf = @ \o SubSeq(c2s, 1, k),
                      !.at = IF Len(sv.buf) + k = HeaderLen
                                /\ (sv.buf \o SubSeq(c2s, 1, k))[2][1] + HeaderLen + CrcLen
                                   > MaxPacket
                             THEN "closed" ELSE "header"]
  /\ c2s' = SubSeq(c2s, k + 1, Len(c2s))
  /\ UNCHANGED <<script, s2c, cl, got, handled, param, disc>>

\* Mutant: a peer that goes within a frame is waited for.
ReadEofBetweenFrames ==
  /\ sv.at = "header" /\ c2s = <<>> /\ sv.buf = <<>> /\ cl.at = "done"
  /\ sv' = [sv EXCEPT !.at = "closed"]
  /\ UNCHANGED <<script, c2s, s2c, cl, got, handled, param, disc>>

\* The peer is gone before the wanted bytes were there.
ReadEof ==
  /\ sv.at = "header" /\ c2s = <<>> /\ Len(sv.buf) < Wanted(sv.buf)
  /\ cl.at = "done"
  /\ sv' = [sv EXCEPT !.at = "closed"]
  /\ UNCHANGED <<script, c2s, s2c, cl, got, handled, param, disc>>

Fits(cap) == 0 .. cap - 1

\* The last name and value that fit; a value that does not is ignored.
Request(tlvs) ==
  [name  |-> {CString(v) : v \in LastOf(tlvs, GETSET_NAME, Fits(NameCap) \ {0})},
   value |-> {CString(v) : v \in LastOf(tlvs, GETSET_VALUE, Fits(ValueCap))}]

\* A whole frame: a bad one closes the connection; another type, malformed
\* TLVs or no name are passed over without a reply.
Frame ==
  /\ sv.at = "header" /\ Len(sv.buf) >= HeaderLen /\ Len(sv.buf) = Wanted(sv.buf)
  /\ LET tlvs == read_tlvs(Payload(sv.buf))
         req  == Request(tlvs.tlvs)
     IN  sv' = IF ~open_frame(sv.buf) THEN [sv EXCEPT !.at = "closed"]
               ELSE IF sv.buf[1] # <<GETSET_REQ>> \/ ~tlvs.ok \/ req.name = {}
               THEN [at |-> "header", buf |-> <<>>]
               ELSE [at |-> "serve", req |-> req]
  /\ UNCHANGED <<script, c2s, s2c, cl, got, handled, param, disc>>

\* send_value_reply, send_error_reply
Reply(tag, name, v) ==
  seal_frame(GETSET_RPY, write_tlv_str(GETSET_NAME, name) \o write_tlv_str(tag, v))

\* Mutant: the reply is put together before the value is set.
ServeRepliesFirst ==
  /\ sv.at = "serve"
  /\ \E name \in sv.req.name :
       /\ param' = [p \in Params |->
                      IF p = name /\ sv.req.value # {} THEN CHOOSE v \in sv.req.value : TRUE
                      ELSE param[p]]
       /\ s2c' = IF cl.at = "done" THEN <<>>
                 ELSE s2c \o (IF name \in Params THEN Reply(GETSET_VALUE, name, param[name])
                              ELSE Reply(ERROR_MESSAGE, name, Error))
       /\ handled' = Append(handled, sv.req)
  /\ sv' = [at |-> "header", buf |-> <<>>]
  /\ UNCHANGED <<script, c2s, cl, got, disc>>

\* dispatch_getset: an unknown name is an error, a value sets.  The reply goes
\* nowhere if the client is gone.
Serve ==
  /\ sv.at = "serve"
  /\ \E name \in sv.req.name :
       /\ param' = [p \in Params |->
                      IF p = name /\ sv.req.value # {} THEN CHOOSE v \in sv.req.value : TRUE
                      ELSE param[p]]
       /\ s2c' = IF cl.at = "done" THEN <<>>
                 ELSE s2c \o (IF name \in Params THEN Reply(GETSET_VALUE, name, param'[name])
                              ELSE Reply(ERROR_MESSAGE, name, Error))
       /\ handled' = Append(handled, sv.req)
  /\ sv' = [at |-> "header", buf |-> <<>>]
  /\ UNCHANGED <<script, c2s, cl, got, disc>>

-----------------------------------------------------------------------------
(* The client: getset_client_call's reading half *)

ClientRead(k) ==
  /\ cl.at = "header" /\ k <= Len(s2c) /\ Len(cl.buf) + k <= Wanted(cl.buf)
  /\ Len(cl.buf) < Wanted(cl.buf)
  /\ cl' = [cl EXCEPT !.buf = @ \o SubSeq(s2c, 1, k)]
  /\ s2c' = SubSeq(s2c, k + 1, Len(s2c))
  /\ UNCHANGED <<script, c2s, sv, got, handled, param, disc>>

Outcome(ok, text) == [ok |-> ok, text |-> text]

\* An error message beats a value.
Answer(tlvs) ==
  LET errs == LastOf(tlvs, ERROR_MESSAGE, Nat)
      vals == LastOf(tlvs, GETSET_VALUE, Nat)
  IN  IF errs # {} THEN Outcome(FALSE, CString(CHOOSE v \in errs : TRUE))
      ELSE IF vals # {} THEN Outcome(TRUE, CString(CHOOSE v \in vals : TRUE))
      ELSE Outcome(FALSE, <<>>)

\* A whole reply.  After the reply to its last request the client closes.
ClientFrame ==
  /\ cl.at = "header" /\ Len(cl.buf) >= HeaderLen /\ Len(cl.buf) = Wanted(cl.buf)
  /\ LET tlvs == read_tlvs(Payload(cl.buf))
         fine == open_frame(cl.buf) /\ cl.buf[1] = <<GETSET_RPY>> /\ tlvs.ok
     IN  /\ got' = Append(got, IF fine THEN Answer(tlvs.tlvs) ELSE Outcome(FALSE, <<>>))
         /\ cl' = IF fine /\ Len(got') < Len(script) THEN [at |-> "header", buf |-> <<>>]
                  ELSE [at |-> "done"]
  /\ s2c' = IF cl'.at = "done" THEN <<>> ELSE s2c
  /\ UNCHANGED <<script, c2s, sv, handled, param, disc>>

\* Mutant: no timeout before the first byte of a reply.
ClientGoneWithinReply ==
  /\ cl.at = "header" /\ cl.buf # <<>>
  /\ cl' = [at |-> "done"] /\ s2c' = <<>>
  /\ \E k \in 0 .. Len(c2s) : c2s' = SubSeq(c2s, 1, k)
  /\ UNCHANGED <<script, sv, got, handled, param, disc>>

\* SO_RCVTIMEO, the server's close, or the end of the client: what it wrote
\* arrives up to some byte.
ClientGone ==
  /\ cl.at = "header"
  /\ cl' = [at |-> "done"] /\ s2c' = <<>>
  /\ \E k \in 0 .. Len(c2s) : c2s' = SubSeq(c2s, 1, k)
  /\ UNCHANGED <<script, sv, got, handled, param, disc>>

-----------------------------------------------------------------------------
(* The id of the daemon (config.c).  What the file says is not checked:      *)
(* main.c only warns of an id that fails the checksum.                       *)

config_defaults(c) == hdhr_device_id_generate(c.seed)

config_load(c) ==
  IF c.device_id = {} THEN config_defaults(c) ELSE CHOOSE d \in c.device_id : TRUE

\* The four bytes of an id on the wire.
IdBytes(d) == [i \in 1 .. 4 |-> <<16 * d[2 * i - 1] + d[2 * i]>>]

-----------------------------------------------------------------------------
(* Discovery.  id: the bytes of the daemon's own. *)

Four(k) == Text(k, 4)
Wildcard == Four(255)
Tuner    == Four(1)

Tlv(tag, val) == [tag |-> tag, val |-> val]

\* A frame of TLVs.
FrameOf(type, tlvs) ==
  seal_frame(type, FlattenSeq([i \in DOMAIN tlvs |-> write_tlv(tlvs[i].tag, tlvs[i].val)]))

\* A datagram: frame type, TLVs for the device type and id, cut short or not.
DatagramBytes(d) ==
  IF d.cut THEN Front(FrameOf(d.type, d.tlvs)) ELSE FrameOf(d.type, d.tlvs)

\* The TLVs of a datagram hold bytes, a seed is six nibbles and an id eight.
ASSUME DatagramAssumption ==
  /\ \A d \in Datagrams :
       /\ d.type \in Nat /\ d.cut \in BOOLEAN /\ d.tlvs \in Seq(Range(d.tlvs))
       /\ \A i \in DOMAIN d.tlvs :
            /\ d.tlvs[i] = Tlv(d.tlvs[i].tag, d.tlvs[i].val)
            /\ d.tlvs[i].tag \in Nat
            /\ IsBytes(d.tlvs[i].val) /\ Len(d.tlvs[i].val) < LengthCap
  /\ \A c \in Configs :
       /\ c.seed \in Seq(Nibbles) /\ Len(c.seed) = 6
       /\ \A d \in c.device_id : d \in Seq(Nibbles) /\ Len(d) = 8

\* Mutant: the device id of the request is not looked at.
DiscoverAnyId(data, id) ==
  LET tlvs == read_tlvs(Payload(data))
      type == LastOf(tlvs.tlvs, DEVICE_TYPE, {4})
  IN  /\ open_frame(data) /\ data[1] = <<DISCOVER_REQ>> /\ tlvs.ok
      /\ type \subseteq {Wildcard, Tuner}

\* It answers; without a TLV, or with one of another size, it is a wildcard.
handle_discover_req(data, id) ==
  LET tlvs == read_tlvs(Payload(data))
      type == LastOf(tlvs.tlvs, DEVICE_TYPE, {4})
      to   == LastOf(tlvs.tlvs, DEVICE_ID, {4})
  IN  /\ open_frame(data) /\ data[1] = <<DISCOVER_REQ>> /\ tlvs.ok
      /\ type \subseteq {Wildcard, Tuner} /\ to \subseteq {Wildcard, id}

\* Its reply, to the sender; urls are left out.
DiscoverReply(id) ==
  FrameOf(DISCOVER_RPY, <<Tlv(DEVICE_TYPE, Tuner), Tlv(DEVICE_ID, id),
                          Tlv(TUNER_COUNT, Text(2, 1))>>)

\* Mutant: the id of the defaults is announced, whatever the file says.
DiscoverByDefaults(d, c) ==
  /\ cl.at = "idle" /\ ~disc.asked
  /\ LET id == IdBytes(config_load(c))
     IN  disc' = [asked |-> TRUE, dgram |-> d, config |-> c,
                  answer |-> IF handle_discover_req(DatagramBytes(d), id)
                             THEN DiscoverReply(IdBytes(config_defaults(c))) ELSE <<>>]
  /\ UNCHANGED <<script, c2s, s2c, sv, cl, got, handled, param>>

\* discovery_thread_main of a daemon started with configuration c, one datagram.
Discover(d, c) ==
  /\ cl.at = "idle" /\ ~disc.asked
  /\ LET id == IdBytes(config_load(c))
     IN  disc' = [asked |-> TRUE, dgram |-> d, config |-> c,
                  answer |-> IF handle_discover_req(DatagramBytes(d), id)
                             THEN DiscoverReply(id) ELSE <<>>]
  /\ UNCHANGED <<script, c2s, s2c, sv, cl, got, handled, param>>

-----------------------------------------------------------------------------
Server == (\E k \in 1 .. Len(c2s) : Read(k)) \/ ReadEof \/ Frame \/ Serve
Client == (\E k \in 1 .. Len(s2c) : ClientRead(k)) \/ ClientFrame \/ ClientGone

WireNext ==
  \/ \E d \in Datagrams, c \in Configs : Discover(d, c)
  \/ \E s \in Scripts : Connect(s)
  \/ Server \/ Client

WireSpec == WireInit /\ [][WireNext]_wireVars

\* The thread reads what is there and the kernel reports the end of the peer;
\* a call has its 5 s timeout.
WireFairSpec == WireSpec /\ WF_wireVars(Server) /\ WF_wireVars(Client)

-----------------------------------------------------------------------------
(* Properties *)

\* Type invariant: in particular neither side's frame outgrows its buffer, and
\* what is set fits where the daemon keeps it.
WireTypeOK ==
  /\ cl.at \in {"idle", "header", "done"}
  /\ sv.at \in {"none", "header", "serve", "closed"}
  /\ sv.at = "header" => Len(sv.buf) <= MaxPacket
  /\ cl.at = "header" => Len(cl.buf) <= MaxPacket
  /\ \A p \in Params : Len(param[p]) < ValueCap

\* The frames a script asks to be served, read off the records and not off the
\* bytes: up to the first that ends the connection, those with a name that
\* fits; a value that does not fit is not there.
Breaks(f) == f.kind \in {"badcrc", "absurd"}
Asks(f)   == f.kind \in {"get", "set"} /\ Len(f.name) + 1 < NameCap
Wants(f) ==
  [name  |-> {f.name},
   value |-> IF f.kind = "set" /\ Len(f.value) + 1 < ValueCap THEN {f.value} ELSE {}]
Meant(s) ==
  LET meant[n \in 0 .. Len(s)] ==
        IF n = 0 THEN <<>>
        ELSE IF Asks(s[n]) /\ \A i \in 1 .. n : ~Breaks(s[i])
        THEN Append(meant[n - 1], Wants(s[n]))
        ELSE meant[n - 1]
  IN  meant[Len(s)]

\* The thread never loses its place in the byte stream: whatever frames it
\* passes over or rejects, and however reads are split, it serves exactly the
\* requests the client wrote, in their order, and all of them once it has read
\* everything and waits (conn_thread_main, read_full, hdhr_pkt_read_tlv).
InStep ==
  /\ IsPrefix(handled, Meant(script))
  /\ sv.at = "header" /\ sv.buf = <<>> /\ c2s = <<>> /\ cl.at # "done"
       => handled = Meant(script)

\* No frame outgrows its buffer and none is lost or served twice, whatever comes
\* before it on the connection (conn_thread_main).
StreamInStep == WireTypeOK /\ InStep

\* The value the k-th request of a script leaves, by the records.
Current(reqs, k, p) ==
  LET sets == {i \in 1 .. k : reqs[i].name = {p} /\ reqs[i].value # {}}
  IN  IF sets = {} THEN Initially
      ELSE CHOOSE v \in reqs[CHOOSE i \in sets : \A j \in sets : j <= i].value : TRUE

\* The client's k-th answer is the daemon's to its k-th served request, with
\* every earlier SET of the script in effect: no answer is cut, merged with
\* another or taken for another's.
AnswersMatch ==
  \A k \in DOMAIN got :
    /\ k <= Len(handled)
    /\ LET p == CHOOSE n \in Meant(script)[k].name : TRUE
       IN  got[k] = IF p \in Params THEN Outcome(TRUE, Current(Meant(script), k, p))
                    ELSE Outcome(FALSE, Error)

\* What a discovery datagram asks for, read off its record.
Last4(d, tag) == LastOf(d.tlvs, tag, {4})
AddressedTo(d, id) ==
  /\ d.type = DISCOVER_REQ /\ ~d.cut
  /\ \A v \in Last4(d, DEVICE_TYPE) : v \in {Wildcard, Tuner}
  /\ \A v \in Last4(d, DEVICE_ID) : v \in {Wildcard, id}

\* The ids a client reads from an answer.
AnnouncedIds(data) == LastOf(read_tlvs(Payload(data)).tlvs, DEVICE_ID, {4})

\* The daemon answers a datagram exactly if it is a whole discovery request for
\* a tuner of its id.  The answer is a whole frame that announces this id, the
\* one it answers to; it is no request to any daemon that hears it on the same
\* port, so no two daemons answer each other.  A daemon whose file names no id
\* announces one that passes the checksum of the clients; a configured one is
\* announced as it is (handle_discover_req, config_load, main.c).
DiscoverAddressed ==
  disc.asked =>
    LET own == config_load(disc.config)
    IN  /\ disc.answer # <<>> <=> AddressedTo(disc.dgram, IdBytes(own))
        /\ disc.answer # <<>> =>
             /\ open_frame(disc.answer) /\ AnnouncedIds(disc.answer) = {IdBytes(own)}
             /\ \A c \in Configs : ~handle_discover_req(disc.answer, IdBytes(config_load(c)))
        /\ disc.config.device_id = {} => hdhr_device_id_is_valid(own)

\* A call returns, also when its request was passed over and nothing will ever
\* be replied (getset_client_call's receive timeout).
CallReturns == cl.at = "header" ~> cl.at = "done"

\* A connection thread ends once its client is gone, also within a frame
\* (read_full's return of fewer bytes than asked for).
ThreadEnds == cl.at = "done" ~> sv.at = "closed"

\* Both sides of a connection end: the call by its reply or its timeout, the
\* thread when its client is gone.
BothEnd == CallReturns /\ ThreadEnds
=============================================================================
