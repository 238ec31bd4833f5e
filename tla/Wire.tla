-------------------------------- MODULE Wire --------------------------------
(***************************************************************************)
(* The wire format of src/src/protocol.c: how a packet structure becomes   *)
(* bytes and bytes become a structure again, and what the broker makes of  *)
(* a PUBLISH it passes on or keeps as a retained message.                  *)
(*                                                                         *)
(* A byte has Radix values (256 in the code).  Integers are big-endian and *)
(* wrap at their width, strings are C strings: what follows a NUL is not   *)
(* seen.  An opcode is one byte whatever the radix.  The sizes of packets  *)
(* are computed by the *_pkt functions, by hand and apart from the code    *)
(* that writes the fields; bytes no field fills are what malloc left.      *)
(***************************************************************************)
EXTENDS Naturals, Sequences

CONSTANTS
  Radix,        \* the number of values of a byte
  Texts,        \* the character buffers used as identifier, topic, message
  Numbers       \* values of the integer fields

\* A byte holds a quality of service.
ASSUME RadixAssumption == Radix \in Nat \ {0, 1, 2}

Byte == 0..(Radix - 1)
Wide == Radix * Radix           \* the number of values of a uint16_t

\* The size of a packet is a uint32_t; recv_packet takes up to 2 MB.
ASSUME TextsAssumption ==
  /\ Texts \subseteq Seq(Byte)
  /\ \A s, t \in Texts : Len(s) + Len(t) + 16 < Wide * Wide

ASSUME NumbersAssumption == Numbers \subseteq 0..(Wide - 1)

VARIABLES
  stage,        \* how far the packet is
  pkt,          \* the structure the sender built
  buf,          \* the Buffer it travels in
  got,          \* the structure its receiver unpacked
  msg,          \* the Message a topic retains
  copy          \* the structure a subscriber unpacked

vars == <<stage, pkt, buf, got, msg, copy>>

CONNECT == 16
CONNACK == 32
PUBLISH == 48
PUBACK == 64
SUBSCRIBE == 128
SUBACK == 144
UNSUBSCRIBE == 160
PINGREQ == 192
PINGRESP == 208
Acks == {CONNACK, PUBACK, SUBACK, PINGREQ, PINGRESP}

NULL == [op |-> 0]
NoBuffer == [size |-> 0, pos |-> 0, data |-> <<>>]
HEADERLEN == 5

-----------------------------------------------------------------------------
\* What strlen, strdup and %s see of a character buffer.
NulAt(s) == {i \in DOMAIN s : s[i] = 0}
CString(s) ==
  IF NulAt(s) = {} THEN s
  ELSE SubSeq(s, 1, (CHOOSE i \in NulAt(s) : \A j \in NulAt(s) : i <= j) - 1)
strlen(s) == Len(CString(s))

\* Writing: the bytes a call appends at b->pos.
write_uint8(n) == <<n % Radix>>
write_uint16(n) == <<(n \div Radix) % Radix, n % Radix>>
write_uint32(n) == write_uint16(n \div Wide) \o write_uint16(n)
write_string(s) == CString(s)

\* Reading at offset p of the data d.
read_uint8(d, p) == d[p + 1]
read_uint16(d, p) == d[p + 1] * Radix + d[p + 2]
read_uint32(d, p) == read_uint16(d, p) * Wide + read_uint16(d, p + 2)
read_string(d, p, n) == SubSeq(d, p + 1, p + n)

-----------------------------------------------------------------------------
\* The structures; size is header->size.
connect_pkt(id, keepalive, clean) ==
  [op |-> CONNECT, size |-> HEADERLEN + strlen(id) + 2 * 2 + 2 * 1,
   id |-> id, keepalive |-> keepalive % Radix, clean_session |-> clean]

subscribe_pkt(topic, qos) ==
  [op |-> SUBSCRIBE, size |-> HEADERLEN + strlen(topic) + 2 + 3 * 1,
   topic |-> topic, qos |-> qos]

unsubscribe_pkt(topic) ==
  [op |-> UNSUBSCRIBE, size |-> HEADERLEN + strlen(topic) + 2 + 1,
   topic |-> topic, topic_len |-> strlen(topic) % Wide]

\* The uint32_t of the message length forgotten in the sum.
publish_pkt_Short(topic, message, qos, retain, dup) ==
  [op |-> PUBLISH,
   size |-> HEADERLEN + strlen(topic) + strlen(message) + 2 + 5 * 1,
   topic |-> topic, message |-> message, qos |-> qos, retain |-> retain,
   dup |-> dup]

publish_pkt(topic, message, qos, retain, dup) ==
  [op |-> PUBLISH,
   size |-> HEADERLEN + strlen(topic) + strlen(message) + 2 + 4 + 5 * 1,
   topic |-> topic, message |-> message, qos |-> qos, retain |-> retain,
   dup |-> dup]

ack_pkt(opcode, id, rc) ==
  [op |-> opcode, size |-> HEADERLEN + 2 + 1, id |-> id, rc |-> rc]

-----------------------------------------------------------------------------
pack_header(p, size) == <<p.op>> \o write_uint32(size)

pack_connect(p) ==
  write_uint16(strlen(p.id)) \o write_string(p.id)
    \o write_uint16(p.keepalive) \o write_uint8(p.clean_session)

pack_subscribe(p) ==
  write_uint16(strlen(p.topic)) \o write_uint8(p.qos) \o write_string(p.topic)

pack_unsubscribe(p) == write_uint16(p.topic_len) \o write_string(p.topic)

pack_publish(p) ==
  write_uint16(strlen(p.topic)) \o write_uint32(strlen(p.message))
    \o write_uint8(p.qos) \o write_uint8(p.retain) \o write_uint8(p.dup)
    \o write_string(p.topic) \o write_string(p.message)

pack_ack(p) == write_uint16(p.id) \o write_uint8(p.rc)

Fields(p) == CASE p.op = CONNECT     -> pack_connect(p)
               [] p.op = SUBSCRIBE   -> pack_subscribe(p)
               [] p.op = UNSUBSCRIBE -> pack_unsubscribe(p)
               [] p.op = PUBLISH     -> pack_publish(p)
               [] p.op \in Acks      -> pack_ack(p)

\* buffer_init(size), then pack_*: the bytes after the last field are what
\* the heap held, one value for all of them.
Packed(p, size) ==
  LET w == pack_header(p, size) \o Fields(p)
  IN {[size |-> size, pos |-> Len(w),
       data |-> w \o [i \in 1..(size - Len(w)) |-> junk]] : junk \in Byte}

-----------------------------------------------------------------------------
\* unpack_*: the structure, and in pos where the last read ended.  The
\* header was read first.
unpack_connect(d) ==
  LET n == read_uint16(d, HEADERLEN)
  IN [op |-> d[1], size |-> read_uint32(d, 1), pos |-> HEADERLEN + 5 + n,
      clean_session |-> read_uint8(d, HEADERLEN + 2),
      keepalive |-> read_uint16(d, HEADERLEN + 3),
      id |-> read_string(d, HEADERLEN + 5, n)]

\* The order of the fields taken from the declaration of the structure.
unpack_subscribe_TopicFirst(d) ==
  LET n == read_uint16(d, HEADERLEN)
  IN [op |-> d[1], size |-> read_uint32(d, 1), pos |-> HEADERLEN + 3 + n,
      qos |-> read_uint8(d, HEADERLEN + 2 + n),
      topic |-> read_string(d, HEADERLEN + 2, n)]

unpack_subscribe(d) ==
  LET n == read_uint16(d, HEADERLEN)
  IN [op |-> d[1], size |-> read_uint32(d, 1), pos |-> HEADERLEN + 3 + n,
      qos |-> read_uint8(d, HEADERLEN + 2),
      topic |-> read_string(d, HEADERLEN + 3, n)]

unpack_unsubscribe(d) ==
  LET n == read_uint16(d, HEADERLEN)
  IN [op |-> d[1], size |-> read_uint32(d, 1), pos |-> HEADERLEN + 2 + n,
      topic |-> read_string(d, HEADERLEN + 2, n)]

unpack_publish(d) ==
  LET t == read_uint16(d, HEADERLEN)
      m == read_uint32(d, HEADERLEN + 2)
      p == HEADERLEN + 9
  IN [op |-> d[1], size |-> read_uint32(d, 1), pos |-> p + t + m,
      qos |-> read_uint8(d, HEADERLEN + 6),
      retain |-> read_uint8(d, HEADERLEN + 7),
      dup |-> read_uint8(d, HEADERLEN + 8),
      topic |-> read_string(d, p, t), message |-> read_string(d, p + t, m)]

unpack_ack(d) ==
  [op |-> d[1], size |-> read_uint32(d, 1), pos |-> HEADERLEN + 3,
   id |-> read_uint16(d, HEADERLEN), rc |-> read_uint8(d, HEADERLEN + 2)]

Unpack(d) == CASE d[1] = CONNECT     -> unpack_connect(d)
               [] d[1] = SUBSCRIBE   -> unpack_subscribe(d)
               [] d[1] = UNSUBSCRIBE -> unpack_unsubscribe(d)
               [] d[1] = PUBLISH     -> unpack_publish(d)
               [] d[1] \in Acks      -> unpack_ack(d)

\* The opcodes the broker's unpack_packet knows; it gives NULL for others.
unpack_packet(d) ==
  IF d[1] \in {CONNECT, SUBSCRIBE, PUBLISH, SUBACK, PUBACK, PINGREQ}
  THEN Unpack(d) ELSE NULL

\* The flags of the PUBLISH mixed up.
create_message_DupAsQos(p) ==
  [qos |-> p.dup, topic |-> CString(p.topic), payload |-> CString(p.message)]

create_message(p) ==
  [qos |-> p.qos, topic |-> CString(p.topic), payload |-> CString(p.message)]

-----------------------------------------------------------------------------
Init ==
  /\ stage = "idle"
  /\ pkt = NULL /\ got = NULL /\ msg = NULL /\ copy = NULL
  /\ buf = NoBuffer

\* A peer or the broker fills a packet structure.
Build(p) ==
  /\ stage = "idle"
  /\ stage' = "built"
  /\ pkt' = p
  /\ UNCHANGED <<buf, got, msg, copy>>

\* The sender packs it into a buffer of header->size bytes.
Pack ==
  /\ stage = "built"
  /\ stage' = "packed"
  /\ buf' \in Packed(pkt, pkt.size)
  /\ UNCHANGED <<pkt, got, msg, copy>>

\* A client that knows which packet it waits for.
ClientUnpack ==
  /\ stage = "packed"
  /\ stage' = "unpacked"
  /\ got' = Unpack(buf.data)
  /\ buf' = [buf EXCEPT !.pos = got'.pos]
  /\ UNCHANGED <<pkt, msg, copy>>

\* The broker: a NULL structure makes request_handler give up.
BrokerUnpack ==
  /\ stage = "packed"
  /\ got' = unpack_packet(buf.data)
  /\ IF got' = NULL
     THEN stage' = "refused" /\ UNCHANGED buf
     ELSE stage' = "accepted" /\ buf' = [buf EXCEPT !.pos = got'.pos]
  /\ UNCHANGED <<pkt, msg, copy>>

\* publish_handler and publish_message: one buffer, of the size the
\* publisher's header gave, for all subscribers; retain_message keeps a copy.
Distribute ==
  /\ stage = "accepted"
  /\ got.op = PUBLISH
  /\ got.topic # <<>>
  /\ stage' = "forwarded"
  /\ buf' \in Packed(got, got.size)
  /\ msg' = IF got.retain # 0 THEN create_message(got) ELSE msg
  /\ UNCHANGED <<pkt, got, copy>>

\* reply_handler sends a new subscriber the retained message.
SendRetained ==
  /\ stage = "received"
  /\ msg # NULL
  /\ LET p == publish_pkt(msg.topic, msg.payload, msg.qos, 1, 0)
     IN buf' \in Packed(p, p.size)
  /\ stage' = "resent"
  /\ UNCHANGED <<pkt, got, msg, copy>>

SubscriberUnpack ==
  /\ stage \in {"forwarded", "resent"}
  /\ stage' = IF stage = "forwarded" THEN "received" ELSE "replayed"
  /\ copy' = Unpack(buf.data)
  /\ buf' = [buf EXCEPT !.pos = copy'.pos]
  /\ UNCHANGED <<pkt, got, msg>>

\* free_*, buffer_destroy, destroy_message.
Release ==
  /\ stage \in {"refused", "unpacked", "accepted", "received", "replayed"}
  /\ stage' = "idle"
  /\ pkt' = NULL /\ got' = NULL /\ msg' = NULL /\ copy' = NULL
  /\ buf' = NoBuffer

BuildAny ==
  \/ \E id \in Texts, k \in Numbers, c \in {0, 1} :
       Build(connect_pkt(id, k, c))
  \/ \E t \in Texts, q \in 0..2 :
       Build(subscribe_pkt(t, q)) \/ Build(unsubscribe_pkt(t))
  \/ \E t, m \in Texts, q \in 0..2, r, d \in {0, 1} :
       Build(publish_pkt(t, m, q, r, d))
  \/ \E op \in Acks, id \in Numbers, rc \in {0, 1} :
       Build(ack_pkt(op, id, rc))

Next == \/ BuildAny \/ Pack \/ ClientUnpack \/ BrokerUnpack
        \/ Distribute \/ SendRetained \/ SubscriberUnpack \/ Release

Spec == Init /\ [][Next]_vars

-----------------------------------------------------------------------------
(* No pack_* function writes, and no unpack_* function reads, past the     *)
(* buffer that holds the packet, although the *_pkt functions compute its  *)
(* size apart from the code that fills it, a PUBLISH is repacked into a    *)
(* buffer of the size its sender announced, and a CONNECT is read in       *)
(* another order than it is written.                                       *)
FitsBuffer == buf.pos <= buf.size /\ Len(buf.data) = buf.size

\* The lengths of the strings of p fit the uint16_t that carries them.
Short(p) ==
  CASE p.op = CONNECT -> strlen(p.id) < Wide
    [] p.op \in {SUBSCRIBE, UNSUBSCRIBE, PUBLISH} ->
         strlen(p.topic) < Wide
    [] OTHER -> TRUE

\* The fields of the structure a receiver uses, texts as C strings.
Meaning(p) ==
  CASE p.op = CONNECT -> <<p.op, CString(p.id), p.keepalive, p.clean_session>>
    [] p.op = SUBSCRIBE -> <<p.op, CString(p.topic), p.qos>>
    [] p.op = UNSUBSCRIBE -> <<p.op, CString(p.topic)>>
    [] p.op = PUBLISH -> <<p.op, CString(p.topic), CString(p.message), p.qos,
                           p.retain, p.dup>>
    [] OTHER -> <<p.op, p.id, p.rc>>

(* "Opposite of pack" (protocol.h): what a receiver unpacks is what the    *)
(* sender built, whatever the unfilled bytes hold, for every packet except *)
(* CONNECT (whose fields unpack_connect takes in another order) and as     *)
(* long as the 16-bit lengths hold the strings.                            *)
RoundTrip ==
  stage \in {"unpacked", "accepted"} /\ pkt.op # CONNECT /\ Short(pkt) =>
    /\ got.size = pkt.size
    /\ Meaning(got) = Meaning(pkt)

(* A subscriber unpacks the topic, the message and the quality of service  *)
(* the publisher built, be it distributed at once or kept by the topic and *)
(* sent after a SUBACK (then flagged retained and not a duplicate).        *)
ForwardedIntact ==
  Short(pkt) =>
    /\ stage = "received" => Meaning(copy) = Meaning(pkt)
    /\ stage = "replayed" =>
         Meaning(copy) = Meaning([pkt EXCEPT !.retain = 1, !.dup = 0])
=============================================================================
