---------------------------- MODULE PacketReader ----------------------------
(***************************************************************************)
(* recv_packet (src/src/server.c) and recvbytes (src/src/network.c): how   *)
(* one connection's byte stream is cut into packets.  A packet starts with *)
(* a header that holds its length; the reader collects bytes in a ring     *)
(* buffer made for this one packet and thrown away with what is left in    *)
(* it.  The ring buffer is used as the bounded queue it implements         *)
(* (RingBuffer, ByteQueue).                                                *)
(***************************************************************************)
EXTENDS Integers, Sequences

CONSTANTS
  HeadLen,      \* HEADLEN: opcode and length, 5 bytes in the code
  RingMax,      \* the size of the ring buffer, 2 MB in the code
  Word,         \* 2^32: lengths are uint32_t
  Lens,         \* packet lengths the client sends, header included
  MaxPackets,   \* how many packets it sends
  Modes,        \* how it sends: "one" waits for each packet to be consumed,
                \* "whole" sends ahead but every packet arrives in one piece,
                \* "any" sends ahead and packets arrive in any pieces
  Faults        \* "eof", "reset", "cut", "stall"

ASSUME SizesAssumption ==
  /\ HeadLen \in Nat \ {0}
  /\ RingMax \in Nat /\ RingMax >= 2 * HeadLen - 1
  /\ Word \in Nat /\ Word > RingMax + HeadLen
  /\ MaxPackets \in Nat
  /\ Lens \subseteq HeadLen..(Word - 1)

ASSUME NamesAssumption == /\ Modes \subseteq {"one", "whole", "any"}
                          /\ Faults \subseteq {"eof", "reset", "cut", "stall"}

VARIABLES
  mode,         \* how this client sends
  stream,       \* the bytes sent so far
  arrived,      \* how many of them reached the broker's socket
  peer,         \* "open", "stalled" (open, but the client sends nothing more),
                \* "eof", "reset", "gone" (reset already reported)
  taken,        \* how many of them recv() returned
  ring,         \* the ring buffer's contents
  pc,           \* "poll", "header", "body"
  n,            \* recv_packet's count of header bytes
  total,        \* recvbytes' count
  header,       \* the header bytes popped from the ring
  tlen,         \* the packet length read from them
  delivered     \* the packets handed to unpack_packet

netVars == <<mode, stream, arrived, peer>>
vars == <<netVars, taken, ring, pc, n, total, header, tlen, delivered>>

\* Byte i of packet number pkt, whose length is len.
PacketBytes(pkt, len) == [i \in 1..len |-> [pkt |-> pkt, i |-> i, len |-> len]]
Sent == IF stream = <<>> THEN 0 ELSE stream[Len(stream)].pkt

Init ==
  /\ mode \in Modes
  /\ stream = <<>>
  /\ arrived = 0
  /\ peer = "open"
  /\ taken = 0
  /\ ring = <<>>
  /\ pc = "poll"
  /\ n = 0
  /\ total = 0
  /\ header = <<>>
  /\ tlen = HeadLen
  /\ delivered = <<>>

-----------------------------------------------------------------------------
\* The client and the network.
Send(len) ==
  /\ peer = "open"
  /\ Sent < MaxPackets
  /\ mode = "one" => Len(delivered) = Sent /\ pc = "poll"
  /\ stream' = stream \o PacketBytes(Sent + 1, len)
  /\ UNCHANGED <<mode, arrived, peer, taken, ring, pc, n, total, header, tlen,
                 delivered>>

Arrive(k) ==
  /\ k \in (arrived + 1)..Len(stream)
  /\ mode = "whole" => stream[k].i = stream[k].len
  /\ peer \in {"open", "stalled", "eof"}
  /\ arrived' = k
  /\ UNCHANGED <<mode, stream, peer, taken, ring, pc, n, total, header, tlen,
                 delivered>>

Close(how) ==
  /\ how \in Faults
  /\ peer \in {"open", "stalled"}
  /\ peer' = how
  /\ UNCHANGED <<mode, stream, arrived, taken, ring, pc, n, total, header,
                 tlen, delivered>>

\* The client stops in the middle of sending: only a part of what it meant to
\* send ever arrives, and then end of file, or nothing on an open connection.
Cut(k) ==
  /\ mode = "one"
  /\ peer = "open"
  /\ k \in arrived..(Len(stream) - 1)
  /\ stream' = SubSeq(stream, 1, k)
  /\ \/ "cut" \in Faults /\ peer' = "eof"
     \/ "stall" \in Faults /\ peer' = "stalled"
  /\ UNCHANGED <<mode, arrived, taken, ring, pc, n, total, header, tlen,
                 delivered>>

-----------------------------------------------------------------------------
\* Mutant: the header is counted again in the length of the body.
Want_WithHeader == IF pc = "header" THEN HeadLen ELSE tlen % Word

\* The length asked of recvbytes, an unsigned difference in the body loop.
Want == IF pc = "header" THEN HeadLen ELSE (tlen - HeadLen) % Word

AtEof == peer = "gone" \/ (peer = "eof" /\ arrived = Len(stream))

\* What recv() finds in the socket.
Unread == SubSeq(stream, taken + 1, arrived)

Least(a, b) == IF a <= b THEN a ELSE b

\* ringbuf_bulk_push, whose result recvbytes ignores.
BulkPush(bytes) ==
  ring' = ring \o SubSeq(bytes, 1, Least(Len(bytes), RingMax - Len(ring)))

\* Mutant: the body loop compares with <= instead of <.
Reading_OneMore ==
  \/ pc = "header"
  \/ (pc = "body" /\ (total > 0 \/ Len(ring) <= Want))

\* recvbytes is running: in the header loop always, in the body loop while
\* the ring holds too little and until the bytes asked for have come.
Reading ==
  \/ pc = "header"
  \/ (pc = "body" /\ (total > 0 \/ Len(ring) < Want))

\* One recv() of what is still missing, bufsize - total.
Recv ==
  LET k == Least(Want - total, arrived - taken)
  IN /\ Reading
     /\ total < Want
     /\ taken < arrived
     /\ BulkPush(SubSeq(Unread, 1, k))
     /\ taken' = taken + k
     /\ total' = total + k
     /\ UNCHANGED <<netVars, pc, n, header, tlen, delivered>>

\* recvbytes returns: all was read, or the socket is drained for now, at end
\* of file (0, whatever was read before) or broken (-1).
RecvbytesReturns(v) ==
  /\ Reading
  /\ \/ /\ total >= Want
        /\ v = total
        /\ UNCHANGED peer
     \/ /\ total < Want
        /\ taken = arrived
        /\ peer # "reset" /\ ~AtEof
        /\ v = total
        /\ UNCHANGED peer
     \/ /\ total < Want
        /\ taken = arrived
        /\ AtEof
        /\ v = 0
        /\ UNCHANGED peer
     \/ /\ total < Want
        /\ taken = arrived
        /\ peer = "reset"
        /\ v = -1
        /\ peer' = "gone"
  /\ total' = 0
  /\ UNCHANGED <<mode, stream, arrived, taken, delivered>>

\* The header bytes name a length if they are the first bytes of a packet;
\* anything can be read from others, a value too small included.
LengthIn(bytes) ==
  IF /\ Len(bytes) = HeadLen
     /\ \A i \in 1..HeadLen : bytes[i].i = i
  THEN {bytes[1].len} ELSE Lens \cup {0}

\* request_handler calls recv_packet with a fresh ring buffer.
Start ==
  /\ pc = "poll"
  /\ taken < arrived \/ AtEof \/ peer = "reset"
  /\ pc' = "header"
  /\ n' = 0
  /\ ring' = <<>>
  /\ UNCHANGED <<netVars, taken, total, header, tlen, delivered>>

\* Mutant: the loop goes on when nothing was read.
ReturnNull_Loops == UNCHANGED pc

ReturnNull == pc' = "poll"

\* Nothing at all was read: recv_packet returns NULL.
HeaderNothing ==
  \E v \in {0, -1, total} :
    /\ pc = "header"
    /\ RecvbytesReturns(v)
    /\ n + v = 0
    /\ ReturnNull
    /\ UNCHANGED <<ring, n, header, tlen>>

\* Some of the header is missing: the loop goes on, without waiting.
HeaderMore ==
  \E v \in {0, -1, total} :
    /\ pc = "header"
    /\ RecvbytesReturns(v)
    /\ n + v \in 1..(HeadLen - 1)
    /\ n' = n + v
    /\ UNCHANGED <<ring, pc, header, tlen>>

\* Mutant: any byte at all is taken for a header.
HeaderEnough_Any(count) == count # 0

\* n is a size_t: adding -1 to 0 makes it huge, so that the "n < 0" test of
\* the code never succeeds and the loop ends.
HeaderEnough(count) == count >= HeadLen \/ count < 0

\* The header is popped; popping an empty ring leaves stack memory there.
HeaderDone ==
  \E v \in {0, -1, total} :
    /\ pc = "header"
    /\ RecvbytesReturns(v)
    /\ HeaderEnough(n + v)
    /\ LET h == Least(HeadLen, Len(ring))
       IN /\ header' = SubSeq(ring, 1, h)
          /\ ring' = SubSeq(ring, h + 1, Len(ring))
          /\ tlen' \in LengthIn(SubSeq(ring, 1, h))
    /\ pc' = "body"
    /\ UNCHANGED n

\* The body loop ignores what recvbytes returns: size_t again.
BodyMore ==
  \E v \in {0, -1, total} :
    /\ pc = "body"
    /\ RecvbytesReturns(v)
    /\ UNCHANGED <<ring, pc, n, header, tlen>>

\* The packet is complete; ringbuf_free drops whatever follows it.
Deliver ==
  /\ pc = "body"
  /\ ~Reading
  /\ delivered' = Append(delivered, header \o SubSeq(ring, 1, Want))
  /\ pc' = "poll"
  /\ UNCHANGED <<netVars, taken, ring, n, total, header, tlen>>

Reader == \/ Start \/ Recv \/ HeaderNothing \/ HeaderMore \/ HeaderDone
          \/ BodyMore \/ Deliver

Next ==
  \/ \E len \in Lens : Send(len)
  \/ \E k \in 1..Len(stream) : Arrive(k)
  \/ \E how \in {"eof", "reset"} : Close(how)
  \/ \E k \in 0..Len(stream) : Cut(k)
  \/ Reader

Spec == Init /\ [][Next]_vars

\* The network delivers what was sent and the worker thread keeps running.
\* Nobody promises that the client sends the rest of a packet (Cut).
Arrival == \E k \in 1..Len(stream) : Arrive(k)
FairSpec == Spec /\ WF_vars(Arrival) /\ WF_vars(Reader)

-----------------------------------------------------------------------------
\* Packet k is what the client put in the stream under that number.
Intact(k) ==
  \E p \in DOMAIN stream : /\ stream[p].pkt = k
                           /\ delivered[k] = PacketBytes(k, stream[p].len)

(* What recv_packet hands on is what the client sent: the k-th packet is   *)
(* the k-th packet sent, complete and with no byte of another, wherever    *)
(* the network cut the stream.  (Nothing is claimed once a reset made      *)
(* recv() fail.)                                                           *)
DeliveredIntact ==
  peer # "gone" => \A k \in 1..Len(delivered) : Intact(k)

(* Between two packets the reader stands at a packet boundary: every byte  *)
(* it took from the socket is in a packet it handed on, so discarding the  *)
(* ring buffer loses nothing.                                              *)
NoByteDropped ==
  pc = "poll" /\ peer \in {"open", "stalled"} =>
    /\ taken < Len(stream) => stream[taken + 1].i = 1
    /\ taken > 0 => stream[taken].pkt = Len(delivered)

\* One of the first k packets is longer than the ring buffer can collect.
TooLong(k) ==
  \E p \in DOMAIN stream : /\ stream[p].pkt <= k
                           /\ stream[p].len > HeadLen + RingMax

(* On a connection that stays up every packet sent is handed on, up to and *)
(* with the largest that fits the ring buffer, unless it comes after one   *)
(* that does not.                                                          *)
EventuallyDelivered ==
  \A k \in 1..MaxPackets :
    Sent >= k ~> Len(delivered) >= k \/ peer # "open" \/ TooLong(k)

\* The last packet stays incomplete, or a part of its header was counted
\* before the rest came together with the end of file, for which recvbytes
\* returns 0.
Unfinished ==
  \/ /\ peer \in {"stalled", "eof"}
     /\ stream # <<>> /\ stream[Len(stream)].i < stream[Len(stream)].len
  \/ peer = "eof" /\ pc = "header" /\ n > 0

(* A client keeps a worker in recv_packet only in these ways: it stops in  *)
(* the middle of a packet, on an open connection or with an end of file;   *)
(* an end of file follows a packet whose header came in pieces; it sends a *)
(* packet that the ring buffer cannot hold; or it resets the connection,   *)
(* after which the header is made up.  In all other cases the worker comes *)
(* back to epoll_wait again and again.                                     *)
BackToPoll ==
  []<>(\/ pc = "poll"
       \/ Unfinished
       \/ TooLong(Len(delivered) + 1)
       \/ peer \in {"reset", "gone"})
=============================================================================
