------------------------- MODULE PacketReaderProofs -------------------------
(***************************************************************************)
(* recv_packet hands on the packets the client sent, for any lengths,      *)
(* header size and ring buffer size, as long as packets do not arrive in   *)
(* pieces behind one another: the client waits for each packet to be       *)
(* consumed (mode "one"), or each arrives in one piece (mode "whole").     *)
(*                                                                         *)
(* The invariant locates the reader in the stream: what it holds starts    *)
(* where the last packet it handed on ended, and never reaches into the    *)
(* packet after the one it reads, although the header loop asks for a      *)
(* whole header each time it is a few bytes short of one.                  *)
(***************************************************************************)
EXTENDS PacketReader, SequenceTheorems, TLAPS

Bytes == [pkt : Nat, i : Nat, len : Nat]

ReaderTypes ==
  /\ mode \in Modes /\ peer \in {"open", "stalled", "eof", "reset", "gone"}
  /\ stream \in Seq(Bytes)
  /\ arrived \in 0..Len(stream) /\ taken \in 0..arrived
  /\ ring \in Seq(Bytes) /\ header \in Seq(Bytes) /\ delivered \in Seq(Seq(Bytes))
  /\ pc \in {"poll", "header", "body"}
  /\ n \in Nat /\ total \in Nat /\ tlen \in Nat

(***************************************************************************)
(* The stream is a row of packets, each in one piece.  Origin(p) bytes are *)
(* before the packet of byte p.                                            *)
(***************************************************************************)
Origin(p) == p - stream[p].i
ByteAt(p) ==
  /\ stream[p].i \in 1..stream[p].len /\ stream[p].len \in Lens
  /\ stream[p].i <= p
  /\ \A q \in 1..Len(stream) :
       Origin(p) < q /\ q <= Origin(p) + stream[p].len =>
         stream[q] = [pkt |-> stream[p].pkt, i |-> q - Origin(p),
                      len |-> stream[p].len]
  /\ stream[p].i = stream[p].len /\ p < Len(stream) =>
       stream[p + 1].i = 1 /\ stream[p + 1].pkt = stream[p].pkt + 1
StreamInv ==
  /\ \A p \in 1..Len(stream) : ByteAt(p)
  /\ Len(stream) > 0 => stream[1].i = 1 /\ stream[1].pkt = 1
  /\ Len(stream) > 0 /\ peer = "open" =>
       stream[Len(stream)].i = stream[Len(stream)].len

(***************************************************************************)
(* Where the reader stands: Base bytes are in packets handed on, Held ones *)
(* of the next packet are in header and ring.                              *)
(***************************************************************************)
Held == IF pc = "poll" THEN 0
        ELSE IF pc = "header" THEN Len(ring) ELSE HeadLen + Len(ring)
Base == taken - Held
AtBoundary ==
  /\ Base >= 0
  /\ Base < Len(stream) => /\ stream[Base + 1].i = 1
                           /\ stream[Base + 1].pkt = Len(delivered) + 1
  /\ IF Base > 0 THEN stream[Base].pkt = Len(delivered) ELSE delivered = <<>>
\* The bytes held are those of the stream, and of one packet.
Fetched ==
  /\ pc # "poll" =>
       \A j \in 1..Len(ring) : ring[j] = stream[taken - Len(ring) + j]
  /\ pc = "body" => /\ Len(header) = HeadLen /\ tlen = stream[Base + 1].len
                    /\ Want <= RingMax
                    /\ \A j \in 1..HeadLen : header[j] = stream[Base + j]
  /\ Held > 0 => Held <= stream[Base + 1].len
\* What the counters say of the ring; at an end of file inside a header the
\* last bytes are not counted.
Counted ==
  /\ pc = "poll" => total = 0
  /\ pc = "header" =>
       /\ n < HeadLen /\ total <= HeadLen
       /\ \/ Len(ring) = n + total
          \/ /\ 0 < n /\ n < Len(ring) /\ total = 0
             /\ peer = "eof" /\ taken = Len(stream)
  /\ pc = "body" => total <= Want
\* A client that waits has sent nothing beyond the packet being read.
OnePacket ==
  mode = "one" /\ Base < Len(stream) => Len(stream) <= Base + stream[Base + 1].len
\* Of packets that arrive in one piece the reader never finds a part.
WholePackets ==
  mode = "whole" =>
    /\ arrived > 0 => stream[arrived].i = stream[arrived].len
    /\ pc = "header" => n = 0
    /\ pc = "body" => Len(ring) = total \/ (total = 0 /\ Len(ring) = Want)
\* A header that never came, dropped at the end of file: nothing follows.
Drained ==
  /\ peer = "eof" /\ taken = Len(stream) /\ total = 0
  /\ pc = "poll" \/ (pc = "header" /\ n = 0 /\ ring = <<>>)
Handed ==
  \A k \in 1..Len(delivered) : \E p \in 1..taken :
    /\ stream[p].pkt = k
    /\ delivered[k] = PacketBytes(k, stream[p].len)

Placed == AtBoundary /\ Fetched /\ Counted /\ OnePacket /\ WholePackets
ReadInv == Drained \/ Placed
\* A packet that the ring cannot hold is read for ever, and nothing after it
\* is handed on.
Stuck == pc = "body" /\ Len(ring) <= RingMax /\ RingMax < Want
ReaderInv ==
  /\ ReaderTypes /\ StreamInv
  /\ peer # "gone" /\ mode # "any" => (ReadInv \/ Stuck) /\ Handed
-----------------------------------------------------------------------------
(***************************************************************************)
(* Operators.                                                              *)
(***************************************************************************)
LEMMA SliceView ==
  ASSUME NEW S, NEW s \in Seq(S), NEW a \in Nat, NEW b \in Nat, b <= Len(s)
  PROVE  /\ SubSeq(s, a + 1, b) \in Seq(S)
         /\ Len(SubSeq(s, a + 1, b)) = IF a < b THEN b - a ELSE 0
         /\ \A j \in 1..(b - a) : SubSeq(s, a + 1, b)[j] = s[a + j]
<1>1. \A j \in (a + 1)..b : s[j] \in S
  OBVIOUS
<1> QED BY <1>1, SubSeqProperties

LEMMA PrefixView ==
  ASSUME NEW S, NEW s \in Seq(S), NEW b \in Int, b <= Len(s)
  PROVE  /\ SubSeq(s, 1, b) \in Seq(S)
         /\ Len(SubSeq(s, 1, b)) = IF 0 < b THEN b ELSE 0
         /\ \A j \in 1..b : SubSeq(s, 1, b)[j] = s[j]
<1>1. \A j \in 1..b : s[j] \in S
  OBVIOUS
<1> QED BY <1>1, SubSeqProperties

LEMMA PacketView ==
  ASSUME NEW k \in Nat, NEW l \in Nat
  PROVE  /\ PacketBytes(k, l) \in Seq(Bytes) /\ Len(PacketBytes(k, l)) = l
         /\ \A j \in 1..l :
              PacketBytes(k, l)[j] = [pkt |-> k, i |-> j, len |-> l]
<1>1. \A j \in 1..l : [pkt |-> k, i |-> j, len |-> l] \in Bytes
  BY DEF Bytes
<1>2. PacketBytes(k, l) \in [1..l -> Bytes]
  BY <1>1 DEF PacketBytes
<1>3. PacketBytes(k, l) \in Seq(Bytes)
  BY <1>2, SeqDef
<1> QED BY <1>2, <1>3 DEF PacketBytes

LEMMA LensNat == Lens \subseteq Nat \ {0}
  BY SizesAssumption

LEMMA WantNat ==
  ASSUME tlen \in Nat
  PROVE  /\ Want \in Nat
         /\ pc # "header" /\ tlen \in Lens => Want = tlen - HeadLen
  BY SizesAssumption DEF Want

LEMMA SentView ==
  ASSUME ReaderTypes
  PROVE  /\ Sent \in Nat
         /\ Sent = IF Len(stream) = 0 THEN 0 ELSE stream[Len(stream)].pkt
<1>1. stream \in Seq(Bytes) /\ Len(stream) \in Nat
  BY DEF ReaderTypes
<1>2. stream = <<>> <=> Len(stream) = 0
  BY <1>1, EmptySeq
<1>3. Len(stream) # 0 => stream[Len(stream)] \in Bytes
  BY <1>1, ElementOfSeq
<1> QED BY <1>1, <1>2, <1>3 DEF Sent, Bytes

(***************************************************************************)
(* The steps.                                                              *)
(***************************************************************************)
\* What is sent stands behind what was sent before.
LEMMA SendView ==
  ASSUME ReaderTypes, NEW l \in Lens, Send(l)
  PROVE  /\ stream' \in Seq(Bytes) /\ Len(stream') = Len(stream) + l
         /\ \A p \in 1..Len(stream) : stream'[p] = stream[p]
         /\ \A j \in 1..l :
              stream'[Len(stream) + j] = [pkt |-> Sent + 1, i |-> j, len |-> l]
<1>1. /\ Sent + 1 \in Nat /\ l \in Nat /\ stream \in Seq(Bytes)
      /\ Len(stream) \in Nat
  BY LensNat, SentView DEF ReaderTypes
<1>2. PICK k, q : k = Sent + 1 /\ q = PacketBytes(k, l)
  OBVIOUS
<1>3. /\ q \in Seq(Bytes) /\ Len(q) = l
      /\ \A j \in 1..l : q[j] = [pkt |-> k, i |-> j, len |-> l]
  BY <1>1, <1>2, PacketView
<1>4. stream' = stream \o q
  BY <1>2 DEF Send
<1>5. /\ stream' \in Seq(Bytes) /\ Len(stream') = Len(stream) + l
      /\ \A p \in 1..Len(stream) + l :
           stream'[p] = IF p <= Len(stream) THEN stream[p] ELSE q[p - Len(stream)]
  BY <1>1, <1>3, <1>4, ConcatProperties
<1>6. \A p \in 1..Len(stream) : stream'[p] = stream[p]
  BY <1>1, <1>5
<1>7. ASSUME NEW j \in 1..l PROVE stream'[Len(stream) + j] = q[j]
  <2>1. /\ Len(stream) + j \in 1..Len(stream) + l
        /\ ~(Len(stream) + j <= Len(stream)) /\ Len(stream) + j - Len(stream) = j
    BY <1>1
  <2> QED BY <1>5, <2>1
<1> QED BY <1>2, <1>3, <1>5, <1>6, <1>7

LEMMA CutView ==
  ASSUME ReaderTypes, NEW k \in Nat, Cut(k)
  PROVE  /\ stream' \in Seq(Bytes) /\ Len(stream') = k
         /\ k \in arrived..Len(stream)
         /\ \A p \in 1..k : stream'[p] = stream[p]
<1>1. /\ stream \in Seq(Bytes) /\ k \in arrived..Len(stream)
      /\ stream' = SubSeq(stream, 1, k) /\ k <= Len(stream)
  BY DEF ReaderTypes, Cut
<1>2. PICK s : s = stream
  OBVIOUS
<1>3. /\ SubSeq(s, 1, k) \in Seq(Bytes) /\ Len(SubSeq(s, 1, k)) = k
      /\ \A p \in 1..k : SubSeq(s, 1, k)[p] = s[p]
  BY <1>1, <1>2, PrefixView
<1> QED BY <1>1, <1>2, <1>3

\* k bytes are taken from the socket, and l of them find room in the ring.
LEMMA RecvView ==
  ASSUME ReaderTypes, Recv
  PROVE  \E k \in 1..(arrived - taken), l \in Nat :
           /\ l <= k /\ (Len(ring) + k <= RingMax => l = k)
           /\ Len(ring) <= RingMax => Len(ring) + l <= RingMax
           /\ taken' = taken + k /\ total' = total + k /\ total + k <= Want
           /\ ring' \in Seq(Bytes) /\ Len(ring') = Len(ring) + l
           /\ \A j \in 1..Len(ring) : ring'[j] = ring[j]
           /\ \A j \in 1..l : ring'[Len(ring) + j] = stream[taken + j]
<1>1. /\ stream \in Seq(Bytes) /\ ring \in Seq(Bytes) /\ total \in Nat
      /\ Len(stream) \in Nat /\ Len(ring) \in Nat /\ Want \in Nat
      /\ arrived \in 0..Len(stream) /\ taken \in 0..arrived
      /\ total < Want /\ taken < arrived
  BY WantNat DEF ReaderTypes, Recv
<1>2. PICK k : k = Least(Want - total, arrived - taken)
  OBVIOUS
<1>3. /\ k \in 1..(arrived - taken) /\ total + k <= Want
  BY <1>1, <1>2 DEF Least
<1>4. PICK u, b : u = Unread /\ b = SubSeq(u, 1, k)
  OBVIOUS
<1>5. /\ u \in Seq(Bytes) /\ Len(u) = arrived - taken
      /\ \A j \in 1..(arrived - taken) : u[j] = stream[taken + j]
  BY <1>1, <1>4, SliceView DEF Unread
<1>6. /\ b \in Seq(Bytes) /\ Len(b) = k /\ \A j \in 1..k : b[j] = stream[taken + j]
  <2>1. k \in Int /\ k <= Len(u)
    BY <1>1, <1>3, <1>5
  <2>2. b \in Seq(Bytes) /\ Len(b) = k /\ \A j \in 1..k : b[j] = u[j]
    BY <1>3, <1>4, <1>5, <2>1, PrefixView
  <2> QED BY <1>1, <1>3, <1>5, <2>2
<1>7. PICK h, f : h = Least(Len(b), RingMax - Len(ring)) /\ f = SubSeq(b, 1, h)
  OBVIOUS
<1>8. /\ h \in Int /\ h <= k /\ (Len(ring) + k <= RingMax => h = k)
      /\ Len(ring) + h <= RingMax
  BY <1>1, <1>3, <1>6, <1>7, SizesAssumption DEF Least
<1>9. PICK l \in Nat : l = IF 0 < h THEN h ELSE 0
  BY <1>8
<1>10. /\ f \in Seq(Bytes) /\ Len(f) = l /\ \A j \in 1..l : f[j] = stream[taken + j]
  <2>1. f \in Seq(Bytes) /\ Len(f) = l /\ \A j \in 1..h : f[j] = b[j]
    BY <1>6, <1>7, <1>8, <1>9, PrefixView
  <2> QED BY <1>3, <1>6, <1>8, <1>9, <2>1
<1>11. ring' = ring \o f /\ taken' = taken + k /\ total' = total + k
  BY <1>2, <1>4, <1>7 DEF Recv, BulkPush
<1>12. /\ ring' \in Seq(Bytes) /\ Len(ring') = Len(ring) + l
       /\ \A j \in 1..Len(ring) + l :
            ring'[j] = IF j <= Len(ring) THEN ring[j] ELSE f[j - Len(ring)]
  BY <1>1, <1>10, <1>11, ConcatProperties
<1>13. \A j \in 1..Len(ring) : ring'[j] = ring[j]
  BY <1>1, <1>12
<1>14. ASSUME NEW j \in 1..l PROVE ring'[Len(ring) + j] = stream[taken + j]
  <2>1. /\ Len(ring) + j \in 1..Len(ring) + l /\ ~(Len(ring) + j <= Len(ring))
        /\ Len(ring) + j - Len(ring) = j
    BY <1>1
  <2> QED BY <1>10, <1>12, <2>1
<1>15. /\ l <= k /\ (Len(ring) + k <= RingMax => l = k)
       /\ Len(ring) <= RingMax => Len(ring) + l <= RingMax
  BY <1>1, <1>3, <1>8, <1>9, SizesAssumption
<1> QED BY <1>3, <1>11, <1>12, <1>13, <1>14, <1>15

\* recvbytes returns, and no reset was reported.
LEMMA ReturnsView ==
  ASSUME ReaderTypes, NEW v, RecvbytesReturns(v)
  PROVE  /\ total' = 0 /\ UNCHANGED <<mode, stream, arrived, taken, delivered>>
         /\ v \in Int /\ peer' \in {peer, "gone"}
         /\ peer' # "gone" =>
              /\ peer' = peer
              /\ \/ total >= Want /\ v = total
                 \/ /\ total < Want /\ taken = arrived /\ v = total
                    /\ ~(peer = "eof" /\ taken = Len(stream))
                 \/ /\ total < Want /\ taken = Len(stream) /\ v = 0
                    /\ peer = "eof"
  BY DEF ReaderTypes, RecvbytesReturns, AtEof

\* The header is taken off the ring.
LEMMA HeaderView ==
  ASSUME ReaderTypes, HeaderDone
  PROVE  /\ header' \in Seq(Bytes) /\ ring' \in Seq(Bytes) /\ tlen' \in Nat
         /\ pc' = "body"
         /\ HeadLen <= Len(ring) =>
              /\ Len(header') = HeadLen /\ Len(ring') = Len(ring) - HeadLen
              /\ \A j \in 1..HeadLen : header'[j] = ring[j]
              /\ \A j \in 1..(Len(ring) - HeadLen) : ring'[j] = ring[HeadLen + j]
              /\ (\A j \in 1..HeadLen : ring[j].i = j) => tlen' = ring[1].len
<1>1. ring \in Seq(Bytes) /\ Len(ring) \in Nat /\ HeadLen \in Nat /\ HeadLen > 0
  BY SizesAssumption DEF ReaderTypes
<1>2. PICK h, b : h = Least(HeadLen, Len(ring)) /\ b = SubSeq(ring, 1, h)
  OBVIOUS
<1>3. /\ header' = b /\ ring' = SubSeq(ring, h + 1, Len(ring)) /\ pc' = "body"
      /\ tlen' \in LengthIn(b)
  BY <1>2 DEF HeaderDone
<1>4. /\ h \in Nat /\ h <= Len(ring) /\ h <= HeadLen
      /\ HeadLen <= Len(ring) => h = HeadLen
  BY <1>1, <1>2 DEF Least
<1>5. /\ b \in Seq(Bytes) /\ Len(b) = h /\ \A j \in 1..h : b[j] = ring[j]
  BY <1>1, <1>2, <1>4, PrefixView
<1>6. /\ ring' \in Seq(Bytes) /\ Len(ring') = Len(ring) - h
      /\ \A j \in 1..(Len(ring) - h) : ring'[j] = ring[h + j]
  <2>1. PICK s, a, e : s = ring /\ a = h /\ e = Len(ring)
    OBVIOUS
  <2>2. /\ SubSeq(s, a + 1, e) \in Seq(Bytes)
        /\ Len(SubSeq(s, a + 1, e)) = IF a < e THEN e - a ELSE 0
        /\ \A j \in 1..(e - a) : SubSeq(s, a + 1, e)[j] = s[a + j]
    BY <1>1, <1>4, <2>1, SliceView
  <2> QED BY <1>1, <1>3, <1>4, <2>1, <2>2
<1>7. tlen' \in Nat
  <2>1. Len(b) = HeadLen => b[1] \in Bytes
    BY <1>1, <1>5, ElementOfSeq
  <2>2. Len(b) = HeadLen => b[1].len \in Nat
    BY <2>1 DEF Bytes
  <2>3. (Len(b) = HeadLen /\ tlen' = b[1].len) \/ tlen' \in Lens \/ tlen' = 0
    BY <1>3 DEF LengthIn
  <2>4. tlen' \in Lens => tlen' \in Nat
    BY LensNat
  <2>5. tlen' = 0 => tlen' \in Nat
    OBVIOUS
  <2> QED BY <2>2, <2>3, <2>4, <2>5
<1>8. ASSUME HeadLen <= Len(ring), \A j \in 1..HeadLen : ring[j].i = j
      PROVE  tlen' = ring[1].len
  <2>1. Len(b) = HeadLen /\ \A j \in 1..HeadLen : b[j] = ring[j]
    BY <1>4, <1>5, <1>8
  <2>2. \A j \in 1..HeadLen : b[j].i = j
    BY <1>8, <2>1
  <2>3. tlen' = b[1].len
    BY <1>3, <2>1, <2>2 DEF LengthIn
  <2> QED BY <1>1, <2>1, <2>3
<1> QED BY <1>3, <1>4, <1>5, <1>6, <1>7, <1>8

LEMMA DeliverView ==
  ASSUME ReaderTypes, Deliver
  PROVE  \E q \in Seq(Bytes) :
           /\ delivered' = Append(delivered, q) /\ Want <= Len(ring) /\ total = 0
           /\ Len(q) = Len(header) + Want
           /\ \A j \in 1..Len(header) : q[j] = header[j]
           /\ \A j \in 1..Want : q[Len(header) + j] = ring[j]
<1>1. /\ ring \in Seq(Bytes) /\ Len(ring) \in Nat /\ header \in Seq(Bytes)
      /\ Want \in Nat /\ Len(header) \in Nat
      /\ total = 0 /\ Want <= Len(ring)
  BY WantNat DEF ReaderTypes, Deliver, Reading
<1>2. PICK b : b = SubSeq(ring, 1, Want)
  OBVIOUS
<1>3. b \in Seq(Bytes) /\ Len(b) = Want /\ \A j \in 1..Want : b[j] = ring[j]
  BY <1>1, <1>2, PrefixView
<1>4. PICK q : q = header \o b
  OBVIOUS
<1>5. /\ q \in Seq(Bytes) /\ Len(q) = Len(header) + Want
      /\ \A j \in 1..Len(header) + Want :
           q[j] = IF j <= Len(header) THEN header[j] ELSE b[j - Len(header)]
  BY <1>1, <1>3, <1>4, ConcatProperties
<1>6. \A j \in 1..Len(header) : q[j] = header[j]
  BY <1>1, <1>5
<1>7. ASSUME NEW j \in 1..Want PROVE q[Len(header) + j] = ring[j]
  <2>1. /\ Len(header) + j \in 1..Len(header) + Want
        /\ ~(Len(header) + j <= Len(header)) /\ Len(header) + j - Len(header) = j
    BY <1>1
  <2> QED BY <1>3, <1>5, <2>1
<1> QED BY <1>1, <1>2, <1>4, <1>5, <1>6, <1>7 DEF Deliver

LEMMA TypesStep ==
  ASSUME ReaderTypes, Next PROVE ReaderTypes'
<1> USE DEF ReaderTypes
<1>0. Len(stream) \in Nat
  OBVIOUS
<1>1. ASSUME NEW l \in Lens, Send(l) PROVE ReaderTypes'
  <2>1. stream' \in Seq(Bytes) /\ Len(stream') = Len(stream) + l /\ l \in Nat
    BY <1>1, SendView, LensNat
  <2>2. arrived \in 0..Len(stream')
    BY <1>0, <2>1
  <2> QED BY <1>1, <2>1, <2>2 DEF Send
<1>2. ASSUME NEW k \in 1..Len(stream), Arrive(k) PROVE ReaderTypes'
  BY <1>0, <1>2 DEF Arrive
<1>3. ASSUME NEW how \in {"eof", "reset"}, Close(how) PROVE ReaderTypes'
  BY <1>3 DEF Close
<1>4. ASSUME NEW k \in 0..Len(stream), Cut(k) PROVE ReaderTypes'
  <2>1. /\ stream' \in Seq(Bytes) /\ Len(stream') = k /\ k \in arrived..Len(stream)
    BY <1>0, <1>4, CutView
  <2>2. arrived \in 0..Len(stream')
    BY <1>0, <2>1
  <2> QED BY <1>4, <2>1, <2>2 DEF Cut
<1>5. CASE Start
  BY <1>5 DEF Start, netVars
<1>6. CASE Recv
  <2>1. PICK k \in 1..(arrived - taken) :
          /\ taken' = taken + k /\ total' = total + k /\ ring' \in Seq(Bytes)
    BY <1>6, RecvView
  <2>2. taken' \in 0..arrived /\ total' \in Nat
    BY <1>0, <2>1
  <2> QED BY <1>6, <2>1, <2>2 DEF Recv, netVars
<1>7. ASSUME NEW v, RecvbytesReturns(v)
      PROVE  /\ total' = 0 /\ UNCHANGED <<mode, stream, arrived, taken, delivered>>
             /\ peer' \in {"open", "stalled", "eof", "reset", "gone"}
  BY <1>7, ReturnsView
<1>8. CASE HeaderNothing
  BY <1>7, <1>8 DEF HeaderNothing, ReturnNull
<1>9. CASE HeaderMore
  <2>1. n' \in Nat
    BY <1>9, SizesAssumption DEF HeaderMore
  <2> QED BY <1>7, <1>9, <2>1 DEF HeaderMore
<1>10. CASE HeaderDone
  <2>1. /\ header' \in Seq(Bytes) /\ ring' \in Seq(Bytes) /\ tlen' \in Nat
        /\ pc' = "body"
    BY <1>10, HeaderView
  <2> QED BY <1>7, <1>10, <2>1 DEF HeaderDone
<1>11. CASE BodyMore
  BY <1>7, <1>11 DEF BodyMore
<1>12. CASE Deliver
  <2>1. delivered' \in Seq(Seq(Bytes))
    <3>1. PICK q \in Seq(Bytes) : delivered' = Append(delivered, q)
      BY <1>12, DeliverView
    <3> QED BY <3>1
  <2> QED BY <1>12, <2>1 DEF Deliver, netVars
<1> QED BY <1>1, <1>2, <1>3, <1>4, <1>5, <1>6, <1>8, <1>9, <1>10, <1>11, <1>12
        DEF Next, Reader
-----------------------------------------------------------------------------
(***************************************************************************)
(* The stream.                                                             *)
(***************************************************************************)
\* A byte and the packet it is in.
LEMMA ByteView ==
  ASSUME ReaderTypes, StreamInv, NEW p \in 1..Len(stream)
  PROVE  /\ stream[p] \in Bytes /\ ByteAt(p)
         /\ stream[p].i \in Nat /\ stream[p].len \in Nat /\ stream[p].pkt \in Nat
         /\ stream[p].i \in 1..stream[p].len /\ Origin(p) \in Nat /\ Origin(p) < p
         /\ stream[p].len \in Lens
<1>1. stream[p] \in Bytes /\ Len(stream) \in Nat
  BY ElementOfSeq DEF ReaderTypes
<1>2. ByteAt(p)
  BY DEF StreamInv
<1> QED BY <1>1, <1>2 DEF ByteAt, Bytes, Origin

\* The packet that starts behind byte b.
LEMMA PacketAt ==
  ASSUME ReaderTypes, StreamInv, NEW b \in Nat, b < Len(stream),
         stream[b + 1].i = 1
  PROVE  /\ stream[b + 1].len \in Lens /\ stream[b + 1].pkt \in Nat
         /\ \A j \in 1..stream[b + 1].len : b + j <= Len(stream) =>
              stream[b + j] = [pkt |-> stream[b + 1].pkt, i |-> j,
                               len |-> stream[b + 1].len]
<1>0. Len(stream) \in Nat
  BY DEF ReaderTypes
<1>1. PICK p : p = b + 1
  OBVIOUS
<1>2. p \in 1..Len(stream)
  BY <1>0, <1>1
<1>3. Origin(p) = b /\ ByteAt(p) /\ stream[p].len \in Lens /\ stream[p].pkt \in Nat
  BY <1>1, <1>2, ByteView DEF Origin
<1>4. ASSUME NEW j \in 1..stream[p].len, b + j <= Len(stream)
      PROVE  stream[b + j] = [pkt |-> stream[p].pkt, i |-> j, len |-> stream[p].len]
  <2>0. stream[p].len \in Nat
    BY <1>3, LensNat
  <2>1. /\ b + j \in 1..Len(stream) /\ b < b + j /\ b + j <= b + stream[p].len
        /\ b + j - b = j
    BY <1>0, <1>4, <2>0
  <2> QED BY <1>3, <2>1 DEF ByteAt
<1> QED BY <1>1, <1>3, <1>4

LEMMA StreamSend ==
  ASSUME ReaderTypes, StreamInv, NEW l \in Lens, Send(l) PROVE StreamInv'
<1>1. PICK e, s : e = Len(stream) /\ s = Sent
  OBVIOUS
<1>2. /\ e \in Nat /\ l \in Nat \ {0} /\ Len(stream') = e + l /\ s \in Nat
      /\ s = IF e = 0 THEN 0 ELSE stream[e].pkt
      /\ peer = "open" /\ peer' = "open"
  <2>1. l \in Nat \ {0}
    BY LensNat
  <2>2. Len(stream') = e + l /\ e \in Nat
    BY <1>1, SendView DEF ReaderTypes
  <2>3. s \in Nat /\ s = IF e = 0 THEN 0 ELSE stream[e].pkt
    BY <1>1, SentView
  <2> QED BY <2>1, <2>2, <2>3 DEF Send
<1>3. /\ \A p \in 1..e : stream'[p] = stream[p]
      /\ \A j \in 1..l : stream'[e + j] = [pkt |-> s + 1, i |-> j, len |-> l]
  BY <1>1, SendView
<1>4. ASSUME NEW p \in 1..e PROVE Origin(p) + stream[p].len <= e
  <2>1. PICK o, k : o = Origin(p) /\ k = stream[p].len
    OBVIOUS
  <2>2. o \in Nat /\ k \in Nat /\ o < p /\ ByteAt(p)
    BY <1>1, <2>1, ByteView
  <2>3. e \in 1..e /\ stream[e].i = stream[e].len
    BY <1>1, <1>2 DEF StreamInv
  <2>4. ASSUME e < o + k PROVE FALSE
    <3>1. o < e /\ e <= o + k
      BY <1>2, <2>2, <2>4
    <3>2. stream[e] = [pkt |-> stream[p].pkt, i |-> e - o, len |-> k]
      BY <1>1, <2>1, <2>2, <2>3, <3>1 DEF ByteAt
    <3>3. e - o = k
      BY <2>3, <3>2
    <3> QED BY <1>2, <2>2, <2>4, <3>3
  <2> QED BY <1>2, <2>1, <2>2, <2>4
<1>5. ASSUME NEW p \in 1..e PROVE ByteAt(p)'
  <2>1. /\ stream'[p] = stream[p] /\ Origin(p)' = Origin(p) /\ ByteAt(p)
        /\ stream[p] \in Bytes
    BY <1>1, <1>3, <1>5, ByteView DEF Origin
  <2>2. PICK o, b : o = Origin(p) /\ b = stream[p]
    OBVIOUS
  <2>3. o \in Nat /\ b.i \in 1..b.len /\ b.len \in Lens /\ b.i <= p
    BY <1>1, <1>5, <2>1, <2>2, ByteView DEF ByteAt
  <2>4. ASSUME NEW q \in 1..Len(stream'), o < q, q <= o + b.len
        PROVE  stream'[q] = [pkt |-> b.pkt, i |-> q - o, len |-> b.len]
    <3>0. o + b.len <= e /\ b.len \in Nat
      BY <1>4, <1>5, <2>2, <2>3, LensNat
    <3>1. q \in 1..e
      BY <1>2, <2>3, <2>4, <3>0
    <3> QED BY <1>1, <1>3, <2>1, <2>2, <2>4, <3>1 DEF ByteAt
  <2>5. ASSUME b.i = b.len, p < Len(stream')
        PROVE  stream'[p + 1].i = 1 /\ stream'[p + 1].pkt = b.pkt + 1
    <3>1. CASE p < e
      <4>1. p + 1 \in 1..e
        BY <1>2, <3>1
      <4> QED BY <1>1, <1>3, <2>1, <2>2, <2>5, <3>1, <4>1 DEF ByteAt
    <3>2. CASE p = e
      <4>1. 1 \in 1..l
        BY <1>2
      <4>2. stream'[p + 1] = [pkt |-> s + 1, i |-> 1, len |-> l]
        BY <1>3, <3>2, <4>1
      <4>3. b.pkt = s
        BY <1>2, <1>5, <2>2, <3>2
      <4> QED BY <4>2, <4>3
    <3> QED BY <1>2, <3>1, <3>2
  <2> QED BY <2>1, <2>2, <2>3, <2>4, <2>5 DEF ByteAt
<1>6. ASSUME NEW j \in 1..l, NEW p, p = e + j PROVE ByteAt(p)'
  <2>1. stream'[p] = [pkt |-> s + 1, i |-> j, len |-> l] /\ p \in Nat
    BY <1>2, <1>3, <1>6
  <2>2. Origin(p)' = e
    BY <1>2, <1>6, <2>1 DEF Origin
  <2>3. ASSUME NEW q \in 1..Len(stream'), e < q, q <= e + l
        PROVE  stream'[q] = [pkt |-> s + 1, i |-> q - e, len |-> l]
    <3>1. q - e \in 1..l /\ e + (q - e) = q
      BY <1>2, <2>3
    <3> QED BY <1>3, <3>1
  <2>4. j <= p /\ (j = l => ~(p < Len(stream')))
    BY <1>2, <1>6
  <2> QED BY <1>6, <2>1, <2>2, <2>3, <2>4 DEF ByteAt
<1>7. \A p \in 1..Len(stream') : ByteAt(p)'
  <2> SUFFICES ASSUME NEW p \in 1..Len(stream') PROVE ByteAt(p)'
    OBVIOUS
  <2>1. CASE p <= e
    BY <1>2, <1>5, <2>1
  <2>2. CASE p > e
    <3>1. p - e \in 1..l /\ p = e + (p - e)
      BY <1>2, <2>2
    <3> QED BY <1>6, <3>1
  <2> QED BY <1>2, <2>1, <2>2
<1>8. stream'[1].i = 1 /\ stream'[1].pkt = 1
  <2>1. CASE e = 0
    <3>1. 1 \in 1..l /\ e + 1 = 1
      BY <1>2, <2>1
    <3> QED BY <1>2, <1>3, <2>1, <3>1
  <2>2. CASE e > 0
    BY <1>1, <1>2, <1>3, <2>2 DEF StreamInv
  <2> QED BY <1>2, <2>1, <2>2
<1>9. stream'[Len(stream')].i = stream'[Len(stream')].len
  <2>1. l \in 1..l
    BY <1>2
  <2>2. stream'[e + l] = [pkt |-> s + 1, i |-> l, len |-> l]
    BY <1>3, <2>1
  <2> QED BY <1>2, <2>2
<1> QED BY <1>7, <1>8, <1>9 DEF StreamInv

LEMMA StreamCut ==
  ASSUME ReaderTypes, StreamInv, NEW k \in Nat, Cut(k) PROVE StreamInv'
<1>1. /\ Len(stream') = k /\ k <= Len(stream) /\ Len(stream) \in Nat
      /\ \A p \in 1..k : stream'[p] = stream[p] /\ p \in 1..Len(stream)
      /\ peer' # "open"
  BY CutView DEF Cut, ReaderTypes
<1>2. ASSUME NEW p \in 1..k PROVE ByteAt(p)'
  <2>1. stream'[p] = stream[p] /\ Origin(p)' = Origin(p) /\ ByteAt(p)
    BY <1>1, <1>2, ByteView DEF Origin
  <2>2. p < k => p + 1 \in 1..k /\ p < Len(stream)
    BY <1>1
  <2> QED BY <1>1, <2>1, <2>2 DEF ByteAt
<1>3. k > 0 => stream'[1] = stream[1] /\ Len(stream) > 0
  BY <1>1
<1> QED BY <1>1, <1>2, <1>3 DEF StreamInv

LEMMA StreamStep ==
  ASSUME ReaderTypes, StreamInv, Next PROVE StreamInv'
<1>1. ASSUME UNCHANGED stream, peer' = "open" => peer = "open" PROVE StreamInv'
  BY <1>1 DEF StreamInv, ByteAt, Origin
<1>2. CASE \E k \in 1..Len(stream) : Arrive(k)
  BY <1>1, <1>2 DEF Arrive
<1>3. CASE \E how \in {"eof", "reset"} : Close(how)
  BY <1>1, <1>3 DEF Close
<1>4. ASSUME NEW v, RecvbytesReturns(v) PROVE StreamInv'
  BY <1>1, <1>4, ReturnsView
<1>5. CASE Start \/ Recv \/ Deliver
  BY <1>1, <1>5 DEF Start, Recv, Deliver, netVars
<1>6. CASE HeaderNothing \/ HeaderMore \/ HeaderDone \/ BodyMore
  BY <1>4, <1>6 DEF HeaderNothing, HeaderMore, HeaderDone, BodyMore
<1>7. ASSUME NEW k \in 0..Len(stream), Cut(k) PROVE StreamInv'
  <2>1. k \in Nat
    BY DEF ReaderTypes
  <2> QED BY <1>7, <2>1, StreamCut
<1> QED BY <1>2, <1>3, <1>5, <1>6, <1>7, StreamSend DEF Next, Reader
-----------------------------------------------------------------------------
(***************************************************************************)
(* The reader.                                                             *)
(***************************************************************************)
LEMMA PlacedView ==
  ASSUME ReaderTypes, StreamInv, Placed
  PROVE  /\ Held \in Nat /\ Base \in Nat /\ taken = Base + Held /\ Len(ring) \in Nat
         /\ taken \in Nat /\ arrived \in Nat /\ Len(stream) \in Nat
         /\ taken <= arrived /\ arrived <= Len(stream) /\ HeadLen \in Nat \ {0}
         /\ pc = "body" => /\ Base < Len(stream) /\ Want <= RingMax /\ Want \in Nat
                           /\ stream[Base + 1].len = HeadLen + Want
<1>1. /\ Len(ring) \in Nat /\ taken \in Nat /\ arrived \in Nat
      /\ Len(stream) \in Nat /\ taken <= arrived /\ arrived <= Len(stream)
      /\ HeadLen \in Nat \ {0} /\ tlen \in Nat
  BY SizesAssumption DEF ReaderTypes
<1>2. Held \in Nat /\ (pc = "body" => Held >= HeadLen)
  BY <1>1 DEF Held
<1>3. Base \in Nat /\ taken = Base + Held
  BY <1>1, <1>2 DEF Placed, AtBoundary, Base
<1>4. ASSUME pc = "body"
      PROVE  /\ Base < Len(stream) /\ Want <= RingMax /\ Want \in Nat
             /\ stream[Base + 1].len = HeadLen + Want
  <2>1. Base < Len(stream)
    BY <1>1, <1>2, <1>3, <1>4
  <2>2. stream[Base + 1].i = 1 /\ tlen = stream[Base + 1].len
    BY <1>4, <2>1 DEF Placed, AtBoundary, Fetched
  <2>3. tlen \in Lens
    BY <1>3, <2>1, <2>2, PacketAt
  <2>4. Want = tlen - HeadLen /\ Want \in Nat
    BY <1>1, <1>4, <2>3, WantNat
  <2>5. Want <= RingMax
    BY <1>4 DEF Placed, Fetched
  <2> QED BY <1>1, <2>1, <2>2, <2>4, <2>5
<1> QED BY <1>1, <1>2, <1>3, <1>4

\* The packet being read.
LEMMA CurrentPacket ==
  ASSUME ReaderTypes, StreamInv, Placed, Base < Len(stream)
  PROVE  \E k \in Nat :
           /\ k = stream[Base + 1].len /\ HeadLen <= k /\ k \in Lens
           /\ \A j \in 1..k : Base + j <= Len(stream) =>
                stream[Base + j] = [pkt |-> Len(delivered) + 1, i |-> j, len |-> k]
           /\ mode = "whole" /\ Base < arrived => Base + k <= arrived
<1>1. /\ Base \in Nat /\ arrived \in Nat /\ Len(stream) \in Nat
      /\ arrived <= Len(stream)
  BY PlacedView
<1>2. stream[Base + 1].i = 1 /\ stream[Base + 1].pkt = Len(delivered) + 1
  BY DEF Placed, AtBoundary
<1>3. PICK k : k = stream[Base + 1].len
  OBVIOUS
<1>4. /\ k \in Lens
      /\ \A j \in 1..k : Base + j <= Len(stream) =>
           stream[Base + j] = [pkt |-> Len(delivered) + 1, i |-> j, len |-> k]
  BY <1>1, <1>2, <1>3, PacketAt
<1>5. k \in Nat /\ HeadLen <= k
  BY <1>4, SizesAssumption
<1>6. ASSUME mode = "whole", Base < arrived, arrived < Base + k PROVE FALSE
  <2>1. PICK j : j = arrived - Base
    OBVIOUS
  <2>2. j \in 1..k /\ Base + j = arrived /\ j < k
    BY <1>1, <1>5, <1>6, <2>1
  <2>3. stream[arrived] = [pkt |-> Len(delivered) + 1, i |-> j, len |-> k]
    BY <1>1, <1>4, <2>2
  <2>4. stream[arrived].i = stream[arrived].len
    BY <1>1, <1>6 DEF Placed, WholePackets
  <2> QED BY <1>5, <2>2, <2>3, <2>4
<1> QED BY <1>1, <1>3, <1>4, <1>5, <1>6

LEMMA StartStep ==
  ASSUME ReaderTypes, StreamInv, ReadInv, Start PROVE ReadInv'
<1>1. /\ pc = "poll" /\ pc' = "header" /\ n' = 0 /\ ring' = <<>> /\ Len(ring') = 0
      /\ UNCHANGED <<mode, stream, arrived, peer, taken, total, delivered>>
  BY DEF Start, netVars
<1>2. CASE Drained
  BY <1>1, <1>2 DEF Drained, ReadInv
<1>3. CASE Placed
  <2>1. Held = 0 /\ Held' = 0 /\ Base' = Base
    BY <1>1 DEF Held, Base
  <2>2. AtBoundary' /\ OnePacket'
    BY <1>1, <1>3, <2>1 DEF Placed, AtBoundary, OnePacket
  <2>3. Fetched'
    BY <1>1, <2>1 DEF Fetched
  <2>4. Counted'
    BY <1>1, <1>3, SizesAssumption DEF Placed, Counted
  <2>5. WholePackets'
    BY <1>1, <1>3 DEF Placed, WholePackets
  <2> QED BY <2>2, <2>3, <2>4, <2>5 DEF Placed, ReadInv
<1> QED BY <1>2, <1>3 DEF ReadInv

\* What is taken from the socket fits the ring, and is of the same packet.
LEMMA RecvStep ==
  ASSUME ReaderTypes, StreamInv, ReadInv, mode # "any", Recv PROVE ReadInv'
<1>0. /\ pc \in {"header", "body"} /\ mode \in {"one", "whole"} /\ taken < arrived
      /\ UNCHANGED <<mode, stream, arrived, peer, pc, n, header, tlen, delivered>>
      /\ Reading /\ total \in Nat /\ Len(ring) \in Nat
  BY NamesAssumption DEF Recv, Reading, ReaderTypes, netVars
<1>1. Placed
  <2>1. arrived <= Len(stream) /\ taken \in Nat /\ arrived \in Nat
    BY DEF ReaderTypes
  <2> QED BY <1>0, <2>1 DEF ReadInv, Drained
<1>2. PICK k \in 1..(arrived - taken), l \in Nat :
        /\ l <= k /\ (Len(ring) + k <= RingMax => l = k)
        /\ taken' = taken + k /\ total' = total + k /\ total + k <= Want
        /\ ring' \in Seq(Bytes) /\ Len(ring') = Len(ring) + l
        /\ \A j \in 1..Len(ring) : ring'[j] = ring[j]
        /\ \A j \in 1..l : ring'[Len(ring) + j] = stream[taken + j]
  BY RecvView
<1>3. PICK b, h : b = Base /\ h = Held
  OBVIOUS
<1>4. /\ h \in Nat /\ b \in Nat /\ taken = b + h /\ taken \in Nat /\ arrived \in Nat
      /\ arrived <= Len(stream) /\ Len(stream) \in Nat /\ b < Len(stream)
      /\ b < arrived /\ HeadLen \in Nat \ {0} /\ RingMax \in Nat
      /\ RingMax >= 2 * HeadLen - 1
  BY <1>0, <1>1, <1>3, PlacedView, SizesAssumption
<1>5. PICK m \in Nat :
        /\ m = stream[b + 1].len /\ HeadLen <= m
        /\ mode = "whole" => b + m <= arrived
  BY <1>1, <1>3, <1>4, CurrentPacket
<1>6. /\ k \in Nat /\ 0 < k /\ taken + k <= arrived /\ taken' = taken + k
       /\ Len(ring) \in Nat /\ Len(ring') = Len(ring) + l
       /\ total \in Nat /\ total' = total + k
  BY <1>0, <1>2, <1>4
<1>7. mode = "one" => h + k <= m
  <2>1. mode = "one" => Len(stream) <= b + m
    BY <1>1, <1>3, <1>4, <1>5 DEF Placed, OnePacket
  <2> QED BY <1>4, <1>5, <1>6, <2>1
<1>8. CASE pc = "header"
  <2>1. /\ h = Len(ring) /\ Want = HeadLen /\ Want' = HeadLen /\ n < HeadLen
        /\ Len(ring) = n + total /\ n \in Nat
    BY <1>0, <1>1, <1>3, <1>4, <1>8
    DEF Held, Want, Placed, Counted, ReaderTypes
  <2>2. Len(ring) + k <= RingMax
    <3>1. total + k <= HeadLen
      BY <1>2, <2>1
    <3> QED BY <1>4, <1>6, <2>1, <3>1
  <2>3. l = k /\ Len(ring') = h + k /\ Held' = h + k
    BY <1>0, <1>2, <1>8, <2>1, <2>2 DEF Held
  <2>4. mode = "whole" => n = 0
    BY <1>1, <1>8 DEF Placed, WholePackets
  <2>5. h + k <= m
    BY <1>0, <1>2, <1>4, <1>5, <1>7, <2>1, <2>4
  <2>6. Base' = b /\ Len(ring') = n + (total + k) /\ total + k <= HeadLen
    BY <1>0, <1>2, <1>4, <2>1, <2>3 DEF Base
  <2>7. AtBoundary' /\ OnePacket'
    BY <1>0, <1>1, <1>3, <2>6 DEF Placed, AtBoundary, OnePacket
  <2>8. Counted'
    BY <1>0, <1>2, <1>8, <2>1, <2>6 DEF Counted
  <2>9. WholePackets'
    BY <1>0, <1>1, <1>8, <2>4 DEF Placed, WholePackets
  <2>10. Fetched'
    <3>1. ASSUME NEW j \in 1..Len(ring')
          PROVE  ring'[j] = stream[taken' - Len(ring') + j]
      <4>1. taken' - Len(ring') = b /\ taken = b + Len(ring)
        BY <1>4, <1>6, <2>1, <2>3
      <4>2. CASE j <= Len(ring)
        <5>1. ring[j] = stream[b + j]
          <6>1. j \in 1..Len(ring) /\ taken - Len(ring) = b
            BY <1>0, <1>4, <2>1, <4>2
          <6> QED BY <1>1, <1>8, <6>1 DEF Placed, Fetched
        <5>2. j \in 1..Len(ring)
          BY <1>6, <4>2
        <5>3. ring'[j] = ring[j]
          BY <1>2, <5>2
        <5> QED BY <4>1, <5>1, <5>3
      <4>3. CASE j > Len(ring)
        <5>1. PICK i : i = j - Len(ring)
          OBVIOUS
        <5>2. i \in 1..l /\ j = Len(ring) + i /\ taken + i = b + j
          BY <1>0, <1>2, <1>4, <4>1, <4>3, <5>1
        <5> QED BY <1>2, <4>1, <5>2
      <4> QED BY <1>0, <4>2, <4>3
    <3>2. Held' > 0 => Held' <= stream'[Base' + 1].len
      BY <1>0, <1>5, <2>3, <2>5, <2>6
    <3> QED BY <1>0, <1>8, <3>1, <3>2 DEF Fetched
  <2> QED BY <2>7, <2>8, <2>9, <2>10 DEF Placed, ReadInv
<1>9. CASE pc = "body"
  <2>1. /\ h = HeadLen + Len(ring) /\ Want \in Nat /\ Want' = Want
        /\ m = HeadLen + Want /\ Want <= RingMax
    <3>1. Want' = Want
      BY <1>0 DEF Want
    <3>2. /\ Want \in Nat /\ stream[b + 1].len = HeadLen + Want
          /\ Want <= RingMax
      BY <1>1, <1>3, <1>9, PlacedView
    <3> QED BY <1>3, <1>5, <1>9, <3>1, <3>2 DEF Held
  <2>2. mode = "whole" => Len(ring) = total
    BY <1>0, <1>1, <1>9, <2>1 DEF Placed, WholePackets, Reading
  <2>3. h + k <= m
    BY <1>0, <1>2, <1>4, <1>5, <1>7, <2>1, <2>2
  <2>4. Len(ring) + k <= RingMax
    BY <1>0, <1>2, <1>4, <1>5, <2>1, <2>3
  <2>5. l = k /\ Len(ring') = Len(ring) + k /\ Held' = h + k
    BY <1>0, <1>2, <1>4, <1>9, <2>1, <2>4 DEF Held
  <2>6. Base' = b
    BY <1>2, <1>4, <2>5 DEF Base
  <2>7. AtBoundary' /\ OnePacket'
    BY <1>0, <1>1, <1>3, <2>6 DEF Placed, AtBoundary, OnePacket
  <2>8. Counted'
    BY <1>0, <1>2, <1>9, <2>1 DEF Counted
  <2>9. WholePackets'
    <3>1. mode = "whole" => Len(ring') = total'
      BY <1>2, <2>2, <2>5
    <3> QED BY <1>0, <1>1, <1>9, <3>1 DEF Placed, WholePackets
  <2>10. Fetched'
    <3>0. PICK r : r = taken - Len(ring)
      OBVIOUS
    <3>1. ASSUME NEW j \in 1..Len(ring')
          PROVE  ring'[j] = stream[taken' - Len(ring') + j]
      <4>1. taken' - Len(ring') = r /\ taken = r + Len(ring) /\ r \in Int
        BY <1>0, <1>2, <1>4, <2>5, <3>0
      <4>2. CASE j <= Len(ring)
        <5>1. ring[j] = stream[r + j]
          <6>1. j \in 1..Len(ring)
            BY <1>0, <4>2
          <6> QED BY <1>1, <1>9, <3>0, <6>1 DEF Placed, Fetched
        <5> QED BY <1>2, <4>1, <4>2, <5>1
      <4>3. CASE j > Len(ring)
        <5>1. PICK i : i = j - Len(ring)
          OBVIOUS
        <5>2. i \in 1..l /\ j = Len(ring) + i /\ taken + i = r + j
          BY <1>0, <1>2, <1>4, <2>5, <4>1, <4>3, <5>1
        <5> QED BY <1>2, <4>1, <5>2
      <4> QED BY <1>0, <4>2, <4>3
    <3>2. Held' > 0 => Held' <= stream'[Base' + 1].len
      BY <1>0, <1>5, <2>3, <2>5, <2>6
    <3>3. /\ Len(header) = HeadLen /\ tlen = stream[b + 1].len
          /\ \A j \in 1..HeadLen : header[j] = stream[b + j]
      BY <1>1, <1>3, <1>9 DEF Placed, Fetched
    <3> QED BY <1>0, <1>9, <2>1, <2>6, <3>1, <3>2, <3>3 DEF Fetched
  <2> QED BY <2>7, <2>8, <2>9, <2>10 DEF Placed, ReadInv
<1> QED BY <1>0, <1>8, <1>9

\* The reader stays where it is.
LEMMA SamePlace ==
  ASSUME ReaderTypes, Placed, UNCHANGED <<mode, stream, taken, delivered>>,
         Held' = Held
  PROVE  AtBoundary' /\ OnePacket' /\ Base' = Base
<1>1. Base' = Base
  BY DEF Base
<1> QED BY <1>1 DEF Placed, AtBoundary, OnePacket

\* Nothing was read: at end of file what is held is given up, else nothing is.
LEMMA HeaderNothingStep ==
  ASSUME ReaderTypes, StreamInv, ReadInv, HeaderNothing, peer' # "gone"
  PROVE  ReadInv'
<1>1. PICK v : pc = "header" /\ RecvbytesReturns(v) /\ n + v = 0
  BY DEF HeaderNothing
<1>2. /\ pc' = "poll" /\ UNCHANGED <<ring, n, header, tlen>>
  BY DEF HeaderNothing, ReturnNull
<1>3. /\ total' = 0 /\ UNCHANGED <<mode, stream, arrived, taken, delivered, peer>>
      /\ \/ total >= Want /\ v = total
         \/ total < Want /\ taken = arrived /\ v = total
         \/ taken = Len(stream) /\ v = 0 /\ peer = "eof"
  BY <1>1, ReturnsView
<1>4. n \in Nat /\ total \in Nat /\ HeadLen \in Nat \ {0} /\ Want = HeadLen
  BY <1>1, SizesAssumption DEF ReaderTypes, Want
<1>5. CASE taken = Len(stream) /\ peer = "eof"
  BY <1>2, <1>3, <1>5 DEF ReadInv, Drained
<1>6. CASE ~(taken = Len(stream) /\ peer = "eof")
  <2>1. Placed
    BY <1>6 DEF ReadInv, Drained
  <2>2. n = 0 /\ total = 0
    BY <1>1, <1>3, <1>4, <1>6
  <2>3. Len(ring) = 0
    BY <1>1, <1>6, <2>1, <2>2 DEF Placed, Counted
  <2>4. Held = 0 /\ Held' = 0
    BY <1>1, <1>2, <2>3 DEF Held
  <2>5. AtBoundary' /\ OnePacket'
    BY <1>3, <2>1, <2>4, SamePlace
  <2>6. Fetched' /\ Counted'
    BY <1>2, <1>3, <2>4 DEF Fetched, Counted
  <2>7. WholePackets'
    BY <1>2, <1>3, <2>1 DEF Placed, WholePackets
  <2> QED BY <2>5, <2>6, <2>7 DEF Placed, ReadInv
<1> QED BY <1>5, <1>6

\* A header comes in pieces, which no packet that arrives whole does.
LEMMA HeaderMoreStep ==
  ASSUME ReaderTypes, StreamInv, ReadInv, HeaderMore, peer' # "gone"
  PROVE  ReadInv'
<1>1. PICK v : /\ pc = "header" /\ RecvbytesReturns(v)
               /\ n + v \in 1..(HeadLen - 1) /\ n' = n + v
  BY DEF HeaderMore
<1>2. pc' = "header" /\ UNCHANGED <<ring, header, tlen>>
  BY <1>1 DEF HeaderMore
<1>3. n \in Nat /\ total \in Nat /\ HeadLen \in Nat \ {0} /\ Want = HeadLen
  BY <1>1, SizesAssumption DEF ReaderTypes, Want
<1>4. /\ total' = 0 /\ UNCHANGED <<mode, stream, arrived, taken, delivered, peer>>
      /\ \/ total >= Want /\ v = total
         \/ /\ total < Want /\ taken = arrived /\ v = total
            /\ ~(peer = "eof" /\ taken = Len(stream))
         \/ taken = Len(stream) /\ v = 0 /\ peer = "eof"
  BY <1>1, ReturnsView
<1>5. \/ /\ total < HeadLen /\ taken = arrived /\ v = total
         /\ ~(peer = "eof" /\ taken = Len(stream))
      \/ taken = Len(stream) /\ v = 0 /\ peer = "eof"
  BY <1>1, <1>3, <1>4
<1>6. Placed
  <2>1. ASSUME Drained PROVE FALSE
    <3>1. n = 0 /\ peer = "eof" /\ taken = Len(stream)
      BY <1>1, <2>1 DEF Drained
    <3>2. v = 0
      BY <1>5, <3>1
    <3> QED BY <1>1, <1>3, <3>1, <3>2
  <2> QED BY <2>1 DEF ReadInv
<1>7. Held' = Held /\ Held = Len(ring)
  BY <1>1, <1>2 DEF Held
<1>8. AtBoundary' /\ OnePacket' /\ Base' = Base
  BY <1>4, <1>6, <1>7, SamePlace
<1>9. Fetched'
  BY <1>1, <1>2, <1>4, <1>6, <1>7, <1>8 DEF Placed, Fetched
<1>10. /\ n < HeadLen
       /\ \/ Len(ring) = n + total
          \/ /\ 0 < n /\ n < Len(ring) /\ total = 0
             /\ peer = "eof" /\ taken = Len(stream)
  BY <1>1, <1>6 DEF Placed, Counted
<1>11. Counted'
  <2>1. n' < HeadLen /\ n' \in Nat /\ 0 < n'
    BY <1>1, <1>3
  <2>2. CASE v = total /\ ~(peer = "eof" /\ taken = Len(stream))
    <3>1. Len(ring) = n' + 0
      BY <1>1, <1>3, <1>10, <2>2
    <3> QED BY <1>2, <1>3, <1>4, <2>1, <3>1 DEF Counted
  <2>3. CASE taken = Len(stream) /\ v = 0 /\ peer = "eof"
    <3>1. n' = n
      BY <1>1, <1>3, <2>3
    <3>2. Len(ring) = n' + 0 \/ n' < Len(ring)
      BY <1>3, <1>10, <3>1
    <3>3. \/ Len(ring') = n' + total'
          \/ /\ 0 < n' /\ n' < Len(ring') /\ total' = 0
             /\ peer' = "eof" /\ taken' = Len(stream')
      BY <1>2, <1>4, <2>1, <2>3, <3>2
    <3>4. total' <= HeadLen
      BY <1>3, <1>4
    <3> QED BY <1>2, <2>1, <3>3, <3>4 DEF Counted
  <2> QED BY <1>5, <2>2, <2>3
<1>12. WholePackets'
  <2>1. ASSUME mode = "whole" PROVE FALSE
    <3>1. n = 0
      BY <1>1, <1>6, <2>1 DEF Placed, WholePackets
    <3>2. v = total /\ total < HeadLen /\ 0 < total /\ taken = arrived
      BY <1>1, <1>3, <1>5, <3>1
    <3>3. Held = total
      BY <1>3, <1>7, <1>10, <3>1
    <3>4. /\ Base \in Nat /\ arrived = Base + total /\ Base < arrived
          /\ arrived <= Len(stream) /\ Len(stream) \in Nat /\ arrived \in Nat
      BY <1>3, <1>6, <3>2, <3>3, PlacedView
    <3>5. PICK k \in Nat : HeadLen <= k /\ Base + k <= arrived
      BY <1>6, <2>1, <3>4, CurrentPacket
    <3> QED BY <1>3, <3>2, <3>4, <3>5
  <2> QED BY <1>4, <2>1 DEF WholePackets
<1> QED BY <1>8, <1>9, <1>11, <1>12 DEF Placed, ReadInv

\* The header taken off the ring is the first part of the packet at Base, so
\* that the length read from it is that packet's.
LEMMA HeaderDoneStep ==
  ASSUME ReaderTypes, StreamInv, ReadInv, HeaderDone, peer' # "gone"
  PROVE  ReadInv' \/ Stuck'
<1>1. PICK v : pc = "header" /\ RecvbytesReturns(v) /\ HeaderEnough(n + v)
  BY DEF HeaderDone
<1>2. /\ n \in Nat /\ total \in Nat /\ HeadLen \in Nat \ {0} /\ Want = HeadLen
      /\ Len(ring) \in Nat
  BY <1>1, SizesAssumption DEF ReaderTypes, Want
<1>3. /\ total' = 0 /\ UNCHANGED <<mode, stream, arrived, taken, delivered, peer>>
      /\ \/ total >= Want /\ v = total
         \/ /\ total < Want /\ taken = arrived /\ v = total
            /\ ~(peer = "eof" /\ taken = Len(stream))
         \/ taken = Len(stream) /\ v = 0 /\ peer = "eof"
  BY <1>1, ReturnsView
<1>4. n + v >= HeadLen /\ (v = total \/ v = 0)
  BY <1>1, <1>2, <1>3 DEF HeaderEnough
<1>5. Placed
  <2>1. ASSUME Drained PROVE FALSE
    <3>1. n = 0 /\ total = 0
      BY <1>1, <2>1 DEF Drained
    <3> QED BY <1>2, <1>4, <3>1
  <2> QED BY <2>1 DEF ReadInv
<1>6. Len(ring) = n + total /\ HeadLen <= Len(ring) /\ total <= HeadLen
  <2>1. /\ n < HeadLen /\ total <= HeadLen
        /\ Len(ring) = n + total \/ total = 0
    BY <1>1, <1>5 DEF Placed, Counted
  <2>2. v = total /\ total # 0
    BY <1>2, <1>4, <2>1
  <2> QED BY <1>2, <1>4, <2>1, <2>2
<1>7. /\ Len(header') = HeadLen /\ Len(ring') = Len(ring) - HeadLen
      /\ \A j \in 1..HeadLen : header'[j] = ring[j]
      /\ \A j \in 1..(Len(ring) - HeadLen) : ring'[j] = ring[HeadLen + j]
      /\ (\A j \in 1..HeadLen : ring[j].i = j) => tlen' = ring[1].len
      /\ pc' = "body"
  BY <1>6, HeaderView
<1>8. Held = Len(ring) /\ Held' = Held
  BY <1>1, <1>2, <1>7 DEF Held
<1>9. AtBoundary' /\ OnePacket' /\ Base' = Base
  BY <1>3, <1>5, <1>8, SamePlace
<1>10. PICK b : b = Base
  OBVIOUS
<1>11. /\ b \in Nat /\ taken = b + Len(ring) /\ taken \in Nat
       /\ taken <= Len(stream) /\ Len(stream) \in Nat /\ b < Len(stream)
  BY <1>2, <1>5, <1>6, <1>8, <1>10, PlacedView
<1>12. PICK k \in Nat :
         /\ k = stream[b + 1].len /\ HeadLen <= k
         /\ \A j \in 1..k : b + j <= Len(stream) =>
              stream[b + j] = [pkt |-> Len(delivered) + 1, i |-> j, len |-> k]
  BY <1>5, <1>10, <1>11, CurrentPacket
<1>13. \A j \in 1..Len(ring) : ring[j] = stream[b + j]
  <2>1. taken - Len(ring) = b
    BY <1>2, <1>11
  <2> QED BY <1>1, <1>5, <2>1 DEF Placed, Fetched
<1>14. ASSUME NEW j \in 1..HeadLen
       PROVE  ring[j] = stream[b + j] /\ ring[j].i = j /\ ring[j].len = k
  <2>1. j \in 1..Len(ring) /\ j \in 1..k /\ b + j <= Len(stream)
    BY <1>2, <1>6, <1>11, <1>12
  <2>2. stream[b + j] = [pkt |-> Len(delivered) + 1, i |-> j, len |-> k]
    BY <1>12, <2>1
  <2> QED BY <1>13, <2>1, <2>2
<1>15. tlen' = k
  <2>1. 1 \in 1..HeadLen
    BY <1>2
  <2> QED BY <1>7, <1>14, <2>1
<1>16. Want' \in Nat
  <2>1. k \in Int /\ HeadLen \in Int /\ Word \in Nat /\ Word > 0
    BY <1>2, SizesAssumption
  <2>2. (k - HeadLen) % Word \in Nat
    BY <2>1
  <2> QED BY <1>7, <1>15, <2>2 DEF Want
<1>17. ASSUME RingMax < Want' PROVE Stuck'
  <2>1. n < HeadLen
    BY <1>1, <1>5 DEF Placed, Counted
  <2>2. Len(ring') <= RingMax
    BY <1>2, <1>6, <1>7, <2>1, SizesAssumption
  <2> QED BY <1>7, <1>17, <2>2 DEF Stuck
<1>18. ASSUME Want' <= RingMax PROVE Fetched'
  <2>1. ASSUME NEW j \in 1..Len(ring')
        PROVE  ring'[j] = stream[taken - Len(ring') + j]
    <3>1. /\ j \in 1..(Len(ring) - HeadLen) /\ HeadLen + j \in 1..Len(ring)
          /\ taken - Len(ring') + j = b + (HeadLen + j)
      BY <1>2, <1>6, <1>7, <1>11
    <3>2. ring'[j] = ring[HeadLen + j]
      BY <1>7, <3>1
    <3>3. ring[HeadLen + j] = stream[b + (HeadLen + j)]
      BY <1>13, <3>1
    <3> QED BY <3>1, <3>2, <3>3
  <2>2. \A j \in 1..HeadLen : header'[j] = stream[b + j]
    BY <1>7, <1>14
  <2>3. Held <= stream[b + 1].len
    BY <1>2, <1>5, <1>6, <1>8, <1>10 DEF Placed, Fetched
  <2> QED BY <1>3, <1>7, <1>8, <1>9, <1>10, <1>12, <1>15, <1>18, <2>1, <2>2, <2>3
          DEF Fetched
<1>19. Counted'
  BY <1>3, <1>7, <1>16 DEF Counted
<1>20. WholePackets'
  <2>1. mode = "whole" => n = 0
    BY <1>1, <1>5 DEF Placed, WholePackets
  <2>2. mode = "whole" => Len(ring') = 0
    BY <1>2, <1>6, <1>7, <2>1
  <2> QED BY <1>3, <1>5, <1>7, <2>2 DEF Placed, WholePackets
<1>21. RingMax < Want' \/ Want' <= RingMax
  BY <1>16, SizesAssumption
<1> QED BY <1>9, <1>17, <1>18, <1>19, <1>20, <1>21 DEF Placed, ReadInv

LEMMA BodyMoreStep ==
  ASSUME ReaderTypes, StreamInv, ReadInv, BodyMore, peer' # "gone"
  PROVE  ReadInv'
<1>1. PICK v : pc = "body" /\ RecvbytesReturns(v)
  BY DEF BodyMore
<1>2. pc' = "body" /\ UNCHANGED <<ring, n, header, tlen>>
  BY <1>1 DEF BodyMore
<1>3. /\ total' = 0 /\ UNCHANGED <<mode, stream, arrived, taken, delivered, peer>>
      /\ total >= Want \/ taken = arrived \/ taken = Len(stream)
  BY <1>1, ReturnsView
<1>4. Placed
  BY <1>1 DEF ReadInv, Drained
<1>5. Held' = Held /\ Held = HeadLen + Len(ring) /\ Want' = Want
  BY <1>1, <1>2 DEF Held, Want
<1>6. AtBoundary' /\ OnePacket' /\ Base' = Base
  BY <1>3, <1>4, <1>5, SamePlace
<1>7. Fetched'
  BY <1>1, <1>2, <1>3, <1>4, <1>5, <1>6 DEF Placed, Fetched
<1>8. /\ Want \in Nat /\ total \in Nat /\ Len(ring) \in Nat /\ Base \in Nat
      /\ HeadLen \in Nat \ {0} /\ taken = Base + Held /\ taken <= arrived
      /\ arrived <= Len(stream) /\ arrived \in Nat /\ Len(stream) \in Nat
      /\ Base < Len(stream) /\ stream[Base + 1].len = HeadLen + Want
  BY <1>1, <1>4, PlacedView DEF ReaderTypes
<1>9. Counted'
  BY <1>2, <1>3, <1>5, <1>8 DEF Counted
<1>10. WholePackets'
  <2>1. ASSUME mode = "whole" PROVE Len(ring) = 0 \/ Len(ring) = Want
    <3>1. Len(ring) = total \/ Len(ring) = Want
      BY <1>1, <1>4, <2>1 DEF Placed, WholePackets
    <3>2. total <= Want
      BY <1>1, <1>4 DEF Placed, Counted
    <3>3. ASSUME total < Want, Len(ring) = total PROVE FALSE
      <4>1. taken = arrived /\ Base < arrived
        BY <1>3, <1>5, <1>8, <3>3
      <4>2. Base + (HeadLen + Want) <= arrived
        BY <1>4, <1>8, <2>1, <4>1, CurrentPacket
      <4> QED BY <1>5, <1>8, <3>3, <4>1, <4>2
    <3> QED BY <1>8, <3>1, <3>2, <3>3
  <2> QED BY <1>2, <1>3, <1>4, <1>5, <2>1 DEF Placed, WholePackets
<1> QED BY <1>6, <1>7, <1>9, <1>10 DEF Placed, ReadInv

\* Header and body are the packet at Base, and the reader stands behind it.
LEMMA DeliverStep ==
  ASSUME ReaderTypes, StreamInv, ReadInv, Handed, Deliver
  PROVE  ReadInv' /\ Handed'
<1>1. /\ pc = "body" /\ pc' = "poll"
      /\ UNCHANGED <<mode, stream, arrived, peer, taken, ring, n, total, header, tlen>>
      /\ delivered \in Seq(Seq(Bytes)) /\ Len(delivered) \in Nat
  BY DEF Deliver, netVars, ReaderTypes
<1>2. Placed
  BY <1>1 DEF ReadInv, Drained
<1>3. PICK b, d : b = Base /\ d = Len(delivered)
  OBVIOUS
<1>4. /\ Want \in Nat /\ Len(ring) \in Nat /\ b \in Nat /\ d \in Nat
      /\ HeadLen \in Nat \ {0} /\ taken = b + Held /\ taken <= Len(stream)
      /\ Len(stream) \in Nat /\ taken \in Nat
      /\ b < Len(stream) /\ stream[b + 1].len = HeadLen + Want
  BY <1>1, <1>2, <1>3, PlacedView
<1>5. PICK q \in Seq(Bytes) :
        /\ delivered' = Append(delivered, q) /\ Want <= Len(ring) /\ total = 0
        /\ Len(q) = Len(header) + Want
        /\ \A j \in 1..Len(header) : q[j] = header[j]
        /\ \A j \in 1..Want : q[Len(header) + j] = ring[j]
  BY DeliverView
<1>6. PICK k : k = HeadLen + Want
  OBVIOUS
<1>7. /\ Len(ring) = Want /\ taken = b + k /\ k \in Nat /\ 0 < k
      /\ taken - Len(ring) = b + HeadLen /\ Len(header) = HeadLen
  <2>1. Held = HeadLen + Len(ring)
    BY <1>1 DEF Held
  <2>2. Held <= HeadLen + Want
    BY <1>2, <1>3, <1>4, <2>1 DEF Placed, Fetched
  <2>3. Len(header) = HeadLen
    BY <1>1, <1>2 DEF Placed, Fetched
  <2> QED BY <1>4, <1>5, <1>6, <2>1, <2>2, <2>3
<1>8. \A j \in 1..k : stream[b + j] = [pkt |-> d + 1, i |-> j, len |-> k]
  <2>1. \A j \in 1..k : b + j <= Len(stream) =>
          stream[b + j] = [pkt |-> d + 1, i |-> j, len |-> k]
    BY <1>2, <1>3, <1>4, <1>6, CurrentPacket
  <2> QED BY <1>4, <1>7, <2>1
<1>9. ASSUME NEW j \in 1..k PROVE q[j] = stream[b + j]
  <2>1. CASE j <= HeadLen
    <3>1. j \in 1..HeadLen
      BY <1>4, <1>7, <2>1
    <3>2. header[j] = stream[b + j]
      BY <1>1, <1>2, <1>3, <3>1 DEF Placed, Fetched
    <3> QED BY <1>5, <1>7, <3>1, <3>2
  <2>2. CASE j > HeadLen
    <3>1. PICK i : i = j - HeadLen
      OBVIOUS
    <3>2. i \in 1..Want /\ j = HeadLen + i /\ (b + HeadLen) + i = b + j
      BY <1>4, <1>6, <1>7, <2>2, <3>1
    <3>3. ring[i] = stream[(b + HeadLen) + i]
      BY <1>1, <1>2, <1>7, <3>2 DEF Placed, Fetched
    <3>4. q[HeadLen + i] = ring[i]
      BY <1>5, <1>7, <3>2
    <3> QED BY <3>2, <3>3, <3>4
  <2> QED BY <1>4, <1>7, <2>1, <2>2
<1>10. q = PacketBytes(d + 1, k)
  <2>1. PICK s, e : e = d + 1 /\ s = PacketBytes(e, k)
    OBVIOUS
  <2>2. /\ s \in Seq(Bytes) /\ Len(s) = k
        /\ \A j \in 1..k : s[j] = [pkt |-> e, i |-> j, len |-> k]
    <3>1. e \in Nat
      BY <1>4, <2>1
    <3> QED BY <1>7, <2>1, <3>1, PacketView
  <2>3. Len(q) = k
    BY <1>5, <1>6, <1>7
  <2>4. \A j \in 1..k : q[j] = s[j]
    BY <1>8, <1>9, <2>1, <2>2
  <2> QED BY <2>1, <2>2, <2>3, <2>4, SeqEqual
<1>11. /\ taken \in 1..Len(stream) /\ k \in 1..k
       /\ stream[taken] = [pkt |-> d + 1, i |-> k, len |-> k]
  <2>1. taken \in 1..Len(stream) /\ k \in 1..k
    BY <1>4, <1>7
  <2> QED BY <1>7, <1>8, <2>1
<1>12. /\ Len(delivered') = d + 1 /\ delivered'[d + 1] = q
       /\ \A j \in 1..d : delivered'[j] = delivered[j]
  BY <1>1, <1>3, <1>5
<1>13. Held' = 0 /\ Base' = taken
  BY <1>1, <1>4 DEF Held, Base
<1>14. AtBoundary'
  <2>1. taken < Len(stream) => stream[taken + 1].i = 1 /\ stream[taken + 1].pkt = d + 2
    BY <1>4, <1>11, ByteView DEF ByteAt
  <2> QED BY <1>1, <1>4, <1>11, <1>12, <1>13, <2>1 DEF AtBoundary
<1>15. Fetched' /\ Counted'
  BY <1>1, <1>5, <1>13 DEF Fetched, Counted
<1>16. OnePacket'
  <2>1. mode = "one" => Len(stream) <= taken
    BY <1>2, <1>3, <1>4, <1>6, <1>7 DEF Placed, OnePacket
  <2> QED BY <1>1, <1>4, <1>13, <2>1 DEF OnePacket
<1>17. WholePackets'
  BY <1>1, <1>2 DEF Placed, WholePackets
<1>18. Handed'
  <2> SUFFICES ASSUME NEW j \in 1..(d + 1)
               PROVE  \E p \in 1..taken : /\ stream[p].pkt = j
                                          /\ delivered'[j] = PacketBytes(j, stream[p].len)
    BY <1>1, <1>12 DEF Handed
  <2>1. CASE j = d + 1
    <3>1. taken \in 1..taken
      BY <1>11
    <3> QED BY <1>10, <1>11, <1>12, <2>1, <3>1
  <2>2. CASE j # d + 1
    <3>1. j \in 1..d
      BY <1>4, <2>2
    <3> QED BY <1>3, <1>12, <3>1 DEF Handed
  <2> QED BY <2>1, <2>2
<1> QED BY <1>14, <1>15, <1>16, <1>17, <1>18 DEF Placed, ReadInv

-----------------------------------------------------------------------------
(***************************************************************************)
(* The client and the network.                                             *)
(***************************************************************************)
\* The bytes taken stay what they are, so the reader stays where it is.
LEMMA NetStep ==
  ASSUME ReaderTypes, StreamInv, Placed,
         UNCHANGED <<mode, taken, ring, pc, n, total, header, tlen, delivered>>,
         \A p \in 1..taken : stream'[p] = stream[p]
  PROVE  Held' = Held /\ Base' = Base /\ Fetched' /\ (peer # "eof" => Counted')
<1>1. Held' = Held /\ Base' = Base /\ Want' = Want
  BY DEF Held, Base, Want
<1>2. /\ Held \in Nat /\ Base \in Nat /\ taken = Base + Held /\ Len(ring) \in Nat
      /\ taken \in Nat /\ HeadLen \in Nat \ {0}
  BY PlacedView
<1>3. PICK b, r : b = Base /\ r = Len(ring)
  OBVIOUS
<1>4. ASSUME pc # "poll", NEW j \in 1..r PROVE ring[j] = stream'[taken - r + j]
  <2>1. r <= Held
    BY <1>2, <1>3, <1>4 DEF Held, ReaderTypes
  <2>2. taken - r + j \in 1..taken
    BY <1>2, <1>3, <1>4, <2>1
  <2>3. ring[j] = stream[taken - r + j]
    BY <1>3, <1>4 DEF Placed, Fetched
  <2> QED BY <2>2, <2>3
<1>5. Held > 0 => /\ stream'[b + 1] = stream[b + 1] /\ Held <= stream[b + 1].len
  <2>1. Held > 0 => b + 1 \in 1..taken
    BY <1>2, <1>3
  <2> QED BY <1>3, <2>1 DEF Placed, Fetched
<1>6. ASSUME pc = "body"
      PROVE  /\ Held > 0 /\ Len(header) = HeadLen /\ tlen = stream[b + 1].len
             /\ Want <= RingMax
             /\ \A j \in 1..HeadLen : header[j] = stream'[b + j]
  <2>1. Held >= HeadLen /\ Held > 0
    BY <1>2, <1>6 DEF Held
  <2>2. /\ Len(header) = HeadLen /\ tlen = stream[b + 1].len
        /\ Want <= RingMax
        /\ \A j \in 1..HeadLen : header[j] = stream[b + j]
    BY <1>3, <1>6 DEF Placed, Fetched
  <2>3. \A j \in 1..HeadLen : b + j \in 1..taken
    BY <1>2, <1>3, <2>1
  <2> QED BY <2>1, <2>2, <2>3
<1>7. Fetched'
  BY <1>1, <1>3, <1>4, <1>5, <1>6 DEF Fetched
<1>8. peer # "eof" => Counted'
  BY <1>1 DEF Placed, Counted
<1> QED BY <1>1, <1>7, <1>8

\* A client that waits sends when all it sent was handed on.
LEMMA SendStep ==
  ASSUME ReaderTypes, StreamInv, ReadInv, NEW l \in Lens, Send(l)
  PROVE  ReadInv'
<1>1. /\ peer = "open" /\ Placed
      /\ UNCHANGED <<mode, arrived, peer, taken, ring, pc, n, total, header, tlen,
                     delivered>>
      /\ mode = "one" => Len(delivered) = Sent /\ pc = "poll"
  BY DEF Send, ReadInv, Drained
<1>2. PICK b, e, d : b = Base /\ e = Len(stream) /\ d = Len(delivered)
  OBVIOUS
<1>3. /\ b \in Nat /\ e \in Nat /\ d \in Nat /\ taken \in Nat /\ arrived \in Nat
      /\ b <= taken /\ taken <= arrived /\ arrived <= e
  BY <1>1, <1>2, PlacedView DEF ReaderTypes
<1>4. /\ Len(stream') = e + l /\ l \in Nat \ {0}
      /\ \A p \in 1..e : stream'[p] = stream[p]
      /\ stream'[e + 1] = [pkt |-> Sent + 1, i |-> 1, len |-> l]
  <2>1. l \in Nat \ {0} /\ 1 \in 1..l
    BY LensNat
  <2> QED BY <1>2, <2>1, SendView
<1>5. \A p \in 1..taken : stream'[p] = stream[p]
  BY <1>3, <1>4
<1>6. Base' = b /\ Fetched' /\ Counted'
  BY <1>1, <1>2, <1>5, NetStep
<1>7. Sent = IF e = 0 THEN 0 ELSE stream[e].pkt
  BY <1>2, SentView
<1>8. b = e => Sent = d
  <2>1. IF b > 0 THEN stream[b].pkt = d ELSE delivered = <<>>
    BY <1>1, <1>2 DEF Placed, AtBoundary
  <2> QED BY <1>2, <1>3, <1>7, <2>1
<1>9. AtBoundary'
  <2>1. CASE b < e
    <3>1. stream[b + 1].i = 1 /\ stream[b + 1].pkt = d + 1
      BY <1>1, <1>2, <2>1 DEF Placed, AtBoundary
    <3>2. stream'[b + 1] = stream[b + 1] /\ (b > 0 => stream'[b] = stream[b])
      BY <1>3, <1>4, <2>1
    <3>3. IF b > 0 THEN stream[b].pkt = d ELSE delivered = <<>>
      BY <1>1, <1>2 DEF Placed, AtBoundary
    <3> QED BY <1>1, <1>2, <1>3, <1>6, <3>1, <3>2, <3>3 DEF AtBoundary
  <2>2. CASE b = e
    <3>1. stream'[b + 1].i = 1 /\ stream'[b + 1].pkt = d + 1
      BY <1>4, <1>8, <2>2
    <3>2. b > 0 => stream'[b] = stream[b]
      BY <1>3, <1>4, <2>2
    <3>3. IF b > 0 THEN stream[b].pkt = d ELSE delivered = <<>>
      BY <1>1, <1>2 DEF Placed, AtBoundary
    <3> QED BY <1>1, <1>2, <1>3, <1>6, <3>1, <3>2, <3>3 DEF AtBoundary
  <2> QED BY <1>3, <2>1, <2>2
<1>10. OnePacket'
  <2>1. ASSUME mode = "one" PROVE b = e
    <3>1. ASSUME b < e PROVE FALSE
      <4>1. PICK k \in Nat :
              /\ k = stream[b + 1].len
              /\ \A j \in 1..k : b + j <= e =>
                   stream[b + j] = [pkt |-> d + 1, i |-> j, len |-> k]
        BY <1>1, <1>2, <3>1, CurrentPacket
      <4>2. e <= b + k
        BY <1>1, <1>2, <2>1, <3>1, <4>1 DEF Placed, OnePacket
      <4>3. e - b \in 1..k /\ b + (e - b) = e /\ e # 0
        BY <1>3, <3>1, <4>2
      <4>4. stream[e].pkt = d + 1
        <5>1. b + (e - b) <= e
          BY <1>3, <4>3
        <5>2. stream[b + (e - b)] = [pkt |-> d + 1, i |-> e - b, len |-> k]
          BY <4>1, <4>3, <5>1
        <5> QED BY <4>3, <5>2
      <4> QED BY <1>1, <1>2, <1>3, <1>7, <2>1, <4>3, <4>4
    <3> QED BY <1>3, <3>1
  <2>2. mode = "one" => stream'[b + 1].len = l /\ Len(stream') <= b + l
    BY <1>3, <1>4, <2>1
  <2> QED BY <1>1, <1>6, <2>2 DEF OnePacket
<1>11. WholePackets'
  <2>1. arrived > 0 => stream'[arrived] = stream[arrived]
    BY <1>3, <1>4
  <2>2. Want' = Want
    BY <1>1 DEF Want
  <2> QED BY <1>1, <2>1, <2>2 DEF Placed, WholePackets
<1> QED BY <1>6, <1>9, <1>10, <1>11 DEF Placed, ReadInv

LEMMA ArriveStep ==
  ASSUME ReaderTypes, StreamInv, ReadInv, NEW k \in Nat, Arrive(k)
  PROVE  ReadInv'
<1>1. /\ k > arrived /\ k <= Len(stream) /\ arrived' = k
      /\ mode = "whole" => stream[k].i = stream[k].len
      /\ UNCHANGED <<mode, stream, peer, taken, ring, pc, n, total, header, tlen,
                     delivered>>
  BY DEF Arrive, ReaderTypes
<1>2. Placed
  <2>1. /\ arrived \in Nat /\ taken \in Nat /\ Len(stream) \in Nat
        /\ taken <= arrived
    BY DEF ReaderTypes
  <2> QED BY <1>1, <2>1 DEF ReadInv, Drained
<1>3. Held' = Held /\ Want' = Want
  BY <1>1 DEF Held, Want
<1>4. AtBoundary' /\ OnePacket' /\ Base' = Base
  BY <1>1, <1>2, <1>3, SamePlace
<1>5. Fetched' /\ Counted'
  BY <1>1, <1>2, <1>3, <1>4 DEF Placed, Fetched, Counted
<1>6. WholePackets'
  BY <1>1, <1>2, <1>3 DEF Placed, WholePackets
<1> QED BY <1>4, <1>5, <1>6 DEF Placed, ReadInv

LEMMA CloseStep ==
  ASSUME ReaderTypes, StreamInv, ReadInv, NEW how, Close(how)
  PROVE  ReadInv'
<1>1. /\ peer \in {"open", "stalled"} /\ Placed
      /\ UNCHANGED <<mode, stream, arrived, taken, ring, pc, n, total, header, tlen,
                     delivered>>
  BY DEF Close, ReadInv, Drained
<1>2. Held' = Held /\ Fetched' /\ Counted'
  BY <1>1, NetStep
<1>3. AtBoundary' /\ OnePacket'
  BY <1>1, <1>2, SamePlace
<1>4. WholePackets'
  BY <1>1 DEF Placed, WholePackets, Want
<1> QED BY <1>2, <1>3, <1>4 DEF Placed, ReadInv

LEMMA CutStep ==
  ASSUME ReaderTypes, StreamInv, ReadInv, NEW k \in Nat, Cut(k)
  PROVE  ReadInv'
<1>1. /\ peer = "open" /\ Placed /\ mode = "one"
      /\ UNCHANGED <<mode, arrived, taken, ring, pc, n, total, header, tlen,
                     delivered>>
  BY DEF Cut, ReadInv, Drained
<1>2. PICK b : b = Base
  OBVIOUS
<1>3. /\ b \in Nat /\ taken \in Nat /\ b <= taken /\ taken <= k
      /\ k <= Len(stream) /\ Len(stream) \in Nat /\ Len(stream') = k
      /\ \A p \in 1..k : stream'[p] = stream[p]
  BY <1>1, <1>2, PlacedView, CutView
<1>4. \A p \in 1..taken : stream'[p] = stream[p]
  BY <1>3
<1>5. Base' = b /\ Fetched' /\ Counted'
  BY <1>1, <1>2, <1>4, NetStep
<1>6. b < k => b < Len(stream) /\ stream'[b + 1] = stream[b + 1]
  BY <1>3
<1>7. AtBoundary'
  <2>1. b > 0 => stream'[b] = stream[b]
    BY <1>3
  <2> QED BY <1>1, <1>2, <1>3, <1>5, <1>6, <2>1 DEF Placed, AtBoundary
<1>8. OnePacket'
  <2>1. ASSUME b < k PROVE k <= b + stream'[b + 1].len
    <3>1. PICK m \in Nat : m = stream[b + 1].len
      BY <1>1, <1>2, <1>6, <2>1, CurrentPacket
    <3>2. Len(stream) <= b + m
      BY <1>1, <1>2, <1>6, <2>1, <3>1 DEF Placed, OnePacket
    <3> QED BY <1>3, <1>6, <2>1, <3>1, <3>2
  <2> QED BY <1>3, <1>5, <2>1 DEF OnePacket
<1>9. WholePackets'
  BY <1>1 DEF WholePackets
<1> QED BY <1>5, <1>7, <1>8, <1>9 DEF Placed, ReadInv

-----------------------------------------------------------------------------
\* Packets handed on stay what was sent.
LEMMA HandedStays ==
  ASSUME ReaderTypes, Handed, UNCHANGED delivered,
         taken' \in Nat, taken <= taken', \A p \in 1..taken : stream'[p] = stream[p]
  PROVE  Handed'
<1>1. \A p \in 1..taken : p \in 1..taken'
  BY DEF ReaderTypes
<1> QED BY <1>1 DEF Handed

LEMMA HandedStep ==
  ASSUME ReaderTypes, ReaderTypes', Handed, Next, ~Deliver PROVE Handed'
<1>1. /\ taken \in Nat /\ taken' \in Nat /\ arrived \in Nat /\ Len(stream) \in Nat
      /\ taken <= arrived /\ arrived <= Len(stream)
  BY DEF ReaderTypes
<1>2. ASSUME UNCHANGED <<stream, taken, delivered>> PROVE Handed'
  BY <1>1, <1>2, HandedStays
<1>3. ASSUME NEW l \in Lens, Send(l) PROVE Handed'
  <2>1. \A p \in 1..taken : stream'[p] = stream[p]
    <3>1. \A p \in 1..Len(stream) : stream'[p] = stream[p]
      BY <1>3, SendView
    <3> QED BY <1>1, <3>1
  <2> QED BY <1>1, <1>3, <2>1, HandedStays DEF Send
<1>4. ASSUME NEW k \in 0..Len(stream), Cut(k) PROVE Handed'
  <2>1. k \in Nat
    BY <1>1
  <2>2. k >= arrived /\ \A p \in 1..k : stream'[p] = stream[p]
    BY <1>4, <2>1, CutView
  <2>3. \A p \in 1..taken : stream'[p] = stream[p]
    BY <1>1, <2>1, <2>2
  <2> QED BY <1>1, <1>4, <2>3, HandedStays DEF Cut
<1>5. CASE Recv
  <2>1. PICK k \in 1..(arrived - taken) : taken' = taken + k
    BY <1>5, RecvView
  <2>2. taken <= taken'
    BY <1>1, <2>1
  <2> QED BY <1>1, <1>5, <2>2, HandedStays DEF Recv, netVars
<1>6. ASSUME NEW v, RecvbytesReturns(v) PROVE Handed'
  BY <1>2, <1>6, ReturnsView
<1>7. CASE Start \/ (\E k \in 1..Len(stream) : Arrive(k))
           \/ (\E how \in {"eof", "reset"} : Close(how))
  BY <1>2, <1>7 DEF Start, Arrive, Close, netVars
<1>8. CASE HeaderNothing \/ HeaderMore \/ HeaderDone \/ BodyMore
  BY <1>6, <1>8 DEF HeaderNothing, HeaderMore, HeaderDone, BodyMore
<1> QED BY <1>3, <1>4, <1>5, <1>7, <1>8 DEF Next, Reader

LEMMA StuckStep ==
  ASSUME ReaderTypes, Stuck, Next PROVE Stuck' /\ ~Deliver
<1>1. Want \in Nat /\ Len(ring) \in Nat /\ RingMax \in Nat
  BY WantNat, SizesAssumption DEF ReaderTypes
<1>2. Reading
  BY <1>1 DEF Stuck, Reading
<1>3. CASE Recv
  <2>1. Len(ring') <= RingMax
    BY <1>1, <1>3, RecvView DEF Stuck
  <2>2. Want' = Want /\ pc' = "body"
    BY <1>3 DEF Recv, Want, Stuck
  <2> QED BY <1>2, <2>1, <2>2 DEF Stuck, Deliver
<1>4. CASE ~Recv
  <2>1. UNCHANGED <<pc, ring, tlen>>
    BY <1>2, <1>4 DEF Stuck, Next, Send, Arrive, Close, Cut, Reader, Start,
       HeaderNothing, HeaderMore, HeaderDone, BodyMore, Deliver
  <2>2. Want' = Want
    BY <2>1 DEF Want
  <2> QED BY <1>2, <2>1, <2>2 DEF Stuck, Deliver
<1> QED BY <1>3, <1>4

LEMMA ReadStep ==
  ASSUME ReaderTypes, StreamInv, ReadInv, Handed, mode # "any", Next,
         peer' # "gone"
  PROVE  ReadInv' \/ Stuck'
<1>0. Len(stream) \in Nat
  BY DEF ReaderTypes
<1>1. ASSUME NEW k \in 1..Len(stream), Arrive(k) PROVE ReadInv'
  <2>1. k \in Nat
    BY <1>0
  <2> QED BY <1>1, <2>1, ArriveStep
<1>2. ASSUME NEW k \in 0..Len(stream), Cut(k) PROVE ReadInv'
  <2>1. k \in Nat
    BY <1>0
  <2> QED BY <1>2, <2>1, CutStep
<1>3. CASE Reader
  BY <1>3, StartStep, RecvStep, HeaderNothingStep, HeaderMoreStep, HeaderDoneStep,
     BodyMoreStep, DeliverStep DEF Reader
<1> QED BY <1>1, <1>2, <1>3, SendStep, CloseStep DEF Next

LEMMA ReaderInit ==
  Init => ReaderInv
<1> SUFFICES ASSUME Init PROVE ReaderInv
  OBVIOUS
<1>1. /\ Len(stream) = 0 /\ Len(ring) = 0 /\ Len(delivered) = 0
      /\ HeadLen \in Nat /\ stream \in Seq(Bytes) /\ ring \in Seq(Bytes)
      /\ header \in Seq(Bytes) /\ delivered \in Seq(Seq(Bytes))
  BY SizesAssumption DEF Init
<1>2. ReaderTypes /\ StreamInv
  BY <1>1 DEF Init, ReaderTypes, StreamInv
<1>3. Held = 0 /\ Base = 0
  BY DEF Init, Held, Base
<1>4. AtBoundary /\ OnePacket
  BY <1>1, <1>3 DEF Init, AtBoundary, OnePacket
<1>5. Fetched /\ Counted /\ WholePackets
  BY <1>3 DEF Init, Fetched, Counted, WholePackets
<1>6. Handed
  BY <1>1 DEF Handed
<1> QED BY <1>2, <1>4, <1>5, <1>6 DEF ReaderInv, ReadInv, Placed

LEMMA ReaderStep ==
  ReaderInv /\ [Next]_vars => ReaderInv'
<1> SUFFICES ASSUME ReaderInv, [Next]_vars PROVE ReaderInv'
  OBVIOUS
<1>1. ReaderTypes /\ StreamInv
  BY DEF ReaderInv
<1>2. CASE Next
  <2>1. ReaderTypes' /\ StreamInv'
    BY <1>1, <1>2, TypesStep, StreamStep
  <2>2. mode' = mode /\ (peer = "gone" => peer' = "gone")
    <3>1. ASSUME NEW v, RecvbytesReturns(v)
          PROVE  mode' = mode /\ (peer = "gone" => peer' = "gone")
      BY <1>1, <3>1, ReturnsView
    <3>2. CASE HeaderNothing \/ HeaderMore \/ HeaderDone \/ BodyMore
      BY <3>1, <3>2 DEF HeaderNothing, HeaderMore, HeaderDone, BodyMore
    <3>3. CASE Start \/ Recv \/ Deliver
      BY <3>3 DEF Start, Recv, Deliver, netVars
    <3>4. CASE Next /\ ~Reader
      BY <3>4 DEF Next, Send, Arrive, Close, Cut
    <3> QED BY <1>2, <3>2, <3>3, <3>4 DEF Reader
  <2>3. ASSUME peer' # "gone", mode' # "any" PROVE (ReadInv \/ Stuck)' /\ Handed'
    <3>1. (ReadInv \/ Stuck) /\ Handed /\ mode # "any"
      BY <2>2, <2>3 DEF ReaderInv
    <3>2. ReadInv' \/ Stuck'
      BY <1>1, <1>2, <2>3, <3>1, ReadStep, StuckStep
    <3>3. Handed'
      BY <1>1, <1>2, <2>1, <3>1, HandedStep, DeliverStep, StuckStep
    <3> QED BY <3>2, <3>3
  <2> QED BY <2>1, <2>3 DEF ReaderInv
<1>3. CASE UNCHANGED vars
  <2>1. UNCHANGED <<mode, stream, arrived, peer, taken, ring, pc, n, total, header,
                    tlen, delivered>>
    BY <1>3 DEF vars, netVars
  <2>2. ReaderTypes' /\ StreamInv'
    BY <1>1, <2>1 DEF ReaderTypes, StreamInv, ByteAt, Origin
  <2>3. Held' = Held /\ Base' = Base /\ Want' = Want
    BY <2>1 DEF Held, Base, Want
  <2>4. AtBoundary' = AtBoundary /\ OnePacket' = OnePacket /\ Counted' = Counted
    BY <2>1, <2>3 DEF AtBoundary, OnePacket, Counted
  <2>5. Fetched' = Fetched /\ WholePackets' = WholePackets
    BY <2>1, <2>3 DEF Fetched, WholePackets
  <2>6. Drained' = Drained /\ Handed' = Handed /\ Stuck' = Stuck
    BY <2>1, <2>3 DEF Drained, Handed, Stuck
  <2> QED BY <2>1, <2>2, <2>4, <2>5, <2>6 DEF ReaderInv, ReadInv, Placed
<1> QED BY <1>2, <1>3

LEMMA ReaderAlways ==
  Spec => []ReaderInv
  BY ReaderInit, ReaderStep, PTL DEF Spec

(***************************************************************************)
(* recv_packet hands on the packets the client sent, whole, in order and   *)
(* with no byte of another, however recv() cuts the stream and also when   *)
(* it ends in the middle of a packet, if the client waits for each packet  *)
(* to be read or the packets arrive in one piece each.  (With packets that *)
(* arrive in pieces behind one another it does not: the header loop then   *)
(* reads into the next packet.)                                            *)
(***************************************************************************)
THEOREM DeliveredIntactHolds == Spec => [](mode # "any" => DeliveredIntact)
<1>1. ASSUME ReaderInv, mode # "any" PROVE DeliveredIntact
  <2> SUFFICES ASSUME peer # "gone", NEW k \in 1..Len(delivered) PROVE Intact(k)
    BY DEF DeliveredIntact
  <2>1. PICK p \in 1..taken : /\ stream[p].pkt = k
                              /\ delivered[k] = PacketBytes(k, stream[p].len)
    BY <1>1 DEF ReaderInv, Handed
  <2>2. p \in DOMAIN stream
    BY <1>1 DEF ReaderInv, ReaderTypes
  <2> QED BY <2>1, <2>2 DEF Intact
<1>2. ReaderInv => (mode # "any" => DeliveredIntact)
  BY <1>1
<1> QED BY <1>2, ReaderAlways, PTL

(***************************************************************************)
(* Under the same conditions freeing the ring buffer between two packets   *)
(* loses nothing: while the connection is open every byte that recv() took *)
(* is in a packet handed on, and the next one starts a packet.             *)
(***************************************************************************)
THEOREM NoByteDroppedHolds == Spec => [](mode # "any" => NoByteDropped)
<1>1. ASSUME ReaderInv, mode # "any" PROVE NoByteDropped
  <2> SUFFICES ASSUME pc = "poll", peer \in {"open", "stalled"}
               PROVE  /\ taken < Len(stream) => stream[taken + 1].i = 1
                      /\ taken > 0 => stream[taken].pkt = Len(delivered)
    BY DEF NoByteDropped
  <2>1. Placed /\ ReaderTypes /\ StreamInv
    BY <1>1 DEF ReaderInv, ReadInv, Drained, Stuck
  <2>2. Held = 0 /\ taken = Base
    <3>1. taken \in Nat
      BY <2>1 DEF ReaderTypes
    <3> QED BY <3>1 DEF Held, Base
  <2> QED BY <2>1, <2>2 DEF Placed, AtBoundary
<1>2. ReaderInv => (mode # "any" => NoByteDropped)
  BY <1>1
<1> QED BY <1>2, ReaderAlways, PTL
=============================================================================
