----------------------------- MODULE WireProofs -----------------------------
(***************************************************************************)
(* The wire format for every radix, every text and every number: packets   *)
(* fit the buffers that are computed for them, and what is unpacked is     *)
(* what was packed.                                                        *)
(***************************************************************************)
EXTENDS Wire, SequenceTheorems, WellFoundedInduction, TLAPS

(***************************************************************************)
(* Numbers.                                                                *)
(***************************************************************************)
LEMMA Quotient ==
  ASSUME NEW a \in Nat, NEW b \in Nat, b > 0
  PROVE  /\ a \div b \in Nat /\ a % b \in Nat /\ a % b < b /\ a % b <= a
         /\ a = b * (a \div b) + (a % b) /\ (a < b => a % b = a)
  OBVIOUS

LEMMA Remainder ==
  ASSUME NEW q \in Nat, NEW r \in Nat, NEW b \in Nat, r < b
  PROVE  (b * q + r) % b = r
  OBVIOUS

\* The last two digits of a number, to any base.
LEMMA TwoDigits ==
  ASSUME NEW n \in Nat, NEW b \in Nat, b > 0
  PROVE  ((n \div b) % b) * b + (n % b) = n % (b * b)
<1>1. PICK q, r : q = n \div b /\ r = n % b
  OBVIOUS
<1>2. q \in Nat /\ r \in Nat /\ r < b /\ n = b * q + r
  BY <1>1, Quotient
<1>3. PICK s, t : s = q \div b /\ t = q % b
  OBVIOUS
<1>4. s \in Nat /\ t \in Nat /\ t < b /\ q = b * s + t
  BY <1>2, <1>3, Quotient
<1>5. t * b + r < b * b /\ t * b + r \in Nat /\ b * b \in Nat
  <2>1. t + 1 <= b
    BY <1>4
  <2>2. (t + 1) * b <= b * b
    BY <1>4, <2>1
  <2>3. (t + 1) * b = t * b + b /\ t * b \in Nat /\ b * b \in Nat
    BY <1>4
  <2> QED BY <1>2, <2>2, <2>3
<1>6. n = (b * b) * s + (t * b + r)
  <2>1. b * q = b * (b * s) + b * t
    BY <1>4
  <2>2. b * (b * s) = (b * b) * s /\ b * t = t * b
    BY <1>4
  <2> QED BY <1>2, <1>4, <2>1, <2>2
<1>7. n % (b * b) = t * b + r
  <2>1. PICK c, e : c = b * b /\ e = t * b + r
    OBVIOUS
  <2>2. (c * s + e) % c = e
    BY <1>4, <1>5, <2>1, Remainder
  <2> QED BY <1>6, <2>1, <2>2
<1> QED BY <1>1, <1>3, <1>7

LEMMA RadixFacts ==
  /\ Radix \in Nat /\ Radix >= 3 /\ Wide \in Nat /\ Wide >= 9
  /\ Wide * Wide \in Nat /\ Wide * Wide >= 81
<1>1. Radix \in Nat /\ Radix >= 3
  BY RadixAssumption
<1>2. Radix * Radix >= 9 /\ Radix * Radix \in Nat
  BY <1>1
<1>3. Wide \in Nat /\ Wide >= 9
  BY <1>2 DEF Wide
<1>4. Wide * Wide \in Nat /\ Wide * Wide >= 81
  BY <1>3
<1> QED BY <1>1, <1>3, <1>4

(***************************************************************************)
(* Strings.                                                                *)
(***************************************************************************)
LEMMA LeastIn ==
  ASSUME NEW S, S \subseteq Nat, S # {}
  PROVE  \E x \in S : \A y \in S : x <= y
<1>1. IsWellFoundedOn({e \in Nat \X Nat : e[1] < e[2]}, Nat)
  BY NatLessThanWellFounded, Zenon DEF OpToRel
<1>2. PICK x \in S : \A y \in S : ~(<<y, x>> \in {e \in Nat \X Nat : e[1] < e[2]})
  BY <1>1, WFMin
<1>3. ASSUME NEW y \in S, y < x PROVE FALSE
  <2>1. PICK e : e = <<y, x>>
    OBVIOUS
  <2>2. e \in Nat \X Nat /\ e[1] < e[2]
    BY <1>3, <2>1
  <2> QED BY <1>2, <2>1, <2>2
<1>4. \A y \in S : x \in Nat /\ y \in Nat
  OBVIOUS
<1> QED BY <1>3, <1>4

LEMMA SliceView ==
  ASSUME NEW s \in Seq(Nat), NEW p \in Nat, NEW n \in Nat, p + n <= Len(s)
  PROVE  /\ SubSeq(s, p + 1, p + n) \in Seq(Nat)
         /\ Len(SubSeq(s, p + 1, p + n)) = n
         /\ \A j \in 1..n : SubSeq(s, p + 1, p + n)[j] = s[p + j]
<1>1. \A j \in (p + 1)..(p + n) : s[j] \in Nat
  OBVIOUS
<1> QED BY <1>1, SubSeqProperties

\* A C string ends before the first NUL, and has none.
LEMMA CStringView ==
  ASSUME NEW s \in Seq(Nat)
  PROVE  /\ CString(s) \in Seq(Nat) /\ strlen(s) \in Nat /\ strlen(s) <= Len(s)
         /\ CString(CString(s)) = CString(s)
<1>1. CASE NulAt(s) = {}
  <2>1. CString(s) = s
    BY <1>1 DEF CString
  <2> QED BY <2>1 DEF strlen
<1>2. CASE NulAt(s) # {}
  <2>1. NulAt(s) \subseteq 1..Len(s) /\ NulAt(s) \subseteq Nat /\ Len(s) \in Nat
    BY DEF NulAt
  <2>2. PICK x : x = CHOOSE i \in NulAt(s) : \A j \in NulAt(s) : i <= j
    OBVIOUS
  <2>3. x \in NulAt(s) /\ \A j \in NulAt(s) : x <= j
    <3>1. \E i \in NulAt(s) : \A j \in NulAt(s) : i <= j
      BY <1>2, <2>1, LeastIn
    <3> QED BY <2>2, <3>1
  <2>4. PICK m : m = x - 1
    OBVIOUS
  <2>5. m \in Nat /\ m < Len(s) /\ x \in Nat /\ x = m + 1
    BY <2>1, <2>3, <2>4
  <2>6. PICK c : c = CString(s)
    OBVIOUS
  <2>7. c = SubSeq(s, 1, m)
    BY <1>2, <2>2, <2>4, <2>6 DEF CString
  <2>8. c \in Seq(Nat) /\ Len(c) = m /\ \A j \in 1..m : c[j] = s[j]
    <3>1. \A j \in 1..m : s[j] \in Nat
      BY <2>5
    <3> QED BY <2>5, <2>7, <3>1, SubSeqProperties
  <2>9. ASSUME NEW j \in NulAt(c) PROVE FALSE
    <3>1. j \in 1..m /\ c[j] = 0
      BY <2>8, <2>9 DEF NulAt
    <3>2. j \in NulAt(s)
      BY <2>1, <2>5, <2>8, <3>1 DEF NulAt
    <3> QED BY <2>3, <2>5, <3>1, <3>2
  <2>10. CString(c) = c
    BY <2>9 DEF CString
  <2>11. strlen(s) = m
    BY <2>6, <2>8 DEF strlen
  <2> QED BY <2>5, <2>6, <2>8, <2>10, <2>11
<1> QED BY <1>1, <1>2

(***************************************************************************)
(* Bytes in a buffer: d holds s behind its first p bytes.                  *)
(***************************************************************************)
Holds(d, p, s) ==
  /\ p + Len(s) <= Len(d)
  /\ \A j \in 1..Len(s) : d[p + j] = s[j]

LEMMA HoldsSplit ==
  ASSUME NEW d \in Seq(Nat), NEW p \in Nat, NEW a \in Seq(Nat), NEW b \in Seq(Nat),
         Holds(d, p, a \o b)
  PROVE  Holds(d, p, a) /\ Holds(d, p + Len(a), b)
<1>1. PICK s : s = a \o b
  OBVIOUS
<1>2. /\ Len(a) \in Nat /\ Len(b) \in Nat /\ Len(d) \in Nat
      /\ Len(s) = Len(a) + Len(b)
      /\ \A j \in 1..Len(a) + Len(b) :
           s[j] = IF j <= Len(a) THEN a[j] ELSE b[j - Len(a)]
  BY <1>1, ConcatProperties
<1>3. p + Len(s) <= Len(d) /\ \A j \in 1..Len(s) : d[p + j] = s[j]
  BY <1>1 DEF Holds
<1>4. ASSUME NEW j \in 1..Len(a) PROVE d[p + j] = a[j]
  <2>1. j \in 1..Len(s) /\ j <= Len(a)
    BY <1>2
  <2> QED BY <1>2, <1>3, <2>1
<1>5. ASSUME NEW j \in 1..Len(b) PROVE d[(p + Len(a)) + j] = b[j]
  <2>1. PICK i : i = Len(a) + j
    OBVIOUS
  <2>2. /\ i \in 1..Len(s) /\ ~(i <= Len(a)) /\ i - Len(a) = j
        /\ (p + Len(a)) + j = p + i
    BY <1>2, <2>1
  <2>3. s[i] = b[j]
    BY <1>2, <2>2
  <2> QED BY <1>3, <2>2, <2>3
<1>6. p + Len(a) <= Len(d) /\ (p + Len(a)) + Len(b) <= Len(d)
  BY <1>2, <1>3
<1> QED BY <1>4, <1>5, <1>6 DEF Holds

LEMMA ConcatView ==
  ASSUME NEW a \in Seq(Nat), NEW b \in Seq(Nat)
  PROVE  a \o b \in Seq(Nat) /\ Len(a \o b) = Len(a) + Len(b)
  BY ConcatProperties

LEMMA WriteView ==
  ASSUME NEW n \in Nat
  PROVE  /\ write_uint8(n) \in Seq(Nat) /\ Len(write_uint8(n)) = 1
         /\ write_uint16(n) \in Seq(Nat) /\ Len(write_uint16(n)) = 2
         /\ write_uint32(n) \in Seq(Nat) /\ Len(write_uint32(n)) = 4
<1>1. n % Radix \in Nat /\ n \div Wide \in Nat
  BY RadixFacts
<1>2. \A m \in Nat : write_uint16(m) \in Seq(Nat) /\ Len(write_uint16(m)) = 2
  <2> TAKE m \in Nat
  <2>1. PICK x, y : x = (m \div Radix) % Radix /\ y = m % Radix
    OBVIOUS
  <2>2. x \in Nat /\ y \in Nat
    BY <2>1, RadixFacts
  <2> QED BY <2>1, <2>2 DEF write_uint16
<1>3. write_uint8(n) \in Seq(Nat) /\ Len(write_uint8(n)) = 1
  BY <1>1 DEF write_uint8
<1>4. write_uint32(n) \in Seq(Nat) /\ Len(write_uint32(n)) = 4
  <2>1. PICK x, y : x = write_uint16(n \div Wide) /\ y = write_uint16(n)
    OBVIOUS
  <2>2. x \in Seq(Nat) /\ y \in Seq(Nat) /\ Len(x) = 2 /\ Len(y) = 2
    BY <1>1, <1>2, <2>1
  <2>3. x \o y \in Seq(Nat) /\ Len(x \o y) = 4
    <3>1. x \o y \in Seq(Nat) /\ Len(x \o y) = Len(x) + Len(y)
      BY <2>2, ConcatView, Zenon
    <3> QED BY <2>2, <3>1
  <2> QED BY <2>1, <2>3 DEF write_uint32
<1> QED BY <1>2, <1>3, <1>4

LEMMA Read8 ==
  ASSUME NEW d \in Seq(Nat), NEW p \in Nat, NEW n \in Nat,
         Holds(d, p, write_uint8(n))
  PROVE  read_uint8(d, p) = n % Radix
<1>1. PICK x : x = n % Radix
  OBVIOUS
<1>2. Holds(d, p, <<x>>)
  BY <1>1 DEF write_uint8
<1>3. d[p + 1] = x
  BY <1>2 DEF Holds
<1> QED BY <1>1, <1>3 DEF read_uint8

LEMMA Read16 ==
  ASSUME NEW d \in Seq(Nat), NEW p \in Nat, NEW n \in Nat,
         Holds(d, p, write_uint16(n))
  PROVE  read_uint16(d, p) = n % Wide
<1>1. PICK x, y : x = (n \div Radix) % Radix /\ y = n % Radix
  OBVIOUS
<1>2. Holds(d, p, <<x, y>>)
  BY <1>1 DEF write_uint16
<1>3. d[p + 1] = x /\ d[p + 2] = y
  BY <1>2 DEF Holds
<1>4. x * Radix + y = n % (Radix * Radix)
  BY <1>1, RadixFacts, TwoDigits
<1> QED BY <1>3, <1>4 DEF read_uint16, Wide

LEMMA Read32 ==
  ASSUME NEW d \in Seq(Nat), NEW p \in Nat, NEW n \in Nat,
         Holds(d, p, write_uint32(n))
  PROVE  read_uint32(d, p) = n % (Wide * Wide)
<1>1. PICK h : h = n \div Wide
  OBVIOUS
<1>2. h \in Nat
  BY <1>1, RadixFacts
<1>3. Holds(d, p, write_uint16(h)) /\ Holds(d, p + 2, write_uint16(n))
  BY <1>1, <1>2, WriteView, HoldsSplit DEF write_uint32
<1>4. read_uint16(d, p) = h % Wide /\ read_uint16(d, p + 2) = n % Wide
  BY <1>2, <1>3, Read16
<1>5. (h % Wide) * Wide + (n % Wide) = n % (Wide * Wide)
  BY <1>1, RadixFacts, TwoDigits
<1> QED BY <1>4, <1>5 DEF read_uint32

LEMMA ReadString ==
  ASSUME NEW d \in Seq(Nat), NEW p \in Nat, NEW s \in Seq(Nat), Holds(d, p, s)
  PROVE  read_string(d, p, Len(s)) = s
<1>1. PICK n, r : n = Len(s) /\ r = SubSeq(d, p + 1, p + n)
  OBVIOUS
<1>2. n \in Nat /\ p + n <= Len(d) /\ \A j \in 1..n : d[p + j] = s[j]
  BY <1>1 DEF Holds
<1>3. r \in Seq(Nat) /\ Len(r) = n /\ \A j \in 1..n : r[j] = d[p + j]
  BY <1>1, <1>2, SliceView
<1>4. r = s
  BY <1>1, <1>2, <1>3, SeqEqual
<1> QED BY <1>1, <1>4 DEF read_string

(***************************************************************************)
(* Structures that fit the size they name.                                 *)
(***************************************************************************)
ConnectFits(p) ==
  /\ p.op = CONNECT /\ p.id \in Seq(Nat)
  /\ p.keepalive \in Nat /\ p.clean_session \in Nat
  /\ 10 + strlen(p.id) <= p.size
SubscribeFits(p) ==
  /\ p.op = SUBSCRIBE /\ p.topic \in Seq(Nat) /\ p.qos \in Byte
  /\ 8 + strlen(p.topic) <= p.size
UnsubscribeFits(p) ==
  /\ p.op = UNSUBSCRIBE /\ p.topic \in Seq(Nat)
  /\ p.topic_len = strlen(p.topic) % Wide
  /\ 7 + strlen(p.topic) <= p.size
PublishFits(p) ==
  /\ p.op = PUBLISH /\ p.topic \in Seq(Nat) /\ p.message \in Seq(Nat)
  /\ p.qos \in Byte /\ p.retain \in Byte /\ p.dup \in Byte
  /\ 16 + strlen(p.topic) + strlen(p.message) <= p.size
AckFits(p) ==
  /\ p.op \in Acks /\ p.id \in 0..(Wide - 1) /\ p.rc \in Byte
  /\ 8 <= p.size
Fits(p) ==
  /\ p.size \in Nat /\ p.size < Wide * Wide
  /\ \/ ConnectFits(p) \/ SubscribeFits(p) \/ UnsubscribeFits(p)
     \/ PublishFits(p) \/ AckFits(p)

Ops == {CONNECT, SUBSCRIBE, UNSUBSCRIBE, PUBLISH}

LEMMA OpsDiffer ==
  /\ CONNECT # SUBSCRIBE /\ CONNECT # UNSUBSCRIBE /\ CONNECT # PUBLISH
  /\ SUBSCRIBE # UNSUBSCRIBE /\ SUBSCRIBE # PUBLISH /\ UNSUBSCRIBE # PUBLISH
  /\ CONNECT \notin Acks /\ SUBSCRIBE \notin Acks /\ UNSUBSCRIBE \notin Acks
  /\ PUBLISH \notin Acks /\ Ops \subseteq Nat \ {0} /\ Acks \subseteq Nat \ {0}
  BY DEF CONNECT, SUBSCRIBE, UNSUBSCRIBE, PUBLISH, Acks, CONNACK, PUBACK, SUBACK,
         PINGREQ, PINGRESP, Ops

LEMMA ByteNat == Byte \subseteq Nat /\ \A x \in Byte : x % Radix = x
  BY RadixFacts DEF Byte

(***************************************************************************)
(* What each pack function writes, and where it stands in a buffer.        *)
(***************************************************************************)
LEMMA ConnectFields ==
  ASSUME NEW p, ConnectFits(p)
  PROVE  /\ Fields(p) \in Seq(Nat) /\ Len(Fields(p)) = 5 + strlen(p.id)
         /\ \A d \in Seq(Nat) : Holds(d, 5, Fields(p)) =>
              Holds(d, 5, write_uint16(strlen(p.id)))
<1>1. PICK a, b, c, e, n : /\ n = strlen(p.id) /\ a = write_uint16(n)
                           /\ b = write_string(p.id)
                           /\ c = write_uint16(p.keepalive)
                           /\ e = write_uint8(p.clean_session)
  OBVIOUS
<1>2. /\ a \in Seq(Nat) /\ b \in Seq(Nat) /\ c \in Seq(Nat) /\ e \in Seq(Nat)
      /\ n \in Nat /\ Len(a) = 2 /\ Len(b) = n /\ Len(c) = 2 /\ Len(e) = 1
  BY <1>1, CStringView, WriteView DEF ConnectFits, write_string, strlen
<1>3. Fields(p) = ((a \o b) \o c) \o e
  BY <1>1, OpsDiffer DEF ConnectFits, Fields, pack_connect
<1>4. PICK s, t : s = a \o b /\ t = s \o c
  OBVIOUS
<1>5. s \in Seq(Nat) /\ Len(s) = Len(a) + Len(b)
  BY <1>2, <1>4, ConcatView, Zenon
<1>6. t \in Seq(Nat) /\ Len(t) = Len(s) + Len(c)
  BY <1>2, <1>4, <1>5, ConcatView, Zenon
<1>7. t \o e \in Seq(Nat) /\ Len(t \o e) = Len(t) + Len(e)
  BY <1>2, <1>6, ConcatView, Zenon
<1>8. ASSUME NEW d \in Seq(Nat), Holds(d, 5, t \o e) PROVE Holds(d, 5, a)
  <2>1. Holds(d, 5, s \o c)
    BY <1>2, <1>4, <1>6, <1>8, HoldsSplit
  <2>2. Holds(d, 5, a \o b)
    BY <1>2, <1>4, <1>5, <2>1, HoldsSplit
  <2> QED BY <1>2, <2>2, HoldsSplit
<1>9. Len(t \o e) = 5 + n
  BY <1>2, <1>5, <1>6, <1>7
<1> QED BY <1>1, <1>3, <1>4, <1>7, <1>8, <1>9

LEMMA SubscribeFields ==
  ASSUME NEW p, SubscribeFits(p)
  PROVE  /\ Fields(p) \in Seq(Nat) /\ Len(Fields(p)) = 3 + strlen(p.topic)
         /\ \A d \in Seq(Nat) : Holds(d, 5, Fields(p)) =>
              /\ Holds(d, 5, write_uint16(strlen(p.topic)))
              /\ Holds(d, 7, write_uint8(p.qos)) /\ Holds(d, 8, CString(p.topic))
<1>1. PICK a, b, c, n : /\ n = strlen(p.topic) /\ a = write_uint16(n)
                        /\ b = write_uint8(p.qos) /\ c = CString(p.topic)
  OBVIOUS
<1>2. /\ a \in Seq(Nat) /\ b \in Seq(Nat) /\ c \in Seq(Nat)
      /\ n \in Nat /\ Len(a) = 2 /\ Len(b) = 1 /\ Len(c) = n
  BY <1>1, ByteNat, CStringView, WriteView DEF SubscribeFits, strlen
<1>3. Fields(p) = (a \o b) \o c
  BY <1>1, OpsDiffer DEF SubscribeFits, Fields, pack_subscribe, write_string
<1>4. PICK s : s = a \o b
  OBVIOUS
<1>5. s \in Seq(Nat) /\ Len(s) = 3
  <2>1. s \in Seq(Nat) /\ Len(s) = Len(a) + Len(b)
    BY <1>2, <1>4, ConcatView, Zenon
  <2> QED BY <1>2, <2>1
<1>6. s \o c \in Seq(Nat) /\ Len(s \o c) = 3 + n
  <2>1. s \o c \in Seq(Nat) /\ Len(s \o c) = Len(s) + Len(c)
    BY <1>2, <1>5, ConcatView, Zenon
  <2> QED BY <1>2, <1>5, <2>1
<1>7. ASSUME NEW d \in Seq(Nat), Holds(d, 5, s \o c)
      PROVE  Holds(d, 5, a) /\ Holds(d, 7, b) /\ Holds(d, 8, c)
  <2>1. Holds(d, 5, s) /\ Holds(d, 5 + 3, c)
    BY <1>2, <1>5, <1>7, HoldsSplit
  <2>2. Holds(d, 5, a) /\ Holds(d, 5 + 2, b)
    BY <1>2, <1>4, <2>1, HoldsSplit
  <2> QED BY <2>1, <2>2
<1> QED BY <1>1, <1>3, <1>4, <1>6, <1>7

LEMMA UnsubscribeFields ==
  ASSUME NEW p, UnsubscribeFits(p)
  PROVE  /\ Fields(p) \in Seq(Nat) /\ Len(Fields(p)) = 2 + strlen(p.topic)
         /\ \A d \in Seq(Nat) : Holds(d, 5, Fields(p)) =>
              /\ Holds(d, 5, write_uint16(p.topic_len))
              /\ Holds(d, 7, CString(p.topic))
<1>1. PICK a, c, n : /\ n = strlen(p.topic) /\ a = write_uint16(p.topic_len)
                     /\ c = CString(p.topic)
  OBVIOUS
<1>2. n \in Nat /\ c \in Seq(Nat) /\ Len(c) = n
  BY <1>1, CStringView DEF UnsubscribeFits, strlen
<1>3. p.topic_len \in Nat
  BY <1>1, <1>2, RadixFacts, Quotient DEF UnsubscribeFits
<1>4. a \in Seq(Nat) /\ Len(a) = 2
  BY <1>1, <1>3, WriteView
<1>5. Fields(p) = a \o c
  BY <1>1, OpsDiffer DEF UnsubscribeFits, Fields, pack_unsubscribe, write_string
<1>6. a \o c \in Seq(Nat) /\ Len(a \o c) = 2 + n
  <2>1. a \o c \in Seq(Nat) /\ Len(a \o c) = Len(a) + Len(c)
    BY <1>2, <1>4, ConcatView, Zenon
  <2> QED BY <1>2, <1>4, <2>1
<1>7. ASSUME NEW d \in Seq(Nat), Holds(d, 5, a \o c)
      PROVE  Holds(d, 5, a) /\ Holds(d, 7, c)
  <2>1. Holds(d, 5, a) /\ Holds(d, 5 + 2, c)
    BY <1>2, <1>4, <1>7, HoldsSplit
  <2> QED BY <2>1
<1> QED BY <1>1, <1>5, <1>6, <1>7

LEMMA AckFields ==
  ASSUME NEW p, AckFits(p)
  PROVE  /\ Fields(p) \in Seq(Nat) /\ Len(Fields(p)) = 3
         /\ \A d \in Seq(Nat) : Holds(d, 5, Fields(p)) =>
              Holds(d, 5, write_uint16(p.id)) /\ Holds(d, 7, write_uint8(p.rc))
<1>1. PICK a, b : a = write_uint16(p.id) /\ b = write_uint8(p.rc)
  OBVIOUS
<1>2. p.id \in Nat /\ p.rc \in Nat
  <2>1. p.id \in 0..(Wide - 1) /\ p.rc \in Byte
    BY DEF AckFits
  <2>2. p.rc \in Nat
    BY <2>1, ByteNat
  <2>3. Wide \in Nat
    BY RadixFacts
  <2> QED BY <2>1, <2>2, <2>3
<1>3. /\ a \in Seq(Nat) /\ b \in Seq(Nat) /\ Len(a) = 2 /\ Len(b) = 1
  BY <1>1, <1>2, WriteView
<1>4. Fields(p) = a \o b
  BY <1>1, OpsDiffer DEF AckFits, Fields, pack_ack
<1>5. a \o b \in Seq(Nat) /\ Len(a \o b) = 3
  <2>1. a \o b \in Seq(Nat) /\ Len(a \o b) = Len(a) + Len(b)
    BY <1>3, ConcatView, Zenon
  <2> QED BY <1>3, <2>1
<1>6. ASSUME NEW d \in Seq(Nat), Holds(d, 5, a \o b)
      PROVE  Holds(d, 5, a) /\ Holds(d, 7, b)
  <2>1. Holds(d, 5, a) /\ Holds(d, 5 + 2, b)
    BY <1>3, <1>6, HoldsSplit
  <2> QED BY <2>1
<1> QED BY <1>1, <1>4, <1>5, <1>6

LEMMA PublishFields ==
  ASSUME NEW p, PublishFits(p)
  PROVE  /\ Fields(p) \in Seq(Nat)
         /\ Len(Fields(p)) = 9 + strlen(p.topic) + strlen(p.message)
         /\ \A d \in Seq(Nat) : Holds(d, 5, Fields(p)) =>
              /\ Holds(d, 5, write_uint16(strlen(p.topic)))
              /\ Holds(d, 7, write_uint32(strlen(p.message)))
              /\ Holds(d, 11, write_uint8(p.qos))
              /\ Holds(d, 12, write_uint8(p.retain))
              /\ Holds(d, 13, write_uint8(p.dup))
              /\ Holds(d, 14, CString(p.topic))
              /\ Holds(d, 14 + strlen(p.topic), CString(p.message))
<1>1. PICK a, b, c, e, f, g, h, t, m :
        /\ t = strlen(p.topic) /\ m = strlen(p.message)
        /\ a = write_uint16(t) /\ b = write_uint32(m) /\ c = write_uint8(p.qos)
        /\ e = write_uint8(p.retain) /\ f = write_uint8(p.dup)
        /\ g = CString(p.topic) /\ h = CString(p.message)
  OBVIOUS
<1>2. /\ t \in Nat /\ g \in Seq(Nat) /\ Len(g) = t
      /\ m \in Nat /\ h \in Seq(Nat) /\ Len(h) = m
  BY <1>1, CStringView DEF PublishFits, strlen
<1>3. p.qos \in Nat /\ p.retain \in Nat /\ p.dup \in Nat
  BY ByteNat DEF PublishFits
<1>4. /\ a \in Seq(Nat) /\ Len(a) = 2 /\ b \in Seq(Nat) /\ Len(b) = 4
      /\ c \in Seq(Nat) /\ Len(c) = 1 /\ e \in Seq(Nat) /\ Len(e) = 1
      /\ f \in Seq(Nat) /\ Len(f) = 1
  BY <1>1, <1>2, <1>3, WriteView
<1>5. Fields(p) = (((((a \o b) \o c) \o e) \o f) \o g) \o h
  BY <1>1, OpsDiffer DEF PublishFits, Fields, pack_publish, write_string
<1>6. PICK s2, s3, s4, s5, s6, s7 :
        /\ s2 = a \o b /\ s3 = s2 \o c /\ s4 = s3 \o e /\ s5 = s4 \o f
        /\ s6 = s5 \o g /\ s7 = s6 \o h
  OBVIOUS
<1>7. s2 \in Seq(Nat) /\ Len(s2) = Len(a) + Len(b)
  BY <1>4, <1>6, ConcatView, Zenon
<1>8. s3 \in Seq(Nat) /\ Len(s3) = Len(s2) + Len(c)
  BY <1>4, <1>6, <1>7, ConcatView, Zenon
<1>9. s4 \in Seq(Nat) /\ Len(s4) = Len(s3) + Len(e)
  BY <1>4, <1>6, <1>8, ConcatView, Zenon
<1>10. s5 \in Seq(Nat) /\ Len(s5) = Len(s4) + Len(f)
  BY <1>4, <1>6, <1>9, ConcatView, Zenon
<1>11. s6 \in Seq(Nat) /\ Len(s6) = Len(s5) + Len(g)
  BY <1>2, <1>6, <1>10, ConcatView, Zenon
<1>12. s7 \in Seq(Nat) /\ Len(s7) = Len(s6) + Len(h)
  BY <1>2, <1>6, <1>11, ConcatView, Zenon
<1>13. /\ Len(s2) = 6 /\ Len(s3) = 7 /\ Len(s4) = 8 /\ Len(s5) = 9
       /\ Len(s6) = 9 + t /\ Len(s7) = 9 + t + m
  BY <1>2, <1>4, <1>7, <1>8, <1>9, <1>10, <1>11, <1>12
<1>14. ASSUME NEW d \in Seq(Nat), Holds(d, 5, s7)
       PROVE  /\ Holds(d, 5, a) /\ Holds(d, 7, b) /\ Holds(d, 11, c)
              /\ Holds(d, 12, e) /\ Holds(d, 13, f) /\ Holds(d, 14, g)
              /\ Holds(d, 14 + t, h)
  <2>0. 5 \in Nat
    OBVIOUS
  <2>1. Holds(d, 5, s6) /\ Holds(d, 5 + Len(s6), h)
    BY <1>2, <1>6, <1>11, <1>14, <2>0, HoldsSplit, Zenon
  <2>2. Holds(d, 5, s5) /\ Holds(d, 5 + Len(s5), g)
    BY <1>2, <1>6, <1>10, <2>0, <2>1, HoldsSplit, Zenon
  <2>3. Holds(d, 5, s4) /\ Holds(d, 5 + Len(s4), f)
    BY <1>4, <1>6, <1>9, <2>0, <2>2, HoldsSplit, Zenon
  <2>4. Holds(d, 5, s3) /\ Holds(d, 5 + Len(s3), e)
    BY <1>4, <1>6, <1>8, <2>0, <2>3, HoldsSplit, Zenon
  <2>5. Holds(d, 5, s2) /\ Holds(d, 5 + Len(s2), c)
    BY <1>4, <1>6, <1>7, <2>0, <2>4, HoldsSplit, Zenon
  <2>6. Holds(d, 5, a) /\ Holds(d, 5 + Len(a), b)
    BY <1>4, <1>6, <2>0, <2>5, HoldsSplit, Zenon
  <2>7. /\ 5 + Len(a) = 7 /\ 5 + Len(s2) = 11 /\ 5 + Len(s3) = 12
        /\ 5 + Len(s4) = 13 /\ 5 + Len(s5) = 14 /\ 5 + Len(s6) = 14 + t
    BY <1>2, <1>4, <1>13
  <2> QED BY <2>1, <2>2, <2>3, <2>4, <2>5, <2>6, <2>7
<1> QED BY <1>1, <1>5, <1>6, <1>12, <1>13, <1>14

LEMMA FieldsView ==
  ASSUME NEW p, Fits(p)
  PROVE  Fields(p) \in Seq(Nat) /\ HEADERLEN + Len(Fields(p)) <= p.size
<1>0. p.size \in Nat
  BY DEF Fits
<1>1. CASE ConnectFits(p)
  <2>1. strlen(p.id) \in Nat /\ 10 + strlen(p.id) <= p.size
    BY <1>1, CStringView DEF ConnectFits
  <2>2. Fields(p) \in Seq(Nat) /\ Len(Fields(p)) = 5 + strlen(p.id)
    BY <1>1, ConnectFields
  <2> QED BY <1>0, <2>1, <2>2 DEF HEADERLEN
<1>2. CASE SubscribeFits(p)
  <2>1. strlen(p.topic) \in Nat /\ 8 + strlen(p.topic) <= p.size
    BY <1>2, CStringView DEF SubscribeFits
  <2>2. Fields(p) \in Seq(Nat) /\ Len(Fields(p)) = 3 + strlen(p.topic)
    BY <1>2, SubscribeFields
  <2> QED BY <1>0, <2>1, <2>2 DEF HEADERLEN
<1>3. CASE UnsubscribeFits(p)
  <2>1. strlen(p.topic) \in Nat /\ 7 + strlen(p.topic) <= p.size
    BY <1>3, CStringView DEF UnsubscribeFits
  <2>2. Fields(p) \in Seq(Nat) /\ Len(Fields(p)) = 2 + strlen(p.topic)
    BY <1>3, UnsubscribeFields
  <2> QED BY <1>0, <2>1, <2>2 DEF HEADERLEN
<1>4. CASE PublishFits(p)
  <2>1. /\ strlen(p.topic) \in Nat /\ strlen(p.message) \in Nat
        /\ 16 + strlen(p.topic) + strlen(p.message) <= p.size
    BY <1>4, CStringView DEF PublishFits
  <2>2. /\ Fields(p) \in Seq(Nat)
        /\ Len(Fields(p)) = 9 + strlen(p.topic) + strlen(p.message)
    BY <1>4, PublishFields
  <2> QED BY <1>0, <2>1, <2>2 DEF HEADERLEN
<1>5. CASE AckFits(p)
  <2>1. Fields(p) \in Seq(Nat) /\ Len(Fields(p)) = 3 /\ 8 <= p.size
    BY <1>5, AckFields DEF AckFits
  <2> QED BY <1>0, <2>1 DEF HEADERLEN
<1> QED BY <1>1, <1>2, <1>3, <1>4, <1>5 DEF Fits

\* The data of a buffer p was packed into.
Carries(d, p) ==
  /\ d \in Seq(Nat) /\ Len(d) = p.size
  /\ d[1] = p.op /\ read_uint32(d, 1) = p.size /\ Holds(d, 5, Fields(p))

Buffers == [size : Nat, pos : Nat, data : Seq(Nat)]

LEMMA PackedView ==
  ASSUME NEW p, Fits(p), NEW b, b \in Packed(p, p.size)
  PROVE  /\ b \in Buffers /\ b.size = p.size /\ b.pos <= b.size
         /\ Carries(b.data, p)
<1>1. PICK f, n : f = Fields(p) /\ n = p.size
  OBVIOUS
<1>2. /\ f \in Seq(Nat) /\ 5 + Len(f) <= n /\ n \in Nat /\ n < Wide * Wide
      /\ Len(f) \in Nat
  BY <1>1, FieldsView DEF Fits, HEADERLEN
<1>3. p.op \in Nat
  BY OpsDiffer DEF Fits, ConnectFits, SubscribeFits, UnsubscribeFits, PublishFits,
     AckFits, Ops
<1>4. PICK o, s, h, w : /\ o = <<p.op>> /\ s = write_uint32(n) /\ h = o \o s
                        /\ w = h \o f
  OBVIOUS
<1>5. /\ o \in Seq(Nat) /\ Len(o) = 1 /\ o[1] = p.op
      /\ s \in Seq(Nat) /\ Len(s) = 4
  BY <1>2, <1>3, <1>4, WriteView
<1>6. h \in Seq(Nat) /\ Len(h) = Len(o) + Len(s)
  BY <1>4, <1>5, ConcatView, Zenon
<1>7. w \in Seq(Nat) /\ Len(w) = Len(h) + Len(f)
  BY <1>2, <1>4, <1>6, ConcatView, Zenon
<1>8. Len(h) = 5 /\ Len(w) = 5 + Len(f)
  BY <1>2, <1>5, <1>6, <1>7
<1>9. PICK junk \in Byte :
        b = [size |-> n, pos |-> Len(w), data |-> w \o [i \in 1..(n - Len(w)) |-> junk]]
  BY <1>1, <1>4 DEF Packed, pack_header
<1>10. PICK x : x = [i \in 1..(n - Len(w)) |-> junk]
  OBVIOUS
<1>11. x \in Seq(Nat) /\ Len(x) = n - Len(w)
  <2>1. n - Len(w) \in Nat /\ junk \in Nat
    BY <1>2, <1>8, ByteNat
  <2>2. x \in [1..(n - Len(w)) -> Nat]
    BY <1>10, <2>1
  <2>3. x \in Seq(Nat)
    BY <2>1, <2>2, SeqDef
  <2> QED BY <2>1, <2>2, <2>3
<1>12. PICK d : d = w \o x
  OBVIOUS
<1>13. d \in Seq(Nat) /\ Len(d) = Len(w) + Len(x)
  BY <1>7, <1>11, <1>12, ConcatView, Zenon
<1>14. Len(d) = n
  BY <1>2, <1>8, <1>11, <1>13
<1>15. Holds(d, 0, w \o x)
  BY <1>12, <1>13 DEF Holds
<1>16. Holds(d, 0, h \o f)
  BY <1>4, <1>7, <1>11, <1>13, <1>15, HoldsSplit
<1>17. Holds(d, 0, o \o s) /\ Holds(d, 5, f)
  <2>1. Holds(d, 0, h) /\ Holds(d, 0 + Len(h), f)
    BY <1>2, <1>6, <1>13, <1>16, HoldsSplit
  <2> QED BY <1>4, <1>8, <2>1
<1>18. Holds(d, 0, o) /\ Holds(d, 1, s)
  <2>1. Holds(d, 0, o) /\ Holds(d, 0 + Len(o), s)
    BY <1>5, <1>13, <1>17, HoldsSplit
  <2> QED BY <1>5, <2>1
<1>19. d[1] = p.op
  BY <1>5, <1>18 DEF Holds
<1>20. read_uint32(d, 1) = n
  <2>1. read_uint32(d, 1) = n % (Wide * Wide)
    BY <1>2, <1>4, <1>13, <1>18, Read32
  <2>2. n % (Wide * Wide) = n
    <3>1. PICK c : c = Wide * Wide
      OBVIOUS
    <3>2. c \in Nat /\ n < c
      BY <1>2, <3>1, RadixFacts
    <3>3. n % c = n
      BY <1>2, <3>2
    <3> QED BY <3>1, <3>3
  <2> QED BY <2>1, <2>2
<1>21. b.size = n /\ b.pos = Len(w) /\ b.data = d
  BY <1>9, <1>10, <1>12
<1>22. Carries(d, p)
  BY <1>1, <1>13, <1>14, <1>17, <1>19, <1>20 DEF Carries
<1>23. Len(w) \in Nat /\ Len(w) <= n
  BY <1>2, <1>8
<1>24. b \in Buffers
  BY <1>2, <1>9, <1>10, <1>12, <1>13, <1>23 DEF Buffers
<1> QED BY <1>1, <1>21, <1>22, <1>23, <1>24

(***************************************************************************)
(* What each unpack function makes of it.                                  *)
(***************************************************************************)
Delivers(u, p) ==
  /\ u.op = p.op /\ u.size = p.size /\ u.pos \in Nat /\ u.pos <= p.size
  /\ p.op # CONNECT /\ Short(p) => Meaning(u) = Meaning(p)
  /\ p.op = PUBLISH => PublishFits(u) /\ strlen(u.topic) < Wide

\* A 16-bit length read from the buffer.
LEMMA ReadLength ==
  ASSUME NEW d \in Seq(Nat), NEW p \in Nat, NEW s \in Seq(Nat),
         Holds(d, p, write_uint16(strlen(s)))
  PROVE  \E n \in Nat : /\ n = read_uint16(d, p) /\ n <= strlen(s) /\ n < Wide
                        /\ strlen(s) < Wide => n = strlen(s)
<1>1. PICK m, w : m = strlen(s) /\ w = Wide
  OBVIOUS
<1>2. m \in Nat /\ w \in Nat /\ w > 0
  BY <1>1, CStringView, RadixFacts
<1>3. read_uint16(d, p) = m % w
  BY <1>1, <1>2, Read16
<1>4. m % w \in Nat /\ m % w <= m /\ m % w < w /\ (m < w => m % w = m)
  BY <1>2, Quotient
<1> QED BY <1>1, <1>3, <1>4

\* A string read from the buffer, of its own length.
LEMMA ReadText ==
  ASSUME NEW d \in Seq(Nat), NEW p \in Nat, NEW s \in Seq(Nat),
         Holds(d, p, CString(s))
  PROVE  read_string(d, p, strlen(s)) = CString(s)
  BY CStringView, ReadString DEF strlen

LEMMA ConnectUnpack ==
  ASSUME NEW p, ConnectFits(p), p.size \in Nat, NEW d, Carries(d, p)
  PROVE  Delivers(Unpack(d), p)
<1>1. PICK i, z : i = p.id /\ z = p.size
  OBVIOUS
<1>2. /\ d \in Seq(Nat) /\ d[1] = CONNECT /\ p.op = CONNECT /\ z \in Nat
      /\ read_uint32(d, 1) = z /\ i \in Seq(Nat) /\ strlen(i) \in Nat
      /\ 10 + strlen(i) <= z /\ Holds(d, 5, write_uint16(strlen(i)))
  BY <1>1, ConnectFields, CStringView DEF Carries, ConnectFits
<1>3. PICK n \in Nat : n = read_uint16(d, 5) /\ n <= strlen(i)
  BY <1>2, ReadLength
<1>4. PICK u : u = Unpack(d)
  OBVIOUS
<1>5. u.op = CONNECT /\ u.size = z /\ u.pos = (5 + 5) + n
  BY <1>2, <1>3, <1>4, OpsDiffer DEF Unpack, unpack_connect, HEADERLEN
<1>6. u.pos \in Nat /\ u.pos <= z
  BY <1>2, <1>3, <1>5
<1> QED BY <1>1, <1>2, <1>4, <1>5, <1>6, OpsDiffer DEF Delivers

LEMMA SubscribeUnpack ==
  ASSUME NEW p, SubscribeFits(p), p.size \in Nat, NEW d, Carries(d, p)
  PROVE  Delivers(Unpack(d), p)
<1>1. PICK t, z : t = p.topic /\ z = p.size
  OBVIOUS
<1>2. /\ d \in Seq(Nat) /\ d[1] = SUBSCRIBE /\ p.op = SUBSCRIBE /\ z \in Nat
      /\ read_uint32(d, 1) = z /\ t \in Seq(Nat) /\ strlen(t) \in Nat
      /\ 8 + strlen(t) <= z /\ p.qos \in Byte
      /\ Holds(d, 5, write_uint16(strlen(t))) /\ Holds(d, 7, write_uint8(p.qos))
      /\ Holds(d, 8, CString(t))
  BY <1>1, SubscribeFields, CStringView DEF Carries, SubscribeFits
<1>3. PICK n \in Nat : /\ n = read_uint16(d, 5) /\ n <= strlen(t)
                       /\ strlen(t) < Wide => n = strlen(t)
  BY <1>2, ReadLength
<1>4. read_uint8(d, 7) = p.qos
  BY <1>2, ByteNat, Read8
<1>5. PICK u : u = Unpack(d)
  OBVIOUS
<1>6. /\ u.op = SUBSCRIBE /\ u.size = z /\ u.pos = 8 + n /\ u.qos = p.qos
      /\ u.topic = read_string(d, 8, n)
  <2>1. u = unpack_subscribe(d)
    BY <1>2, <1>5, OpsDiffer DEF Unpack
  <2>2. /\ u.op = d[1] /\ u.size = read_uint32(d, 1)
        /\ u.pos = 5 + 3 + read_uint16(d, 5) /\ u.qos = read_uint8(d, 5 + 2)
        /\ u.topic = read_string(d, 5 + 3, read_uint16(d, 5))
    BY <2>1 DEF unpack_subscribe, HEADERLEN
  <2> QED BY <1>2, <1>3, <1>4, <2>2
<1>7. u.pos \in Nat /\ u.pos <= z
  BY <1>2, <1>3, <1>6
<1>8. ASSUME Short(p) PROVE Meaning(u) = Meaning(p)
  <2>1. strlen(t) < Wide
    BY <1>1, <1>2, <1>8, OpsDiffer DEF Short
  <2>2. u.topic = CString(t)
    BY <1>2, <1>3, <1>6, <2>1, ReadText
  <2>3. CString(u.topic) = CString(t)
    BY <1>2, <2>2, CStringView
  <2>4. Meaning(u) = <<SUBSCRIBE, CString(u.topic), u.qos>>
    BY <1>6, OpsDiffer DEF Meaning
  <2>5. Meaning(p) = <<SUBSCRIBE, CString(t), p.qos>>
    BY <1>1, <1>2, OpsDiffer DEF Meaning
  <2> QED BY <1>6, <2>3, <2>4, <2>5
<1> QED BY <1>1, <1>2, <1>5, <1>6, <1>7, <1>8, OpsDiffer DEF Delivers

LEMMA UnsubscribeUnpack ==
  ASSUME NEW p, UnsubscribeFits(p), p.size \in Nat, NEW d, Carries(d, p)
  PROVE  Delivers(Unpack(d), p)
<1>1. PICK t, z, l, w : t = p.topic /\ z = p.size /\ l = strlen(p.topic) /\ w = Wide
  OBVIOUS
<1>2. /\ d \in Seq(Nat) /\ d[1] = UNSUBSCRIBE /\ p.op = UNSUBSCRIBE /\ z \in Nat
      /\ read_uint32(d, 1) = z /\ t \in Seq(Nat) /\ l \in Nat /\ 7 + l <= z
      /\ p.topic_len = l % w
      /\ Holds(d, 5, write_uint16(p.topic_len)) /\ Holds(d, 7, CString(t))
  BY <1>1, UnsubscribeFields, CStringView DEF Carries, UnsubscribeFits
<1>3. PICK n : n = l % w
  OBVIOUS
<1>4. /\ w \in Nat /\ w > 0
  BY <1>1, RadixFacts
<1>5. n \in Nat /\ n <= l /\ n < w /\ (l < w => n = l) /\ n % w = n
  BY <1>2, <1>3, <1>4, Quotient
<1>6. read_uint16(d, 5) = n
  BY <1>1, <1>2, <1>3, <1>5, Read16
<1>7. PICK u : u = Unpack(d)
  OBVIOUS
<1>8. /\ u.op = UNSUBSCRIBE /\ u.size = z /\ u.pos = 7 + n
      /\ u.topic = read_string(d, 7, n)
  <2>1. u = unpack_unsubscribe(d)
    BY <1>2, <1>7, OpsDiffer DEF Unpack
  <2>2. /\ u.op = d[1] /\ u.size = read_uint32(d, 1)
        /\ u.pos = 5 + 2 + read_uint16(d, 5)
        /\ u.topic = read_string(d, 5 + 2, read_uint16(d, 5))
    BY <2>1 DEF unpack_unsubscribe, HEADERLEN
  <2> QED BY <1>2, <1>6, <2>2
<1>9. u.pos \in Nat /\ u.pos <= z
  BY <1>2, <1>5, <1>8
<1>10. ASSUME Short(p) PROVE Meaning(u) = Meaning(p)
  <2>1. n = strlen(t)
    BY <1>1, <1>2, <1>5, <1>10, OpsDiffer DEF Short
  <2>2. u.topic = CString(t)
    BY <1>2, <1>8, <2>1, ReadText
  <2>3. CString(u.topic) = CString(t)
    BY <1>2, <2>2, CStringView
  <2>4. Meaning(u) = <<UNSUBSCRIBE, CString(u.topic)>>
    BY <1>8, OpsDiffer DEF Meaning
  <2>5. Meaning(p) = <<UNSUBSCRIBE, CString(t)>>
    BY <1>1, <1>2, OpsDiffer DEF Meaning
  <2> QED BY <2>3, <2>4, <2>5
<1> QED BY <1>1, <1>2, <1>7, <1>8, <1>9, <1>10, OpsDiffer DEF Delivers

LEMMA AckUnpack ==
  ASSUME NEW p, AckFits(p), p.size \in Nat, NEW d, Carries(d, p)
  PROVE  Delivers(Unpack(d), p)
<1>1. PICK z, x : z = p.size /\ x = p.id
  OBVIOUS
<1>2. /\ d \in Seq(Nat) /\ d[1] = p.op /\ p.op \in Acks /\ z \in Nat
      /\ read_uint32(d, 1) = z /\ 8 <= z /\ p.rc \in Byte /\ x \in 0..(Wide - 1)
      /\ Holds(d, 5, write_uint16(x)) /\ Holds(d, 7, write_uint8(p.rc))
  BY <1>1, AckFields DEF Carries, AckFits
<1>3. x \in Nat /\ x % Wide = x
  <2>1. PICK w : w = Wide
    OBVIOUS
  <2>2. w \in Nat /\ w > 0
    BY <2>1, RadixFacts
  <2>3. x \in Nat /\ x < w
    BY <1>2, <2>1, <2>2
  <2>4. x % w = x
    BY <2>2, <2>3, Quotient
  <2> QED BY <2>1, <2>3, <2>4
<1>4. read_uint16(d, 5) = x /\ read_uint8(d, 7) = p.rc
  BY <1>2, <1>3, ByteNat, Read8, Read16
<1>5. PICK u : u = Unpack(d)
  OBVIOUS
<1>6. u.op = p.op /\ u.size = z /\ u.pos = 8 /\ u.id = x /\ u.rc = p.rc
  <2>1. u = unpack_ack(d)
    BY <1>2, <1>5, OpsDiffer DEF Unpack
  <2>2. /\ u.op = d[1] /\ u.size = read_uint32(d, 1) /\ u.pos = 5 + 3
        /\ u.id = read_uint16(d, 5) /\ u.rc = read_uint8(d, 5 + 2)
    BY <2>1 DEF unpack_ack, HEADERLEN
  <2> QED BY <1>2, <1>4, <2>2
<1>7. u.pos \in Nat /\ u.pos <= z
  BY <1>2, <1>6
<1>8. Meaning(u) = Meaning(p)
  <2>1. Meaning(u) = <<u.op, u.id, u.rc>>
    BY <1>2, <1>6, OpsDiffer DEF Meaning
  <2>2. Meaning(p) = <<p.op, p.id, p.rc>>
    BY <1>2, OpsDiffer DEF Meaning
  <2> QED BY <1>1, <1>6, <2>1, <2>2
<1> QED BY <1>1, <1>2, <1>5, <1>6, <1>7, <1>8, OpsDiffer DEF Delivers

LEMMA PublishMeaning ==
  ASSUME NEW p, p.op = PUBLISH
  PROVE  /\ Meaning(p) = <<p.op, CString(p.topic), CString(p.message), p.qos,
                           p.retain, p.dup>>
         /\ Short(p) <=> strlen(p.topic) < Wide
<1>1. /\ p.op # CONNECT /\ p.op # SUBSCRIBE /\ p.op # UNSUBSCRIBE
      /\ p.op \in {SUBSCRIBE, UNSUBSCRIBE, PUBLISH}
  BY OpsDiffer
<1> QED BY <1>1, Zenon DEF Meaning, Short

LEMMA PublishUnpack ==
  ASSUME NEW p, PublishFits(p), p.size \in Nat, p.size < Wide * Wide,
         NEW d, Carries(d, p)
  PROVE  Delivers(Unpack(d), p)
<1>1. PICK t, m, z : t = p.topic /\ m = p.message /\ z = p.size
  OBVIOUS
<1>2. /\ d \in Seq(Nat) /\ Len(d) = z /\ d[1] = PUBLISH /\ p.op = PUBLISH
      /\ z \in Nat /\ read_uint32(d, 1) = z /\ t \in Seq(Nat) /\ m \in Seq(Nat)
      /\ strlen(t) \in Nat /\ strlen(m) \in Nat
      /\ 16 + strlen(t) + strlen(m) <= z
      /\ p.qos \in Byte /\ p.retain \in Byte /\ p.dup \in Byte
  BY <1>1, CStringView DEF Carries, PublishFits
<1>3. /\ Holds(d, 5, write_uint16(strlen(t))) /\ Holds(d, 7, write_uint32(strlen(m)))
      /\ Holds(d, 11, write_uint8(p.qos)) /\ Holds(d, 12, write_uint8(p.retain))
      /\ Holds(d, 13, write_uint8(p.dup)) /\ Holds(d, 14, CString(t))
      /\ Holds(d, 14 + strlen(t), CString(m))
  BY <1>1, PublishFields DEF Carries
<1>4. PICK n \in Nat : /\ n = read_uint16(d, 5) /\ n <= strlen(t) /\ n < Wide
                       /\ strlen(t) < Wide => n = strlen(t)
  BY <1>2, <1>3, ReadLength
<1>5. read_uint32(d, 7) = strlen(m)
  <2>1. PICK c, l : c = Wide * Wide /\ l = strlen(m)
    OBVIOUS
  <2>2. c \in Nat /\ l \in Nat /\ l < c
    BY <1>1, <1>2, <2>1, RadixFacts
  <2>3. l % c = l
    BY <2>2, Quotient
  <2>4. read_uint32(d, 7) = l % c
    BY <1>2, <1>3, <2>1, Read32
  <2> QED BY <2>1, <2>3, <2>4
<1>6. /\ read_uint8(d, 11) = p.qos /\ read_uint8(d, 12) = p.retain
      /\ read_uint8(d, 13) = p.dup
  BY <1>2, <1>3, ByteNat, Read8
<1>7. PICK u : u = Unpack(d)
  OBVIOUS
<1>8. /\ u.op = PUBLISH /\ u.size = z /\ u.pos = 14 + n + strlen(m)
      /\ u.qos = p.qos /\ u.retain = p.retain /\ u.dup = p.dup
      /\ u.topic = read_string(d, 14, n)
      /\ u.message = read_string(d, 14 + n, strlen(m))
  <2>1. u = unpack_publish(d)
    BY <1>2, <1>7, OpsDiffer DEF Unpack
  <2>2. /\ u.op = d[1] /\ u.size = read_uint32(d, 1)
        /\ u.pos = 5 + 9 + read_uint16(d, 5) + read_uint32(d, 5 + 2)
        /\ u.qos = read_uint8(d, 5 + 6) /\ u.retain = read_uint8(d, 5 + 7)
        /\ u.dup = read_uint8(d, 5 + 8)
        /\ u.topic = read_string(d, 5 + 9, read_uint16(d, 5))
        /\ u.message = read_string(d, 5 + 9 + read_uint16(d, 5), read_uint32(d, 5 + 2))
    BY <2>1 DEF unpack_publish, HEADERLEN
  <2>3. /\ 5 + 9 = 14 /\ 5 + 2 = 7 /\ 5 + 6 = 11 /\ 5 + 7 = 12 /\ 5 + 8 = 13
    OBVIOUS
  <2> QED BY <1>2, <1>4, <1>5, <1>6, <2>2, <2>3
<1>9. 14 + n + strlen(m) \in Nat /\ 14 + n + strlen(m) <= z
  <2>1. PICK k, l : k = strlen(t) /\ l = strlen(m)
    OBVIOUS
  <2>2. k \in Nat /\ l \in Nat /\ n <= k /\ 16 + k + l <= z /\ z \in Nat
    BY <1>2, <1>4, <2>1
  <2>3. 14 + n + l \in Nat /\ 14 + n + l <= z
    BY <2>2
  <2> QED BY <2>1, <2>3
<1>10. u.pos \in Nat /\ u.pos <= z
  BY <1>8, <1>9
<1>11. /\ u.topic \in Seq(Nat) /\ Len(u.topic) = n
       /\ u.message \in Seq(Nat) /\ Len(u.message) = strlen(m)
  <2>1. 14 + n <= Len(d) /\ 14 + n \in Nat /\ (14 + n) + strlen(m) <= Len(d)
    <3>1. PICK l : l = strlen(m)
      OBVIOUS
    <3>2. l \in Nat /\ 14 + n + l <= Len(d) /\ Len(d) \in Nat
      BY <1>2, <1>9, <3>1
    <3>3. 14 + n <= Len(d) /\ 14 + n \in Nat /\ (14 + n) + l <= Len(d)
      BY <3>2
    <3> QED BY <3>1, <3>3
  <2>2. /\ read_string(d, 14, n) \in Seq(Nat) /\ Len(read_string(d, 14, n)) = n
    BY <1>2, <2>1, SliceView DEF read_string
  <2>3. PICK x, l : x = 14 + n /\ l = strlen(m)
    OBVIOUS
  <2>4. read_string(d, x, l) \in Seq(Nat) /\ Len(read_string(d, x, l)) = l
    BY <1>2, <2>1, <2>3, SliceView DEF read_string
  <2> QED BY <1>8, <2>2, <2>3, <2>4
<1>12. PublishFits(u) /\ strlen(u.topic) < Wide
  <2>1. /\ strlen(u.topic) \in Nat /\ strlen(u.topic) <= n
        /\ strlen(u.message) \in Nat /\ strlen(u.message) <= strlen(m)
    BY <1>11, CStringView
  <2>2. 16 + strlen(u.topic) + strlen(u.message) <= z
    BY <1>2, <1>4, <2>1
  <2>3. strlen(u.topic) < Wide
    <3>1. PICK w : w = Wide
      OBVIOUS
    <3>2. w \in Nat /\ n < w
      BY <1>4, <3>1, RadixFacts
    <3> QED BY <1>4, <2>1, <3>1, <3>2
  <2> QED BY <1>2, <1>8, <1>11, <2>2, <2>3 DEF PublishFits
<1>13. ASSUME Short(p) PROVE Meaning(u) = Meaning(p)
  <2>1. n = strlen(t)
    BY <1>1, <1>2, <1>4, <1>13, PublishMeaning
  <2>2. u.topic = CString(t)
    BY <1>2, <1>3, <1>8, <2>1, ReadText
  <2>3. u.message = CString(m)
    <3>1. PICK x : x = 14 + strlen(t)
      OBVIOUS
    <3>2. x \in Nat
      BY <1>2, <3>1
    <3>3. read_string(d, x, strlen(m)) = CString(m)
      BY <1>2, <1>3, <3>1, <3>2, ReadText
    <3> QED BY <1>8, <2>1, <3>1, <3>3
  <2>4. CString(u.topic) = CString(t) /\ CString(u.message) = CString(m)
    BY <1>2, <2>2, <2>3, CStringView
  <2> QED BY <1>1, <1>2, <1>8, <2>4, PublishMeaning
<1> QED BY <1>1, <1>2, <1>7, <1>8, <1>10, <1>12, <1>13 DEF Delivers

LEMMA UnpackView ==
  ASSUME NEW p, Fits(p), NEW d, Carries(d, p)
  PROVE  Delivers(Unpack(d), p)
  BY ConnectUnpack, SubscribeUnpack, UnsubscribeUnpack, PublishUnpack, AckUnpack
  DEF Fits

(***************************************************************************)
(* The structures that are built.                                          *)
(***************************************************************************)
Publishes == [op : {PUBLISH}, size : Nat, topic : Seq(Nat), message : Seq(Nat),
              qos : Byte, retain : Byte, dup : Byte]

LEMMA TextView ==
  ASSUME NEW s \in Texts, NEW t \in Texts
  PROVE  /\ s \in Seq(Nat) /\ strlen(s) \in Nat
         /\ 16 + strlen(s) + strlen(t) < Wide * Wide
<1>1. s \in Seq(Byte) /\ t \in Seq(Byte) /\ Len(s) + Len(t) + 16 < Wide * Wide
  BY TextsAssumption
<1>2. s \in Seq(Nat) /\ t \in Seq(Nat)
  <2>1. ASSUME NEW x \in Seq(Byte) PROVE x \in Seq(Nat)
    <3>1. Len(x) \in Nat /\ x \in [1..Len(x) -> Byte]
      OBVIOUS
    <3>2. x \in [1..Len(x) -> Nat]
      BY <3>1, ByteNat
    <3> QED BY <3>1, <3>2, SeqDef
  <2> QED BY <1>1, <2>1
<1>3. /\ strlen(s) \in Nat /\ strlen(s) <= Len(s)
      /\ strlen(t) \in Nat /\ strlen(t) <= Len(t)
  BY <1>2, CStringView
<1>4. PICK c : c = Wide * Wide
  OBVIOUS
<1>5. c \in Nat /\ Len(s) \in Nat /\ Len(t) \in Nat
  BY <1>2, <1>4, RadixFacts
<1>6. 16 + strlen(s) + strlen(t) < c
  BY <1>1, <1>3, <1>4, <1>5
<1> QED BY <1>2, <1>3, <1>4, <1>6

LEMMA ConnectBuilt ==
  ASSUME NEW i \in Texts, NEW k \in Numbers, NEW c \in {0, 1}
  PROVE  Fits(connect_pkt(i, k, c)) /\ connect_pkt(i, k, c).op # PUBLISH
<1>1. PICK p, n, w : p = connect_pkt(i, k, c) /\ n = strlen(i) /\ w = Wide * Wide
  OBVIOUS
<1>2. i \in Seq(Nat) /\ n \in Nat /\ 16 + n + n < w /\ w \in Nat
  BY <1>1, TextView, RadixFacts
<1>3. k % Radix \in Nat
  BY NumbersAssumption, RadixFacts
<1>4. /\ p.op = CONNECT /\ p.size = 5 + n + 2 * 2 + 2 * 1 /\ p.id = i
      /\ p.keepalive = k % Radix /\ p.clean_session = c
  BY <1>1 DEF connect_pkt, HEADERLEN
<1>5. p.size \in Nat /\ p.size < w /\ 10 + n <= p.size
  BY <1>2, <1>4
<1>6. ConnectFits(p)
  BY <1>1, <1>2, <1>3, <1>4, <1>5 DEF ConnectFits
<1> QED BY <1>1, <1>4, <1>5, <1>6, OpsDiffer DEF Fits

LEMMA SubscribeBuilt ==
  ASSUME NEW t \in Texts, NEW q \in 0..2
  PROVE  Fits(subscribe_pkt(t, q)) /\ subscribe_pkt(t, q).op # PUBLISH
<1>1. PICK p, n, w : p = subscribe_pkt(t, q) /\ n = strlen(t) /\ w = Wide * Wide
  OBVIOUS
<1>2. t \in Seq(Nat) /\ n \in Nat /\ 16 + n + n < w /\ w \in Nat
  BY <1>1, TextView, RadixFacts
<1>3. q \in Byte
  BY RadixFacts DEF Byte
<1>4. p.op = SUBSCRIBE /\ p.size = 5 + n + 2 + 3 * 1 /\ p.topic = t /\ p.qos = q
  BY <1>1 DEF subscribe_pkt, HEADERLEN
<1>5. p.size \in Nat /\ p.size < w /\ 8 + n <= p.size
  BY <1>2, <1>4
<1>6. SubscribeFits(p)
  BY <1>1, <1>2, <1>3, <1>4, <1>5 DEF SubscribeFits
<1> QED BY <1>1, <1>4, <1>5, <1>6, OpsDiffer DEF Fits

LEMMA UnsubscribeBuilt ==
  ASSUME NEW t \in Texts
  PROVE  Fits(unsubscribe_pkt(t)) /\ unsubscribe_pkt(t).op # PUBLISH
<1>1. PICK p, n, w : p = unsubscribe_pkt(t) /\ n = strlen(t) /\ w = Wide * Wide
  OBVIOUS
<1>2. t \in Seq(Nat) /\ n \in Nat /\ 16 + n + n < w /\ w \in Nat
  BY <1>1, TextView, RadixFacts
<1>3. /\ p.op = UNSUBSCRIBE /\ p.size = 5 + n + 2 + 1 /\ p.topic = t
      /\ p.topic_len = n % Wide
  BY <1>1 DEF unsubscribe_pkt, HEADERLEN
<1>4. p.size \in Nat /\ p.size < w /\ 7 + n <= p.size
  BY <1>2, <1>3
<1>5. UnsubscribeFits(p)
  BY <1>1, <1>2, <1>3, <1>4 DEF UnsubscribeFits
<1> QED BY <1>1, <1>3, <1>4, <1>5, OpsDiffer DEF Fits

LEMMA AckBuilt ==
  ASSUME NEW o \in Acks, NEW i \in Numbers, NEW r \in {0, 1}
  PROVE  Fits(ack_pkt(o, i, r)) /\ ack_pkt(o, i, r).op # PUBLISH
<1>1. PICK p, w : p = ack_pkt(o, i, r) /\ w = Wide * Wide
  OBVIOUS
<1>2. p.op = o /\ p.size = 8 /\ p.id = i /\ p.rc = r
  BY <1>1 DEF ack_pkt, HEADERLEN
<1>3. r \in Byte
  BY RadixFacts DEF Byte
<1>4. i \in 0..(Wide - 1)
  BY NumbersAssumption
<1>5. 8 < w
  BY <1>1, RadixFacts
<1>6. AckFits(p)
  BY <1>2, <1>3, <1>4 DEF AckFits
<1> QED BY <1>1, <1>2, <1>5, <1>6, OpsDiffer DEF Fits

\* A PUBLISH, of a client or of a retained message.
LEMMA PublishBuilt ==
  ASSUME NEW t \in Seq(Nat), NEW m \in Seq(Nat), NEW q \in Byte, NEW r \in Byte,
         NEW u \in Byte, 16 + strlen(t) + strlen(m) < Wide * Wide
  PROVE  /\ Fits(publish_pkt(t, m, q, r, u))
         /\ publish_pkt(t, m, q, r, u) \in Publishes
<1>1. PICK p, k, n, w : /\ p = publish_pkt(t, m, q, r, u) /\ k = strlen(t)
                        /\ n = strlen(m) /\ w = Wide * Wide
  OBVIOUS
<1>2. k \in Nat /\ n \in Nat /\ 16 + k + n < w /\ w \in Nat
  BY <1>1, CStringView, RadixFacts
<1>3. PICK z : z = 5 + k + n + 2 + 4 + 5 * 1
  OBVIOUS
<1>4. z \in Nat /\ z < w /\ 16 + k + n <= z
  BY <1>2, <1>3
<1>5. p = [op |-> PUBLISH, size |-> z, topic |-> t, message |-> m, qos |-> q,
           retain |-> r, dup |-> u]
  BY <1>1, <1>3 DEF publish_pkt, HEADERLEN
<1>6. PublishFits(p)
  BY <1>1, <1>4, <1>5 DEF PublishFits
<1>7. p \in Publishes
  BY <1>4, <1>5 DEF Publishes
<1>8. p.size \in Nat /\ p.size < w
  BY <1>4, <1>5
<1> QED BY <1>1, <1>6, <1>7, <1>8 DEF Fits

-----------------------------------------------------------------------------
(***************************************************************************)
(* A packet's way.  Its structure names a size it fits; a receiver gets    *)
(* one of the same size, and of a PUBLISH one that fits as well, so that   *)
(* it can be packed again; the retained message is the broker's copy.      *)
(***************************************************************************)
Again(m) == publish_pkt(m.topic, m.payload, m.qos, 1, 0)

Distributed == {"forwarded", "received", "resent", "replayed"}
BufferInv == buf \in Buffers /\ FitsBuffer
BuiltInv == stage # "idle" => /\ Fits(pkt)
                              /\ pkt.op = PUBLISH => pkt \in Publishes
SentInv ==
  /\ stage = "packed" => buf.size = pkt.size /\ Carries(buf.data, pkt)
  /\ stage = "forwarded" => buf.size = got.size /\ Carries(buf.data, got)
  /\ stage = "resent" => buf.size = Again(msg).size /\ Carries(buf.data, Again(msg))
GotInv ==
  /\ stage \in Distributed \cup {"unpacked", "accepted"} => Delivers(got, pkt)
  /\ stage \in Distributed => pkt.op = PUBLISH
CopyInv ==
  /\ stage = "received" => Delivers(copy, got)
  /\ stage = "replayed" => Delivers(copy, Again(msg))
KeptInv ==
  /\ stage \notin Distributed => msg = NULL
  /\ msg = NULL \/ msg = create_message(got)
  /\ stage \in {"resent", "replayed"} => msg = create_message(got)
WireInv == BufferInv /\ BuiltInv /\ SentInv /\ GotInv /\ CopyInv /\ KeptInv

\* What the broker has of a PUBLISH fits its size too.
LEMMA GotFits ==
  ASSUME Fits(pkt), pkt.op = PUBLISH, Delivers(got, pkt)
  PROVE  /\ PublishFits(got) /\ Fits(got) /\ got.op = PUBLISH
         /\ strlen(got.topic) < Wide
<1>1. /\ PublishFits(got) /\ strlen(got.topic) < Wide /\ got.size = pkt.size
      /\ got.op = PUBLISH
  BY DEF Delivers
<1> QED BY <1>1 DEF Fits

\* A retained message keeps what the broker got, and makes a PUBLISH that fits.
LEMMA AgainFits ==
  ASSUME Fits(pkt), pkt.op = PUBLISH, Delivers(got, pkt),
         NEW m, m = create_message(got)
  PROVE  /\ Fits(Again(m)) /\ Again(m) \in Publishes
         /\ Again(m).topic = CString(got.topic)
         /\ Again(m).message = CString(got.message)
         /\ Again(m).qos = got.qos /\ Again(m).retain = 1 /\ Again(m).dup = 0
<1>1. PublishFits(got) /\ got.size \in Nat /\ got.size < Wide * Wide
  BY GotFits DEF Fits
<1>2. PICK t, s : t = CString(got.topic) /\ s = CString(got.message)
  OBVIOUS
<1>3. /\ got.topic \in Seq(Nat) /\ got.message \in Seq(Nat) /\ got.qos \in Byte
      /\ 16 + strlen(got.topic) + strlen(got.message) <= got.size
  BY <1>1 DEF PublishFits
<1>4. /\ t \in Seq(Nat) /\ s \in Seq(Nat)
      /\ strlen(t) = strlen(got.topic) /\ strlen(s) = strlen(got.message)
      /\ strlen(t) \in Nat /\ strlen(s) \in Nat
  BY <1>2, <1>3, CStringView DEF strlen
<1>5. 16 + strlen(t) + strlen(s) < Wide * Wide
  <2>1. PICK c : c = Wide * Wide
    OBVIOUS
  <2>2. c \in Nat /\ got.size \in Nat /\ got.size < c
    BY <1>1, <2>1, RadixFacts
  <2>3. 16 + strlen(t) + strlen(s) < c
    BY <1>3, <1>4, <2>2
  <2> QED BY <2>1, <2>3
<1>6. 0 \in Byte /\ 1 \in Byte
  BY RadixFacts DEF Byte
<1>7. m.topic = t /\ m.payload = s /\ m.qos = got.qos
  BY <1>2 DEF create_message
<1>8. Again(m) = publish_pkt(t, s, got.qos, 1, 0)
  BY <1>7 DEF Again
<1>9. Fits(Again(m)) /\ Again(m) \in Publishes
  BY <1>3, <1>4, <1>5, <1>6, <1>8, PublishBuilt
<1> QED BY <1>2, <1>8, <1>9 DEF publish_pkt

LEMMA BuildStep ==
  ASSUME WireInv, BuildAny PROVE WireInv'
<1>1. ASSUME NEW p, Build(p), Fits(p), p.op = PUBLISH => p \in Publishes
      PROVE  WireInv'
  <2>1. /\ stage = "idle" /\ stage' = "built" /\ pkt' = p
        /\ UNCHANGED <<buf, got, msg, copy>>
    BY <1>1 DEF Build
  <2>2. BufferInv'
    BY <2>1 DEF WireInv, BufferInv, FitsBuffer
  <2>3. BuiltInv'
    BY <1>1, <2>1 DEF BuiltInv
  <2>4. msg = NULL
    BY <2>1 DEF WireInv, KeptInv, Distributed
  <2>5. SentInv' /\ GotInv' /\ CopyInv' /\ KeptInv'
    BY <2>1, <2>4 DEF SentInv, GotInv, CopyInv, KeptInv, Distributed
  <2> QED BY <2>2, <2>3, <2>5 DEF WireInv
<1>2. ASSUME NEW i \in Texts, NEW k \in Numbers, NEW c \in {0, 1},
             Build(connect_pkt(i, k, c))
      PROVE  WireInv'
  BY <1>1, <1>2, ConnectBuilt
<1>3. ASSUME NEW t \in Texts, NEW q \in 0..2,
             Build(subscribe_pkt(t, q)) \/ Build(unsubscribe_pkt(t))
      PROVE  WireInv'
  BY <1>1, <1>3, SubscribeBuilt, UnsubscribeBuilt
<1>4. ASSUME NEW t \in Texts, NEW m \in Texts, NEW q \in 0..2, NEW r \in {0, 1},
             NEW d \in {0, 1}, Build(publish_pkt(t, m, q, r, d))
      PROVE  WireInv'
  <2>1. q \in Byte /\ r \in Byte /\ d \in Byte
    BY RadixFacts DEF Byte
  <2>2. /\ t \in Seq(Nat) /\ m \in Seq(Nat)
        /\ 16 + strlen(t) + strlen(m) < Wide * Wide
    BY TextView
  <2>3. /\ Fits(publish_pkt(t, m, q, r, d)) /\ publish_pkt(t, m, q, r, d) \in Publishes
    BY <2>1, <2>2, PublishBuilt
  <2> QED BY <1>1, <1>4, <2>3
<1>5. ASSUME NEW o \in Acks, NEW i \in Numbers, NEW c \in {0, 1},
             Build(ack_pkt(o, i, c))
      PROVE  WireInv'
  BY <1>1, <1>5, AckBuilt
<1> QED BY <1>2, <1>3, <1>4, <1>5 DEF BuildAny

LEMMA PackStep ==
  ASSUME WireInv, Pack PROVE WireInv'
<1>1. /\ stage = "built" /\ stage' = "packed" /\ buf' \in Packed(pkt, pkt.size)
      /\ UNCHANGED <<pkt, got, msg, copy>>
  BY DEF Pack
<1>2. Fits(pkt) /\ (pkt.op = PUBLISH => pkt \in Publishes) /\ msg = NULL
  BY <1>1 DEF WireInv, BuiltInv, KeptInv, Distributed
<1>3. /\ buf' \in Buffers /\ buf'.size = pkt.size /\ buf'.pos <= buf'.size
      /\ Carries(buf'.data, pkt)
  BY <1>1, <1>2, PackedView
<1>4. BufferInv'
  BY <1>3 DEF BufferInv, FitsBuffer, Carries
<1>5. BuiltInv' /\ SentInv' /\ GotInv' /\ CopyInv' /\ KeptInv'
  BY <1>1, <1>2, <1>3 DEF BuiltInv, SentInv, GotInv, CopyInv, KeptInv, Distributed
<1> QED BY <1>4, <1>5 DEF WireInv

\* A receiver's reads stay in the buffer.
LEMMA ReadInside ==
  ASSUME BufferInv, NEW p, p.size = buf.size, NEW u, Delivers(u, p),
         buf' = [buf EXCEPT !.pos = u.pos]
  PROVE  BufferInv'
<1>1. buf \in Buffers /\ Len(buf.data) = buf.size /\ u.pos \in Nat /\ u.pos <= buf.size
  BY DEF BufferInv, FitsBuffer, Delivers
<1>2. /\ buf' \in Buffers /\ buf'.pos = u.pos /\ buf'.size = buf.size
      /\ buf'.data = buf.data
  BY <1>1 DEF Buffers
<1> QED BY <1>1, <1>2 DEF BufferInv, FitsBuffer

LEMMA UnpackStep ==
  ASSUME WireInv, ClientUnpack \/ BrokerUnpack PROVE WireInv'
<1>1. /\ stage = "packed" /\ UNCHANGED <<pkt, msg, copy>>
      /\ \/ stage' = "refused" /\ UNCHANGED buf
         \/ /\ stage' \in {"unpacked", "accepted"} /\ got' = Unpack(buf.data)
            /\ buf' = [buf EXCEPT !.pos = got'.pos]
  BY DEF ClientUnpack, BrokerUnpack, unpack_packet
<1>2. /\ BufferInv /\ Fits(pkt) /\ (pkt.op = PUBLISH => pkt \in Publishes)
      /\ msg = NULL /\ buf.size = pkt.size /\ Carries(buf.data, pkt)
  BY <1>1 DEF WireInv, BuiltInv, KeptInv, SentInv, Distributed
<1>3. BuiltInv' /\ SentInv' /\ CopyInv' /\ KeptInv'
  BY <1>1, <1>2 DEF BuiltInv, SentInv, CopyInv, KeptInv, Distributed
<1>4. CASE stage' = "refused" /\ UNCHANGED buf
  BY <1>2, <1>3, <1>4 DEF WireInv, BufferInv, FitsBuffer, GotInv, Distributed
<1>5. CASE /\ stage' \in {"unpacked", "accepted"} /\ got' = Unpack(buf.data)
           /\ buf' = [buf EXCEPT !.pos = got'.pos]
  <2>1. Delivers(got', pkt)
    BY <1>2, <1>5, UnpackView
  <2>2. BufferInv'
    BY <1>2, <1>5, <2>1, ReadInside
  <2>3. GotInv'
    BY <1>1, <1>5, <2>1 DEF GotInv, Distributed
  <2> QED BY <1>3, <2>2, <2>3 DEF WireInv
<1> QED BY <1>1, <1>4, <1>5

LEMMA DistributeStep ==
  ASSUME WireInv, Distribute PROVE WireInv'
<1>1. /\ stage = "accepted" /\ stage' = "forwarded" /\ got.op = PUBLISH
      /\ buf' \in Packed(got, got.size) /\ UNCHANGED <<pkt, got, copy>>
      /\ msg' = create_message(got) \/ msg' = msg
  BY DEF Distribute
<1>2. /\ Fits(pkt) /\ (pkt.op = PUBLISH => pkt \in Publishes) /\ Delivers(got, pkt)
      /\ msg = NULL
  BY <1>1 DEF WireInv, BuiltInv, GotInv, KeptInv, Distributed
<1>3. pkt.op = PUBLISH
  BY <1>1, <1>2 DEF Delivers
<1>4. Fits(got)
  BY <1>2, <1>3, GotFits
<1>5. /\ buf' \in Buffers /\ buf'.size = got.size /\ buf'.pos <= buf'.size
      /\ Carries(buf'.data, got)
  BY <1>1, <1>4, PackedView
<1>6. BufferInv'
  BY <1>5 DEF BufferInv, FitsBuffer, Carries
<1>7. BuiltInv' /\ SentInv' /\ CopyInv'
  BY <1>1, <1>2, <1>5 DEF BuiltInv, SentInv, CopyInv
<1>8. GotInv' /\ KeptInv'
  BY <1>1, <1>2, <1>3 DEF GotInv, KeptInv, Distributed, create_message
<1> QED BY <1>6, <1>7, <1>8 DEF WireInv

LEMMA SendRetainedStep ==
  ASSUME WireInv, SendRetained PROVE WireInv'
<1>1. /\ stage = "received" /\ stage' = "resent" /\ msg # NULL
      /\ buf' \in Packed(Again(msg), Again(msg).size)
      /\ UNCHANGED <<pkt, got, msg, copy>>
  BY DEF SendRetained, Again
<1>2. /\ Fits(pkt) /\ (pkt.op = PUBLISH => pkt \in Publishes) /\ Delivers(got, pkt)
      /\ pkt.op = PUBLISH /\ msg = create_message(got)
  BY <1>1 DEF WireInv, BuiltInv, GotInv, KeptInv, Distributed
<1>3. Fits(Again(msg))
  BY <1>2, AgainFits
<1>4. /\ buf' \in Buffers /\ buf'.size = Again(msg).size /\ buf'.pos <= buf'.size
      /\ Carries(buf'.data, Again(msg))
  BY <1>1, <1>3, PackedView
<1>5. BufferInv'
  BY <1>4 DEF BufferInv, FitsBuffer, Carries
<1>6. Again(msg)' = Again(msg)
  BY <1>1 DEF Again
<1>7. BuiltInv' /\ SentInv' /\ CopyInv'
  BY <1>1, <1>2, <1>4, <1>6 DEF BuiltInv, SentInv, CopyInv
<1>8. GotInv' /\ KeptInv'
  BY <1>1, <1>2 DEF GotInv, KeptInv, Distributed, create_message
<1> QED BY <1>5, <1>7, <1>8 DEF WireInv

LEMMA SubscriberUnpackStep ==
  ASSUME WireInv, SubscriberUnpack PROVE WireInv'
<1>1. /\ stage \in {"forwarded", "resent"}
      /\ stage' = IF stage = "forwarded" THEN "received" ELSE "replayed"
      /\ copy' = Unpack(buf.data) /\ buf' = [buf EXCEPT !.pos = copy'.pos]
      /\ UNCHANGED <<pkt, got, msg>>
  BY DEF SubscriberUnpack
<1>2. /\ BufferInv /\ Fits(pkt) /\ (pkt.op = PUBLISH => pkt \in Publishes)
      /\ Delivers(got, pkt) /\ pkt.op = PUBLISH
      /\ stage = "resent" => msg = create_message(got)
      /\ msg = NULL \/ msg = create_message(got)
  BY <1>1 DEF WireInv, BuiltInv, GotInv, KeptInv, Distributed
<1>3. ASSUME NEW p, Fits(p), buf.size = p.size, Carries(buf.data, p)
      PROVE  Delivers(copy', p) /\ BufferInv'
  BY <1>1, <1>2, <1>3, UnpackView, ReadInside
<1>4. CASE stage = "forwarded"
  <2>1. Delivers(copy', got) /\ BufferInv'
    BY <1>2, <1>3, <1>4, GotFits DEF WireInv, SentInv
  <2> QED BY <1>1, <1>2, <1>4, <2>1
          DEF WireInv, BuiltInv, SentInv, GotInv, CopyInv, KeptInv, Distributed,
              create_message
<1>5. CASE stage = "resent"
  <2>1. Delivers(copy', Again(msg)) /\ BufferInv'
    BY <1>2, <1>3, <1>5, AgainFits DEF WireInv, SentInv
  <2>2. Again(msg)' = Again(msg)
    BY <1>1 DEF Again
  <2> QED BY <1>1, <1>2, <1>5, <2>1, <2>2
          DEF WireInv, BuiltInv, SentInv, GotInv, CopyInv, KeptInv, Distributed,
              create_message
<1> QED BY <1>1, <1>4, <1>5

LEMMA WireStep ==
  WireInv /\ [Next]_vars => WireInv'
<1> SUFFICES ASSUME WireInv, [Next]_vars PROVE WireInv'
  OBVIOUS
<1>1. CASE Release
  <2>1. stage' = "idle" /\ msg' = NULL /\ buf' = NoBuffer
    BY <1>1 DEF Release
  <2>2. BufferInv'
    BY <2>1 DEF BufferInv, FitsBuffer, Buffers, NoBuffer
  <2> QED BY <2>1, <2>2
          DEF WireInv, BuiltInv, SentInv, GotInv, CopyInv, KeptInv, Distributed
<1>2. CASE UNCHANGED vars
  BY <1>2 DEF vars, WireInv, BufferInv, FitsBuffer, BuiltInv, SentInv, GotInv, CopyInv,
     KeptInv, Again, create_message
<1> QED BY <1>1, <1>2, BuildStep, PackStep, UnpackStep, DistributeStep,
           SendRetainedStep, SubscriberUnpackStep DEF Next

LEMMA WireAlways ==
  Spec => []WireInv
<1>1. Init => BufferInv
  BY DEF Init, BufferInv, FitsBuffer, Buffers, NoBuffer
<1>2. Init => WireInv
  BY <1>1 DEF Init, WireInv, BuiltInv, SentInv, GotInv, CopyInv, KeptInv, Distributed
<1> QED BY <1>2, WireStep, PTL DEF Spec

(***************************************************************************)
(* No pack function writes and no unpack function reads outside the buffer *)
(* allocated for the packet, for all texts a packet of 32-bit size can     *)
(* carry: those longer than their 16-bit length can say included, and the  *)
(* PUBLISH the broker packs again into a buffer of the size the sender     *)
(* announced.                                                              *)
(***************************************************************************)
THEOREM FitsBufferHolds == Spec => []FitsBuffer
<1>1. WireInv => FitsBuffer
  BY DEF WireInv, BufferInv
<1> QED BY <1>1, WireAlways, PTL

(***************************************************************************)
(* Unpacking undoes packing, for every packet but CONNECT whose texts fit  *)
(* their 16-bit lengths, whatever the bytes no field fills hold.           *)
(***************************************************************************)
THEOREM RoundTripHolds == Spec => []RoundTrip
<1>1. WireInv => RoundTrip
  BY DEF WireInv, GotInv, RoundTrip, Delivers
<1> QED BY <1>1, WireAlways, PTL

(***************************************************************************)
(* A subscriber unpacks what the publisher built, from the PUBLISH the     *)
(* broker passes on and from the retained message it makes one of.         *)
(***************************************************************************)
THEOREM ForwardedIntactHolds == Spec => []ForwardedIntact
<1>1. ASSUME WireInv, Short(pkt), stage = "received" PROVE Meaning(copy) = Meaning(pkt)
  <2>1. /\ Fits(pkt) /\ pkt.op = PUBLISH /\ Delivers(got, pkt) /\ Delivers(copy, got)
    BY <1>1 DEF WireInv, BuiltInv, GotInv, CopyInv, Distributed
  <2>2. got.op = PUBLISH /\ Short(got)
    BY <2>1, GotFits, PublishMeaning
  <2> QED BY <1>1, <2>1, <2>2, OpsDiffer DEF Delivers
<1>2. ASSUME WireInv, Short(pkt), stage = "replayed"
      PROVE  Meaning(copy) = Meaning([pkt EXCEPT !.retain = 1, !.dup = 0])
  <2>1. /\ Fits(pkt) /\ pkt.op = PUBLISH /\ Delivers(got, pkt) /\ pkt \in Publishes
        /\ msg = create_message(got) /\ Delivers(copy, Again(msg))
    BY <1>2 DEF WireInv, BuiltInv, GotInv, CopyInv, KeptInv, Distributed
  <2>2. PICK a : a = Again(msg)
    OBVIOUS
  <2>3. /\ a.op = PUBLISH /\ a.topic = CString(got.topic)
        /\ a.message = CString(got.message) /\ a.qos = got.qos
        /\ a.retain = 1 /\ a.dup = 0
    BY <2>1, <2>2, AgainFits DEF Publishes
  <2>4. /\ got.op = PUBLISH /\ strlen(got.topic) < Wide
        /\ got.topic \in Seq(Nat) /\ got.message \in Seq(Nat)
    BY <2>1, GotFits DEF PublishFits
  <2>5. /\ CString(a.topic) = CString(got.topic)
        /\ CString(a.message) = CString(got.message)
        /\ strlen(a.topic) = strlen(got.topic)
    BY <2>3, <2>4, CStringView DEF strlen
  <2>6. Meaning(copy) = Meaning(a)
    BY <2>1, <2>2, <2>3, <2>4, <2>5, PublishMeaning, OpsDiffer DEF Delivers
  <2>7. Meaning(got) = Meaning(pkt)
    BY <1>2, <2>1, OpsDiffer DEF Delivers
  <2>8. /\ CString(got.topic) = CString(pkt.topic)
        /\ CString(got.message) = CString(pkt.message) /\ got.qos = pkt.qos
    BY <2>1, <2>4, <2>7, PublishMeaning
  <2>9. PICK e : e = [pkt EXCEPT !.retain = 1, !.dup = 0]
    OBVIOUS
  <2>10. /\ e.op = PUBLISH /\ e.topic = pkt.topic /\ e.message = pkt.message
         /\ e.qos = pkt.qos /\ e.retain = 1 /\ e.dup = 0
    BY <2>1, <2>9 DEF Publishes
  <2>11. Meaning(a) = Meaning(e)
    BY <2>3, <2>5, <2>8, <2>10, PublishMeaning
  <2> QED BY <2>6, <2>9, <2>11
<1>3. WireInv => ForwardedIntact
  BY <1>1, <1>2 DEF ForwardedIntact
<1> QED BY <1>3, WireAlways, PTL
=============================================================================
