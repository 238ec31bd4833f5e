-------------------------- MODULE RingBufferProofs --------------------------
(***************************************************************************)
(* The ring buffer is type correct and implements a bounded queue, for     *)
(* every buffer size, every set of byte values and every set of bulk       *)
(* pushes.                                                                 *)
(***************************************************************************)
EXTENDS RingBuffer, SequenceTheorems, TLAPS

\* The index after i, without the modulus.
LEMMA SuccValue ==
  ASSUME NEW i \in 0..(Max - 1)
  PROVE  /\ Succ(i) = IF i + 1 = Max THEN 0 ELSE i + 1
         /\ Succ(i) \in 0..(Max - 1)
  BY MaxAssumption DEF Succ

\* The slot k places after t, without the modulus.
LEMMA SlotValue ==
  ASSUME NEW t \in 0..(Max - 1), NEW k \in 0..Max
  PROVE  /\ (t + k) % Max = IF t + k < Max THEN t + k ELSE t + k - Max
         /\ (t + k) % Max \in 0..(Max - 1)
  BY MaxAssumption

LEMMA TypeInit == Init => TypeOK
  BY MaxAssumption DEF Init, TypeOK

LEMMA TypeStore ==
  ASSUME TypeOK, NEW d \in Bytes, Store(d)
  PROVE  /\ buffer' \in [0..(Max - 1) -> Bytes]
         /\ head' \in 0..(Max - 1)
         /\ tail' \in 0..(Max - 1)
         /\ full' \in {0, 1}
         /\ full' = 1 => head' = tail'
         /\ r' \in {0, -1}
  BY SuccValue DEF TypeOK, Store, AdvancePointer

LEMMA TypeNext == TypeOK /\ [Next]_vars => TypeOK'
<1> SUFFICES ASSUME TypeOK, [Next]_vars PROVE TypeOK'
  OBVIOUS
<1>1. CASE \E d \in Bytes : Push(d)
  BY <1>1, TypeStore DEF Push, TypeOK
<1>2. CASE \E data \in Bulks : BulkStart(data)
  BY <1>2, BulksAssumption DEF BulkStart, TypeOK
<1>3. CASE BulkStep
  <2>1. Head(pending) \in Bytes /\ Tail(pending) \in Seq(Bytes)
    BY <1>3 DEF BulkStep, TypeOK
  <2> QED BY <1>3, <2>1, TypeStore DEF BulkStep, TypeOK
<1>4. CASE Pop
  <2>1. Succ(tail) \in 0..(Max - 1) /\ buffer[tail] \in Bytes
    BY SuccValue DEF TypeOK
  <2>2. CASE ~Empty
    BY <1>4, <2>1, <2>2 DEF Pop, RetreatPointer, TypeOK
  <2>3. CASE Empty
    BY <1>4, <2>3 DEF Pop, TypeOK
  <2> QED BY <2>2, <2>3
<1>5. CASE Reset
  BY <1>5, MaxAssumption DEF Reset, TypeOK
<1>6. CASE UNCHANGED vars
  BY <1>6 DEF vars, TypeOK
<1> QED BY <1>1, <1>2, <1>3, <1>4, <1>5, <1>6 DEF Next

(* Head and tail never leave the array, and full means head = tail.        *)
THEOREM TypeCorrect == Spec => []TypeOK
  BY TypeInit, TypeNext, PTL DEF Spec

-----------------------------------------------------------------------------
LEMMA SizeRange == ASSUME TypeOK PROVE Size \in 0..Max
  BY MaxAssumption DEF TypeOK, Size

\* n bytes read from slot t on, as Contents reads them.
LEMMA WindowIsSeq ==
  ASSUME NEW b \in [0..(Max - 1) -> Bytes], NEW t \in 0..(Max - 1),
         NEW n \in 0..Max
  PROVE  LET s == [i \in 1..n |-> b[(t + i - 1) % Max]]
         IN s \in Seq(Bytes) /\ Len(s) = n
<1>1. \A i \in 1..n : (t + i - 1) % Max \in 0..(Max - 1)
  <2> TAKE i \in 1..n
  <2>1. i - 1 \in 0..Max /\ t + i - 1 = t + (i - 1)
    BY MaxAssumption
  <2> QED BY <2>1, SlotValue
<1>2. [i \in 1..n |-> b[(t + i - 1) % Max]] \in [1..n -> Bytes]
  BY <1>1
<1> QED BY <1>2, MaxAssumption

LEMMA ContentsIsSeq ==
  ASSUME TypeOK
  PROVE  Contents \in Seq(Bytes) /\ Len(Contents) = Size
  BY SizeRange, WindowIsSeq DEF Contents, TypeOK

\* Storing a byte appends it, or the queue was full.
LEMMA StoreIsOffer ==
  ASSUME TypeOK, NEW d \in Bytes, Store(d) PROVE Queue!Offer(d)
<1>0. TypeOK => Size \in 0..Max
  BY SizeRange
<1>1. CASE full = 1
  BY <1>1, <1>0, ContentsIsSeq
  DEF Store, Queue!Offer, Contents, Size, TypeOK
<1>2. CASE full = 0
  <2>1. /\ buffer' = [buffer EXCEPT ![head] = d]
        /\ tail' = tail
        /\ head' = Succ(head)
        /\ full' = IF Succ(head) = tail THEN 1 ELSE 0
        /\ r' = 0
    BY <1>2 DEF Store, AdvancePointer
  <2>a. head \in 0..(Max - 1) /\ tail \in 0..(Max - 1) /\ Max \in Nat \ {0}
    BY MaxAssumption DEF TypeOK
  <2>b. Succ(head) = IF head + 1 = Max THEN 0 ELSE head + 1
    BY <2>a, SuccValue
  <2>c. Size = IF head >= tail THEN head - tail ELSE Max + head - tail
    BY <1>2 DEF Size
  <2>d. Size' = IF Succ(head) = tail THEN Max
                ELSE IF Succ(head) >= tail THEN Succ(head) - tail
                ELSE Max + Succ(head) - tail
    BY <2>1 DEF Size
  <2>2. Size < Max /\ Size' = Size + 1
    BY <2>a, <2>b, <2>c, <2>d
  <2>3. head = (tail + Size) % Max
    <3>1. (tail + Size) % Max = IF tail + Size < Max THEN tail + Size
                                ELSE tail + Size - Max
      BY <1>0, <2>a, SlotValue
    <3> QED BY <2>a, <2>c, <3>1
  <2>4. \A i \in 1..Size : (tail + i - 1) % Max # head
    <3> TAKE i \in 1..Size
    <3>1. i - 1 \in 0..Max /\ tail + i - 1 = tail + (i - 1) /\ i - 1 < Size
      BY <1>0, <2>a
    <3>2. (tail + i - 1) % Max = IF tail + (i - 1) < Max
                                 THEN tail + (i - 1) ELSE tail + (i - 1) - Max
      BY <2>a, <3>1, SlotValue
    <3> QED BY <2>a, <2>c, <3>1, <3>2
  <2>5. Contents' = Append(Contents, d)
    <3>1. Contents' = [i \in 1..(Size + 1) |-> buffer'[(tail + i - 1) % Max]]
      BY <2>1, <2>2 DEF Contents
    <3>2. buffer' \in [0..(Max - 1) -> Bytes] /\ Size + 1 \in 0..Max
      BY <1>0, <2>1, <2>2, <2>a DEF TypeOK
    <3>3. Contents' \in Seq(Bytes) /\ Len(Contents') = Size + 1
      BY <2>a, <3>1, <3>2, WindowIsSeq
    <3>4. \A i \in 1..Size : Contents'[i] = Contents[i]
      <4> TAKE i \in 1..Size
      <4>1. /\ i \in 1..(Size + 1)
            /\ (tail + i - 1) % Max # head
        BY <1>0, <2>4, <2>a
      <4>2. buffer'[(tail + i - 1) % Max] = buffer[(tail + i - 1) % Max]
        <5>1. (tail + i - 1) % Max \in 0..(Max - 1)
          BY <1>0, <2>a
        <5> QED BY <2>1, <4>1, <5>1 DEF TypeOK
      <4>3. Contents'[i] = buffer'[(tail + i - 1) % Max]
        BY <3>1, <4>1
      <4>4. Contents[i] = buffer[(tail + i - 1) % Max]
        BY DEF Contents
      <4> QED BY <4>2, <4>3, <4>4
    <3>5. Contents'[Size + 1] = d
      <4>1. Size + 1 \in 1..(Size + 1) /\ tail + (Size + 1) - 1 = tail + Size
        BY <1>0, <2>a
      <4>2. Contents'[Size + 1] = buffer'[(tail + Size) % Max]
        BY <3>1, <4>1
      <4> QED BY <2>1, <2>3, <2>a, <4>2 DEF TypeOK
    <3>6. /\ Append(Contents, d) \in Seq(Bytes)
          /\ Len(Append(Contents, d)) = Size + 1
          /\ \A i \in 1..Size : Append(Contents, d)[i] = Contents[i]
          /\ Append(Contents, d)[Size + 1] = d
      BY ContentsIsSeq, AppendProperties
    <3>7. \A i \in 1..(Size + 1) : Contents'[i] = Append(Contents, d)[i]
      BY <1>0, <2>a, <3>4, <3>5, <3>6
    <3> QED BY <3>3, <3>6, <3>7, SeqEqual
  <2> QED BY <2>1, <2>2, <2>5, ContentsIsSeq DEF Queue!Offer
<1> QED BY <1>1, <1>2 DEF TypeOK

\* Popping a byte of a non-empty buffer takes the oldest one off.
LEMMA PopIsTail ==
  ASSUME TypeOK, ~Empty, RetreatPointer, UNCHANGED buffer
  PROVE  /\ Contents # <<>>
         /\ buffer[tail] = Head(Contents)
         /\ Contents' = Tail(Contents)
<1>1. /\ head \in 0..(Max - 1) /\ tail \in 0..(Max - 1) /\ Max \in Nat \ {0}
      /\ full = 1 => head = tail
      /\ full \in {0, 1}
  BY MaxAssumption DEF TypeOK
<1>2. Succ(tail) = IF tail + 1 = Max THEN 0 ELSE tail + 1
  BY <1>1, SuccValue
<1>3. Size \in 1..Max
  BY <1>1, SizeRange DEF Size, Empty
<1>4. Size' = IF head >= Succ(tail) THEN head - Succ(tail)
              ELSE Max + head - Succ(tail)
  BY DEF RetreatPointer, Size
<1>5. Size' = Size - 1
  BY <1>1, <1>2, <1>4 DEF Size, Empty
<1>6. Contents \in Seq(Bytes) /\ Len(Contents) = Size /\ Contents # <<>>
  BY <1>3, ContentsIsSeq
<1>7. buffer[tail] = Head(Contents)
  <2>1. Contents[1] = buffer[(tail + 1 - 1) % Max]
    BY <1>3 DEF Contents
  <2>2. (tail + 1 - 1) % Max = tail
    BY <1>1
  <2> QED BY <1>6, <2>1, <2>2
<1>8. Contents' = [i \in 1..(Size - 1) |-> buffer[(Succ(tail) + i - 1) % Max]]
  BY <1>5 DEF Contents, RetreatPointer
<1>9. Contents' \in Seq(Bytes) /\ Len(Contents') = Size - 1
  <2>1. Succ(tail) \in 0..(Max - 1) /\ Size - 1 \in 0..Max
        /\ buffer \in [0..(Max - 1) -> Bytes]
    BY <1>1, <1>2, <1>3 DEF TypeOK
  <2> QED BY <1>8, <2>1, WindowIsSeq
<1>10. \A i \in 1..(Size - 1) : Contents'[i] = Contents[i + 1]
  <2> TAKE i \in 1..(Size - 1)
  <2>1. i \in 0..Max /\ i - 1 \in 0..Max /\ i + 1 \in 1..Size
    BY <1>1, <1>3
  <2>2. (Succ(tail) + (i - 1)) % Max = (tail + i) % Max
    <3>1. (tail + i) % Max = IF tail + i < Max THEN tail + i
                             ELSE tail + i - Max
      BY <1>1, <2>1, SlotValue
    <3>2. Succ(tail) \in 0..(Max - 1)
      BY <1>1, <1>2
    <3>3. (Succ(tail) + (i - 1)) % Max
            = IF Succ(tail) + (i - 1) < Max THEN Succ(tail) + (i - 1)
              ELSE Succ(tail) + (i - 1) - Max
      BY <2>1, <3>2, SlotValue
    <3> QED BY <1>1, <1>2, <1>3, <3>1, <3>3
  <2>3. /\ Succ(tail) + i - 1 = Succ(tail) + (i - 1)
        /\ tail + (i + 1) - 1 = tail + i
    BY <1>1, <1>2, <2>1
  <2> QED BY <1>8, <2>1, <2>2, <2>3 DEF Contents
<1>11. /\ Tail(Contents) \in Seq(Bytes)
       /\ Len(Tail(Contents)) = Size - 1
       /\ \A i \in 1..(Size - 1) : Tail(Contents)[i] = Contents[i + 1]
  BY <1>6, HeadTailProperties
<1>12. Contents' = Tail(Contents)
  BY <1>9, <1>10, <1>11, SeqEqual
<1> QED BY <1>6, <1>7, <1>12

LEMMA RefinementInit == Init => Queue!Init
  BY MaxAssumption DEF Init, Queue!Init, Contents, Size

LEMMA RefinementNext ==
  TypeOK /\ [Next]_vars => [Queue!Next]_(Queue!vars)
<1> SUFFICES ASSUME TypeOK, [Next]_vars PROVE [Queue!Next]_(Queue!vars)
  OBVIOUS
<1>1. ASSUME NEW d \in Bytes, Push(d) PROVE Queue!Push(d)
  BY <1>1, StoreIsOffer DEF Push, Queue!Push
<1>2. ASSUME NEW data \in Bulks, BulkStart(data) PROVE Queue!BulkStart(data)
  BY <1>2 DEF BulkStart, Queue!BulkStart, Contents, Size
<1>3. ASSUME BulkStep PROVE Queue!BulkStep
  <2>1. Head(pending) \in Bytes
    BY <1>3 DEF BulkStep, TypeOK
  <2> QED BY <1>3, <2>1, StoreIsOffer DEF BulkStep, Queue!BulkStep
<1>4. ASSUME Pop PROVE Queue!Pop
  <2>1. CASE ~Empty
    BY <1>4, <2>1, PopIsTail DEF Pop, Queue!Pop
  <2>2. CASE Empty
    <3>1. Contents = <<>>
      BY <2>2, MaxAssumption, ContentsIsSeq DEF Empty, Size, TypeOK
    <3>2. UNCHANGED Contents
      BY <1>4, <2>2 DEF Pop, Contents, Size
    <3> QED BY <1>4, <2>2, <3>1, <3>2 DEF Pop, Queue!Pop
  <2> QED BY <2>1, <2>2
<1>5. ASSUME Reset PROVE Queue!Clear
  BY <1>5, MaxAssumption DEF Reset, Queue!Clear, Contents, Size
<1>6. CASE UNCHANGED vars
  BY <1>6 DEF vars, Queue!vars, Contents, Size
<1> QED BY <1>1, <1>2, <1>3, <1>4, <1>5, <1>6 DEF Next, Queue!Next

(* ringbuf.c implements the bounded queue: the contents read from tail to  *)
(* head change only as a queue's do, and a call fails exactly when the     *)
(* queue is full (push) or empty (pop).                                    *)
THEOREM ImplementsQueue == Spec => RefinesQueue
  BY TypeCorrect, RefinementInit, RefinementNext, PTL
  DEF Spec, RefinesQueue, Queue!Spec
=============================================================================
