----------------------------- MODULE RingBuffer -----------------------------
(***************************************************************************)
(* src/src/ringbuf.c: a circular array with a head, a tail and a flag that *)
(* tells a full buffer from an empty one.  Each buffer belongs to one call *)
(* of request_handler, so its operations are sequential; the loop of       *)
(* ringbuf_bulk_push is one step per byte.                                 *)
(***************************************************************************)
EXTENDS Integers, Sequences

CONSTANTS
  Bytes,      \* byte values
  Max,        \* rbuf->max, the size given to ringbuf_init
  Bulks       \* the byte arrays given to ringbuf_bulk_push

ASSUME MaxAssumption == Max \in Nat \ {0}       \* assert(buffer && size)
ASSUME BulksAssumption == Bulks \subseteq Seq(Bytes)

VARIABLES
  buffer,     \* rbuf->buffer
  head,       \* where the next byte goes
  tail,       \* where the oldest byte is
  full,       \* the full bit
  pending,    \* what ringbuf_bulk_push has still to store
  r,          \* the last return value
  out         \* the byte the last pop delivered

vars == <<buffer, head, tail, full, pending, r, out>>

\* ringbuf_init: the array is the caller's stack, with whatever it holds.
Init ==
  /\ buffer \in [0..(Max - 1) -> Bytes]
  /\ head = 0
  /\ tail = 0
  /\ full = 0
  /\ pending = <<>>
  /\ r = 0
  /\ out \in Bytes

\* ringbuf_empty, ringbuf_size
Empty == full = 0 /\ head = tail
Size == IF full = 1 THEN Max
        ELSE IF head >= tail THEN head - tail
        ELSE Max + head - tail

Succ(i) == (i + 1) % Max

\* Mutant: the flag is set one byte early.
AdvancePointer_Early ==
  /\ tail' = IF full = 1 THEN Succ(tail) ELSE tail
  /\ head' = Succ(head)
  /\ full' = IF Succ(head') = tail' THEN 1 ELSE 0

AdvancePointer ==
  /\ tail' = IF full = 1 THEN Succ(tail) ELSE tail
  /\ head' = Succ(head)
  /\ full' = IF head' = tail' THEN 1 ELSE 0

\* Mutant: the flag survives a pop.
RetreatPointer_KeepsFull == tail' = Succ(tail) /\ UNCHANGED <<head, full>>

RetreatPointer == full' = 0 /\ tail' = Succ(tail) /\ UNCHANGED head

\* ringbuf_push
Store(d) ==
  \/ /\ full = 0
     /\ buffer' = [buffer EXCEPT ![head] = d]
     /\ AdvancePointer
     /\ r' = 0
  \/ /\ full = 1
     /\ r' = -1
     /\ UNCHANGED <<buffer, head, tail, full>>

Push(d) == pending = <<>> /\ Store(d) /\ UNCHANGED <<pending, out>>

\* ringbuf_bulk_push
BulkStart(data) ==
  /\ pending = <<>>
  /\ pending' = data
  /\ r' = 0
  /\ UNCHANGED <<buffer, head, tail, full, out>>

BulkStep ==
  /\ pending # <<>>
  /\ Store(Head(pending))
  /\ pending' = IF r' = -1 THEN <<>> ELSE Tail(pending)
  /\ UNCHANGED out

\* ringbuf_pop
Pop ==
  /\ pending = <<>>
  /\ \/ /\ ~Empty
        /\ out' = buffer[tail]
        /\ RetreatPointer
        /\ r' = 0
     \/ /\ Empty
        /\ r' = -1
        /\ UNCHANGED <<head, tail, full, out>>
  /\ UNCHANGED <<buffer, pending>>

\* ringbuf_reset
Reset ==
  /\ pending = <<>>
  /\ head' = 0
  /\ tail' = 0
  /\ full' = 0
  /\ UNCHANGED <<buffer, pending, r, out>>

Next ==
  \/ \E d \in Bytes : Push(d)
  \/ \E data \in Bulks : BulkStart(data)
  \/ BulkStep
  \/ Pop
  \/ Reset

Spec == Init /\ [][Next]_vars

-----------------------------------------------------------------------------
(* The fields of struct ringbuf stay in range, and the full flag is only   *)
(* ever set when head has caught up with tail.                             *)
TypeOK ==
  /\ buffer \in [0..(Max - 1) -> Bytes]
  /\ head \in 0..(Max - 1)
  /\ tail \in 0..(Max - 1)
  /\ full \in {0, 1}
  /\ full = 1 => head = tail
  /\ pending \in Seq(Bytes)
  /\ r \in {0, -1}
  /\ out \in Bytes

\* The bytes the buffer holds, oldest first.
Contents == [i \in 1..Size |-> buffer[(tail + i - 1) % Max]]

Queue == INSTANCE ByteQueue WITH queue <- Contents, Capacity <- Max

(* The ring buffer is a bounded queue: no byte is lost, duplicated or      *)
(* reordered by any sequence of pushes, pops, bulk pushes and resets, at   *)
(* any position of head and tail, and exactly the calls that must fail do. *)
RefinesQueue == Queue!Spec
=============================================================================
