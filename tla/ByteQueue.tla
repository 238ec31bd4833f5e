----------------------------- MODULE ByteQueue ------------------------------
(***************************************************************************)
(* What the ring buffer of src/src/ringbuf.h promises: a bounded first-in  *)
(* first-out queue of bytes.  A byte offered to a full queue is refused    *)
(* with -1 and changes nothing; so is a request for a byte of an empty     *)
(* one.  A bulk push offers its bytes one after the other and gives up at  *)
(* the first refusal.                                                      *)
(***************************************************************************)
EXTENDS Integers, Sequences

CONSTANTS Bytes, Capacity, Bulks

VARIABLES queue, pending, r, out

vars == <<queue, pending, r, out>>

Init == /\ queue = <<>>
        /\ pending = <<>>
        /\ r = 0
        /\ out \in Bytes

Offer(d) ==
  \/ /\ Len(queue) < Capacity
     /\ queue' = Append(queue, d)
     /\ r' = 0
  \/ /\ Len(queue) = Capacity
     /\ r' = -1
     /\ UNCHANGED queue

Push(d) == pending = <<>> /\ Offer(d) /\ UNCHANGED <<pending, out>>

BulkStart(data) ==
  /\ pending = <<>>
  /\ pending' = data
  /\ r' = 0
  /\ UNCHANGED <<queue, out>>

BulkStep ==
  /\ pending # <<>>
  /\ Offer(Head(pending))
  /\ pending' = IF r' = -1 THEN <<>> ELSE Tail(pending)
  /\ UNCHANGED out

Pop ==
  /\ pending = <<>>
  /\ \/ /\ queue # <<>>
        /\ out' = Head(queue)
        /\ queue' = Tail(queue)
        /\ r' = 0
     \/ /\ queue = <<>>
        /\ r' = -1
        /\ UNCHANGED <<queue, out>>
  /\ UNCHANGED pending

Clear == pending = <<>> /\ queue' = <<>> /\ UNCHANGED <<pending, r, out>>

Next ==
  \/ \E d \in Bytes : Push(d)
  \/ \E data \in Bulks : BulkStart(data)
  \/ BulkStep
  \/ Pop
  \/ Clear

Spec == Init /\ [][Next]_vars
=============================================================================
