---------------------------- MODULE BrokerProofs ----------------------------
(***************************************************************************)
(* Proofs about the event loop, for any number of threads, connections,    *)
(* topics and requests.  OneOwner is not inductive: that a descriptor just *)
(* accepted is in nobody's hands needs NotAccepted, and that the handler   *)
(* a thread is inside works on a connection needs CurIsConn.  ReplySlot is *)
(* inductive together with them.                                           *)
(*                                                                         *)
(* TypeOK is inductive once it is known that a handler finds a topic       *)
(* object where it looks and a request of the kind it was started for:     *)
(* Known and HandlerInv.                                                   *)
(***************************************************************************)
EXTENDS Broker, SequenceTheorems, TLAPS

OwnerTypes ==
  /\ peer \in [Conns -> PeerStates]
  /\ armed \in [Fds -> {"none", "in", "out"}]
  /\ ctx \in [Conns -> {"request", "reply"}]
  /\ pc \in [Workers -> PCs]
  /\ batch \in [Workers -> SUBSET Fds]
  /\ cur \in [Workers -> Fds]

NotAccepted ==
  \A c \in Conns : peer[c] \in {"none", "queued", "lost"} =>
    /\ armed[c] = "none"
    /\ ctx[c] = "request"
    /\ \A w \in Workers : c \notin batch[w]

CurIsConn ==
  \A w \in Workers : pc[w] \notin {"poll", "dead"} => cur[w] \in Conns

OwnerInv == OwnerTypes /\ OneOwner /\ NotAccepted /\ CurIsConn

LEMMA OwnerInit == Init => OwnerInv
  BY ConnsAssumption DEF Init, OwnerInv, OwnerTypes, OneOwner, NotAccepted,
     CurIsConn, Fds, PeerStates, PCs

LEMMA OwnerClient ==
  ASSUME OwnerInv, NEW c \in Conns, ClientStep(c) PROVE OwnerInv'
<1>1. UNCHANGED <<armed, ctx, pc, batch, cur>>
  BY DEF ClientStep, ClientConnect, ClientSend, ClientStall,
     ClientFinish, ClientLeave, ClientReset,
     ClientOnly, connVars, workerVars
<1>2. \/ UNCHANGED peer
      \/ peer[c] = "none" /\ peer' = [peer EXCEPT ![c] = "queued"]
      \/ /\ peer[c] \in {"open", "partial"}
         /\ \E s \in {"open", "partial", "eof"} : peer' = [peer EXCEPT ![c] = s]
      \/ peer[c] \in {"open", "eof"} /\ peer' = [peer EXCEPT ![c] = "reset"]
  BY DEF ClientStep, ClientConnect, ClientSend, ClientStall,
     ClientFinish, ClientLeave, ClientReset
<1> QED BY <1>1, <1>2 DEF OwnerInv, OwnerTypes, OneOwner, NotAccepted,
     CurIsConn, PeerStates

LEMMA OwnerPoll ==
  ASSUME OwnerInv, NEW w \in Workers, Poll(w) PROVE OwnerInv'
<1>1. PICK S \in SUBSET Ready : EpollWait(w, S)
  BY DEF Poll
<1>2. \A x \in S : x \in Fds /\ armed[x] # "none"
  BY DEF Ready, Fds
<1>3. /\ batch' = [batch EXCEPT ![w] = S]
      /\ armed' = [x \in Fds |-> IF x \in S THEN "none" ELSE armed[x]]
      /\ UNCHANGED <<peer, ctx, pc, cur>>
      /\ pc[w] = "poll"
  BY <1>1 DEF EpollWait, Disarm, netVars, connVars
<1>4. \A v \in Workers : batch[v] \cap S = {}
  BY <1>2 DEF OwnerInv, OneOwner
<1>5. OwnerTypes'
  BY <1>2, <1>3 DEF OwnerInv, OwnerTypes
<1>6. OneOwner'
  BY <1>2, <1>3, <1>4 DEF OwnerInv, OwnerTypes, OneOwner
<1>7. NotAccepted'
  BY <1>2, <1>3 DEF OwnerInv, OwnerTypes, NotAccepted, Fds
<1>8. CurIsConn'
  BY <1>3 DEF OwnerInv, CurIsConn
<1> QED BY <1>5, <1>6, <1>7, <1>8 DEF OwnerInv

\* A worker that holds x runs its handler to the end; the handler may have
\* re-armed x and nothing else.
LEMMA OwnerReturn ==
  ASSUME OwnerInv, NEW w \in Workers, NEW x \in Conns,
         x \in batch[w], pc[w] # "dead", pc[w] = "poll" \/ cur[w] = x,
         Return(w, x),
         \/ UNCHANGED <<armed, ctx>>
         \/ \E e \in {"in", "out"} : armed' = [armed EXCEPT ![x] = e]
              /\ (UNCHANGED ctx \/ \E h \in {"request", "reply"} :
                                     ctx' = [ctx EXCEPT ![x] = h]),
         UNCHANGED peer
  PROVE  OwnerInv'
<1>1. OwnerTypes'
  BY DEF OwnerInv, OwnerTypes, Return, PCs
<1>2. OneOwner'
  BY DEF OwnerInv, OwnerTypes, OneOwner, Return, Fds
<1>3. NotAccepted'
  BY DEF OwnerInv, OwnerTypes, OneOwner, NotAccepted, Return, Fds
<1>4. CurIsConn'
  BY DEF OwnerInv, OwnerTypes, CurIsConn, Return
<1> QED BY <1>1, <1>2, <1>3, <1>4 DEF OwnerInv

\* A handler starts or moves on without touching any registration.
LEMMA OwnerStay ==
  ASSUME OwnerInv, NEW w \in Workers, NEW label \in PCs \ {"poll", "dead"},
         UNCHANGED <<peer, armed, ctx>>,
         \/ \E x \in Conns : x \in batch[w] /\ Enter(w, x, label)
         \/ pc[w] \notin {"poll", "dead"} /\ Goto(w, label)
  PROVE  OwnerInv'
<1>1. /\ UNCHANGED batch
      /\ pc' = [pc EXCEPT ![w] = label]
      /\ \/ \E x \in Conns : x \in batch[w] /\ cur' = [cur EXCEPT ![w] = x]
         \/ pc[w] \notin {"poll", "dead"} /\ UNCHANGED cur
  BY DEF Enter, Goto
<1>2. OwnerTypes'
  BY <1>1 DEF OwnerInv, OwnerTypes, Fds
<1>3. OneOwner'
  BY <1>1 DEF OwnerInv, OwnerTypes, OneOwner
<1>4. NotAccepted'
  BY <1>1 DEF OwnerInv, NotAccepted
<1>5. CurIsConn'
  BY <1>1 DEF OwnerInv, OwnerTypes, CurIsConn
<1> QED BY <1>2, <1>3, <1>4, <1>5 DEF OwnerInv

LEMMA OwnerCrash ==
  ASSUME OwnerInv, Crash, UNCHANGED <<peer, armed, ctx>> PROVE OwnerInv'
  BY DEF OwnerInv, OwnerTypes, OneOwner, NotAccepted, CurIsConn, Crash, PCs

LEMMA OwnerHandle ==
  ASSUME OwnerInv, NEW w \in Workers, NEW c \in Conns, Handle(w, c)
  PROVE  OwnerInv'
<1> USE DEF netVars, connVars, workerVars, OwnClientOnly
<1>1. CASE HangUp(w, c)
  BY <1>1, OwnerReturn DEF HangUp, Holds
<1>2. CASE AcceptHandler(w, c)
  <2>1. /\ peer[c] = "queued"
        /\ peer' = [peer EXCEPT ![c] = "open"]
        /\ armed' = [armed EXCEPT ![c] = "in", ![Listener] = "in"]
        /\ pc[w] = "poll" /\ Listener \in batch[w]
        /\ pc' = [pc EXCEPT ![w] = "poll"]
        /\ batch' = [batch EXCEPT ![w] = @ \ {Listener}]
        /\ UNCHANGED <<cur, ctx>>
    BY <1>2 DEF AcceptHandler, Holds, Return
  <2>2. OwnerTypes'
    BY <2>1 DEF OwnerInv, OwnerTypes, PeerStates, PCs, Fds
  <2>3. OneOwner'
    BY <2>1, ConnsAssumption
    DEF OwnerInv, OwnerTypes, OneOwner, NotAccepted, CurIsConn, Fds
  <2>4. NotAccepted'
    BY <2>1, ConnsAssumption DEF OwnerInv, OwnerTypes, NotAccepted, Fds
  <2>5. CurIsConn'
    BY <2>1 DEF OwnerInv, OwnerTypes, CurIsConn
  <2> QED BY <2>2, <2>3, <2>4, <2>5 DEF OwnerInv
<1>3. CASE AcceptFails(w, c)
  <2>1. /\ peer[c] = "queued"
        /\ peer' = [peer EXCEPT ![c] = "lost"]
        /\ pc[w] = "poll"
        /\ pc' = [pc EXCEPT ![w] = "poll"]
        /\ batch' = [batch EXCEPT ![w] = @ \ {Listener}]
        /\ UNCHANGED <<cur, ctx, armed>>
    BY <1>3 DEF AcceptFails, Holds, Return
  <2> QED BY <2>1 DEF OwnerInv, OwnerTypes, OneOwner, NotAccepted, CurIsConn,
                      PeerStates, PCs, Fds
<1>4. CASE RecvNothing(w, c)
  BY <1>4, OwnerReturn DEF RecvNothing, Holds, Rearm
<1>5. CASE RecvPartial(w, c) \/ RecvReset(w, c)
  BY <1>5, OwnerReturn, OwnerStay, OwnerCrash
  DEF RecvPartial, RecvReset, Holds, PCs
<1>6. CASE RecvOther(w, c)
  BY <1>6, OwnerReturn DEF RecvOther, Incoming, Holds
<1>7. CASE \/ RecvAck(w, c) \/ RecvPingreq(w, c) \/ RecvPublish(w, c)
           \/ RecvConnectRefused(w, c) \/ RecvConnectKeep(w, c)
           \/ RecvSubscribeRefused(w, c)
  <2>1. Holds(w, c) /\ AwaitWritable(w, c) /\ UNCHANGED peer
    BY <1>7 DEF RecvAck, RecvPingreq, RecvPublish, RecvConnectRefused,
       RecvConnectKeep, RecvSubscribeRefused, Incoming
  <2> QED BY <2>1, OwnerReturn DEF Holds, AwaitWritable, Rearm
<1>8. CASE RecvConnectClean(w, c)
  BY <1>8, OwnerStay DEF RecvConnectClean, Incoming, Holds, PCs
<1>9. CASE RecvSubscribe(w, c)
  <2>1. \E label \in {"sub_create", "sub_find"} : Enter(w, c, label)
    BY <1>9 DEF RecvSubscribe
  <2> QED BY <1>9, <2>1, OwnerStay DEF RecvSubscribe, Incoming, Holds, PCs
<1>10. CASE ReplyNone(w, c)
  BY <1>10, OwnerReturn DEF ReplyNone, Replying, Holds
<1>11. CASE ReplyAck(w, c)
  BY <1>11, OwnerReturn DEF ReplyAck, Replying, Holds, AwaitRequest, Rearm
<1>12. CASE ReplySuback(w, c)
  BY <1>12, OwnerStay DEF ReplySuback, Replying, Holds, PCs
<1>13. CASE ReplyPublish(w, c)
  <2>1. \E label \in {"pub_create", "retain"} : Enter(w, c, label)
    BY <1>13 DEF ReplyPublish
  <2> QED BY <1>13, <2>1, OwnerStay DEF ReplyPublish, Replying, Holds, PCs
<1> QED BY <1>1, <1>2, <1>3, <1>4, <1>5, <1>6, <1>7, <1>8, <1>9, <1>10,
           <1>11, <1>12, <1>13 DEF Handle

LEMMA OwnerContinue ==
  ASSUME OwnerInv, NEW w \in Workers, Continue(w) PROVE OwnerInv'
<1> USE DEF netVars, connVars, workerVars
<1>0. pc[w] \notin {"poll", "dead"} => cur[w] \in Conns /\ cur[w] \in batch[w]
  BY DEF OwnerInv, CurIsConn, OneOwner
<1>1. CASE ConnectAdd(w) \/ SubscribeRetained(w)
  <2>1. /\ pc[w] \in {"connect_add", "sub_retained"}
        /\ AwaitWritable(w, cur[w]) /\ UNCHANGED peer
    BY <1>1 DEF ConnectAdd, SubscribeRetained
  <2> QED BY <1>0, <2>1, OwnerReturn DEF AwaitWritable, Rearm
<1>2. CASE ReplyRetained(w) \/ FinishPublish(w)
  <2>1. /\ pc[w] \in {"suback_retained", "fanout"}
        /\ AwaitRequest(w, cur[w]) /\ UNCHANGED peer
    BY <1>2 DEF ReplyRetained, FinishPublish
  <2> QED BY <1>0, <2>1, OwnerReturn DEF AwaitRequest, Rearm
<1>3. CASE ReplyDangling(w)
  <2>1. /\ pc[w] = "suback_retained" /\ UNCHANGED peer
        /\ \/ Crash /\ UNCHANGED <<armed, ctx>>
           \/ AwaitRequest(w, cur[w])
    BY <1>3 DEF ReplyDangling
  <2> QED BY <1>0, <2>1, OwnerReturn, OwnerCrash DEF AwaitRequest, Rearm
<1>4. CASE \/ SubscribeCreate(w) \/ AddSubscriberFind(w)
           \/ AddSubscriberInsert(w) \/ AddSubscriberLink(w)
           \/ PublishCreate(w) \/ SkipRetain(w)
           \/ RetainClear(w) \/ RetainKeep(w)
  <2>1. /\ pc[w] \notin {"poll", "dead"}
        /\ \E label \in PCs \ {"poll", "dead"} : Goto(w, label)
        /\ UNCHANGED <<peer, armed, ctx>>
    BY <1>4 DEF SubscribeCreate, AddSubscriberFind, AddSubscriberInsert,
       AddSubscriberLink, PublishCreate, SkipRetain, RetainClear, RetainKeep, CreateTopic, PCs
  <2> QED BY <2>1, OwnerStay
<1>5. CASE RetainDestroy(w)
  <2>1. /\ pc[w] = "retain"
        /\ \/ Goto(w, "keep") \/ Goto(w, "clear") \/ Crash
        /\ UNCHANGED <<peer, armed, ctx>>
    BY <1>5 DEF RetainDestroy
  <2> QED BY <2>1, OwnerStay, OwnerCrash DEF PCs
<1>6. CASE FanOut(w)
  BY <1>6 DEF FanOut, OwnerInv, OwnerTypes, OneOwner, NotAccepted, CurIsConn
<1>7. CASE FanOutWild(w)
  <2>1. Crash /\ UNCHANGED <<peer, armed, ctx>>
    BY <1>7 DEF FanOutWild
  <2> QED BY <2>1, OwnerCrash
<1>8. CASE RecvResume(w)
  <2>1. pc' = [pc EXCEPT ![w] = "poll"] /\ UNCHANGED <<batch, cur, peer, armed, ctx>>
    BY <1>8 DEF RecvResume, Goto
  <2> QED BY <2>1 DEF OwnerInv, OwnerTypes, OneOwner, NotAccepted, CurIsConn, PCs
<1> QED BY <1>1, <1>2, <1>3, <1>4, <1>5, <1>6, <1>7, <1>8 DEF Continue

LEMMA OwnerNext == OwnerInv /\ [Next]_vars => OwnerInv'
<1> SUFFICES ASSUME OwnerInv, [Next]_vars PROVE OwnerInv'
  OBVIOUS
<1>1. CASE Next
  BY <1>1, OwnerClient, OwnerPoll, OwnerHandle, OwnerContinue DEF Next
<1>2. CASE UNCHANGED vars
  BY <1>2 DEF vars, netVars, connVars, workerVars, OwnerInv, OwnerTypes,
     OneOwner, NotAccepted, CurIsConn
<1> QED BY <1>1, <1>2

(* In every behaviour of the event loop, whatever the number of threads,   *)
(* connections and events per batch: no two threads ever run a handler of  *)
(* one Client structure, and what a thread holds is not registered.        *)
THEOREM OneOwnerHolds == Spec => []OneOwner
<1>1. OwnerInv => OneOwner
  BY DEF OwnerInv
<1> QED BY <1>1, OwnerInit, OwnerNext, PTL DEF Spec

-----------------------------------------------------------------------------
ReplyInv ==
  /\ OwnerInv
  /\ reply = [c \in Conns |-> reply[c]]
  /\ ReplySlot

\* The three ways a step leaves the slot of the connection it works on, and
\* the slots of all others.
LEMMA SlotUntouched ==
  ASSUME ReplyInv, UNCHANGED <<ctx, reply>>,
         \A x \in Conns : armed'[x] \in {armed[x], "none"}
  PROVE  ReplySlot' /\ reply' = [c \in Conns |-> reply'[c]]
  BY DEF ReplyInv, ReplySlot

LEMMA SlotFilled ==
  ASSUME ReplyInv, NEW w \in Workers, NEW c \in Conns, AwaitWritable(w, c),
         \/ UNCHANGED reply
         \/ \E v : reply' = [reply EXCEPT ![c] = v]
  PROVE  ReplySlot' /\ reply' = [x \in Conns |-> reply'[x]]
<1>1. /\ ctx' = [ctx EXCEPT ![c] = "reply"]
      /\ armed' = [armed EXCEPT ![c] = "out"]
  BY DEF AwaitWritable, Rearm
<1> QED BY <1>1 DEF ReplyInv, ReplySlot, OwnerInv, OwnerTypes, Fds

LEMMA SlotFreed ==
  ASSUME ReplyInv, NEW w \in Workers, NEW c \in Conns, AwaitRequest(w, c)
  PROVE  ReplySlot' /\ reply' = [x \in Conns |-> reply'[x]]
<1>1. /\ ctx' = [ctx EXCEPT ![c] = "request"]
      /\ armed' = [armed EXCEPT ![c] = "in"]
      /\ reply' = [reply EXCEPT ![c] = NoReply]
  BY DEF AwaitRequest, Rearm
<1> QED BY <1>1 DEF ReplyInv, ReplySlot, OwnerInv, OwnerTypes, Fds

LEMMA SlotHandle ==
  ASSUME ReplyInv, NEW w \in Workers, NEW c \in Conns, Handle(w, c)
  PROVE  ReplySlot' /\ reply' = [x \in Conns |-> reply'[x]]
<1> USE DEF connVars, OwnClientOnly
<1>1. CASE \/ HangUp(w, c) \/ AcceptFails(w, c)
           \/ RecvPartial(w, c) \/ RecvReset(w, c)
           \/ RecvOther(w, c) \/ RecvConnectClean(w, c) \/ RecvSubscribe(w, c)
           \/ ReplyNone(w, c) \/ ReplySuback(w, c) \/ ReplyPublish(w, c)
  <2>1. UNCHANGED <<ctx, reply, armed>>
    BY <1>1 DEF HangUp, AcceptFails, RecvPartial, RecvReset, RecvOther,
       RecvConnectClean, RecvSubscribe, ReplyNone, ReplySuback, ReplyPublish
  <2> QED BY <2>1, SlotUntouched
<1>2. CASE AcceptHandler(w, c)
  <2>1. /\ peer[c] = "queued"
        /\ armed' = [armed EXCEPT ![c] = "in", ![Listener] = "in"]
        /\ UNCHANGED <<ctx, reply>>
    BY <1>2 DEF AcceptHandler
  <2> QED BY <2>1, ConnsAssumption
          DEF ReplyInv, ReplySlot, OwnerInv, OwnerTypes, NotAccepted, Fds
<1>3. CASE RecvNothing(w, c)
  <2>1. /\ ctx[c] = "request"
        /\ armed' = [armed EXCEPT ![c] = "in"]
        /\ UNCHANGED <<ctx, reply>>
    BY <1>3 DEF RecvNothing, Rearm
  <2> QED BY <2>1 DEF ReplyInv, ReplySlot, OwnerInv, OwnerTypes, Fds
<1>4. CASE \/ RecvAck(w, c) \/ RecvPingreq(w, c) \/ RecvPublish(w, c)
           \/ RecvConnectRefused(w, c) \/ RecvConnectKeep(w, c)
           \/ RecvSubscribeRefused(w, c)
  <2>1. /\ AwaitWritable(w, c)
        /\ UNCHANGED reply \/ \E v : reply' = [reply EXCEPT ![c] = v]
    BY <1>4 DEF RecvAck, RecvPingreq, RecvPublish, RecvConnectRefused,
       RecvConnectKeep, RecvSubscribeRefused, SetReply
  <2> QED BY <2>1, SlotFilled
<1>5. CASE ReplyAck(w, c)
  BY <1>5, SlotFreed DEF ReplyAck
<1> QED BY <1>1, <1>2, <1>3, <1>4, <1>5 DEF Handle

LEMMA SlotContinue ==
  ASSUME ReplyInv, NEW w \in Workers, Continue(w)
  PROVE  ReplySlot' /\ reply' = [x \in Conns |-> reply'[x]]
<1> USE DEF connVars
<1>0. pc[w] \notin {"poll", "dead"} => cur[w] \in Conns
  BY DEF ReplyInv, OwnerInv, CurIsConn
<1>1. CASE ConnectAdd(w) \/ SubscribeRetained(w)
  <2>1. /\ pc[w] \in {"connect_add", "sub_retained"}
        /\ AwaitWritable(w, cur[w])
        /\ \E v : reply' = [reply EXCEPT ![cur[w]] = v]
    BY <1>1 DEF ConnectAdd, SubscribeRetained, SetReply
  <2> QED BY <1>0, <2>1, SlotFilled
<1>2. CASE ReplyRetained(w) \/ FinishPublish(w)
  <2>1. pc[w] \in {"suback_retained", "fanout"} /\ AwaitRequest(w, cur[w])
    BY <1>2 DEF ReplyRetained, FinishPublish
  <2> QED BY <1>0, <2>1, SlotFreed
<1>3. CASE ReplyDangling(w)
  <2>1. /\ pc[w] = "suback_retained"
        /\ UNCHANGED <<ctx, reply, armed>> \/ AwaitRequest(w, cur[w])
    BY <1>3 DEF ReplyDangling
  <2> QED BY <1>0, <2>1, SlotFreed, SlotUntouched
<1>4. CASE \/ RecvResume(w) \/ SubscribeCreate(w) \/ AddSubscriberFind(w)
           \/ AddSubscriberInsert(w) \/ AddSubscriberLink(w)
           \/ PublishCreate(w) \/ SkipRetain(w) \/ RetainDestroy(w)
           \/ RetainClear(w) \/ RetainKeep(w) \/ FanOut(w) \/ FanOutWild(w)
  <2>1. UNCHANGED <<ctx, reply, armed>>
    BY <1>4 DEF RecvResume, SubscribeCreate, AddSubscriberFind,
       AddSubscriberInsert, AddSubscriberLink, PublishCreate, SkipRetain,
       RetainDestroy, RetainClear, RetainKeep, FanOut, FanOutWild, CreateTopic
  <2> QED BY <2>1, SlotUntouched
<1> QED BY <1>1, <1>2, <1>3, <1>4 DEF Continue

LEMMA SlotNext == ReplyInv /\ [Next]_vars => ReplyInv'
<1> SUFFICES ASSUME ReplyInv, [Next]_vars PROVE ReplyInv'
  OBVIOUS
<1>1. OwnerInv'
  BY OwnerNext DEF ReplyInv
<1>2. ReplySlot' /\ reply' = [x \in Conns |-> reply'[x]]
  <2>1. ASSUME NEW c \in Conns, ClientStep(c)
        PROVE  UNCHANGED <<ctx, reply, armed>>
    BY <2>1 DEF ClientStep, ClientConnect, ClientSend, ClientLeave,
       ClientStall, ClientFinish, ClientReset, ClientOnly, connVars
  <2>2. ASSUME NEW w \in Workers, Poll(w)
        PROVE  /\ UNCHANGED <<ctx, reply>>
               /\ \A x \in Conns : armed'[x] \in {armed[x], "none"}
    BY <2>2 DEF Poll, EpollWait, Disarm, connVars, Fds
  <2>3. CASE UNCHANGED vars
    BY <2>3, SlotUntouched DEF vars, connVars
  <2> QED BY <2>1, <2>2, <2>3, SlotUntouched, SlotHandle, SlotContinue DEF Next
<1> QED BY <1>1, <1>2 DEF ReplyInv

(* In every behaviour: the handler a connection will run is the one its    *)
(* registered event is for, and the reply slot of a connection that waits  *)
(* for a request is free, so request_handler never overwrites an answer    *)
(* that reply_handler has still to send.                                   *)
THEOREM ReplySlotHolds == Spec => []ReplySlot
<1>1. Init => ReplyInv
  <2>1. Init => ReplySlot /\ reply = [c \in Conns |-> reply[c]]
    BY ConnsAssumption DEF Init, ReplySlot, Fds
  <2> QED BY <2>1, OwnerInit DEF ReplyInv
<1>2. ReplyInv => ReplySlot
  BY DEF ReplyInv
<1> QED BY <1>1, <1>2, SlotNext, PTL DEF Spec

\* The broker has read request m and it is an op with a usable name.
Known(m, op) ==
  /\ m \in RequestNames
  /\ m[2] <= rd[m[1]]
  /\ Request(m).op = op
  /\ op = "CONNECT" => Request(m).id \in Ids
  /\ op \in {"SUBSCRIBE", "PUBLISH"} => Request(m).topic \in Topics

LogTypes ==
  /\ log \in [Conns -> Seq(LogEntries)]
  /\ rd \in [Conns -> Nat]
  /\ \A c \in Conns : rd[c] <= Len(log[c]) /\ Len(log[c]) <= MaxSends

TopicTypes ==
  /\ heap \in Seq(TopicObjects)
  /\ topics \in [Topics -> 0..Len(heap)]
  /\ live \subseteq RequestNames

IdTypes ==
  /\ cid \in [Conns -> Ids \cup Conns]
  /\ clients \in [Conns -> Nat]
  /\ strays \in [Conns -> Nat]
  /\ hole \in BOOLEAN

OutTypes == outbox \in [Conns -> Seq(Frames)]

ReplyTypes ==
  /\ reply \in [Conns -> Replies]
  /\ \A c \in Conns :
       /\ reply[c].op # "NONE" => reply[c].re \in RequestNames
       /\ reply[c].op = "PUBLISH" => Known(reply[c].re, "PUBLISH")

LocalTypes ==
  /\ job \in [Workers -> RequestNames \cup {NoMsg}]
  /\ loc \in [Workers -> 0..Len(heap)]
  /\ tgt \in [Workers -> 0..Len(heap)]
  /\ todo \in [Workers -> Seq(Conns)]

SubPCs == {"sub_create", "sub_find", "sub_insert", "sub_link", "sub_retained"}
PubPCs == {"pub_create", "retain", "clear", "keep", "fanout"}
HandlerAt(w) ==
  /\ pc[w] = "connect_add" => Known(job[w], "CONNECT")
  /\ pc[w] \in SubPCs => Known(job[w], "SUBSCRIBE")
  /\ pc[w] \in PubPCs => Known(job[w], "PUBLISH")
  /\ pc[w] \in (SubPCs \cup PubPCs) \ {"sub_create", "pub_create"}
       => loc[w] # 0
  /\ pc[w] = "sub_find" => topics[Request(job[w]).topic] # 0
  /\ pc[w] \in {"sub_insert", "sub_link"} => tgt[w] # 0
HandlerInv == \A w \in Workers : HandlerAt(w)

TypeInv ==
  /\ OwnerInv
  /\ LogTypes
  /\ TopicTypes
  /\ IdTypes
  /\ OutTypes
  /\ ReplyTypes
  /\ LocalTypes
  /\ HandlerInv

-----------------------------------------------------------------------------
\* The fields a request of each kind has.
LEMMA RequestFields ==
  ASSUME NEW r \in Requests
  PROVE  /\ r.op = "CONNECT" => r.id \in Ids \cup {EmptyId}
         /\ r.op \in {"SUBSCRIBE", "PUBLISH"}
              => r.topic \in Topics \cup {EmptyTopic}
<1>1. r \in AllRequests
  BY RequestsAssumption
<1> QED BY <1>1 DEF AllRequests

LEMMA OwedType == ASSUME NEW r PROVE Owed(r) \subseteq Conns \cup RequestNames
  BY DEF Owed

\* What a step does to the requests sent and read.
LEMMA LogShape ==
  ASSUME Next
  PROVE  \/ UNCHANGED <<log, rd>>
         \/ \E c \in Conns, r \in Requests :
              /\ Len(log[c]) < MaxSends
              /\ log' = [log EXCEPT ![c] =
                           Append(@, [req |-> r, owed |-> Owed(r)])]
              /\ UNCHANGED rd
         \/ \E c \in Conns :
              /\ rd[c] < Len(log[c])
              /\ rd' = [rd EXCEPT ![c] = @ + 1]
              /\ UNCHANGED log
<1> USE DEF netVars, connVars, OwnClientOnly
<1>1. ASSUME NEW c \in Conns, ClientStep(c)
      PROVE  \/ UNCHANGED <<log, rd>>
             \/ \E r \in Requests :
                  /\ Len(log[c]) < MaxSends
                  /\ log' = [log EXCEPT ![c] =
                               Append(@, [req |-> r, owed |-> Owed(r)])]
                  /\ UNCHANGED rd
  BY <1>1 DEF ClientStep, ClientConnect, ClientSend, ClientStall,
     ClientFinish, ClientLeave, ClientReset,
     ClientOnly
<1>2. ASSUME NEW w \in Workers, Poll(w) PROVE UNCHANGED <<log, rd>>
  BY <1>2 DEF Poll, EpollWait
<1>3. ASSUME NEW w \in Workers, NEW c \in Conns, Handle(w, c)
      PROVE  \/ UNCHANGED <<log, rd>>
             \/ /\ rd[c] < Len(log[c])
                /\ rd' = [rd EXCEPT ![c] = @ + 1]
                /\ UNCHANGED log
  BY <1>3 DEF Handle, HangUp, AcceptHandler, AcceptFails, RecvNothing,
     RecvPartial, RecvReset, RecvOther, RecvAck, RecvPingreq, RecvPublish,
     RecvConnectRefused, RecvConnectKeep, RecvConnectClean,
     RecvSubscribeRefused, RecvSubscribe, ReplyNone, ReplyAck, ReplySuback,
     ReplyPublish, Incoming
<1>4. ASSUME NEW w \in Workers, Continue(w) PROVE UNCHANGED <<log, rd>>
  BY <1>4 DEF Continue, RecvResume, ConnectAdd, SubscribeCreate,
     AddSubscriberFind, AddSubscriberInsert, AddSubscriberLink,
     SubscribeRetained, ReplyRetained, ReplyDangling, PublishCreate, SkipRetain, RetainDestroy, RetainClear,
     RetainKeep, FanOut, FanOutWild, FinishPublish, CreateTopic
<1> QED BY <1>1, <1>2, <1>3, <1>4 DEF Next

\* Requests are only ever added, and what was read stays read.
ReadStays ==
  \A m, op : Known(m, op) => Known(m, op)' /\ Request(m)' = Request(m)

LEMMA LogStep ==
  ASSUME LogTypes, Next
  PROVE  LogTypes' /\ ReadStays
<1>1. CASE UNCHANGED <<log, rd>>
  BY <1>1 DEF LogTypes, Known, Request, ReadStays
<1>2. ASSUME NEW c \in Conns, NEW r \in Requests,
             Len(log[c]) < MaxSends,
             log' = [log EXCEPT ![c] =
                      Append(@, [req |-> r, owed |-> Owed(r)])],
             UNCHANGED rd
      PROVE  LogTypes' /\ ReadStays
  <2> DEFINE e == [req |-> r, owed |-> Owed(r)]
  <2>1. e \in LogEntries
    BY OwedType DEF LogEntries
  <2> HIDE DEF e
  <2>2. log' = [log EXCEPT ![c] = Append(@, e)]
    BY <1>2 DEF e
  <2>3. /\ log[c] \in Seq(LogEntries)
        /\ Append(log[c], e) \in Seq(LogEntries)
        /\ Len(Append(log[c], e)) = Len(log[c]) + 1
        /\ \A i \in 1..Len(log[c]) : Append(log[c], e)[i] = log[c][i]
    BY <2>1 DEF LogTypes
  <2>4. LogTypes'
    BY <1>2, <2>2, <2>3, BoundsAssumption DEF LogTypes
  <2>5. ASSUME NEW m \in RequestNames, m[2] <= rd[m[1]]
        PROVE  log'[m[1]][m[2]] = log[m[1]][m[2]]
    <3>1. m[1] \in Conns /\ m[2] \in 1..Len(log[m[1]])
      BY <2>5, BoundsAssumption DEF RequestNames, LogTypes
    <3> QED BY <2>2, <2>3, <3>1 DEF LogTypes
  <2> QED BY <1>2, <2>4, <2>5 DEF Known, Request, ReadStays
<1>3. ASSUME NEW c \in Conns, rd[c] < Len(log[c]),
             rd' = [rd EXCEPT ![c] = @ + 1], UNCHANGED log
      PROVE  LogTypes' /\ ReadStays
  <2>1. LogTypes'
    BY <1>3 DEF LogTypes
  <2>2. ASSUME NEW m \in RequestNames, m[2] <= rd[m[1]]
        PROVE  m[2] <= rd'[m[1]]
    BY <1>3, <2>2, BoundsAssumption DEF LogTypes, RequestNames
  <2> QED BY <1>3, <2>1, <2>2 DEF Known, Request, ReadStays
<1> QED BY <1>1, <1>2, <1>3, LogShape

\* The request a handler of request_handler starts with.
LEMMA IncomingKnown ==
  ASSUME LogTypes, NEW w \in Workers, NEW c \in Conns, NEW op, NEW m,
         Incoming(w, c, op), UNCHANGED log, m = NextName(c)
  PROVE  /\ m \in RequestNames
         /\ /\ op = "CONNECT" => NextRequest(c).id # EmptyId
            /\ op \in {"SUBSCRIBE", "PUBLISH"}
                 => NextRequest(c).topic # EmptyTopic
            => /\ Known(m, op)'
               /\ op = "SUBSCRIBE" => NextRequest(c).topic \in Topics
<1>1. PICK n \in Nat : n = rd[c] + 1
  BY DEF LogTypes
<1>2. n \in 1..Len(log[c]) /\ n \in 1..MaxSends /\ rd'[c] = n
  BY <1>1, BoundsAssumption DEF LogTypes, Incoming
<1>3. m = <<c, n>> /\ m \in RequestNames /\ m[1] = c /\ m[2] = n
  BY <1>1, <1>2 DEF NextName, RequestNames
<1>4. log[c][n] \in LogEntries
  BY <1>2 DEF LogTypes
<1>5. /\ NextRequest(c) = log[c][n].req
      /\ NextRequest(c) \in Requests
      /\ NextRequest(c).op = op
  BY <1>3, <1>4 DEF NextRequest, Request, LogEntries, Incoming
<1>6. Request(m)' = NextRequest(c)
  BY <1>3, <1>5 DEF Request
<1> QED BY <1>2, <1>3, <1>5, <1>6, RequestFields DEF Known

LEMMA SendAllType ==
  ASSUME OutTypes, NEW c \in Conns, NEW op, NEW rc, NEW re,
         op \in {"CONNACK", "SUBACK", "PINGRESP", "PUBACK", "PUBLISH",
                "RETAINED"},
         rc \in {0, 1}, re \in RequestNames \cup {Wild},
         SendAll(c, op, rc, re)
  PROVE  OutTypes'
<1>1. PICK f \in Frames : outbox' = [outbox EXCEPT ![c] = Append(@, f)]
  <2>1. PICK s \in Outcomes(c) :
          outbox' = [outbox EXCEPT ![c] = Append(@, Frame(op, rc, re, s))]
    BY DEF SendAll
  <2>2. s \in SentKinds
    BY DEF Outcomes, SentKinds
  <2>3. Frame(op, rc, re, s) \in Frames
    BY <2>2 DEF Frame, Frames
  <2> QED BY <2>1, <2>3
<1>2. Append(outbox[c], f) \in Seq(Frames)
  BY DEF OutTypes
<1> QED BY <1>1, <1>2 DEF OutTypes

LEMMA ReplySet ==
  ASSUME ReplyTypes, ReadStays,
         NEW c \in Conns, NEW op, NEW rc, NEW re, NEW m,
         op \in {"CONNACK", "SUBACK", "PINGRESP", "PUBLISH"},
         rc \in {0, 1}, re \in RequestNames, m \in Pointers,
         op = "PUBLISH" => Known(re, "PUBLISH")',
         SetReply(c, op, rc, re, m)
  PROVE  ReplyTypes'
<1> DEFINE v == [op |-> op, rc |-> rc, re |-> re, retained |-> m]
<1>1. v \in Replies
  BY DEF Replies
<1>2. reply' = [reply EXCEPT ![c] = v]
  BY DEF SetReply
<1>3. v.op = op /\ v.re = re
  OBVIOUS
<1> HIDE DEF v
<1> QED BY <1>1, <1>2, <1>3 DEF ReplyTypes, ReadStays

LEMMA ReplyFreed ==
  ASSUME ReplyTypes, ReadStays,
         NEW c \in Conns, NEW w \in Workers, AwaitRequest(w, c)
  PROVE  ReplyTypes'
<1>1. reply' = [reply EXCEPT ![c] = NoReply]
  BY DEF AwaitRequest
<1>2. NoReply \in Replies /\ NoReply.op = "NONE"
  BY DEF NoReply, Replies, Pointers
<1> QED BY <1>1, <1>2 DEF ReplyTypes, ReadStays

LEMMA ReplyUntouched ==
  ASSUME ReplyTypes, ReadStays,
         UNCHANGED reply
  PROVE  ReplyTypes'
  BY DEF ReplyTypes, ReadStays

-----------------------------------------------------------------------------
(***************************************************************************)
(* The topic table, the topic objects and the handlers' locals.            *)
(***************************************************************************)
WorkInv == TopicTypes /\ LocalTypes /\ HandlerInv

LEMMA HandlerStays ==
  ASSUME TypeInv, ReadStays, NEW v \in Workers,
         pc'[v] = pc[v], job'[v] = job[v], loc'[v] = loc[v], tgt'[v] = tgt[v],
         \A t \in Topics : topics[t] # 0 => topics'[t] # 0
  PROVE  HandlerAt(v)'
<1>1. HandlerAt(v)
  BY DEF TypeInv, HandlerInv
<1>2. CASE pc[v] = "sub_find"
  <2>1. /\ Known(job[v], "SUBSCRIBE")
        /\ loc[v] # 0 /\ topics[Request(job[v]).topic] # 0
    BY <1>1, <1>2 DEF HandlerAt, SubPCs
  <2>2. /\ Known(job[v], "SUBSCRIBE")'
        /\ Request(job[v])' = Request(job[v])
        /\ Request(job[v]).topic \in Topics
    BY <2>1 DEF ReadStays, Known, Request
  <2> QED BY <1>2, <2>1, <2>2 DEF HandlerAt, SubPCs, PubPCs
<1>3. CASE pc[v] # "sub_find"
  <2>1. \A op : Known(job[v], op) => Known(job[v], op)'
    BY DEF ReadStays, Known, Request
  <2> QED BY <1>1, <1>3, <2>1 DEF HandlerAt
<1> QED BY <1>2, <1>3

\* Steps outside the topics, and the return of any handler.
LEMMA WorkQuiet ==
  ASSUME TypeInv, ReadStays, UNCHANGED <<topicVars, localVars>>,
         \A v \in Workers : \/ pc'[v] = pc[v]
                            \/ pc'[v] \in {"poll", "dead", "spin",
                                           "suback_retained"}
  PROVE  WorkInv'
<1> USE DEF topicVars, localVars
<1>1. TopicTypes' /\ LocalTypes'
  BY DEF TypeInv, TopicTypes, LocalTypes
<1>2. ASSUME NEW v \in Workers PROVE HandlerAt(v)'
  <2>1. CASE pc'[v] = pc[v]
    BY <2>1, HandlerStays
  <2>2. CASE pc'[v] \in {"poll", "dead", "spin", "suback_retained"}
    BY <2>2 DEF HandlerAt, SubPCs, PubPCs
  <2> QED BY <1>2, <2>1, <2>2
<1> QED BY <1>1, <1>2 DEF WorkInv, HandlerInv

\* A handler that moves on: what is to be shown of the worker itself.
LEMMA WorkMove ==
  ASSUME TypeInv, ReadStays, NEW w \in Workers, NEW label,
         pc' = [pc EXCEPT ![w] = label],
         \A v \in Workers \ {w} : /\ job'[v] = job[v]
                                  /\ loc'[v] = loc[v]
                                  /\ tgt'[v] = tgt[v],
         \A t \in Topics : topics[t] # 0 => topics'[t] # 0,
         TopicTypes', LocalTypes', HandlerAt(w)'
  PROVE  WorkInv'
<1>1. ASSUME NEW v \in Workers PROVE HandlerAt(v)'
  <2>1. CASE v = w
    BY <2>1
  <2>2. CASE v # w
    <3>1. pc'[v] = pc[v]
      BY <2>2 DEF TypeInv, OwnerInv, OwnerTypes
    <3> QED BY <2>2, <3>1, HandlerStays
  <2> QED BY <2>1, <2>2
<1> QED BY <1>1 DEF WorkInv, HandlerInv

LEMMA WorkConnectClean ==
  ASSUME TypeInv, ReadStays, NEW w \in Workers, NEW c \in Conns,
         RecvConnectClean(w, c)
  PROVE  WorkInv'
<1> USE DEF netVars, connVars, topicVars
<1>1. PICK m : m = NextName(c)
  OBVIOUS
<1>2. /\ Incoming(w, c, "CONNECT") /\ UNCHANGED log
      /\ NextRequest(c).id # EmptyId
      /\ job' = [job EXCEPT ![w] = m]
      /\ pc' = [pc EXCEPT ![w] = "connect_add"]
      /\ UNCHANGED <<topicVars, loc, tgt, todo>>
  BY <1>1 DEF RecvConnectClean, Enter
<1>3. m \in RequestNames /\ Known(m, "CONNECT")'
  BY <1>1, <1>2, IncomingKnown DEF TypeInv
<1>4. TopicTypes' /\ LocalTypes'
  BY <1>2, <1>3 DEF TypeInv, TopicTypes, LocalTypes
<1>5. job'[w] = m /\ pc'[w] = "connect_add"
  BY <1>2 DEF TypeInv, LocalTypes, OwnerInv, OwnerTypes
<1>6. HandlerAt(w)'
  BY <1>3, <1>5 DEF HandlerAt, SubPCs, PubPCs, Known, Request
<1> QED BY <1>2, <1>4, <1>6, WorkMove DEF TypeInv, LocalTypes

LEMMA WorkSubscribe ==
  ASSUME TypeInv, ReadStays, NEW w \in Workers, NEW c \in Conns,
         RecvSubscribe(w, c)
  PROVE  WorkInv'
<1> USE DEF netVars, connVars, topicVars
<1>1. PICK m : m = NextName(c)
  OBVIOUS
<1>2. PICK t : t = topics[NextRequest(c).topic]
  OBVIOUS
<1>3. /\ Incoming(w, c, "SUBSCRIBE") /\ UNCHANGED log
      /\ NextRequest(c).topic # EmptyTopic
      /\ job' = [job EXCEPT ![w] = m]
      /\ loc' = [loc EXCEPT ![w] = t]
      /\ pc' = [pc EXCEPT ![w] = IF t = 0 THEN "sub_create" ELSE "sub_find"]
      /\ UNCHANGED <<topicVars, tgt, todo>>
  BY <1>1, <1>2 DEF RecvSubscribe, Enter
<1>4. /\ m \in RequestNames /\ Known(m, "SUBSCRIBE")'
      /\ NextRequest(c).topic \in Topics
  BY <1>1, <1>3, IncomingKnown DEF TypeInv
<1>5. t \in 0..Len(heap)
  BY <1>2, <1>4 DEF TypeInv, TopicTypes
<1>6. TopicTypes' /\ LocalTypes'
  BY <1>3, <1>4, <1>5 DEF TypeInv, TopicTypes, LocalTypes
<1>7. /\ job'[w] = m /\ loc'[w] = t
      /\ pc'[w] = IF t = 0 THEN "sub_create" ELSE "sub_find"
  BY <1>3 DEF TypeInv, LocalTypes, OwnerInv, OwnerTypes
<1>8. Request(m)' = NextRequest(c)
  BY <1>1, <1>3 DEF Request, NextRequest
<1>9. topics'[Request(m)'.topic] = t
  BY <1>2, <1>3, <1>8
<1>10. HandlerAt(w)'
  BY <1>4, <1>7, <1>9 DEF HandlerAt, SubPCs, PubPCs, Known, Request
<1> QED BY <1>3, <1>6, <1>10, WorkMove DEF TypeInv, LocalTypes

LEMMA WorkPublish ==
  ASSUME TypeInv, ReadStays, NEW w \in Workers, NEW c \in Conns,
         ReplyPublish(w, c)
  PROVE  WorkInv'
<1> USE DEF netVars, connVars, topicVars
<1>1. PICK m : m = reply[c].re
  OBVIOUS
<1>2. PICK t : t = topics[Request(m).topic]
  OBVIOUS
<1>3. /\ reply[c].op = "PUBLISH"
      /\ job' = [job EXCEPT ![w] = m]
      /\ loc' = [loc EXCEPT ![w] = t]
      /\ pc' = [pc EXCEPT ![w] = IF t = 0 THEN "pub_create" ELSE "retain"]
      /\ UNCHANGED <<topicVars, tgt, todo>>
  BY <1>1, <1>2 DEF ReplyPublish, Enter
<1>4. Known(m, "PUBLISH")
  BY <1>1, <1>3 DEF TypeInv, ReplyTypes
<1>5. m \in RequestNames /\ t \in 0..Len(heap) /\ Known(m, "PUBLISH")'
  BY <1>2, <1>4 DEF TypeInv, TopicTypes, Known, ReadStays
<1>6. TopicTypes' /\ LocalTypes'
  BY <1>3, <1>5 DEF TypeInv, TopicTypes, LocalTypes
<1>7. /\ job'[w] = m /\ loc'[w] = t
      /\ pc'[w] = IF t = 0 THEN "pub_create" ELSE "retain"
  BY <1>3 DEF TypeInv, LocalTypes, OwnerInv, OwnerTypes
<1>8. HandlerAt(w)'
  BY <1>5, <1>7 DEF HandlerAt, SubPCs, PubPCs, Known, Request
<1> QED BY <1>3, <1>6, <1>8, WorkMove DEF TypeInv, LocalTypes

LEMMA WorkCreate ==
  ASSUME TypeInv, ReadStays, NEW w \in Workers,
         SubscribeCreate(w) \/ PublishCreate(w)
  PROVE  WorkInv'
<1> DEFINE k == Len(heap) + 1
<1>1. PICK m \in RequestNames, o \in TopicObjects, t \in Topics,
           label \in {"sub_find", "retain"} :
        /\ m = job[w]
        /\ t = Request(m).topic
        /\ heap' = Append(heap, o)
        /\ topics' = [topics EXCEPT ![t] = k]
        /\ loc' = [loc EXCEPT ![w] = k]
        /\ pc' = [pc EXCEPT ![w] = label]
        /\ \/ label = "sub_find" /\ Known(m, "SUBSCRIBE")
           \/ label = "retain" /\ Known(m, "PUBLISH")
        /\ UNCHANGED <<live, job, tgt, todo>>
  <2>1. \/ /\ pc[w] = "sub_create" /\ CreateTopic(w, "sub_find")
           /\ Known(job[w], "SUBSCRIBE")
        \/ /\ pc[w] = "pub_create" /\ CreateTopic(w, "retain")
           /\ Known(job[w], "PUBLISH")
    BY DEF SubscribeCreate, PublishCreate, TypeInv, HandlerInv, HandlerAt,
       SubPCs, PubPCs
  <2>2. job[w] \in RequestNames /\ Request(job[w]).topic \in Topics
    BY <2>1 DEF Known
  <2>3. Topic(Request(job[w]).topic, <<>>, NoMsg) \in TopicObjects
    BY <2>2 DEF Topic, TopicObjects, Pointers
  <2> QED BY <2>1, <2>2, <2>3 DEF CreateTopic, PutTopic, Goto
<1>2. /\ heap \in Seq(TopicObjects) /\ Len(heap) \in Nat
      /\ heap' \in Seq(TopicObjects) /\ Len(heap') = k
  BY <1>1 DEF TypeInv, TopicTypes
<1>3. TopicTypes' /\ LocalTypes'
  BY <1>1, <1>2 DEF TypeInv, TopicTypes, LocalTypes
<1>4. /\ job'[w] = m /\ loc'[w] = k /\ topics'[t] = k
      /\ pc'[w] = label
  BY <1>1 DEF TypeInv, TopicTypes, LocalTypes, OwnerInv, OwnerTypes
<1>5. /\ label = "sub_find" => Known(m, "SUBSCRIBE")'
      /\ label = "retain" => Known(m, "PUBLISH")'
      /\ Request(m)' = Request(m)
  BY <1>1 DEF ReadStays
<1>6. HandlerAt(w)'
  <2>1. k # 0 /\ topics'[Request(m)'.topic] = k /\ job'[w] = m
    BY <1>1, <1>2, <1>4, <1>5
  <2>2. CASE label = "sub_find"
    <3>1. Known(m, "SUBSCRIBE")'
      BY <1>5, <2>2
    <3> HIDE DEF k
    <3>2. Known(job[w], "SUBSCRIBE")' /\ topics'[Request(job[w])'.topic] # 0
      BY <2>1, <3>1 DEF Known, Request
    <3> QED BY <1>4, <2>1, <2>2, <3>2 DEF HandlerAt, SubPCs, PubPCs
  <2>3. CASE label = "retain"
    <3>1. Known(m, "PUBLISH")'
      BY <1>5, <2>3
    <3> HIDE DEF k
    <3>2. Known(job[w], "PUBLISH")'
      BY <2>1, <3>1 DEF Known, Request
    <3> QED BY <1>4, <2>1, <2>3, <3>2 DEF HandlerAt, SubPCs, PubPCs
  <2> QED BY <1>1, <2>2, <2>3
<1>7. \A x \in Topics : topics[x] # 0 => topics'[x] # 0
  BY <1>1, <1>2 DEF TypeInv, TopicTypes
<1> QED BY <1>1, <1>3, <1>6, <1>7, WorkMove DEF TypeInv, LocalTypes

LEMMA WorkFind ==
  ASSUME TypeInv, ReadStays, NEW w \in Workers, AddSubscriberFind(w)
  PROVE  WorkInv'
<1> USE DEF topicVars
<1>1. PICK t : t = topics[Request(job[w]).topic]
  OBVIOUS
<1>2. /\ pc[w] = "sub_find"
      /\ tgt' = [tgt EXCEPT ![w] = t]
      /\ pc' = [pc EXCEPT ![w] = "sub_insert"]
      /\ UNCHANGED <<topicVars, job, loc, todo>>
  BY <1>1 DEF AddSubscriberFind, Goto
<1>3. /\ Known(job[w], "SUBSCRIBE") /\ t # 0 /\ loc[w] # 0
  BY <1>1, <1>2 DEF TypeInv, HandlerInv, HandlerAt, SubPCs
<1>4. t \in 0..Len(heap) /\ Known(job[w], "SUBSCRIBE")'
  BY <1>1, <1>2, <1>3 DEF TypeInv, TopicTypes, Known, ReadStays, Request
<1>5. TopicTypes' /\ LocalTypes'
  BY <1>2, <1>4 DEF TypeInv, TopicTypes, LocalTypes
<1>6. tgt'[w] = t /\ pc'[w] = "sub_insert"
  BY <1>2 DEF TypeInv, LocalTypes, OwnerInv, OwnerTypes
<1>7. HandlerAt(w)'
  BY <1>2, <1>3, <1>4, <1>6 DEF HandlerAt, SubPCs, PubPCs
<1> QED BY <1>2, <1>5, <1>7, WorkMove DEF TypeInv, LocalTypes

\* A topic object is replaced by another one.
LEMMA HeapSet ==
  ASSUME TypeInv, NEW i \in 1..Len(heap), NEW o \in TopicObjects,
         heap' = [heap EXCEPT ![i] = o], UNCHANGED topics,
         live' \subseteq RequestNames
  PROVE  TopicTypes' /\ Len(heap') = Len(heap)
<1>1. heap \in Seq(TopicObjects)
  BY DEF TypeInv, TopicTypes
<1>2. heap' \in Seq(TopicObjects) /\ Len(heap') = Len(heap)
  BY <1>1
<1> QED BY <1>2 DEF TypeInv, TopicTypes

LEMMA WorkInsert ==
  ASSUME TypeInv, ReadStays, NEW w \in Workers,
         AddSubscriberInsert(w) \/ AddSubscriberLink(w)
  PROVE  WorkInv'
<1> USE DEF topicVars, localVars
<1>1. PICK label \in {"sub_link", "sub_retained"} :
        /\ pc' = [pc EXCEPT ![w] = label]
        /\ pc[w] \in {"sub_insert", "sub_link"}
        /\ UNCHANGED <<topics, live, localVars>>
        /\ \/ UNCHANGED heap
           \/ SetSubs(tgt[w], <<cur[w]>> \o heap[tgt[w]].subs)
  BY DEF AddSubscriberInsert, AddSubscriberLink, Inserted, Goto
<1>2. /\ Known(job[w], "SUBSCRIBE") /\ loc[w] # 0
      /\ tgt[w] \in 1..Len(heap) /\ cur[w] \in Conns
  <2>1. HandlerAt(w) /\ CurIsConn /\ Len(heap) \in Nat
    BY DEF TypeInv, HandlerInv, OwnerInv, TopicTypes
  <2>2. Known(job[w], "SUBSCRIBE") /\ loc[w] # 0 /\ tgt[w] # 0
    BY <1>1, <2>1 DEF HandlerAt, SubPCs
  <2>3. tgt[w] \in 1..Len(heap)
    BY <2>1, <2>2 DEF TypeInv, LocalTypes
  <2>4. cur[w] \in Conns
    BY <1>1, <2>1 DEF CurIsConn
  <2> QED BY <2>2, <2>3, <2>4
<1>3. TopicTypes' /\ Len(heap') = Len(heap)
  <2>1. CASE UNCHANGED heap
    BY <1>1, <2>1 DEF TypeInv, TopicTypes
  <2>2. CASE SetSubs(tgt[w], <<cur[w]>> \o heap[tgt[w]].subs)
    <3>1. heap[tgt[w]] \in TopicObjects
      BY <1>2 DEF TypeInv, TopicTypes
    <3>2. <<cur[w]>> \o heap[tgt[w]].subs \in Seq(Conns)
      BY <1>2, <3>1 DEF TopicObjects
    <3>3. PICK o \in TopicObjects : heap' = [heap EXCEPT ![tgt[w]] = o]
      BY <2>2, <3>1, <3>2 DEF SetSubs, Topic, TopicObjects
    <3> QED BY <1>1, <1>2, <3>3, HeapSet DEF TypeInv, TopicTypes
  <2> QED BY <1>1, <2>1, <2>2
<1>4. LocalTypes'
  BY <1>1, <1>3 DEF TypeInv, LocalTypes
<1>5. Known(job[w], "SUBSCRIBE")' /\ pc'[w] = label
  BY <1>1, <1>2 DEF TypeInv, OwnerInv, OwnerTypes, Known, ReadStays, Request
<1>6. HandlerAt(w)'
  BY <1>1, <1>2, <1>5 DEF HandlerAt, SubPCs, PubPCs, TypeInv, LocalTypes
<1> QED BY <1>1, <1>3, <1>4, <1>6, WorkMove

LEMMA WorkRetain ==
  ASSUME TypeInv, ReadStays, NEW w \in Workers,
         \/ SkipRetain(w) \/ RetainDestroy(w) \/ RetainClear(w)
         \/ RetainKeep(w)
  PROVE  WorkInv'
<1> USE DEF topicVars, localVars
<1>1. /\ pc[w] \in {"retain", "clear", "keep"}
      /\ UNCHANGED <<topics, job, loc, tgt>>
      /\ UNCHANGED live \/ live' = (live \cup {job[w]}) \ {heap[loc[w]].retained}
      /\ UNCHANGED todo \/ todo' = [todo EXCEPT ![w] = heap[loc[w]].subs]
      /\ \/ UNCHANGED heap
         \/ UNCHANGED live /\ SetRetained(loc[w], NoMsg)
         \/ UNCHANGED live /\ SetRetained(loc[w], job[w])
      /\ \/ \E label \in {"clear", "keep", "fanout"} :
              pc' = [pc EXCEPT ![w] = label]
         \/ UNCHANGED <<heap, todo>> /\ Crash
  BY DEF SkipRetain, RetainDestroy, RetainClear, RetainKeep, StartWalk, Goto
<1>2. /\ Known(job[w], "PUBLISH") /\ loc[w] # 0
      /\ loc[w] \in 1..Len(heap) /\ job[w] \in RequestNames
  <2>1. HandlerAt(w) /\ Len(heap) \in Nat
    BY DEF TypeInv, HandlerInv, TopicTypes
  <2>2. Known(job[w], "PUBLISH") /\ loc[w] # 0
    BY <1>1, <2>1 DEF HandlerAt, PubPCs
  <2>3. loc[w] \in 1..Len(heap)
    BY <2>1, <2>2 DEF TypeInv, LocalTypes
  <2> QED BY <2>2, <2>3 DEF Known
<1>3. heap[loc[w]] \in TopicObjects /\ live' \subseteq RequestNames
  BY <1>1, <1>2 DEF TypeInv, TopicTypes
<1>4. TopicTypes' /\ Len(heap') = Len(heap)
  <2>1. CASE UNCHANGED heap
    BY <1>1, <1>3, <2>1 DEF TypeInv, TopicTypes
  <2>2. ASSUME NEW m \in RequestNames \cup {NoMsg}, SetRetained(loc[w], m)
        PROVE  TopicTypes' /\ Len(heap') = Len(heap)
    <3>1. PICK o \in TopicObjects : heap' = [heap EXCEPT ![loc[w]] = o]
      BY <1>3, <2>2 DEF SetRetained, Topic, TopicObjects, Pointers
    <3> QED BY <1>1, <1>2, <1>3, <3>1, HeapSet
  <2> QED BY <1>1, <1>2, <2>1, <2>2
<1>5. LocalTypes'
  <2>1. heap[loc[w]].subs \in Seq(Conns)
    BY <1>3 DEF TopicObjects
  <2> QED BY <1>1, <1>4, <2>1 DEF TypeInv, LocalTypes
<1>6. CASE Crash
  <2>1. \A v \in Workers : HandlerAt(v)'
    BY <1>6 DEF Crash, HandlerAt, SubPCs, PubPCs
  <2> QED BY <1>4, <1>5, <2>1 DEF WorkInv, HandlerInv
<1>7. ASSUME NEW label \in {"clear", "keep", "fanout"},
             pc' = [pc EXCEPT ![w] = label]
      PROVE  WorkInv'
  <2>1. Known(job[w], "PUBLISH")' /\ pc'[w] = label
    BY <1>1, <1>2, <1>7
    DEF TypeInv, OwnerInv, OwnerTypes, Known, ReadStays, Request
  <2>2. HandlerAt(w)'
    BY <1>1, <1>2, <2>1 DEF HandlerAt, SubPCs, PubPCs
  <2> QED BY <1>1, <1>4, <1>5, <1>7, <2>2, WorkMove
<1> QED BY <1>1, <1>6, <1>7

LEMMA WorkFanOut ==
  ASSUME TypeInv, ReadStays, NEW w \in Workers, FanOut(w)
  PROVE  WorkInv'
<1> USE DEF topicVars, workerVars
<1>1. /\ todo[w] # <<>>
      /\ todo' = [todo EXCEPT ![w] = Tail(todo[w])]
      /\ UNCHANGED <<topicVars, job, loc, tgt, pc>>
  BY DEF FanOut
<1>2. Tail(todo[w]) \in Seq(Conns)
  BY <1>1 DEF TypeInv, LocalTypes
<1>3. TopicTypes' /\ LocalTypes'
  BY <1>1, <1>2 DEF TypeInv, TopicTypes, LocalTypes
<1>4. ASSUME NEW v \in Workers PROVE HandlerAt(v)'
  BY <1>1, HandlerStays
<1> QED BY <1>3, <1>4 DEF WorkInv, HandlerInv

LEMMA WorkStep ==
  ASSUME TypeInv, ReadStays, Next PROVE WorkInv'
<1> USE DEF OwnClientOnly, ClientOnly, workerVars
<1>1. ASSUME NEW c \in Conns, ClientStep(c) PROVE WorkInv'
  <2>1. UNCHANGED <<topicVars, localVars, pc>>
    BY <1>1 DEF ClientStep, ClientConnect, ClientSend, ClientStall,
     ClientFinish, ClientLeave, ClientReset
  <2> QED BY <2>1, WorkQuiet
<1>2. ASSUME NEW w \in Workers, Poll(w) PROVE WorkInv'
  <2>1. UNCHANGED <<topicVars, localVars, pc>>
    BY <1>2 DEF Poll, EpollWait
  <2> QED BY <2>1, WorkQuiet
<1>3. ASSUME NEW w \in Workers, NEW c \in Conns, Handle(w, c) PROVE WorkInv'
  <2>1. CASE \/ HangUp(w, c) \/ AcceptHandler(w, c) \/ AcceptFails(w, c)
             \/ RecvNothing(w, c) \/ RecvPartial(w, c) \/ RecvReset(w, c)
             \/ RecvOther(w, c)
             \/ RecvAck(w, c) \/ RecvPingreq(w, c) \/ RecvPublish(w, c)
             \/ RecvConnectRefused(w, c) \/ RecvConnectKeep(w, c)
             \/ RecvSubscribeRefused(w, c) \/ ReplyNone(w, c)
             \/ ReplyAck(w, c) \/ ReplySuback(w, c)
    <3>1. /\ UNCHANGED <<topicVars, localVars>>
          /\ \/ \E label \in {"poll", "spin", "suback_retained"} :
                  pc' = [pc EXCEPT ![w] = label]
             \/ Crash
      BY <2>1 DEF HangUp, AcceptHandler, AcceptFails, RecvNothing,
         RecvPartial, RecvReset, RecvOther, RecvAck, RecvPingreq, RecvPublish, RecvConnectRefused,
         RecvConnectKeep, RecvSubscribeRefused, ReplyNone, ReplyAck,
         ReplySuback, AwaitWritable, AwaitRequest, Return, Enter
    <3>2. \A v \in Workers : \/ pc'[v] = pc[v]
                             \/ pc'[v] \in {"poll", "dead", "spin",
                                            "suback_retained"}
      BY <3>1 DEF TypeInv, OwnerInv, OwnerTypes, Crash
    <3> QED BY <3>1, <3>2, WorkQuiet
  <2> QED BY <1>3, <2>1, WorkConnectClean, WorkSubscribe, WorkPublish
          DEF Handle
<1>4. ASSUME NEW w \in Workers, Continue(w) PROVE WorkInv'
  <2>1. CASE \/ RecvResume(w) \/ ConnectAdd(w) \/ SubscribeRetained(w)
             \/ ReplyRetained(w) \/ ReplyDangling(w) \/ FinishPublish(w) \/ FanOutWild(w)
    <3>1. /\ UNCHANGED <<topicVars, localVars>>
          /\ pc' = [pc EXCEPT ![w] = "poll"] \/ Crash
      BY <2>1 DEF RecvResume, ConnectAdd, SubscribeRetained, ReplyRetained,
         ReplyDangling, FinishPublish, FanOutWild, AwaitWritable, AwaitRequest,
         Return, Goto
    <3>2. \A v \in Workers : \/ pc'[v] = pc[v]
                             \/ pc'[v] \in {"poll", "dead", "spin",
                                            "suback_retained"}
      BY <3>1 DEF TypeInv, OwnerInv, OwnerTypes, Crash
    <3> QED BY <3>1, <3>2, WorkQuiet
  <2> QED BY <1>4, <2>1, WorkCreate, WorkFind, WorkInsert, WorkRetain,
          WorkFanOut DEF Continue
<1> QED BY <1>1, <1>2, <1>3, <1>4 DEF Next

-----------------------------------------------------------------------------
\* What add_client and del_client make of the table of clients.
LEMMA TableTypes ==
  ASSUME IdTypes, NEW c \in Conns, NEW i, AddClient(c, i) \/ DelClient(c)
  PROVE  /\ clients' \in [Conns -> Nat] /\ strays' \in [Conns -> Nat]
         /\ hole' \in BOOLEAN
<1>1. CASE AddClient(c, i)
  <2>1. CASE UNCHANGED strays /\ clients' = [clients EXCEPT ![c] = @ + 1]
    BY <1>1, <2>1 DEF AddClient, IdTypes
  <2>2. ASSUME NEW d \in Conns, clients[d] > 0, UNCHANGED strays,
               clients' = [clients EXCEPT ![d] = @ - 1, ![c] = @ + 1]
        PROVE  clients' \in [Conns -> Nat]
    BY <2>2 DEF IdTypes
  <2>3. ASSUME NEW d \in Conns, strays[d] > 0,
               clients' = [clients EXCEPT ![c] = @ + 1],
               strays' = [strays EXCEPT ![d] = @ - 1]
        PROVE  clients' \in [Conns -> Nat] /\ strays' \in [Conns -> Nat]
    BY <2>3 DEF IdTypes
  <2> QED BY <1>1, <2>1, <2>2, <2>3 DEF AddClient, InTable, IdTypes
<1>2. CASE DelClient(c)
  <2>1. ASSUME NEW f \in [Conns -> Nat], NEW g \in [Conns -> Nat],
               FreeId(c, f, g)
        PROVE  clients' \in [Conns -> Nat] /\ strays' \in [Conns -> Nat]
    BY <2>1 DEF FreeId
  <2>2. ASSUME NEW d \in Conns
        PROVE  /\ clients[d] > 0 => [clients EXCEPT ![d] = @ - 1] \in [Conns -> Nat]
               /\ strays[d] > 0 => [strays EXCEPT ![d] = @ - 1] \in [Conns -> Nat]
    BY DEF IdTypes
  <2> QED BY <1>2, <2>1, <2>2 DEF DelClient, InTable, IdTypes
<1> QED BY <1>1, <1>2

LEMMA IdStep == ASSUME TypeInv, Next PROVE IdTypes'
<1> USE DEF idVars, OwnClientOnly, ClientOnly
<1>1. ASSUME NEW c \in Conns, ClientStep(c) PROVE UNCHANGED idVars
  BY <1>1 DEF ClientStep, ClientConnect, ClientSend, ClientStall,
     ClientFinish, ClientLeave, ClientReset
<1>2. ASSUME NEW w \in Workers, Poll(w) PROVE UNCHANGED idVars
  BY <1>2 DEF Poll, EpollWait
<1>3. ASSUME NEW w \in Workers, NEW c \in Conns, Handle(w, c)
      PROVE  /\ UNCHANGED cid
             /\ \/ UNCHANGED <<clients, strays, hole>>
                \/ AddClient(c, cid[c]) \/ DelClient(c)
  BY <1>3 DEF Handle, HangUp, AcceptHandler, AcceptFails, RecvNothing,
     RecvPartial, RecvReset, RecvOther, RecvAck, RecvPingreq, RecvPublish,
     RecvConnectRefused, RecvConnectKeep, RecvConnectClean,
     RecvSubscribeRefused, RecvSubscribe, ReplyNone, ReplyAck, ReplySuback,
     ReplyPublish
<1>4. ASSUME NEW w \in Workers, Continue(w)
      PROVE  \/ UNCHANGED idVars
             \/ \E c \in Conns, i \in Ids :
                  cid' = [cid EXCEPT ![c] = i] /\ AddClient(c, i)
  <2>1. CASE ConnectAdd(w)
    <3>1. HandlerAt(w) /\ CurIsConn /\ pc[w] = "connect_add"
      BY <2>1 DEF TypeInv, HandlerInv, OwnerInv, ConnectAdd
    <3>2. cur[w] \in Conns /\ Request(job[w]).id \in Ids
      BY <3>1 DEF HandlerAt, CurIsConn, Known
    <3> QED BY <2>1, <3>2 DEF ConnectAdd
  <2>2. CASE ~ConnectAdd(w)
    BY <1>4, <2>2 DEF Continue, RecvResume, SubscribeCreate, AddSubscriberFind,
       AddSubscriberInsert, AddSubscriberLink, SubscribeRetained,
       ReplyRetained, ReplyDangling, PublishCreate, SkipRetain, RetainDestroy,
       RetainClear, RetainKeep, FanOut, FanOutWild, FinishPublish, CreateTopic
  <2> QED BY <2>1, <2>2
<1>5. IdTypes
  BY DEF TypeInv
<1>6. ASSUME NEW c \in Conns, NEW i,
             UNCHANGED cid \/ (i \in Ids /\ cid' = [cid EXCEPT ![c] = i]),
             AddClient(c, i) \/ DelClient(c)
      PROVE  IdTypes'
  <2>1. cid' \in [Conns -> Ids \cup Conns]
    BY <1>5, <1>6 DEF IdTypes
  <2> QED BY <1>5, <1>6, <2>1, TableTypes DEF IdTypes
<1>7. CASE UNCHANGED idVars
  BY <1>5, <1>7 DEF IdTypes
<1> QED BY <1>1, <1>2, <1>3, <1>4, <1>6, <1>7 DEF Next

LEMMA OutStep == ASSUME TypeInv, Next PROVE OutTypes'
<1> USE DEF netVars, OwnClientOnly, ClientOnly
<1>0. OutTypes /\ ReplyTypes /\ HandlerInv /\ CurIsConn
  BY DEF TypeInv, OwnerInv
<1>1. CASE UNCHANGED outbox
  BY <1>0, <1>1 DEF OutTypes
<1>2. ASSUME NEW c \in Conns, ClientStep(c) PROVE UNCHANGED outbox
  BY <1>2 DEF ClientStep, ClientConnect, ClientSend, ClientStall,
     ClientFinish, ClientLeave, ClientReset
<1>3. ASSUME NEW w \in Workers, Poll(w) PROVE UNCHANGED outbox
  BY <1>3 DEF Poll, EpollWait
<1>4. ASSUME NEW w \in Workers, NEW c \in Conns, Handle(w, c) PROVE OutTypes'
  <2>1. CASE ReplyAck(w, c) \/ ReplySuback(w, c)
    <3>1. /\ reply[c].op \in {"CONNACK", "SUBACK", "PINGRESP"}
          /\ SendAll(c, reply[c].op, reply[c].rc, reply[c].re)
      BY <2>1 DEF ReplyAck, ReplySuback
    <3>2. reply[c].rc \in {0, 1} /\ reply[c].re \in RequestNames
      BY <1>0, <3>1 DEF ReplyTypes, Replies
    <3> QED BY <1>0, <3>1, <3>2, SendAllType
  <2>2. CASE ~ReplyAck(w, c) /\ ~ReplySuback(w, c)
    <3>1. UNCHANGED outbox
      BY <1>4, <2>2 DEF Handle, HangUp, AcceptHandler, AcceptFails,
         RecvNothing, RecvPartial, RecvReset, RecvOther, RecvAck, RecvPingreq,
         RecvPublish, RecvConnectRefused, RecvConnectKeep, RecvConnectClean,
         RecvSubscribeRefused, RecvSubscribe, ReplyNone, ReplyPublish
    <3> QED BY <1>1, <3>1
  <2> QED BY <2>1, <2>2
<1>5. ASSUME NEW w \in Workers, Continue(w) PROVE OutTypes'
  <2>0. HandlerAt(w) /\ (pc[w] \notin {"poll", "dead"} => cur[w] \in Conns)
    BY <1>0 DEF HandlerInv, CurIsConn
  <2>1. CASE ReplyRetained(w) \/ ReplyDangling(w)
    <3>1. /\ cur[w] \in Conns
          /\ \/ UNCHANGED outbox
             \/ \E m \in live \cup {Wild} :
                  SendAll(cur[w], "RETAINED", 0, m)
      BY <2>0, <2>1 DEF ReplyRetained, ReplyDangling
    <3>2. live \cup {Wild} \subseteq RequestNames \cup {Wild}
      BY DEF TypeInv, TopicTypes
    <3> QED BY <1>0, <1>1, <3>1, <3>2, SendAllType
  <2>2. CASE FanOut(w) \/ FanOutWild(w)
    <3>1. /\ pc[w] = "fanout" /\ todo[w] # <<>>
          /\ SendAll(Head(todo[w]), "PUBLISH", 0, job[w])
      BY <2>2 DEF FanOut, FanOutWild
    <3>2. job[w] \in RequestNames /\ Head(todo[w]) \in Conns
      BY <2>0, <3>1 DEF HandlerAt, PubPCs, Known, TypeInv, LocalTypes
    <3> QED BY <1>0, <3>1, <3>2, SendAllType
  <2>3. CASE FinishPublish(w)
    <3>1. /\ pc[w] = "fanout"
          /\ UNCHANGED outbox \/ SendAll(cur[w], "PUBACK", 0, job[w])
      BY <2>3 DEF FinishPublish
    <3>2. job[w] \in RequestNames /\ cur[w] \in Conns
      BY <2>0, <3>1 DEF HandlerAt, PubPCs, Known
    <3> QED BY <1>0, <1>1, <3>1, <3>2, SendAllType
  <2>4. CASE \/ RecvResume(w) \/ ConnectAdd(w) \/ SubscribeCreate(w)
             \/ AddSubscriberFind(w) \/ AddSubscriberInsert(w) \/ AddSubscriberLink(w)
             \/ SubscribeRetained(w) \/ PublishCreate(w) \/ SkipRetain(w)
             \/ RetainDestroy(w) \/ RetainClear(w) \/ RetainKeep(w)
    <3>1. UNCHANGED outbox
      BY <2>4 DEF RecvResume, ConnectAdd, SubscribeCreate, AddSubscriberFind,
         AddSubscriberInsert, AddSubscriberLink, SubscribeRetained,
         PublishCreate, SkipRetain, RetainDestroy, RetainClear, RetainKeep,
         CreateTopic
    <3> QED BY <1>1, <3>1
  <2> QED BY <1>5, <2>1, <2>2, <2>3, <2>4 DEF Continue
<1> QED BY <1>1, <1>2, <1>3, <1>4, <1>5 DEF Next

LEMMA ReplyStep == ASSUME TypeInv, ReadStays, Next PROVE ReplyTypes'
<1> USE DEF netVars, connVars, OwnClientOnly, ClientOnly
<1>0. ReplyTypes /\ LogTypes /\ HandlerInv /\ CurIsConn
  BY DEF TypeInv, OwnerInv
<1>1. CASE UNCHANGED reply
  BY <1>0, <1>1, ReplyUntouched
<1>2. ASSUME NEW c \in Conns, ClientStep(c) PROVE UNCHANGED reply
  BY <1>2 DEF ClientStep, ClientConnect, ClientSend, ClientStall,
     ClientFinish, ClientLeave, ClientReset
<1>3. ASSUME NEW w \in Workers, Poll(w) PROVE UNCHANGED reply
  BY <1>3 DEF Poll, EpollWait
<1>4. ASSUME NEW w \in Workers, NEW c \in Conns, Handle(w, c)
      PROVE  ReplyTypes'
  <2>1. PICK m : m = NextName(c)
    OBVIOUS
  <2>2. CASE \/ RecvPingreq(w, c) \/ RecvConnectRefused(w, c)
             \/ RecvConnectKeep(w, c) \/ RecvSubscribeRefused(w, c)
    <3>1. PICK op \in {"CONNACK", "SUBACK", "PINGRESP"}, rc \in {0, 1},
               r \in {NoMsg, Wild}, k \in {"PINGREQ", "CONNECT", "SUBSCRIBE"} :
            /\ SetReply(c, op, rc, m, r)
            /\ Incoming(w, c, k) /\ UNCHANGED log
      BY <2>1, <2>2 DEF RecvPingreq, RecvConnectRefused, RecvConnectKeep,
         RecvSubscribeRefused
    <3>2. m \in RequestNames /\ r \in Pointers
      BY <1>0, <2>1, <3>1, IncomingKnown DEF Pointers
    <3> QED BY <1>0, <3>1, <3>2, ReplySet
  <2>3. CASE RecvPublish(w, c)
    <3>1. /\ Incoming(w, c, "PUBLISH") /\ UNCHANGED log
          /\ \/ UNCHANGED reply
             \/ /\ NextRequest(c).topic # EmptyTopic
                /\ SetReply(c, "PUBLISH", 0, m, NoMsg)
      BY <2>1, <2>3 DEF RecvPublish
    <3>2. CASE /\ NextRequest(c).topic # EmptyTopic
               /\ SetReply(c, "PUBLISH", 0, m, NoMsg)
      <4>1. m \in RequestNames /\ Known(m, "PUBLISH")'
        BY <1>0, <2>1, <3>1, <3>2, IncomingKnown
      <4>2. NoMsg \in Pointers
        BY DEF Pointers
      <4> QED BY <1>0, <3>2, <4>1, <4>2, ReplySet
    <3> QED BY <1>1, <3>1, <3>2
  <2>4. CASE ReplyAck(w, c)
    BY <1>0, <2>4, ReplyFreed DEF ReplyAck
  <2>5. CASE \/ HangUp(w, c) \/ AcceptHandler(w, c) \/ AcceptFails(w, c)
             \/ RecvNothing(w, c) \/ RecvPartial(w, c) \/ RecvReset(w, c)
             \/ RecvOther(w, c)
             \/ RecvAck(w, c) \/ RecvConnectClean(w, c)
             \/ RecvSubscribe(w, c) \/ ReplyNone(w, c)
             \/ ReplySuback(w, c) \/ ReplyPublish(w, c)
    <3>1. UNCHANGED reply
      BY <2>5 DEF HangUp, AcceptHandler, AcceptFails, RecvNothing,
         RecvPartial, RecvReset, RecvOther, RecvAck, RecvConnectClean, RecvSubscribe, ReplyNone,
         ReplySuback, ReplyPublish
    <3> QED BY <1>1, <3>1
  <2> QED BY <1>4, <2>2, <2>3, <2>4, <2>5 DEF Handle
<1>5. ASSUME NEW w \in Workers, Continue(w) PROVE ReplyTypes'
  <2>0. HandlerAt(w) /\ (pc[w] \notin {"poll", "dead"} => cur[w] \in Conns)
    BY <1>0 DEF HandlerInv, CurIsConn
  <2>1. CASE ConnectAdd(w)
    <3>1. pc[w] = "connect_add" /\ SetReply(cur[w], "CONNACK", 0, job[w], NoMsg)
      BY <2>1 DEF ConnectAdd
    <3>2. job[w] \in RequestNames /\ NoMsg \in Pointers
      BY <2>0, <3>1 DEF HandlerAt, Known, Pointers
    <3> QED BY <1>0, <2>0, <3>1, <3>2, ReplySet
  <2>2. CASE SubscribeRetained(w)
    <3>1. /\ pc[w] = "sub_retained"
          /\ SetReply(cur[w], "SUBACK", 0, job[w], heap[loc[w]].retained)
      BY <2>2 DEF SubscribeRetained, RetainedBy
    <3>2. job[w] \in RequestNames /\ loc[w] # 0
      BY <2>0, <3>1 DEF HandlerAt, Known, SubPCs
    <3>3. heap[loc[w]] \in TopicObjects
      BY <3>2 DEF TypeInv, TopicTypes, LocalTypes
    <3>4. heap[loc[w]].retained \in Pointers
      BY <3>3 DEF TopicObjects
    <3> QED BY <1>0, <2>0, <3>1, <3>2, <3>4, ReplySet
  <2>3. CASE ReplyRetained(w) \/ ReplyDangling(w) \/ FinishPublish(w)
    <3>1. /\ cur[w] \in Conns
          /\ UNCHANGED reply \/ AwaitRequest(w, cur[w])
      BY <2>0, <2>3 DEF ReplyRetained, ReplyDangling, FinishPublish
    <3> QED BY <1>0, <1>1, <3>1, ReplyFreed
  <2>4. CASE \/ RecvResume(w) \/ SubscribeCreate(w) \/ AddSubscriberFind(w)
             \/ AddSubscriberInsert(w) \/ AddSubscriberLink(w)
             \/ PublishCreate(w) \/ SkipRetain(w) \/ RetainDestroy(w)
             \/ RetainClear(w) \/ RetainKeep(w) \/ FanOut(w)
             \/ FanOutWild(w)
    <3>1. UNCHANGED reply
      BY <2>4 DEF RecvResume, SubscribeCreate, AddSubscriberFind,
         AddSubscriberInsert, AddSubscriberLink, PublishCreate, SkipRetain, RetainDestroy,
         RetainClear, RetainKeep, FanOut, FanOutWild, CreateTopic
    <3> QED BY <1>1, <3>1
  <2> QED BY <1>5, <2>1, <2>2, <2>3, <2>4 DEF Continue
<1> QED BY <1>1, <1>2, <1>3, <1>4, <1>5 DEF Next

-----------------------------------------------------------------------------
LEMMA TypeInit == Init => TypeInv
<1> SUFFICES ASSUME Init PROVE TypeInv
  OBVIOUS
<1>1. OwnerInv
  BY OwnerInit
<1>2. LogTypes
  BY BoundsAssumption DEF Init, LogTypes
<1>3. TopicTypes /\ LocalTypes /\ OutTypes
  BY DEF Init, TopicTypes, LocalTypes, OutTypes
<1>6. IdTypes
  BY DEF Init, IdTypes
<1>4. ReplyTypes
  BY DEF Init, ReplyTypes, Replies, NoReply, Pointers
<1>5. HandlerInv
  BY DEF Init, HandlerInv, HandlerAt, SubPCs, PubPCs
<1> QED BY <1>1, <1>2, <1>3, <1>4, <1>5, <1>6 DEF TypeInv

LEMMA TypeNext == TypeInv /\ [Next]_vars => TypeInv'
<1> SUFFICES ASSUME TypeInv, [Next]_vars PROVE TypeInv'
  OBVIOUS
<1>1. CASE Next
  <2>1. OwnerInv'
    BY OwnerNext DEF TypeInv
  <2>2. LogTypes' /\ ReadStays
    BY <1>1, LogStep DEF TypeInv
  <2>3. IdTypes' /\ OutTypes' /\ ReplyTypes' /\ WorkInv'
    BY <1>1, <2>2, IdStep, OutStep, ReplyStep, WorkStep
  <2> QED BY <2>1, <2>2, <2>3 DEF TypeInv, WorkInv
<1>2. CASE UNCHANGED vars
  <2> USE <1>2 DEF vars, netVars, connVars, idVars, topicVars, localVars,
                   workerVars
  <2>1. OwnerInv'
    BY OwnerNext DEF TypeInv
  <2>2. LogTypes' /\ TopicTypes' /\ IdTypes' /\ OutTypes' /\ LocalTypes'
    BY DEF TypeInv, LogTypes, TopicTypes, IdTypes, OutTypes, LocalTypes
  <2>3. ReplyTypes'
    BY DEF TypeInv, ReplyTypes, Known, Request
  <2>4. HandlerInv'
    BY DEF TypeInv, HandlerInv, HandlerAt, Known, Request
  <2> QED BY <2>1, <2>2, <2>3, <2>4 DEF TypeInv
<1> QED BY <1>1, <1>2

(* In every behaviour of the event loop every variable keeps its type; in  *)
(* particular a handler that dereferences a topic pointer, t or the one    *)
(* add_subscriber looks up again without a test for NULL, finds an object. *)
THEOREM BrokerTypeCorrect == Spec => []TypeOK
<1>1. TypeInv => TypeOK
  BY DEF TypeInv, TypeOK, OwnerInv, OwnerTypes, LogTypes, TopicTypes, IdTypes,
     OutTypes, ReplyTypes, LocalTypes
<1> QED BY <1>1, TypeInit, TypeNext, PTL DEF Spec

(* add_subscriber dereferences what hashmap_get gives it without a test,   *)
(* reply_handler and publish_message dereference t: the topic object is    *)
(* there every time.                                                       *)
THEOREM NoNullTopicHolds == Spec => []NoNullTopic
<1>1. TypeInv => NoNullTopic
  BY DEF TypeInv, HandlerInv, HandlerAt, NoNullTopic, SubPCs, PubPCs
<1> QED BY <1>1, TypeInit, TypeNext, PTL DEF Spec
=============================================================================
