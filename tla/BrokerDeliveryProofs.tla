------------------------ MODULE BrokerDeliveryProofs ------------------------
(***************************************************************************)
(* What reaches the subscribers.  TopicInv: the topic objects a handler    *)
(* works on are those of its request's topic, and so are the messages they *)
(* retain.  DeliveryInv: how often a connection stands in a list, in the   *)
(* rest of a walk, and how many copies it was already sent, none of which  *)
(* exceeds its SUBSCRIBEs.  Last, with both, every step of Broker is a     *)
(* step of PubSub or leaves PubSub's variables alone.                      *)
(***************************************************************************)
EXTENDS BrokerServiceProofs, FiniteSetTheorems

\* The broker has read m, a PUBLISH retained on topic t.
Kept(m, t) ==
  Known(m, "PUBLISH") /\ Request(m).retain /\ Request(m).topic = t

KeptAt(o) ==
  heap[o].retained # NoMsg => Kept(heap[o].retained, heap[o].name)

FoundPCs == {"sub_find", "sub_insert", "sub_link", "sub_retained", "retain",
             "clear", "keep", "fanout"}

\* The topic objects a handler works on are those of its request's topic.
PlaceAt(w) ==
  /\ pc[w] \in FoundPCs => heap[loc[w]].name = Request(job[w]).topic
  /\ pc[w] \in {"sub_insert", "sub_link"} =>
       heap[tgt[w]].name = Request(job[w]).topic
  /\ pc[w] \in {"clear", "keep"} => Request(job[w]).retain

\* A reply that carries a retained message carries one of its topic.
CarriedAt(c) ==
  ctx[c] = "reply" /\ reply[c].retained \notin {NoMsg, Wild} =>
    Kept(reply[c].retained, Request(<<c, rd[c]>>).topic)

TopicInv ==
  /\ ServiceInv
  /\ \A t \in Topics : topics[t] # 0 => heap[topics[t]].name = t
  /\ \A o \in 1..Len(heap) : KeptAt(o)
  /\ \A w \in Workers : PlaceAt(w)
  /\ \A c \in Conns : CarriedAt(c)

-----------------------------------------------------------------------------
\* How a step changes the topic objects and the topic table.
Creates(w) ==
  /\ pc[w] \in {"sub_create", "pub_create"}
  /\ heap' = Append(heap, Topic(Request(job[w]).topic, <<>>, NoMsg))
  /\ topics' = [topics EXCEPT ![Request(job[w]).topic] = Len(heap) + 1]
Inserts(w) ==
  /\ pc[w] = "sub_insert"
  /\ SetSubs(tgt[w], <<cur[w]>> \o heap[tgt[w]].subs)
  /\ Goto(w, IF heap[tgt[w]].subs = <<>> THEN "sub_link" ELSE "sub_retained")
  /\ UNCHANGED topics
Clears(w) == /\ pc[w] = "clear" /\ SetRetained(loc[w], NoMsg)
             /\ UNCHANGED topics
Keeps(w) == /\ pc[w] = "keep" /\ SetRetained(loc[w], job[w])
            /\ Goto(w, "fanout") /\ UNCHANGED <<topics, live>>
HeapStep ==
  \/ UNCHANGED <<heap, topics>>
  \/ \E w \in Workers : Creates(w) \/ Inserts(w) \/ Clears(w) \/ Keeps(w)

LEMMA HeapShape == ASSUME Next PROVE HeapStep
<1> USE DEF topicVars, OwnClientOnly, ClientOnly
<1>1. ASSUME NEW c \in Conns, ClientStep(c) PROVE UNCHANGED <<heap, topics>>
  BY <1>1 DEF ClientStep, ClientConnect, ClientSend, ClientStall,
     ClientFinish, ClientLeave, ClientReset
<1>2. ASSUME NEW w \in Workers, Poll(w) PROVE UNCHANGED <<heap, topics>>
  BY <1>2 DEF Poll, EpollWait
<1>3. ASSUME NEW w \in Workers, NEW c \in Conns, Handle(w, c)
      PROVE  UNCHANGED <<heap, topics>>
  BY <1>3 DEF Handle, HangUp, AcceptHandler, AcceptFails, RecvNothing,
     RecvPartial, RecvReset, RecvOther, RecvAck, RecvPingreq, RecvPublish,
     RecvConnectRefused, RecvConnectKeep, RecvConnectClean,
     RecvSubscribeRefused, RecvSubscribe, ReplyNone, ReplyAck, ReplySuback,
     ReplyPublish
<1>4. ASSUME NEW w \in Workers, Continue(w)
      PROVE  \/ UNCHANGED <<heap, topics>>
             \/ Creates(w) \/ Inserts(w) \/ Clears(w) \/ Keeps(w)
  <2>1. CASE SubscribeCreate(w) \/ PublishCreate(w)
    BY <2>1 DEF SubscribeCreate, PublishCreate, CreateTopic, PutTopic, Creates
  <2>2. CASE AddSubscriberInsert(w)
    BY <2>2 DEF AddSubscriberInsert, Inserted, Inserts
  <2>3. CASE RetainClear(w)
    BY <2>3 DEF RetainClear, Clears
  <2>4. CASE RetainKeep(w)
    BY <2>4 DEF RetainKeep, Keeps
  <2>5. CASE \/ ConnectAdd(w) \/ AddSubscriberFind(w) \/ AddSubscriberLink(w)
             \/ SubscribeRetained(w) \/ ReplyRetained(w) \/ ReplyDangling(w)
             \/ SkipRetain(w) \/ RetainDestroy(w) \/ FanOut(w)
             \/ FanOutWild(w) \/ FinishPublish(w) \/ RecvResume(w)
    BY <2>5 DEF ConnectAdd, AddSubscriberFind, AddSubscriberLink,
       SubscribeRetained, ReplyRetained, ReplyDangling, SkipRetain,
       RetainDestroy, FanOut, FanOutWild, FinishPublish, RecvResume
  <2> QED BY <1>4, <2>1, <2>2, <2>3, <2>4, <2>5 DEF Continue
<1> QED BY <1>1, <1>2, <1>3, <1>4 DEF Next, HeapStep

\* The same, object by object: an object keeps its name, its subscribers
\* grow at the front, its retained message is cleared or replaced.
OldObject(o) ==
  /\ o \in 1..Len(heap')
  /\ heap'[o].name = heap[o].name
  /\ \/ heap'[o].subs = heap[o].subs
     \/ \E w \in Workers : /\ Inserts(w) /\ tgt[w] = o
                           /\ heap'[o].subs = <<cur[w]>> \o heap[o].subs
  /\ \/ heap'[o].retained = heap[o].retained
     \/ \E w \in Workers : /\ Clears(w) /\ loc[w] = o
                           /\ heap'[o].retained = NoMsg
     \/ \E w \in Workers : /\ Keeps(w) /\ loc[w] = o
                           /\ heap'[o].retained = job[w]
NewObject(o) ==
  \E w \in Workers : /\ Creates(w) /\ o = Len(heap) + 1
                     /\ heap'[o] = Topic(Request(job[w]).topic, <<>>, NoMsg)

LEMMA HeapView ==
  ASSUME TypeInv, HeapStep
  PROVE  /\ Len(heap) \in Nat /\ Len(heap') \in Nat
         /\ \A o \in 1..Len(heap) : OldObject(o)
         /\ \A o \in 1..Len(heap') : o \in 1..Len(heap) \/ NewObject(o)
<1>0. heap \in Seq(TopicObjects) /\ Len(heap) \in Nat
  BY DEF TypeInv, TopicTypes
<1>1. CASE UNCHANGED <<heap, topics>>
  BY <1>0, <1>1 DEF OldObject
<1>2. ASSUME NEW w \in Workers, Creates(w)
      PROVE  /\ Len(heap') \in Nat
             /\ \A o \in 1..Len(heap) : OldObject(o)
             /\ \A o \in 1..Len(heap') : o \in 1..Len(heap) \/ NewObject(o)
  <2>1. PICK x : /\ x = Topic(Request(job[w]).topic, <<>>, NoMsg)
                 /\ heap' = Append(heap, x)
    BY <1>2 DEF Creates
  <2>2. /\ Len(heap') = Len(heap) + 1
        /\ \A o \in 1..Len(heap) : heap'[o] = heap[o]
        /\ heap'[Len(heap) + 1] = x
    BY <1>0, <2>1
  <2>3. \A o \in 1..Len(heap) : OldObject(o)
    BY <1>0, <2>2 DEF OldObject
  <2> QED BY <1>0, <1>2, <2>1, <2>2, <2>3 DEF NewObject
<1>3. ASSUME NEW w \in Workers, Inserts(w) \/ Clears(w) \/ Keeps(w)
      PROVE  /\ Len(heap') \in Nat
             /\ \A o \in 1..Len(heap) : OldObject(o)
             /\ \A o \in 1..Len(heap') : o \in 1..Len(heap)
  <2>1. CASE Inserts(w)
    <3>1. PICK x : /\ x = Topic(heap[tgt[w]].name,
                                <<cur[w]>> \o heap[tgt[w]].subs,
                                heap[tgt[w]].retained)
                   /\ heap' = [heap EXCEPT ![tgt[w]] = x]
      BY <2>1 DEF Inserts, SetSubs
    <3>2. /\ Len(heap') = Len(heap)
          /\ \A o \in 1..Len(heap) : heap'[o] = IF o = tgt[w] THEN x ELSE heap[o]
      BY <1>0, <3>1
    <3>3. /\ x.name = heap[tgt[w]].name
          /\ x.subs = <<cur[w]>> \o heap[tgt[w]].subs
          /\ x.retained = heap[tgt[w]].retained
      BY <3>1 DEF Topic
    <3>4. \A o \in 1..Len(heap) : OldObject(o)
      BY <1>0, <2>1, <3>2, <3>3 DEF OldObject
    <3> QED BY <1>0, <3>2, <3>4
  <2>2. ASSUME NEW m, SetRetained(loc[w], m),
               (Clears(w) /\ m = NoMsg) \/ (Keeps(w) /\ m = job[w])
        PROVE  /\ Len(heap') \in Nat
               /\ \A o \in 1..Len(heap) : OldObject(o)
               /\ \A o \in 1..Len(heap') : o \in 1..Len(heap)
    <3>1. PICK x : /\ x = Topic(heap[loc[w]].name, heap[loc[w]].subs, m)
                   /\ heap' = [heap EXCEPT ![loc[w]] = x]
      BY <2>2 DEF SetRetained
    <3>2. /\ Len(heap') = Len(heap)
          /\ \A o \in 1..Len(heap) : heap'[o] = IF o = loc[w] THEN x ELSE heap[o]
      BY <1>0, <3>1
    <3>3. /\ x.name = heap[loc[w]].name
          /\ x.subs = heap[loc[w]].subs
          /\ x.retained = m
      BY <3>1 DEF Topic
    <3>4. \A o \in 1..Len(heap) : OldObject(o)
      BY <1>0, <2>2, <3>2, <3>3 DEF OldObject
    <3> QED BY <1>0, <3>2, <3>4
  <2> QED BY <1>3, <2>1, <2>2 DEF Clears, Keeps
<1> QED BY <1>0, <1>1, <1>2, <1>3 DEF HeapStep

-----------------------------------------------------------------------------
\* How a step changes what worker v has in hand.
HandPCs == SubPCs \cup PubPCs
SameHand(v) == loc'[v] = loc[v] /\ tgt'[v] = tgt[v] /\ job'[v] = job[v]
Frees(v) ==
  /\ pc[v] = "retain" /\ Request(job[v]).retain
  /\ live' = (live \cup {job[v]}) \ {heap[loc[v]].retained}
  /\ UNCHANGED <<heap, job, loc, outbox, log, rd>>
Advances(v) ==
  \/ pc'[v] \in {"sub_link", "sub_retained"} /\ Inserts(v)
  \/ pc[v] = "sub_link" /\ pc'[v] = "sub_retained"
  \/ pc'[v] \in {"clear", "keep"} /\ Frees(v)
  \/ pc[v] = "clear" /\ pc'[v] = "keep"
Walks(v) ==
  \/ pc'[v] = pc[v] /\ pc[v] # "fanout"
  \/ pc'[v] = pc[v] /\ todo'[v] = todo[v]
  \/ pc'[v] = pc[v] /\ Sending(v, Head(todo[v])) /\ todo'[v] = Tail(todo[v])
WalkStarts(v) ==
  /\ pc'[v] = "fanout" /\ todo'[v] = heap[loc[v]].subs
  /\ \/ pc[v] = "retain" /\ ~Request(job[v]).retain
     \/ Keeps(v)
Looks(v) ==
  /\ pc[v] = "sub_find" /\ pc'[v] = "sub_insert"
  /\ job'[v] = job[v] /\ loc'[v] = loc[v]
  /\ tgt'[v] = topics[Request(job[v]).topic]
  /\ UNCHANGED <<heap, topics>>
Made(v) ==
  /\ Creates(v) /\ job'[v] = job[v] /\ loc'[v] = Len(heap) + 1
  /\ pc'[v] = IF pc[v] = "sub_create" THEN "sub_find" ELSE "retain"
Begins(v) ==
  /\ pc[v] = "poll" /\ UNCHANGED <<log, heap, topics>>
  /\ loc'[v] = topics[Request(job'[v]).topic]
  /\ \/ pc'[v] = IF loc'[v] = 0 THEN "sub_create" ELSE "sub_find"
     \/ pc'[v] = IF loc'[v] = 0 THEN "pub_create" ELSE "retain"
Hand(v) ==
  \/ pc'[v] \notin HandPCs
  \/ SameHand(v) /\ (Advances(v) \/ Walks(v) \/ WalkStarts(v))
  \/ Looks(v) \/ Made(v) \/ Begins(v)

\* What the worker that does nothing has.
LEMMA HandRests ==
  ASSUME NEW v \in Workers, loc'[v] = loc[v], tgt'[v] = tgt[v],
         job'[v] = job[v], todo'[v] = todo[v],
         pc'[v] = pc[v] \/ pc'[v] = "dead"
  PROVE  Hand(v)
  BY DEF Hand, HandPCs, SubPCs, PubPCs, SameHand, Walks

LEMMA HandShape == ASSUME TypeInv, Next PROVE \A v \in Workers : Hand(v)
<1> SUFFICES ASSUME NEW v \in Workers PROVE Hand(v)
  OBVIOUS
<1> USE DEF netVars, topicVars, localVars, workerVars, OwnClientOnly, ClientOnly
<1>0. /\ Functions /\ loc \in [Workers -> 0..Len(heap)]
      /\ tgt \in [Workers -> 0..Len(heap)] /\ todo \in [Workers -> Seq(Conns)]
  BY HaveFunctions DEF TypeInv, LocalTypes
<1>1. ASSUME NEW c \in Conns, ClientStep(c) PROVE Hand(v)
  <2>1. UNCHANGED <<loc, tgt, job, todo, pc>>
    BY <1>1 DEF ClientStep, ClientConnect, ClientSend, ClientStall,
       ClientFinish, ClientLeave, ClientReset
  <2> QED BY <2>1, HandRests
<1>2. ASSUME NEW w \in Workers, Poll(w) PROVE Hand(v)
  <2>1. UNCHANGED <<loc, tgt, job, todo, pc>>
    BY <1>2 DEF Poll, EpollWait
  <2> QED BY <2>1, HandRests
<1>3. ASSUME NEW w \in Workers, NEW c \in Conns, Handle(w, c) PROVE Hand(v)
  <2>1. CASE RecvSubscribe(w, c)
    <3>1. PICK m : m = NextName(c)
      OBVIOUS
    <3>2. PICK t : t = topics[Request(m).topic]
      OBVIOUS
    <3>3. /\ pc[w] = "poll" /\ UNCHANGED <<log, heap, topics, tgt, todo>>
          /\ job' = [job EXCEPT ![w] = m]
          /\ loc' = [loc EXCEPT ![w] = t]
          /\ pc' = [pc EXCEPT ![w] = IF t = 0 THEN "sub_create" ELSE "sub_find"]
      BY <2>1, <3>1, <3>2 DEF RecvSubscribe, NextRequest, Incoming, Holds, Enter
    <3>4. CASE v = w
      BY <1>0, <3>2, <3>3, <3>4 DEF Hand, Begins, Functions
    <3>5. CASE v # w
      BY <1>0, <3>3, <3>5, HandRests DEF Functions
    <3> QED BY <3>4, <3>5
  <2>2. CASE ReplyPublish(w, c)
    <3>1. PICK m : m = reply[c].re
      OBVIOUS
    <3>2. PICK t : t = topics[Request(m).topic]
      OBVIOUS
    <3>3. /\ pc[w] = "poll" /\ UNCHANGED <<log, heap, topics, tgt, todo>>
          /\ job' = [job EXCEPT ![w] = m]
          /\ loc' = [loc EXCEPT ![w] = t]
          /\ pc' = [pc EXCEPT ![w] = IF t = 0 THEN "pub_create" ELSE "retain"]
      BY <2>2, <3>1, <3>2 DEF ReplyPublish, Replying, Holds, Enter
    <3>4. CASE v = w
      BY <1>0, <3>2, <3>3, <3>4 DEF Hand, Begins, Functions
    <3>5. CASE v # w
      BY <1>0, <3>3, <3>5, HandRests DEF Functions
    <3> QED BY <3>4, <3>5
  <2>3. CASE RecvConnectClean(w, c)
    <3>1. /\ UNCHANGED <<loc, tgt, todo>> /\ job' = [job EXCEPT ![w] = NextName(c)]
          /\ pc' = [pc EXCEPT ![w] = "connect_add"]
      BY <2>3 DEF RecvConnectClean, Enter
    <3>2. CASE v = w
      BY <1>0, <3>1, <3>2 DEF Hand, HandPCs, SubPCs, PubPCs, Functions
    <3>3. CASE v # w
      BY <1>0, <3>1, <3>3, HandRests DEF Functions
    <3> QED BY <3>2, <3>3
  <2>4. CASE ~RecvSubscribe(w, c) /\ ~ReplyPublish(w, c) /\ ~RecvConnectClean(w, c)
    <3>1. UNCHANGED <<loc, tgt, todo, job>>
      BY <1>3, <2>4 DEF Handle, HangUp, AcceptHandler, AcceptFails,
         RecvNothing, RecvPartial, RecvReset, RecvOther, RecvAck, RecvPingreq,
         RecvPublish,
         RecvConnectRefused, RecvConnectKeep, RecvSubscribeRefused, ReplyNone,
         ReplyAck, ReplySuback
    <3>2. \/ pc' = [u \in Workers |-> "dead"]
          \/ \E label \in {"poll", "spin", "suback_retained"} :
               pc' = [pc EXCEPT ![w] = label]
      BY <1>3, <2>4 DEF Handle, HangUp, AcceptHandler, AcceptFails,
         RecvNothing, RecvPartial, RecvReset, RecvOther, RecvAck, RecvPingreq,
         RecvPublish,
         RecvConnectRefused, RecvConnectKeep, RecvSubscribeRefused, ReplyNone,
         ReplyAck, ReplySuback, AwaitWritable, AwaitRequest, Return, Enter,
         Crash
    <3>3. pc'[v] \notin HandPCs \/ pc'[v] = pc[v]
      BY <1>0, <3>2 DEF Functions, HandPCs, SubPCs, PubPCs
    <3> QED BY <3>1, <3>3, HandRests DEF Hand
  <2> QED BY <2>1, <2>2, <2>3, <2>4
<1>4. ASSUME NEW w \in Workers, Continue(w) PROVE Hand(v)
  <2>1. CASE SubscribeCreate(w) \/ PublishCreate(w)
    <3>1. /\ Creates(w) /\ UNCHANGED <<job, tgt, todo>>
          /\ loc' = [loc EXCEPT ![w] = Len(heap) + 1]
          /\ pc' = [pc EXCEPT ![w] = IF pc[w] = "sub_create" THEN "sub_find"
                                                             ELSE "retain"]
      BY <2>1 DEF SubscribeCreate, PublishCreate, CreateTopic, PutTopic,
         Creates, Goto
    <3>2. CASE v = w
      BY <1>0, <3>1, <3>2 DEF Hand, Made, Functions
    <3>3. CASE v # w
      BY <1>0, <3>1, <3>3, HandRests DEF Functions
    <3> QED BY <3>2, <3>3
  <2>2. CASE AddSubscriberFind(w)
    <3>1. /\ pc[w] = "sub_find" /\ UNCHANGED <<job, loc, todo, heap, topics>>
          /\ tgt' = [tgt EXCEPT ![w] = topics[Request(job[w]).topic]]
          /\ pc' = [pc EXCEPT ![w] = "sub_insert"]
      BY <2>2 DEF AddSubscriberFind, Goto
    <3>2. CASE v = w
      BY <1>0, <3>1, <3>2 DEF Hand, Looks, Functions
    <3>3. CASE v # w
      BY <1>0, <3>1, <3>3, HandRests DEF Functions
    <3> QED BY <3>2, <3>3
  <2>3. CASE \/ AddSubscriberInsert(w) \/ AddSubscriberLink(w)
             \/ RetainDestroy(w) \/ RetainClear(w)
    <3>1. /\ UNCHANGED <<job, loc, tgt, todo>>
          /\ \/ pc' = [u \in Workers |-> "dead"]
             \/ \E label : /\ pc' = [pc EXCEPT ![w] = label]
                           /\ pc'[w] = label => Advances(w)
      <4>1. CASE AddSubscriberInsert(w)
        BY <2>3, <4>1 DEF AddSubscriberInsert, Goto, Advances, Inserts, Inserted
      <4>2. CASE AddSubscriberLink(w)
        BY <2>3, <4>2 DEF AddSubscriberLink, Goto, Advances
      <4>3. CASE RetainDestroy(w)
        BY <2>3, <4>3 DEF RetainDestroy, Goto, Crash, Advances, Frees, connVars
      <4>4. CASE RetainClear(w)
        BY <2>3, <4>4 DEF RetainClear, Goto, Advances
      <4> QED BY <2>3, <4>1, <4>2, <4>3, <4>4
    <3>2. CASE v = w
      BY <1>0, <3>1, <3>2 DEF Hand, SameHand, HandPCs, SubPCs, PubPCs, Functions
    <3>3. CASE v # w
      BY <1>0, <3>1, <3>3, HandRests DEF Functions
    <3> QED BY <3>2, <3>3
  <2>4. CASE SkipRetain(w) \/ RetainKeep(w)
    <3>1. PICK s : s = heap[loc[w]].subs
      OBVIOUS
    <3>2. /\ UNCHANGED <<job, loc, tgt>>
          /\ todo' = [todo EXCEPT ![w] = s]
          /\ pc' = [pc EXCEPT ![w] = "fanout"]
          /\ \/ pc[w] = "retain" /\ ~Request(job[w]).retain
             \/ Keeps(w)
      BY <2>4, <3>1 DEF SkipRetain, RetainKeep, StartWalk, Goto, Keeps
    <3>3. CASE v = w
      BY <1>0, <3>1, <3>2, <3>3 DEF Hand, SameHand, WalkStarts, Functions
    <3>4. CASE v # w
      BY <1>0, <3>2, <3>4, HandRests DEF Functions
    <3> QED BY <3>3, <3>4
  <2>5. CASE FanOut(w)
    <3>1. PICK s : s = Head(todo[w])
      OBVIOUS
    <3>2. /\ UNCHANGED <<job, loc, tgt, pc>> /\ pc[w] = "fanout"
          /\ todo[w] # <<>> /\ todo' = [todo EXCEPT ![w] = Tail(todo[w])]
          /\ SendAll(s, "PUBLISH", 0, job[w])
      BY <2>5, <3>1 DEF FanOut
    <3>3. Sending(w, s) /\ s = Head(todo[w])
      BY <1>0, <3>1, <3>2, SendAllPuts DEF Sending
    <3>4. CASE v = w
      <4>1. todo'[w] = Tail(todo[w])
        BY <1>0, <3>2
      <4> QED BY <3>2, <3>3, <3>4, <4>1 DEF Hand, SameHand, Walks
    <3>5. CASE v # w
      BY <1>0, <3>2, <3>5, HandRests
    <3> QED BY <3>4, <3>5
  <2>6. CASE \/ ConnectAdd(w) \/ SubscribeRetained(w) \/ ReplyRetained(w)
             \/ ReplyDangling(w) \/ FanOutWild(w) \/ FinishPublish(w)
             \/ RecvResume(w)
    <3>1. /\ UNCHANGED <<job, loc, tgt, todo>>
          /\ \/ pc' = [u \in Workers |-> "dead"]
             \/ pc' = [pc EXCEPT ![w] = "poll"]
      BY <2>6 DEF ConnectAdd, SubscribeRetained, ReplyRetained, ReplyDangling,
         FanOutWild, FinishPublish, RecvResume, AwaitWritable, AwaitRequest,
         Return, Goto, Crash
    <3>2. pc'[v] \notin HandPCs \/ pc'[v] = pc[v]
      BY <1>0, <3>1 DEF Functions, HandPCs, SubPCs, PubPCs
    <3> QED BY <3>1, <3>2, HandRests DEF Hand
  <2> QED BY <1>4, <2>1, <2>2, <2>3, <2>4, <2>5, <2>6 DEF Continue
<1> QED BY <1>1, <1>2, <1>3, <1>4 DEF Next

\* How the message a reply carries changes.
Carries(c) ==
  \/ ctx'[c] # "reply"
  \/ ctx[c] = "reply" /\ reply'[c] = reply[c] /\ rd'[c] = rd[c]
  \/ reply'[c].retained \in {NoMsg, Wild} /\ (reply'[c].op = "SUBACK" => reply'[c].rc = 1)
  \/ \E w \in Workers :
       /\ pc[w] = "sub_retained" /\ cur[w] = c /\ rd'[c] = rd[c]
       /\ reply'[c].op = "SUBACK" /\ reply'[c].re = job[w]
       /\ reply'[c].retained = heap[loc[w]].retained
       /\ UNCHANGED <<heap, topics, live, log, outbox>>

LEMMA CarriesStep ==
  ASSUME ServiceInv, Next PROVE \A c \in Conns : Carries(c)
<1> SUFFICES ASSUME NEW d \in Conns PROVE Carries(d)
  OBVIOUS
<1> USE DEF netVars, topicVars, connVars, OwnClientOnly, ClientOnly
<1>0. /\ Functions /\ CurIsConn
      /\ \A c \in Conns : ctx[c] = "request" => reply[c] = NoReply
  BY HaveFunctions DEF ServiceInv, ReplySlot, TypeInv, OwnerInv
<1>1. ASSUME UNCHANGED <<ctx, reply, rd>> PROVE Carries(d)
  BY <1>0, <1>1 DEF Carries, Functions
<1>2. ASSUME NEW c \in Conns, ClientStep(c) PROVE Carries(d)
  BY <1>1, <1>2 DEF ClientStep, ClientConnect, ClientSend, ClientStall,
     ClientFinish, ClientLeave, ClientReset
<1>3. ASSUME NEW w \in Workers, Poll(w) PROVE Carries(d)
  BY <1>1, <1>3 DEF Poll, EpollWait
<1>4. ASSUME NEW w \in Workers, NEW c \in Conns, Handle(w, c) PROVE Carries(d)
  <2>1. CASE \/ HangUp(w, c) \/ AcceptHandler(w, c) \/ AcceptFails(w, c)
             \/ RecvNothing(w, c) \/ RecvPartial(w, c) \/ RecvReset(w, c)
             \/ ReplyNone(w, c) \/ ReplySuback(w, c) \/ ReplyPublish(w, c)
    BY <1>1, <2>1 DEF HangUp, AcceptHandler, AcceptFails, RecvNothing,
       RecvPartial, RecvReset, ReplyNone, ReplySuback, ReplyPublish
  <2>2. CASE RecvOther(w, c) \/ RecvConnectClean(w, c) \/ RecvSubscribe(w, c)
    <3>1. /\ UNCHANGED <<ctx, reply>> /\ ctx[c] = "request"
          /\ rd' = [rd EXCEPT ![c] = @ + 1]
      BY <2>2 DEF RecvOther, RecvConnectClean, RecvSubscribe, Incoming
    <3> QED BY <1>0, <3>1 DEF Carries, Functions
  <2>3. CASE ReplyAck(w, c)
    <3>1. /\ ctx' = [ctx EXCEPT ![c] = "request"] /\ UNCHANGED rd
          /\ reply' = [reply EXCEPT ![c] = NoReply]
      BY <2>3 DEF ReplyAck, AwaitRequest
    <3> QED BY <1>0, <3>1 DEF Carries, Functions
  <2>4. CASE \/ RecvAck(w, c) \/ RecvPingreq(w, c) \/ RecvPublish(w, c)
             \/ RecvConnectRefused(w, c) \/ RecvConnectKeep(w, c)
             \/ RecvSubscribeRefused(w, c)
    <3>1. /\ ctx[c] = "request" /\ rd' = [rd EXCEPT ![c] = @ + 1]
          /\ ctx' = [ctx EXCEPT ![c] = "reply"]
      BY <2>4 DEF RecvAck, RecvPingreq, RecvPublish, RecvConnectRefused,
         RecvConnectKeep, RecvSubscribeRefused, Incoming, AwaitWritable
    <3>2. PICK v : /\ reply' = [reply EXCEPT ![c] = v]
                   /\ v.retained \in {NoMsg, Wild}
                   /\ v.op = "SUBACK" => v.rc = 1
      <4>1. CASE UNCHANGED reply
        <5>1. reply' = [reply EXCEPT ![c] = NoReply]
          BY <1>0, <3>1, <4>1 DEF Functions
        <5>2. NoReply.retained = NoMsg /\ NoReply.op = "NONE"
          BY DEF NoReply
        <5> HIDE DEF NoReply
        <5> QED BY <5>1, <5>2
      <4>2. ASSUME NEW op, NEW rc, NEW r \in {NoMsg, Wild},
                   SetReply(c, op, rc, NextName(c), r), op = "SUBACK" => rc = 1
            PROVE  \E v : /\ reply' = [reply EXCEPT ![c] = v]
                          /\ v.retained \in {NoMsg, Wild}
                          /\ v.op = "SUBACK" => v.rc = 1
        <5>1. PICK v : v = [op |-> op, rc |-> rc, re |-> NextName(c),
                            retained |-> r]
          OBVIOUS
        <5>2. v.retained = r /\ v.op = op /\ v.rc = rc
          BY <5>1
        <5>3. reply' = [reply EXCEPT ![c] = v]
          BY <4>2, <5>1 DEF SetReply
        <5> QED BY <4>2, <5>2, <5>3
      <4>3. CASE \/ RecvPingreq(w, c) \/ RecvConnectRefused(w, c)
                 \/ RecvConnectKeep(w, c) \/ RecvSubscribeRefused(w, c)
        BY <4>2, <4>3 DEF RecvPingreq, RecvConnectRefused, RecvConnectKeep,
           RecvSubscribeRefused
      <4>4. CASE RecvAck(w, c) \/ RecvPublish(w, c)
        BY <4>1, <4>2, <4>4 DEF RecvAck, RecvPublish
      <4> QED BY <2>4, <4>3, <4>4
    <3> QED BY <1>0, <3>1, <3>2 DEF Carries, Functions
  <2> QED BY <1>4, <2>1, <2>2, <2>3, <2>4 DEF Handle
<1>5. ASSUME NEW w \in Workers, Continue(w) PROVE Carries(d)
  <2>1. CASE SubscribeRetained(w)
    <3>1. PICK c, r, m : c = cur[w] /\ r = heap[loc[w]].retained /\ m = job[w]
      OBVIOUS
    <3>2. /\ pc[w] = "sub_retained" /\ UNCHANGED <<rd, heap, topics, live, log, outbox>>
          /\ ctx' = [ctx EXCEPT ![c] = "reply"]
          /\ reply' = [reply EXCEPT ![c] = [op |-> "SUBACK", rc |-> 0,
                                            re |-> m, retained |-> r]]
      BY <2>1, <3>1 DEF SubscribeRetained, SetReply, RetainedBy, AwaitWritable
    <3>3. CASE d = c
      <4>1. reply'[c] = [op |-> "SUBACK", rc |-> 0, re |-> m, retained |-> r]
        BY <1>0, <3>2, <3>3 DEF Functions
      <4>2. /\ reply'[c].op = "SUBACK" /\ reply'[c].re = m
            /\ reply'[c].retained = r
        BY <4>1
      <4> QED BY <3>1, <3>2, <3>3, <4>2 DEF Carries
    <3>4. CASE d # c
      BY <1>0, <3>2, <3>4 DEF Carries, Functions
    <3> QED BY <3>3, <3>4
  <2>2. CASE ConnectAdd(w)
    <3>1. PICK c, m : c = cur[w] /\ m = job[w]
      OBVIOUS
    <3>2. /\ UNCHANGED rd
          /\ ctx' = [ctx EXCEPT ![c] = "reply"]
          /\ reply' = [reply EXCEPT ![c] = [op |-> "CONNACK", rc |-> 0,
                                            re |-> m, retained |-> NoMsg]]
      BY <2>2, <3>1 DEF ConnectAdd, SetReply, AwaitWritable
    <3>3. CASE d = c
      <4>1. reply'[c] = [op |-> "CONNACK", rc |-> 0, re |-> m, retained |-> NoMsg]
        BY <1>0, <3>2, <3>3 DEF Functions
      <4>2. reply'[c].op = "CONNACK" /\ reply'[c].retained = NoMsg
        BY <4>1
      <4> QED BY <3>3, <4>2 DEF Carries
    <3>4. CASE d # c
      BY <1>0, <3>2, <3>4 DEF Carries, Functions
    <3> QED BY <3>3, <3>4
  <2>3. CASE ReplyRetained(w) \/ ReplyDangling(w) \/ FinishPublish(w)
    <3>1. \/ UNCHANGED <<ctx, reply, rd>>
          \/ /\ ctx' = [ctx EXCEPT ![cur[w]] = "request"] /\ UNCHANGED rd
             /\ reply' = [reply EXCEPT ![cur[w]] = NoReply]
      BY <2>3 DEF ReplyRetained, ReplyDangling, FinishPublish, AwaitRequest
    <3> QED BY <1>0, <1>1, <3>1 DEF Carries, Functions
  <2>4. CASE \/ SubscribeCreate(w) \/ AddSubscriberFind(w)
             \/ AddSubscriberInsert(w) \/ AddSubscriberLink(w)
             \/ PublishCreate(w) \/ SkipRetain(w) \/ RetainDestroy(w)
             \/ RetainClear(w) \/ RetainKeep(w) \/ FanOut(w) \/ FanOutWild(w)
             \/ RecvResume(w)
    BY <1>1, <2>4 DEF SubscribeCreate, AddSubscriberFind, AddSubscriberInsert,
       AddSubscriberLink, PublishCreate, SkipRetain, RetainDestroy,
       RetainClear, RetainKeep, FanOut, FanOutWild, RecvResume, CreateTopic
  <2> QED BY <1>5, <2>1, <2>2, <2>3, <2>4 DEF Continue
<1> QED BY <1>2, <1>3, <1>4, <1>5 DEF Next

\* Known requests, and what is kept, stay.
LEMMA KeptStays ==
  ASSUME LogTypes, Next
  PROVE  /\ \A m, op : Known(m, op) => Known(m, op)' /\ Request(m)' = Request(m)
         /\ \A m, t : Kept(m, t) => Kept(m, t)'
<1>1. \A m, op : Known(m, op) => Known(m, op)' /\ Request(m)' = Request(m)
  BY LogStep DEF ReadStays
<1>2. ASSUME NEW m, NEW t, Kept(m, t) PROVE Kept(m, t)'
  BY <1>1, <1>2 DEF Kept
<1> QED BY <1>1, <1>2

TopicParts ==
  /\ \A t \in Topics : topics[t] # 0 => heap[topics[t]].name = t
  /\ \A o \in 1..Len(heap) : KeptAt(o)
  /\ \A w \in Workers : PlaceAt(w)
  /\ \A c \in Conns : CarriedAt(c)

\* A worker's request is known, and stays the same request.
LEMMA HandKnown ==
  ASSUME TypeInv, Next, NEW v \in Workers, pc[v] \in HandPCs
  PROVE  /\ Known(job[v], IF pc[v] \in SubPCs THEN "SUBSCRIBE" ELSE "PUBLISH")
         /\ job'[v] = job[v] => Request(job[v])' = Request(job[v])
         /\ Request(job[v]).topic \in Topics
<1>1. HandlerAt(v) /\ LogTypes
  BY DEF TypeInv, HandlerInv
<1>2. Known(job[v], IF pc[v] \in SubPCs THEN "SUBSCRIBE" ELSE "PUBLISH")
  BY <1>1 DEF HandlerAt, HandPCs
<1>3. Request(job[v]).topic \in Topics
  BY <1>2 DEF Known
<1>4. PICK m : m = job[v]
  OBVIOUS
<1>5. Request(m)' = Request(m)
  BY <1>1, <1>2, <1>4, KeptStays
<1> QED BY <1>2, <1>3, <1>4, <1>5 DEF Request

LEMMA TopicStep == ASSUME TopicInv, TypeInv', Next PROVE TopicParts'
<1>0. ServiceInv /\ TypeInv /\ LogTypes /\ HandlerInv /\ TopicTypes
  BY DEF TopicInv, ServiceInv, TypeInv
<1>1. /\ HeapStep /\ (\A v \in Workers : Hand(v)) /\ \A c \in Conns : Carries(c)
  BY <1>0, HeapShape, HandShape, CarriesStep
<1>2. /\ Len(heap) \in Nat /\ Len(heap') \in Nat
      /\ \A o \in 1..Len(heap) : OldObject(o)
      /\ \A o \in 1..Len(heap') : o \in 1..Len(heap) \/ NewObject(o)
  BY <1>0, <1>1, HeapView
<1>3. ASSUME NEW o \in 1..Len(heap)
      PROVE  o \in 1..Len(heap') /\ heap'[o].name = heap[o].name
  BY <1>2, <1>3 DEF OldObject
<1>4. ASSUME NEW t \in Topics, topics'[t] # 0 PROVE heap'[topics'[t]].name = t
  <2>1. topics \in [Topics -> 0..Len(heap)]
    BY <1>0 DEF TopicTypes
  <2>2. CASE UNCHANGED topics
    <3>1. topics[t] \in 1..Len(heap) /\ heap[topics[t]].name = t
      BY <1>2, <1>4, <2>1, <2>2 DEF TopicInv
    <3> QED BY <1>3, <2>2, <3>1
  <2>3. ASSUME NEW w \in Workers, Creates(w) PROVE heap'[topics'[t]].name = t
    <3>1. PICK x : /\ x = Topic(Request(job[w]).topic, <<>>, NoMsg)
                   /\ heap' = Append(heap, x)
      BY <2>3 DEF Creates
    <3>2. heap'[Len(heap) + 1] = x /\ x.name = Request(job[w]).topic
      BY <1>0, <3>1 DEF TopicTypes, Topic
    <3>3. topics'[t] = IF t = Request(job[w]).topic THEN Len(heap) + 1 ELSE topics[t]
      BY <2>1, <2>3 DEF Creates
    <3>4. CASE t = Request(job[w]).topic
      BY <3>2, <3>3, <3>4
    <3>5. CASE t # Request(job[w]).topic
      <4>1. topics[t] \in 1..Len(heap) /\ heap[topics[t]].name = t
        BY <1>2, <1>4, <2>1, <3>3, <3>5 DEF TopicInv
      <4> QED BY <1>3, <3>3, <3>5, <4>1
    <3> QED BY <3>4, <3>5
  <2> QED BY <1>1, <2>2, <2>3 DEF HeapStep, Inserts, Clears, Keeps
<1>5. ASSUME NEW o \in 1..Len(heap') PROVE KeptAt(o)'
  <2>1. CASE o \in 1..Len(heap)
    <3>1. OldObject(o) /\ KeptAt(o)
      BY <1>2, <2>1 DEF TopicInv
    <3>2. CASE heap'[o].retained = heap[o].retained
      <4>1. PICK m, t : m = heap[o].retained /\ t = heap[o].name
        OBVIOUS
      <4>2. m # NoMsg => Kept(m, t)'
        BY <1>0, <3>1, <4>1, KeptStays DEF KeptAt
      <4> QED BY <3>1, <3>2, <4>1, <4>2 DEF KeptAt, OldObject, Kept, Known, Request
    <3>3. CASE heap'[o].retained = NoMsg
      BY <3>3 DEF KeptAt
    <3>4. ASSUME NEW w \in Workers, Keeps(w), loc[w] = o,
                 heap'[o].retained = job[w]
          PROVE  KeptAt(o)'
      <4>1. PICK m, t : m = job[w] /\ t = heap[o].name
        OBVIOUS
      <4>2. /\ Known(m, "PUBLISH") /\ Request(m).topic = t /\ Request(m).retain
        BY <1>0, <3>4, <4>1
        DEF Keeps, HandlerInv, HandlerAt, PubPCs, TopicInv, PlaceAt, FoundPCs
      <4>3. Kept(m, t)'
        BY <1>0, <4>2, KeptStays DEF Kept
      <4> QED BY <3>1, <3>4, <4>1, <4>3 DEF KeptAt, OldObject, Kept, Known, Request
    <3> QED BY <3>1, <3>2, <3>3, <3>4 DEF OldObject
  <2>2. CASE NewObject(o)
    BY <2>2 DEF NewObject, KeptAt, Topic
  <2> QED BY <1>2, <2>1, <2>2
<1>6. ASSUME NEW v \in Workers PROVE PlaceAt(v)'
  <2>0. HandlerAt(v) /\ HandlerAt(v)' /\ PlaceAt(v)
        /\ loc[v] \in 0..Len(heap) /\ tgt[v] \in 0..Len(heap)
        /\ loc'[v] \in 0..Len(heap') /\ tgt'[v] \in 0..Len(heap')
    BY <1>0 DEF HandlerInv, TopicInv, TypeInv, LocalTypes
  <2>1. CASE pc'[v] \notin HandPCs
    BY <2>1 DEF PlaceAt, HandPCs, SubPCs, PubPCs, FoundPCs
  <2>2. CASE pc[v] \in HandPCs /\ SameHand(v) /\ (Advances(v) \/ Walks(v) \/ WalkStarts(v))
    <3>1. Request(job[v])' = Request(job[v])
      BY <1>0, <2>2, HandKnown DEF SameHand
    <3>2. /\ pc'[v] \in FoundPCs => pc[v] \in FoundPCs
          /\ pc'[v] \in {"sub_insert", "sub_link"} => pc[v] \in {"sub_insert", "sub_link"}
          /\ pc'[v] \in {"clear", "keep"} =>
               pc[v] \in {"clear", "keep"} \/ Request(job[v]).retain
      BY <2>2 DEF Advances, Walks, WalkStarts, Inserts, Frees, Keeps, FoundPCs
    <3>3. pc[v] \in FoundPCs => heap'[loc[v]].name = heap[loc[v]].name
      <4>1. pc[v] \in FoundPCs => loc[v] \in 1..Len(heap)
        BY <1>2, <2>0 DEF HandlerAt, FoundPCs, SubPCs, PubPCs
      <4> QED BY <1>3, <4>1
    <3>4. pc[v] \in {"sub_insert", "sub_link"} => heap'[tgt[v]].name = heap[tgt[v]].name
      <4>1. pc[v] \in {"sub_insert", "sub_link"} => tgt[v] \in 1..Len(heap)
        BY <1>2, <2>0 DEF HandlerAt
      <4> QED BY <1>3, <4>1
    <3> QED BY <2>0, <2>2, <3>1, <3>2, <3>3, <3>4 DEF PlaceAt, SameHand
  <2>3. CASE Looks(v)
    <3>0. pc[v] \in HandPCs
      BY <2>3 DEF Looks, HandPCs, SubPCs
    <3>1. Request(job[v])' = Request(job[v]) /\ Request(job[v]).topic \in Topics
      BY <1>0, <2>3, <3>0, HandKnown DEF Looks
    <3>2. tgt'[v] # 0
      BY <2>0, <2>3 DEF Looks, HandlerAt
    <3>3. heap[tgt'[v]].name = Request(job[v]).topic
      BY <2>3, <3>1, <3>2 DEF Looks, TopicInv
    <3> QED BY <2>0, <2>3, <3>1, <3>3 DEF Looks, PlaceAt, FoundPCs
  <2>4. CASE Made(v)
    <3>0. pc[v] \in HandPCs
      BY <2>4 DEF Made, Creates, HandPCs, SubPCs, PubPCs
    <3>1. Request(job[v])' = Request(job[v])
      BY <1>0, <2>4, <3>0, HandKnown DEF Made
    <3>2. PICK x : /\ x = Topic(Request(job[v]).topic, <<>>, NoMsg)
                   /\ heap' = Append(heap, x)
      BY <2>4 DEF Made, Creates
    <3>3. heap'[Len(heap) + 1] = x /\ x.name = Request(job[v]).topic
      BY <1>0, <3>2 DEF TopicTypes, Topic
    <3> QED BY <2>4, <3>1, <3>3 DEF Made, PlaceAt, FoundPCs
  <2>5. CASE Begins(v)
    <3>1. SUFFICES ASSUME pc'[v] \in {"sub_find", "retain"} PROVE PlaceAt(v)'
      BY <2>5 DEF Begins, PlaceAt, FoundPCs
    <3>2. PICK m, t : m = job'[v] /\ t = Request(m).topic
      OBVIOUS
    <3>3. Request(job[v])' = Request(m)
      BY <2>5, <3>2 DEF Begins, Request
    <3>4. t \in Topics /\ loc'[v] # 0
      BY <2>0, <3>1, <3>2, <3>3 DEF HandlerAt, Known, SubPCs, PubPCs
    <3>5. heap[loc'[v]].name = t
      BY <2>5, <3>2, <3>4 DEF Begins, TopicInv
    <3> QED BY <2>5, <3>1, <3>2, <3>3, <3>5 DEF Begins, PlaceAt
  <2>6. pc[v] \notin HandPCs /\ SameHand(v) /\ (Advances(v) \/ Walks(v) \/ WalkStarts(v))
          => pc'[v] \notin HandPCs
    BY DEF Advances, Walks, WalkStarts, Inserts, Frees, Keeps, HandPCs, SubPCs, PubPCs
  <2> QED BY <1>1, <2>1, <2>2, <2>3, <2>4, <2>5, <2>6 DEF Hand
<1>7. ASSUME NEW c \in Conns PROVE CarriedAt(c)'
  <2>1. SUFFICES ASSUME ctx'[c] = "reply", reply'[c].retained \notin {NoMsg, Wild}
                 PROVE  CarriedAt(c)'
    BY DEF CarriedAt
  <2>2. rd'[c] = rd[c] /\ rd[c] > 0 => Request(<<c, rd[c]>>)' = Request(<<c, rd[c]>>)
    <3>1. rd[c] > 0 => rd[c] \in 1..Len(log[c])
      BY <1>0, LogGrows
    <3> QED BY <1>0, <3>1, LogGrows DEF Request
  <2>3. CASE ctx[c] = "reply" /\ reply'[c] = reply[c] /\ rd'[c] = rd[c]
    <3>1. rd[c] > 0 /\ CarriedAt(c)
      BY <1>0, <2>3 DEF ServiceInv, ReplyAt, TopicInv
    <3>2. PICK m, t : m = reply[c].retained /\ t = Request(<<c, rd[c]>>).topic
      OBVIOUS
    <3>3. Kept(m, t)'
      BY <1>0, <2>1, <2>3, <3>1, <3>2, KeptStays DEF CarriedAt
    <3> QED BY <2>2, <2>3, <3>1, <3>2, <3>3 DEF CarriedAt, Kept, Known, Request
  <2>4. ASSUME NEW w \in Workers, pc[w] = "sub_retained", cur[w] = c,
               rd'[c] = rd[c], reply'[c].retained = heap[loc[w]].retained
        PROVE  CarriedAt(c)'
    <3>1. /\ job[w] = <<c, rd[c]>> /\ Known(job[w], "SUBSCRIBE")
          /\ heap[loc[w]].name = Request(job[w]).topic
          /\ loc[w] # 0 /\ loc[w] \in 0..Len(heap)
      BY <1>0, <2>4 DEF ServiceInv, WorkAt, HandlerInv, HandlerAt, SubPCs,
         StartPCs, TopicInv, PlaceAt, FoundPCs, TypeInv, LocalTypes
    <3>2. loc[w] \in 1..Len(heap) /\ rd[c] > 0
      BY <1>2, <3>1, BoundsAssumption DEF Known, RequestNames
    <3>3. PICK m, t : m = heap[loc[w]].retained /\ t = Request(<<c, rd[c]>>).topic
      OBVIOUS
    <3>4. Kept(m, t)
      BY <2>1, <2>4, <3>1, <3>2, <3>3 DEF TopicInv, KeptAt
    <3>5. Kept(m, t)'
      BY <1>0, <3>4, KeptStays
    <3> QED BY <2>2, <2>4, <3>2, <3>3, <3>5 DEF CarriedAt, Kept, Known, Request
  <2> QED BY <1>1, <2>1, <2>3, <2>4 DEF Carries
<1> QED BY <1>4, <1>5, <1>6, <1>7 DEF TopicParts

-----------------------------------------------------------------------------
(***************************************************************************)
(* How often a message reaches a connection.  A list of subscribers holds  *)
(* a connection at most as often as it has subscribed and the insertion    *)
(* was done; what was sent of a message and what is left of the walk       *)
(* together never exceed the subscriptions of its topic.                   *)
(***************************************************************************)
\* Where c stands in a list of subscribers, counted from the end, where
\* nodes keep their place when others are inserted in front or taken off.
Places(s, c) == {i \in 1..Len(s) : s[Len(s) + 1 - i] = c}

InsertPCs == {"sub_create", "sub_find", "sub_insert"}
Eligible(c, t) ==
  {n \in Subscribes(c, t) : n = rd[c] => ~Inside(c, InsertPCs)}
SubsAt(o, c) ==
  Cardinality(Places(heap[o].subs, c))
    <= Cardinality(Eligible(c, heap[o].name))

FanAt(w, s) ==
  pc[w] = "fanout" =>
    Cardinality(Copies(s, job[w], "PUBLISH")) + Cardinality(Places(todo[w], s))
      <= Cardinality(Subscribes(s, Request(job[w]).topic))

\* Nothing is sent of a message before its walk starts.
UnsentAt(c) ==
  Stage(c) = "working" /\ ~Inside(c, {"fanout"}) =>
    \A s \in Conns : Copies(s, Latest(c), "PUBLISH") = {}

CountAt(c) ==
  \A m \in RequestNames : Copies(c, m, "PUBLISH") # {} =>
    Cardinality(Copies(c, m, "PUBLISH"))
      <= Cardinality(Subscribes(c, Request(m).topic))

\* The subscriptions after whose SUBACK a retained message may have followed.
Replayable(c, t) ==
  {n \in Subscribes(c, t) : n = rd[c] => Stage(c) \notin {"working", "replay"}}
RetainedAt(c) ==
  \A m \in RequestNames : Copies(c, m, "RETAINED") # {} =>
    /\ Known(m, "PUBLISH")
    /\ Cardinality(Copies(c, m, "RETAINED"))
         <= Cardinality(Replayable(c, Request(m).topic))

DeliveryInv ==
  /\ TopicInv
  /\ FrameInv
  /\ \A o \in 1..Len(heap), c \in Conns : SubsAt(o, c)
  /\ \A w \in Workers, s \in Conns : FanAt(w, s)
  /\ \A c \in Conns : UnsentAt(c) /\ CountAt(c) /\ RetainedAt(c)

-----------------------------------------------------------------------------
\* Counting.
LEMMA CardNat ==
  ASSUME NEW n \in Nat, NEW S \in SUBSET (1..n)
  PROVE  IsFiniteSet(S) /\ Cardinality(S) \in Nat
<1>1. IsFiniteSet(1..n)
  BY FS_Interval
<1>2. IsFiniteSet(S)
  BY <1>1, FS_Subset
<1> QED BY <1>2, FS_CardinalityType

LEMMA CardSub ==
  ASSUME NEW n \in Nat, NEW T \in SUBSET (1..n), NEW S \in SUBSET T
  PROVE  Cardinality(S) <= Cardinality(T)
<1>1. IsFiniteSet(T)
  BY CardNat
<1> QED BY <1>1, FS_Subset

LEMMA CardAdd ==
  ASSUME NEW n \in Nat, NEW S \in SUBSET (1..n), NEW x, x \notin S
  PROVE  Cardinality(S \cup {x}) = Cardinality(S) + 1
<1>1. IsFiniteSet(S)
  BY CardNat
<1> QED BY <1>1, FS_AddElement

LEMMA PlacesPush ==
  ASSUME NEW s \in Seq(Conns), NEW c \in Conns, NEW d \in Conns
  PROVE  Places(<<d>> \o s, c) = IF c = d THEN Places(s, c) \cup {Len(s) + 1}
                                          ELSE Places(s, c)
<1>1. PICK q : q = <<d>> \o s
  OBVIOUS
<1>2. PICK n \in Nat : n = Len(s)
  OBVIOUS
<1>3. /\ Len(q) = n + 1 /\ q[1] = d
      /\ \A j \in 1..n : q[j + 1] = s[j]
  BY <1>1, <1>2
<1>4. ASSUME NEW i \in 1..n PROVE q[n + 2 - i] = s[n + 1 - i]
  <2>1. PICK j \in 1..n : j = n + 1 - i
    OBVIOUS
  <2>2. n + 2 - i = j + 1
    BY <2>1
  <2> QED BY <1>3, <2>1, <2>2
<1>5. Places(q, c) = {i \in 1..(n + 1) : q[n + 2 - i] = c}
  BY <1>3 DEF Places
<1>6. Places(s, c) = {i \in 1..n : s[n + 1 - i] = c}
  BY <1>2 DEF Places
<1>7. ASSUME NEW i PROVE i \in Places(q, c) <=> \/ i \in Places(s, c)
                                                \/ i = n + 1 /\ d = c
  <2>1. CASE i \in 1..n
    BY <1>4, <1>5, <1>6, <2>1
  <2>2. CASE i = n + 1
    BY <1>3, <1>5, <1>6, <2>2
  <2>3. CASE i \notin 1..n /\ i # n + 1
    BY <1>5, <1>6, <2>3
  <2> QED BY <2>1, <2>2, <2>3
<1> QED BY <1>1, <1>2, <1>7

LEMMA PlacesPop ==
  ASSUME NEW s \in Seq(Conns), NEW c \in Conns, s # <<>>
  PROVE  /\ Places(s, c) = IF c = Head(s) THEN Places(Tail(s), c) \cup {Len(s)}
                                          ELSE Places(Tail(s), c)
         /\ Len(s) \notin Places(Tail(s), c)
         /\ Len(Tail(s)) = Len(s) - 1
<1>1. PICK q, d : q = Tail(s) /\ d = Head(s)
  OBVIOUS
<1>2. q \in Seq(Conns) /\ d \in Conns /\ s = <<d>> \o q /\ Len(s) = Len(q) + 1
      /\ Len(q) \in Nat
  BY <1>1
<1>3. Places(s, c) = IF c = d THEN Places(q, c) \cup {Len(q) + 1} ELSE Places(q, c)
  BY <1>2, PlacesPush
<1>4. Len(q) + 1 \notin Places(q, c)
  BY <1>2 DEF Places
<1> QED BY <1>1, <1>2, <1>3, <1>4

LEMMA PlacesNat ==
  ASSUME NEW s \in Seq(Conns), NEW c
  PROVE  /\ Places(s, c) \in SUBSET (1..Len(s)) /\ Len(s) \in Nat
         /\ IsFiniteSet(Places(s, c)) /\ Cardinality(Places(s, c)) \in Nat
<1>1. Len(s) \in Nat /\ Places(s, c) \in SUBSET (1..Len(s))
  BY DEF Places
<1> QED BY <1>1, CardNat

LEMMA CopiesNat ==
  ASSUME OutTypes, NEW c \in Conns, NEW m, NEW op
  PROVE  /\ Len(outbox[c]) \in Nat
         /\ Copies(c, m, op) \in SUBSET (1..Len(outbox[c]))
         /\ IsFiniteSet(Copies(c, m, op)) /\ Cardinality(Copies(c, m, op)) \in Nat
<1>1. Len(outbox[c]) \in Nat /\ Copies(c, m, op) \in SUBSET (1..Len(outbox[c]))
  BY DEF OutTypes, Copies
<1> QED BY <1>1, CardNat

LEMMA SubscribesNat ==
  ASSUME NEW c \in Conns, NEW t, rd[c] \in Nat
  PROVE  /\ Subscribes(c, t) \in SUBSET (1..rd[c])
         /\ IsFiniteSet(Subscribes(c, t)) /\ Cardinality(Subscribes(c, t)) \in Nat
<1>1. Subscribes(c, t) \in SUBSET (1..rd[c])
  BY DEF Subscribes
<1> QED BY <1>1, CardNat

\* One frame more.
LEMMA CopiesAdded ==
  ASSUME OutTypes, NEW c \in Conns, NEW f, Added(c, f), NEW s \in Conns,
         NEW m, NEW op
  PROVE  IF s = c /\ f.op = op /\ f.re = m
         THEN /\ Copies(s, m, op)' = Copies(s, m, op) \cup {Len(outbox[c]) + 1}
              /\ Cardinality(Copies(s, m, op)') = Cardinality(Copies(s, m, op)) + 1
         ELSE Copies(s, m, op)' = Copies(s, m, op)
<1>1. PICK k : k = Len(outbox[c])
  OBVIOUS
<1>2. /\ k \in Nat /\ DOMAIN outbox[c] = 1..k /\ DOMAIN outbox'[c] = 1..(k + 1)
      /\ \A i \in 1..k : outbox'[c][i] = outbox[c][i]
      /\ outbox'[c][k + 1] = f
      /\ \A d \in Conns \ {c} : outbox'[d] = outbox[d]
  BY <1>1 DEF Added
<1>3. CASE s # c
  BY <1>2, <1>3 DEF Copies
<1>4. CASE s = c
  <2>1. Copies(c, m, op) = {i \in 1..k : outbox[c][i].op = op /\ outbox[c][i].re = m}
    BY <1>2 DEF Copies
  <2>2. Copies(c, m, op)' =
          {i \in 1..(k + 1) : outbox'[c][i].op = op /\ outbox'[c][i].re = m}
    BY <1>2 DEF Copies
  <2>3. \A i : i \in 1..(k + 1) <=> i \in 1..k \/ i = k + 1
    BY <1>2
  <2>4. ASSUME NEW i
        PROVE  i \in Copies(c, m, op)' <=> \/ i \in Copies(c, m, op)
                                           \/ i = k + 1 /\ f.op = op /\ f.re = m
    BY <1>2, <2>1, <2>2, <2>3
  <2>5. Copies(c, m, op)' = IF f.op = op /\ f.re = m
                            THEN Copies(c, m, op) \cup {k + 1}
                            ELSE Copies(c, m, op)
    BY <2>4
  <2>6. Copies(c, m, op) \in SUBSET (1..k) /\ k + 1 \notin Copies(c, m, op)
    BY <1>2, <2>1
  <2>7. Cardinality(Copies(c, m, op) \cup {k + 1}) = Cardinality(Copies(c, m, op)) + 1
    BY <1>2, <2>6, CardAdd
  <2> QED BY <1>1, <1>4, <2>5, <2>7
<1> QED BY <1>3, <1>4

-----------------------------------------------------------------------------
(***************************************************************************)
(* What a step adds to the frames and to the subscriptions.                *)
(***************************************************************************)
\* No frame of the kind is added.
SameCopies(op) == \A s \in Conns : \A m : Copies(s, m, op)' = Copies(s, m, op)

LEMMA FramesAdded ==
  ASSUME ServiceInv, ServiceInv', Next
  PROVE  /\ \/ SameCopies("PUBLISH")
            \/ \E w \in Workers, c, s \in Conns :
                 /\ Offering(w, c, s)
                 /\ \/ StagesStay /\ todo'[w] = Tail(todo[w])
                    \/ Down'
         /\ SameCopies("RETAINED") \/ \E c \in Conns : Repeats(c)
<1>0. OutTypes
  BY DEF ServiceInv, TypeInv
<1>1. ASSUME UNCHANGED outbox PROVE SameCopies("PUBLISH") /\ SameCopies("RETAINED")
  BY <1>1 DEF SameCopies, Copies
<1>2. ASSUME NEW c \in Conns, NEW f, Added(c, f), NEW op, f.op # op
      PROVE  SameCopies(op)
  BY <1>0, <1>2, CopiesAdded DEF SameCopies
<1>3. ASSUME NEW w \in Workers, NEW c \in Conns, NEW s \in Conns, Offering(w, c, s)
      PROVE  SameCopies("RETAINED")
  <2>1. PICK f : f.op = "PUBLISH" /\ Added(s, f)
    BY <1>0, <1>3, PutsView DEF Offering, Sending
  <2> QED BY <1>2, <2>1
<1>4. ASSUME NEW c \in Conns, NEW next, Settles(c, next)
      PROVE  SameCopies("PUBLISH") /\ SameCopies("RETAINED")
  <2>1. PICK a : a = Answer(Request(Latest(c)))
    OBVIOUS
  <2>2. CASE a = <<>>
    BY <1>1, <1>4, <2>1, <2>2 DEF Settles
  <2>3. CASE a # <<>>
    <3>1. a[1] # "PUBLISH" /\ a[1] # "RETAINED"
      BY <2>1, <2>3 DEF Answer
    <3>2. PICK f : f.op = a[1] /\ Added(c, f)
      BY <1>0, <1>4, <2>1, <2>3, PutsView DEF Settles
    <3> QED BY <1>2, <3>1, <3>2
  <2> QED BY <2>2, <2>3
<1>5. ASSUME NEW c \in Conns, Repeats(c) PROVE SameCopies("PUBLISH")
  <2>1. PICK f : f.op = "RETAINED" /\ Added(c, f)
    BY <1>0, <1>5, PutsView DEF Repeats
  <2> QED BY <1>2, <2>1
<1>6. CASE Fails
  <2>1. CASE UNCHANGED outbox
    BY <1>1, <2>1
  <2>2. ASSUME NEW w \in Workers, NEW c \in Conns, NEW s \in Conns, Offering(w, c, s)
        PROVE  Down' /\ SameCopies("RETAINED")
    <3>1. Stage(c)' = "down"
      BY <1>6 DEF Fails
    <3>2. Down'
      BY <3>1 DEF Stage, Down
    <3> QED BY <1>3, <2>2, <3>2
  <2> QED BY <1>6, <2>1, <2>2 DEF Fails
<1>7. CASE Idles \/ \E c \in Conns, r \in Requests : Requested(c, r)
  BY <1>1, <1>7 DEF Idles, Requested
<1>8. CASE \E c \in Conns : Reads(c)
  BY <1>1, <1>8 DEF Reads
<1> QED BY <1>3, <1>4, <1>5, <1>6, <1>7, <1>8, ServiceKinds

\* How the stage of one connection changes.
LEMMA StageMoves ==
  ASSUME ServiceInv, ServiceInv', Next, NEW c \in Conns, rd'[c] = rd[c]
  PROVE  /\ Stage(c)' = "working" => Stage(c) = "working"
         /\ Stage(c)' \in {"working", "replay"} => Stage(c) \in {"working", "replay"}
<1>1. rd[c] \in Nat
  BY DEF ServiceInv, TypeInv, LogTypes
<1>2. ASSUME NEW d \in Conns, Reads(d) PROVE d # c
  BY <1>1, <1>2 DEF Reads, ServiceInv, TypeInv, LogTypes
<1> QED BY <1>2, ServiceKinds DEF Idles, Requested, StagesStay, Reads, To,
           Settles, Repeats, Fails

\* Two workers inside handlers are inside those of different connections.
LEMMA Apart ==
  ASSUME ServiceInv, NEW v \in Workers, NEW w \in Workers, v # w,
         pc[v] \notin {"poll", "dead"}, pc[w] \notin {"poll", "dead"}
  PROVE  cur[v] # cur[w]
  BY DEF ServiceInv, TypeInv, OwnerInv, OneOwner

\* How the handler of a connection goes on.
LEMMA InsertingFrom ==
  ASSUME ServiceInv, Next, NEW c \in Conns, Inside(c, InsertPCs)', rd'[c] = rd[c]
  PROVE  Inside(c, InsertPCs)
<1>0. Functions /\ TypeInv
  BY HaveFunctions DEF ServiceInv
<1>1. PICK w \in Workers : pc'[w] \in InsertPCs /\ cur'[w] = c
  BY DEF Inside
<1>2. ASSUME UNCHANGED <<pc, cur>> PROVE Inside(c, InsertPCs)
  BY <1>1, <1>2 DEF Inside
<1>3. ASSUME NEW d \in Conns, ClientStep(d) PROVE UNCHANGED <<pc, cur>>
  BY <1>3 DEF ClientStep, ClientConnect, ClientSend, ClientStall,
     ClientFinish, ClientLeave, ClientReset,
     ClientOnly, workerVars
<1>4. ASSUME NEW v \in Workers, Poll(v) PROVE UNCHANGED <<pc, cur>>
  BY <1>4 DEF Poll, EpollWait
<1>5. ASSUME NEW v \in Workers, NEW d \in Conns,
             AcceptHandler(v, d) \/ AcceptFails(v, d)
      PROVE  UNCHANGED <<pc, cur>>
  BY <1>0, <1>5 DEF AcceptHandler, AcceptFails, Return, Holds, Functions
<1>6. ~Dies
  BY <1>1 DEF Dies, Crash, InsertPCs
<1>7. ASSUME NEW v \in Workers, NEW d \in Conns, Others(v, d), Handles(v, d)
      PROVE  Inside(c, InsertPCs)
  <2>1. CASE w # v
    BY <1>1, <1>7, <2>1 DEF Others, Inside
  <2>2. CASE w = v
    <3>1. Starts(w, d) \/ Moves(w, d)
      BY <1>1, <1>7, <2>2 DEF Handles, Drops, Rests, Rejects, Queues, Prepares,
         Answers, Enters, Spins, Leaves, Stays, InsertPCs, PubPCs
    <3>2. ~Starts(w, d)
      BY <1>0, <1>1 DEF Starts, Stays, Takes, Functions
    <3>3. Moves(w, d) /\ cur[w] = c /\ pc[w] # "poll"
      BY <1>1, <3>1, <3>2 DEF Moves, Stays, SubPCs, PubPCs
    <3>4. Hand(w)
      BY <1>0, HandShape
    <3>5. pc[w] \in InsertPCs
      BY <1>1, <3>3, <3>4 DEF Hand, HandPCs, SubPCs, PubPCs, Advances, Walks,
         WalkStarts, Inserts, Frees, Keeps, Looks, Made, Creates, Begins, InsertPCs
    <3> QED BY <3>3, <3>5 DEF Inside
  <2> QED BY <2>1, <2>2
<1> QED BY <1>2, <1>3, <1>4, <1>5, <1>6, <1>7, StepKinds

LEMMA FanOutGoesOn ==
  ASSUME ServiceInv, Next, NEW c \in Conns, Inside(c, {"fanout"}),
         Stage(c)' = "working"
  PROVE  Inside(c, {"fanout"})'
<1>0. Functions /\ TypeInv
  BY HaveFunctions DEF ServiceInv
<1>1. PICK w \in Workers : pc[w] = "fanout" /\ cur[w] = c
  BY DEF Inside
<1>2. ASSUME UNCHANGED <<pc, cur>> PROVE Inside(c, {"fanout"})'
  BY <1>1, <1>2 DEF Inside
<1>3. ASSUME NEW d \in Conns, ClientStep(d) PROVE UNCHANGED <<pc, cur>>
  BY <1>3 DEF ClientStep, ClientConnect, ClientSend, ClientStall,
     ClientFinish, ClientLeave, ClientReset,
     ClientOnly, workerVars
<1>4. ASSUME NEW v \in Workers, Poll(v) PROVE UNCHANGED <<pc, cur>>
  BY <1>4 DEF Poll, EpollWait
<1>5. ASSUME NEW v \in Workers, NEW d \in Conns,
             AcceptHandler(v, d) \/ AcceptFails(v, d)
      PROVE  UNCHANGED <<pc, cur>>
  BY <1>0, <1>5 DEF AcceptHandler, AcceptFails, Return, Holds, Functions
<1>6. ~Dies
  <2>1. Dies => Down'
    BY <1>1 DEF Dies, Crash, Down
  <2>2. ~Down'
    BY DEF Stage, Down
  <2> QED BY <2>1, <2>2
<1>7. ASSUME NEW v \in Workers, NEW d \in Conns, Others(v, d), Handles(v, d)
      PROVE  Inside(c, {"fanout"})'
  <2>1. CASE w # v
    BY <1>1, <1>7, <2>1 DEF Others, Inside
  <2>2. CASE w = v
    <3>1. d = c /\ (Moves(w, d) \/ Answers(w, d))
      BY <1>1, <1>7, <2>2 DEF Handles, Drops, Rests, Rejects, Queues, Starts,
         Prepares, Moves, Answers, Enters, Spins, Holds, StartPCs, SubPCs
    <3>2. Stage(c)' = StageIn(w, c)'
      BY <1>7, <2>2, <3>1, StageView
    <3>3. ~Answers(w, d)
      BY <3>1, <3>2 DEF Answers, Leaves, Slot, StageIn, StartPCs, SubPCs
    <3>4. Moves(w, d) /\ cur'[w] = c /\ pc'[w] \in PubPCs
      BY <1>1, <3>1, <3>3 DEF Moves, Stays, SubPCs
    <3>5. Hand(w)
      BY <1>0, HandShape
    <3>6. pc'[w] = "fanout"
      BY <1>1, <3>4, <3>5 DEF Hand, HandPCs, SubPCs, PubPCs, Advances, Walks,
         WalkStarts, Inserts, Frees, Keeps, Looks, Made, Creates, Begins
    <3> QED BY <3>4, <3>6 DEF Inside
  <2> QED BY <2>1, <2>2
<1> QED BY <1>2, <1>3, <1>4, <1>5, <1>6, <1>7, StepKinds

\* Subscriptions are only added.
LEMMA SubscribesGrow ==
  ASSUME ServiceInv, ServiceInv', Next, NEW c \in Conns, NEW t
  PROVE  /\ rd'[c] \in Nat /\ Subscribes(c, t)' \in SUBSET (1..rd'[c])
         /\ Subscribes(c, t) \subseteq Subscribes(c, t)'
         /\ Eligible(c, t) \subseteq Eligible(c, t)'
         /\ Replayable(c, t) \subseteq Replayable(c, t)'
<1>1. /\ rd[c] \in Nat /\ rd'[c] \in Nat /\ rd[c] <= rd'[c]
      /\ \A n \in 1..rd[c] : log'[c][n] = log[c][n]
  <2>1. LogTypes
    BY DEF ServiceInv, TypeInv
  <2>2. rd[c] \in Nat /\ Len(log[c]) \in Nat /\ rd[c] <= Len(log[c])
    BY <2>1, LogGrows
  <2>3. \A n \in 1..rd[c] : n \in 1..Len(log[c])
    BY <2>2
  <2> QED BY <2>1, <2>3, LogGrows
<1>2. \A n \in 1..rd[c] : n \in 1..rd'[c] /\ (n = rd'[c] => rd'[c] = rd[c])
  BY <1>1
<1>3. Subscribes(c, t) \subseteq Subscribes(c, t)'
  BY <1>1, <1>2 DEF Subscribes
<1>4. Subscribes(c, t)' \in SUBSET (1..rd'[c])
  BY DEF Subscribes
<1>5. \A n \in Subscribes(c, t) : n = rd'[c] => rd'[c] = rd[c] /\ n = rd[c]
  BY <1>2 DEF Subscribes
<1>6. rd'[c] = rd[c] /\ Inside(c, InsertPCs)' => Inside(c, InsertPCs)
  BY InsertingFrom
<1>7. rd'[c] = rd[c] /\ Stage(c)' \in {"working", "replay"}
        => Stage(c) \in {"working", "replay"}
  BY StageMoves
<1>8. Eligible(c, t) \subseteq Eligible(c, t)'
  BY <1>3, <1>5, <1>6 DEF Eligible
<1>9. Replayable(c, t) \subseteq Replayable(c, t)'
  BY <1>3, <1>5, <1>7 DEF Replayable
<1> QED BY <1>1, <1>3, <1>4, <1>8, <1>9

-----------------------------------------------------------------------------
(***************************************************************************)
(* The bounds on the copies, part by part.                                 *)
(***************************************************************************)
LEMMA ObjectType ==
  ASSUME TopicTypes, NEW o \in 1..Len(heap) PROVE heap[o].subs \in Seq(Conns)
<1>1. heap[o] \in TopicObjects
  BY DEF TopicTypes
<1> QED BY <1>1 DEF TopicObjects

LEMMA SubsStep ==
  ASSUME DeliveryInv, ServiceInv', Next, NEW o \in 1..Len(heap'), NEW c \in Conns
  PROVE  SubsAt(o, c)'
<1>0. /\ ServiceInv /\ TypeInv /\ TopicTypes /\ OneOwner /\ CurIsConn
      /\ rd[c] \in Nat
  BY DEF DeliveryInv, TopicInv, ServiceInv, TypeInv, OwnerInv, LogTypes
<1>1. /\ Len(heap) \in Nat
      /\ \A x \in 1..Len(heap) : OldObject(x)
      /\ \A x \in 1..Len(heap') : x \in 1..Len(heap) \/ NewObject(x)
  BY <1>0, HeapShape, HeapView
<1>2. PICK t : t = heap'[o].name
  OBVIOUS
<1>3. /\ Eligible(c, t) \subseteq Eligible(c, t)' /\ rd'[c] \in Nat
      /\ Eligible(c, t)' \in SUBSET (1..rd'[c])
      /\ Eligible(c, t) \in SUBSET (1..rd[c])
      /\ Subscribes(c, t) \subseteq Subscribes(c, t)'
  BY <1>0, SubscribesGrow DEF Eligible, Subscribes
<1>4. /\ Cardinality(Eligible(c, t)) \in Nat /\ Cardinality(Eligible(c, t)') \in Nat
      /\ Cardinality(Eligible(c, t)) <= Cardinality(Eligible(c, t)')
  BY <1>0, <1>3, CardNat, CardSub
<1>5. SubsAt(o, c)' <=> Cardinality(Places(heap'[o].subs, c))
                          <= Cardinality(Eligible(c, t)')
  BY <1>2 DEF SubsAt, Eligible, Subscribes
<1>6. CASE NewObject(o)
  <2>1. heap'[o].subs = <<>>
    BY <1>6 DEF NewObject, Topic
  <2>2. Places(<<>>, c) = {}
    BY DEF Places
  <2>3. Cardinality(Places(heap'[o].subs, c)) = 0
    BY <2>1, <2>2, FS_EmptySet
  <2> QED BY <1>4, <1>5, <2>3
<1>7. CASE o \in 1..Len(heap)
  <2>1. OldObject(o) /\ t = heap[o].name /\ heap[o].subs \in Seq(Conns)
    BY <1>0, <1>1, <1>2, <1>7, ObjectType DEF OldObject
  <2>2. /\ Cardinality(Places(heap[o].subs, c)) <= Cardinality(Eligible(c, t))
        /\ Cardinality(Places(heap[o].subs, c)) \in Nat
        /\ Len(heap[o].subs) \in Nat
        /\ Places(heap[o].subs, c) \in SUBSET (1..Len(heap[o].subs))
    BY <1>7, <2>1, PlacesNat DEF DeliveryInv, SubsAt
  <2>3. CASE heap'[o].subs = heap[o].subs
    BY <1>4, <1>5, <2>2, <2>3
  <2>4. ASSUME NEW w \in Workers, Inserts(w), tgt[w] = o,
               heap'[o].subs = <<cur[w]>> \o heap[o].subs
        PROVE  SubsAt(o, c)'
    <3>1. /\ pc[w] = "sub_insert" /\ cur[w] \in Conns /\ cur[w] \in batch[w]
          /\ WorkAt(w) /\ HandlerAt(w) /\ PlaceAt(w)
      BY <1>0, <2>4 DEF Inserts, CurIsConn, OneOwner, ServiceInv, TypeInv,
         HandlerInv, DeliveryInv, TopicInv
    <3>p. PICK q, d : q = heap[o].subs /\ d = cur[w]
      OBVIOUS
    <3>q. Places(<<d>> \o q, c) = IF c = d THEN Places(q, c) \cup {Len(q) + 1}
                                           ELSE Places(q, c)
      <4>1. q \in Seq(Conns) /\ d \in Conns
        BY <2>1, <3>1, <3>p
      <4> QED BY <4>1, PlacesPush
    <3>2. CASE c # cur[w]
      <4>1. Places(heap'[o].subs, c) = Places(heap[o].subs, c)
        BY <2>4, <3>2, <3>p, <3>q
      <4> QED BY <1>4, <1>5, <2>2, <4>1
    <3>3. CASE c = cur[w]
      <4>1. PICK n \in Nat : n = Len(heap[o].subs)
        BY <2>2
      <4>2. Places(heap'[o].subs, c) = Places(heap[o].subs, c) \cup {n + 1}
        BY <2>4, <3>3, <3>p, <3>q, <4>1
      <4>3. n + 1 \notin Places(heap[o].subs, c)
        BY <2>2, <4>1
      <4>4. Cardinality(Places(heap'[o].subs, c))
              = Cardinality(Places(heap[o].subs, c)) + 1
        BY <2>2, <4>1, <4>2, <4>3, CardAdd
      <4>5. rd[c] \in Subscribes(c, t)
        <5>1. /\ job[w] = <<c, rd[c]>> /\ Known(job[w], "SUBSCRIBE")
              /\ Request(job[w]).topic = t
          BY <2>1, <2>4, <3>1, <3>3 DEF WorkAt, HandlerAt, PlaceAt, StartPCs, SubPCs
        <5>2. rd[c] \in 1..rd[c]
          BY <1>0, <5>1, BoundsAssumption DEF Known, RequestNames
        <5>3. log[c][rd[c]].req.op = "SUBSCRIBE" /\ log[c][rd[c]].req.topic = t
          BY <5>1 DEF Known, Request
        <5> QED BY <5>2, <5>3 DEF Subscribes
      <4>6. rd[c] \notin Eligible(c, t)
        BY <3>1, <3>3 DEF Eligible, Inside, InsertPCs
      <4>7. ~Inside(c, InsertPCs)'
        <5>1. Functions
          BY <1>0, HaveFunctions
        <5>2. pc'[w] \notin InsertPCs /\ cur' = cur
              /\ \A v \in Workers \ {w} : pc'[v] = pc[v]
          BY <2>4, <5>1 DEF Inserts, Goto, Functions, InsertPCs
        <5>3. \A v \in Workers \ {w} : pc[v] \in InsertPCs => cur[v] # c
          BY <1>0, <3>1, <3>3 DEF OneOwner, InsertPCs
        <5> QED BY <5>2, <5>3 DEF Inside
      <4>8. rd[c] \in Eligible(c, t)'
        BY <1>3, <4>5, <4>7 DEF Eligible
      <4>9. /\ Eligible(c, t) \cup {rd[c]} \subseteq Eligible(c, t)'
            /\ Cardinality(Eligible(c, t) \cup {rd[c]})
                 = Cardinality(Eligible(c, t)) + 1
        BY <1>0, <1>3, <4>6, <4>8, CardAdd
      <4>10. Cardinality(Eligible(c, t) \cup {rd[c]}) <= Cardinality(Eligible(c, t)')
        BY <1>3, <4>9, CardSub
      <4> QED BY <1>4, <1>5, <2>2, <4>4, <4>9, <4>10
    <3> QED BY <3>2, <3>3
  <2> QED BY <2>1, <2>3, <2>4 DEF OldObject
<1> QED BY <1>1, <1>6, <1>7

\* A step of another worker offers another message.
LEMMA OtherJobs ==
  ASSUME ServiceInv, ServiceInv', Next, NEW w \in Workers, pc[w] \in PubPCs,
         pc'[w] # "dead", pc[w] # "fanout" \/ todo'[w] = todo[w],
         NEW s \in Conns, NEW m, m = job[w]
  PROVE  Copies(s, m, "PUBLISH")' = Copies(s, m, "PUBLISH")
<1>0. OutTypes /\ LocalTypes /\ AllDead'
  BY DEF ServiceInv, TypeInv
<1>1. CASE SameCopies("PUBLISH")
  BY <1>1 DEF SameCopies
<1>2. ASSUME NEW v \in Workers, NEW c \in Conns, NEW x \in Conns,
             Offering(v, c, x), todo'[v] = Tail(todo[v]) \/ Down'
      PROVE  Copies(s, m, "PUBLISH")' = Copies(s, m, "PUBLISH")
  <2>1. todo'[v] = Tail(todo[v]) /\ todo[v] # <<>> /\ pc[v] = "fanout"
        /\ cur[v] = c /\ job[v] = <<c, rd[c]>>
    BY <1>0, <1>2 DEF AllDead, Down, Offering, Sending, Latest
  <2>2. v # w
    <3>1. PICK q : q = todo[v]
      OBVIOUS
    <3>2. q \in Seq(Conns) /\ q # <<>>
      BY <1>0, <2>1, <3>1 DEF LocalTypes
    <3>3. Len(Tail(q)) = Len(q) - 1 /\ Len(q) \in Nat
      BY <3>2
    <3>4. ASSUME Tail(q) = q PROVE FALSE
      <4>1. Len(q) = Len(q) - 1
        BY <3>3, <3>4
      <4> QED BY <3>3, <4>1
    <3> QED BY <2>1, <3>1, <3>4
  <2>3. job[w] = <<cur[w], rd[cur[w]]>>
    BY DEF ServiceInv, WorkAt
  <2>4. cur[v] # cur[w]
    BY <2>1, <2>2, Apart DEF PubPCs
  <2>5. job[v] # m
    BY <2>1, <2>3, <2>4
  <2>6. PICK f : f.re = job[v] /\ Added(x, f)
    BY <1>0, <1>2, PutsView DEF Offering, Sending
  <2> QED BY <1>0, <2>5, <2>6, CopiesAdded
<1> QED BY <1>1, <1>2, FramesAdded

LEMMA FanStep ==
  ASSUME DeliveryInv, ServiceInv', Next, NEW w \in Workers, NEW s \in Conns
  PROVE  FanAt(w, s)'
<1>0. /\ ServiceInv /\ TypeInv /\ TopicTypes /\ LocalTypes /\ OutTypes /\ OutTypes'
      /\ LocalTypes' /\ rd[s] \in Nat
  BY DEF DeliveryInv, TopicInv, ServiceInv, TypeInv, LogTypes
<1> SUFFICES ASSUME pc'[w] = "fanout" PROVE FanAt(w, s)'
  BY DEF FanAt
<1>1. Hand(w)
  BY <1>0, HandShape
<1>2. SameHand(w) /\ (Walks(w) \/ WalkStarts(w)) /\ pc[w] \in PubPCs
  BY <1>1 DEF Hand, HandPCs, SubPCs, PubPCs, Advances, Walks, WalkStarts,
     Inserts, Frees, Keeps, Looks, Made, Begins
<1>3. PICK m, t : m = job[w] /\ t = Request(m).topic
  OBVIOUS
<1>4. job'[w] = m /\ Request(m)' = Request(m)
  BY <1>0, <1>2, <1>3, HandKnown DEF SameHand, HandPCs, Request
<1>5. /\ Subscribes(s, t) \subseteq Subscribes(s, t)' /\ rd'[s] \in Nat
      /\ Subscribes(s, t)' \in SUBSET (1..rd'[s])
      /\ Subscribes(s, t) \in SUBSET (1..rd[s])
  BY <1>0, SubscribesGrow DEF Subscribes
<1>6. /\ Cardinality(Subscribes(s, t)) \in Nat
      /\ Cardinality(Subscribes(s, t)') \in Nat
      /\ Cardinality(Subscribes(s, t)) <= Cardinality(Subscribes(s, t)')
  BY <1>0, <1>5, CardNat, CardSub
<1>7. FanAt(w, s)' <=>
        Cardinality(Copies(s, m, "PUBLISH")') + Cardinality(Places(todo'[w], s))
          <= Cardinality(Subscribes(s, t)')
  BY <1>3, <1>4 DEF FanAt, Copies, Subscribes
<1>8. /\ Cardinality(Copies(s, m, "PUBLISH")) \in Nat
      /\ todo[w] \in Seq(Conns) /\ Cardinality(Places(todo[w], s)) \in Nat
      /\ pc[w] = "fanout" =>
           Cardinality(Copies(s, m, "PUBLISH")) + Cardinality(Places(todo[w], s))
             <= Cardinality(Subscribes(s, t))
  BY <1>0, <1>3, CopiesNat, PlacesNat DEF LocalTypes, DeliveryInv, FanAt
<1>9. CASE pc[w] = "fanout" /\ todo'[w] = todo[w]
  <2>1. Copies(s, m, "PUBLISH")' = Copies(s, m, "PUBLISH")
    BY <1>0, <1>2, <1>3, <1>9, OtherJobs
  <2> QED BY <1>6, <1>7, <1>8, <1>9, <2>1
<1>10. CASE /\ pc[w] = "fanout" /\ Sending(w, Head(todo[w]))
            /\ todo'[w] = Tail(todo[w])
  <2>1. PICK h : h = Head(todo[w])
    OBVIOUS
  <2>2. PICK f : f.op = "PUBLISH" /\ f.re = m /\ Added(h, f) /\ h \in Conns
    BY <1>0, <1>3, <1>10, <2>1, PutsView DEF Sending
  <2>3. PICK q : q = todo[w]
    OBVIOUS
  <2>4. /\ q \in Seq(Conns) /\ q # <<>> /\ Tail(q) \in Seq(Conns)
        /\ Len(q) \in Nat
    BY <1>8, <1>10, <2>3 DEF Sending
  <2>5. /\ Places(q, s) = IF s = h THEN Places(Tail(q), s) \cup {Len(q)}
                                   ELSE Places(Tail(q), s)
        /\ Len(q) \notin Places(Tail(q), s)
        /\ Places(Tail(q), s) \in SUBSET (1..Len(Tail(q)))
        /\ Len(Tail(q)) \in Nat
        /\ Cardinality(Places(Tail(q), s)) \in Nat
    BY <2>1, <2>3, <2>4, PlacesPop, PlacesNat
  <2>6. s = h => Cardinality(Places(q, s)) = Cardinality(Places(Tail(q), s)) + 1
    BY <2>5, CardAdd
  <2>7. CASE s = h
    <3>1. Cardinality(Copies(s, m, "PUBLISH")')
            = Cardinality(Copies(s, m, "PUBLISH")) + 1
      BY <1>0, <2>2, <2>7, CopiesAdded
    <3> QED BY <1>6, <1>7, <1>8, <1>10, <2>3, <2>5, <2>6, <2>7, <3>1
  <2>8. CASE s # h
    <3>1. Copies(s, m, "PUBLISH")' = Copies(s, m, "PUBLISH")
      BY <1>0, <2>2, <2>8, CopiesAdded
    <3> QED BY <1>6, <1>7, <1>8, <1>10, <2>3, <2>5, <2>8, <3>1
  <2> QED BY <2>7, <2>8
<1>11. CASE WalkStarts(w)
  <2>1. pc[w] \in {"retain", "keep"} /\ todo'[w] = heap[loc[w]].subs
    BY <1>11 DEF WalkStarts, Keeps
  <2>2. PICK c, o : c = cur[w] /\ o = loc[w]
    OBVIOUS
  <2>3. /\ c \in Conns /\ ctx[c] = "reply" /\ reply[c].op = "PUBLISH"
        /\ m = <<c, rd[c]>> /\ o \in 1..Len(heap) /\ heap[o].name = t
        /\ OneOwner /\ AllDead
    <3>1. /\ WorkAt(w) /\ HandlerAt(w) /\ PlaceAt(w) /\ OneOwner /\ AllDead
          /\ CurIsConn /\ o \in 0..Len(heap) /\ Len(heap) \in Nat
      BY <1>0, <2>2 DEF ServiceInv, TypeInv, OwnerInv, HandlerInv, DeliveryInv,
         TopicInv, LocalTypes, TopicTypes
    <3>2. o # 0
      BY <1>2, <2>1, <2>2, <3>1 DEF HandlerAt, PubPCs
    <3>3. o \in 1..Len(heap)
      BY <3>1, <3>2
    <3>4. /\ ctx[c] = "reply" /\ reply[c].op = "PUBLISH" /\ m = <<c, rd[c]>>
      BY <1>2, <1>3, <2>2, <3>1 DEF WorkAt
    <3>5. heap[o].name = t /\ c \in Conns
      BY <1>3, <2>1, <2>2, <3>1 DEF PlaceAt, FoundPCs, CurIsConn
    <3> QED BY <3>1, <3>3, <3>4, <3>5
  <2>4. ~LastUnanswerable(c)
    BY <1>0, <2>3 DEF ServiceInv, ReplyAt, Fits, LastUnanswerable
  <2>5. /\ ~Inside(c, {"suback_retained"}) /\ ~Inside(c, {"fanout"})
        /\ ~Inside(c, {"dead"})
    BY <1>0, <2>1, <2>2, <2>3, Apart DEF Inside, AllDead
  <2>6. ~Down
    BY <2>1, <2>3 DEF Down, AllDead
  <2>7. Stage(c) = "working"
    BY <2>3, <2>4, <2>5, <2>6 DEF Stage, Down
  <2>8. Copies(s, m, "PUBLISH") = {}
    BY <2>3, <2>5, <2>7 DEF DeliveryInv, UnsentAt, Latest
  <2>9. Copies(s, m, "PUBLISH")' = {}
    BY <1>0, <1>2, <1>3, <2>1, <2>8, OtherJobs
  <2>10. Cardinality(Copies(s, m, "PUBLISH")') = 0
    BY <2>9, FS_EmptySet
  <2>11. Cardinality(Places(heap[o].subs, s)) <= Cardinality(Eligible(s, t))
    BY <2>3 DEF DeliveryInv, SubsAt
  <2>12. Eligible(s, t) \in SUBSET Subscribes(s, t)
    BY DEF Eligible
  <2>13. /\ Cardinality(Eligible(s, t)) <= Cardinality(Subscribes(s, t))
         /\ Cardinality(Eligible(s, t)) \in Nat
    BY <1>0, <1>5, <2>12, CardSub, CardNat
  <2>14. /\ todo'[w] = heap[o].subs
         /\ Cardinality(Places(heap[o].subs, s)) \in Nat
    BY <1>0, <2>1, <2>2, <2>3, PlacesNat, ObjectType
  <2> QED BY <1>6, <1>7, <2>10, <2>11, <2>13, <2>14
<1> QED BY <1>2, <1>9, <1>10, <1>11 DEF Walks

LEMMA UnsentStep ==
  ASSUME DeliveryInv, ServiceInv', Next, NEW c \in Conns
  PROVE  UnsentAt(c)'
<1>0. ServiceInv /\ OutTypes /\ rd \in [Conns -> Nat] /\ rd'[c] \in Nat
  BY DEF DeliveryInv, TopicInv, ServiceInv, TypeInv, LogTypes
<1> SUFFICES ASSUME Stage(c)' = "working", ~Inside(c, {"fanout"})', NEW s \in Conns
             PROVE  (Copies(s, Latest(c), "PUBLISH") = {})'
  BY DEF UnsentAt
<1>1. PICK m : m = <<c, rd'[c]>>
  OBVIOUS
<1>2. SUFFICES Copies(s, m, "PUBLISH")' = {}
  BY <1>1 DEF Latest, Copies
<1>3. Copies(s, m, "PUBLISH") = {}
  <2>1. CASE rd'[c] = rd[c]
    <3>1. Stage(c) = "working"
      BY <1>0, <2>1, StageMoves
    <3>2. ~Inside(c, {"fanout"})
      BY <1>0, FanOutGoesOn
    <3> QED BY <1>1, <2>1, <3>1, <3>2 DEF DeliveryInv, UnsentAt, Latest
  <2>2. CASE rd'[c] # rd[c]
    <3>1. rd[c] < rd'[c] /\ rd[c] \in Nat
      BY <1>0, <2>2, LogGrows DEF ServiceInv, TypeInv
    <3>2. ~Known(m, "PUBLISH")
      BY <1>0, <1>1, <3>1 DEF Known
    <3>3. PublishAt(s)
      BY DEF DeliveryInv, FrameInv
    <3> QED BY <3>2, <3>3 DEF PublishAt, Copies
  <2> QED BY <2>1, <2>2
<1>4. CASE SameCopies("PUBLISH")
  BY <1>3, <1>4 DEF SameCopies
<1>5. ASSUME NEW w \in Workers, NEW d \in Conns, NEW x \in Conns, Offering(w, d, x)
      PROVE  Copies(s, m, "PUBLISH")' = {}
  <2>1. pc[w] = "fanout" /\ cur[w] = d /\ job[w] = <<d, rd[d]>>
    BY <1>5 DEF Offering, Sending, Latest
  <2>2. d # c
    BY <1>0, <2>1, FanOutGoesOn DEF Inside
  <2>3. PICK f : f.re = job[w] /\ Added(x, f)
    BY <1>0, <1>5, PutsView DEF Offering, Sending
  <2>4. f.re # m
    BY <1>1, <2>1, <2>2, <2>3
  <2> QED BY <1>0, <1>3, <2>3, <2>4, CopiesAdded
<1> QED BY <1>0, <1>4, <1>5, FramesAdded

LEMMA CountStep ==
  ASSUME DeliveryInv, ServiceInv', Next, NEW c \in Conns
  PROVE  CountAt(c)'
<1>0. /\ ServiceInv /\ OutTypes /\ OutTypes' /\ LogTypes /\ LocalTypes
      /\ rd[c] \in Nat
  BY DEF DeliveryInv, TopicInv, ServiceInv, TypeInv, LogTypes
<1> SUFFICES ASSUME NEW m \in RequestNames, Copies(c, m, "PUBLISH")' # {}
             PROVE  Cardinality(Copies(c, m, "PUBLISH")')
                      <= Cardinality(Subscribes(c, Request(m).topic)')
  BY DEF CountAt
<1>1. PICK t : t = Request(m).topic
  OBVIOUS
<1>2. /\ Cardinality(Subscribes(c, t)) \in Nat
      /\ Cardinality(Subscribes(c, t)') \in Nat
      /\ Cardinality(Subscribes(c, t)) <= Cardinality(Subscribes(c, t)')
      /\ Cardinality(Copies(c, m, "PUBLISH")) \in Nat
  <2>1. /\ Subscribes(c, t) \subseteq Subscribes(c, t)' /\ rd'[c] \in Nat
        /\ Subscribes(c, t)' \in SUBSET (1..rd'[c])
        /\ Subscribes(c, t) \in SUBSET (1..rd[c])
    BY <1>0, SubscribesGrow DEF Subscribes
  <2> QED BY <1>0, <2>1, CardNat, CardSub, CopiesNat
<1>3. ASSUME Known(m, "PUBLISH")
      PROVE  Subscribes(c, Request(m).topic)' = Subscribes(c, t)'
  BY <1>0, <1>1, <1>3, KeptStays DEF Subscribes
<1>4. CASE Copies(c, m, "PUBLISH")' = Copies(c, m, "PUBLISH")
  <2>1. Known(m, "PUBLISH")
    BY <1>4 DEF DeliveryInv, FrameInv, PublishAt, Copies
  <2>2. Cardinality(Copies(c, m, "PUBLISH")) <= Cardinality(Subscribes(c, t))
    BY <1>1, <1>4 DEF DeliveryInv, CountAt
  <2> QED BY <1>2, <1>3, <1>4, <2>1, <2>2
<1>5. ASSUME NEW w \in Workers, NEW d \in Conns, NEW x \in Conns, Offering(w, d, x)
      PROVE  \/ Copies(c, m, "PUBLISH")' = Copies(c, m, "PUBLISH")
             \/ Cardinality(Copies(c, m, "PUBLISH")')
                  <= Cardinality(Subscribes(c, Request(m).topic)')
  <2>1. PICK f : f.op = "PUBLISH" /\ f.re = job[w] /\ Added(x, f)
    BY <1>0, <1>5, PutsView DEF Offering, Sending
  <2>2. CASE x = c /\ job[w] = m
    <3>1. Cardinality(Copies(c, m, "PUBLISH")')
            = Cardinality(Copies(c, m, "PUBLISH")) + 1
      BY <1>0, <2>1, <2>2, CopiesAdded
    <3>2. PICK q : q = todo[w]
      OBVIOUS
    <3>3. /\ q \in Seq(Conns) /\ q # <<>> /\ Head(q) = c /\ pc[w] = "fanout"
          /\ Known(m, "PUBLISH")
      BY <1>0, <1>5, <2>2, <3>2 DEF Offering, Sending, LocalTypes
    <3>4. Places(q, c) # {} /\ IsFiniteSet(Places(q, c)) /\ Cardinality(Places(q, c)) \in Nat
      BY <3>3, PlacesPop, PlacesNat
    <3>5. Cardinality(Places(q, c)) # 0
      BY <3>4, FS_EmptySet
    <3>6. Cardinality(Copies(c, m, "PUBLISH")) + Cardinality(Places(q, c))
            <= Cardinality(Subscribes(c, t))
      BY <1>1, <2>2, <3>2, <3>3 DEF DeliveryInv, FanAt
    <3> QED BY <1>2, <1>3, <3>1, <3>3, <3>4, <3>5, <3>6
  <2>3. CASE ~(x = c /\ job[w] = m)
    BY <1>0, <2>1, <2>3, CopiesAdded
  <2> QED BY <2>2, <2>3
<1> QED BY <1>0, <1>4, <1>5, FramesAdded DEF SameCopies

LEMMA RetainedStep ==
  ASSUME DeliveryInv, ServiceInv', Next, NEW c \in Conns
  PROVE  RetainedAt(c)'
<1>0. /\ ServiceInv /\ OutTypes /\ OutTypes' /\ LogTypes /\ rd[c] \in Nat
      /\ CarriedAt(c) /\ TopicTypes
  BY DEF DeliveryInv, TopicInv, ServiceInv, TypeInv, LogTypes
<1> SUFFICES ASSUME NEW m \in RequestNames, Copies(c, m, "RETAINED")' # {}
             PROVE  /\ Known(m, "PUBLISH")'
                    /\ Cardinality(Copies(c, m, "RETAINED")')
                         <= Cardinality(Replayable(c, Request(m).topic)')
  BY DEF RetainedAt
<1>1. PICK t : t = Request(m).topic
  OBVIOUS
<1>2. /\ Replayable(c, t) \subseteq Replayable(c, t)' /\ rd'[c] \in Nat
      /\ Replayable(c, t)' \in SUBSET (1..rd'[c])
      /\ Replayable(c, t) \in SUBSET (1..rd[c])
      /\ Subscribes(c, t) \subseteq Subscribes(c, t)'
  BY <1>0, SubscribesGrow DEF Replayable, Subscribes
<1>3. /\ Cardinality(Replayable(c, t)) \in Nat
      /\ Cardinality(Replayable(c, t)') \in Nat
      /\ Cardinality(Replayable(c, t)) <= Cardinality(Replayable(c, t)')
      /\ Cardinality(Copies(c, m, "RETAINED")) \in Nat
  BY <1>0, <1>2, CardNat, CardSub, CopiesNat
<1>4. Cardinality(Copies(c, m, "RETAINED")) <= Cardinality(Replayable(c, t))
  <2>1. CASE Copies(c, m, "RETAINED") = {}
    BY <1>3, <2>1, FS_EmptySet
  <2>2. CASE Copies(c, m, "RETAINED") # {}
    BY <1>1, <2>2 DEF DeliveryInv, RetainedAt
  <2> QED BY <2>1, <2>2
<1>5. ASSUME Known(m, "PUBLISH")
      PROVE  /\ Known(m, "PUBLISH")'
             /\ Replayable(c, Request(m).topic)' = Replayable(c, t)'
  BY <1>0, <1>1, <1>5, KeptStays DEF Replayable, Subscribes
<1>6. CASE Copies(c, m, "RETAINED")' = Copies(c, m, "RETAINED")
  <2>1. Known(m, "PUBLISH")
    BY <1>6 DEF DeliveryInv, RetainedAt
  <2> QED BY <1>3, <1>4, <1>5, <1>6, <2>1
<1>7. ASSUME NEW d \in Conns, Repeats(d),
             Copies(c, m, "RETAINED")' # Copies(c, m, "RETAINED")
      PROVE  /\ Known(m, "PUBLISH")'
             /\ Cardinality(Copies(c, m, "RETAINED")')
                  <= Cardinality(Replayable(c, Request(m).topic)')
  <2>1. PICK r \in RequestNames \cup {Wild} :
          /\ Puts(d, "RETAINED", 0, r)
          /\ IF reply[d].retained \in live THEN r = reply[d].retained ELSE r = Wild
    BY <1>7 DEF Repeats
  <2>2. PICK f : f.op = "RETAINED" /\ f.re = r /\ Added(d, f)
    BY <1>0, <2>1, PutsView
  <2>3. d = c /\ r = m
    BY <1>0, <1>7, <2>2, CopiesAdded
  <2>4. m # Wild /\ m # NoMsg
    BY DEF RequestNames, Wild, NoMsg
  <2>5. reply[c].retained = m
    BY <2>1, <2>3, <2>4
  <2>6. /\ Stage(c) = "replay" /\ rd[c] > 0 /\ Stage(c)' = "ready"
        /\ Request(<<c, rd[c]>>).op = "SUBSCRIBE" /\ ctx[c] = "reply"
        /\ UNCHANGED <<log, rd>>
    BY <1>7, <2>3 DEF Repeats, To, Latest
  <2>7. Kept(m, Request(<<c, rd[c]>>).topic)
    BY <1>0, <2>4, <2>5, <2>6 DEF CarriedAt
  <2>8. Known(m, "PUBLISH") /\ Request(<<c, rd[c]>>).topic = t
    BY <1>1, <2>7 DEF Kept
  <2>9. rd[c] \in Subscribes(c, t)
    BY <1>0, <2>6, <2>8 DEF Subscribes, Request
  <2>10. rd[c] \notin Replayable(c, t) /\ rd[c] \in Replayable(c, t)'
    BY <1>2, <2>6, <2>9 DEF Replayable
  <2>11. Cardinality(Replayable(c, t) \cup {rd[c]}) = Cardinality(Replayable(c, t)) + 1
    BY <1>0, <1>2, <2>10, CardAdd
  <2>12. Cardinality(Replayable(c, t) \cup {rd[c]}) <= Cardinality(Replayable(c, t)')
    <3>1. Replayable(c, t) \cup {rd[c]} \in SUBSET Replayable(c, t)'
      BY <1>2, <2>10
    <3> QED BY <1>2, <3>1, CardSub
  <2>13. Cardinality(Copies(c, m, "RETAINED")')
           = Cardinality(Copies(c, m, "RETAINED")) + 1
    BY <1>0, <2>2, <2>3, CopiesAdded
  <2> QED BY <1>3, <1>4, <1>5, <2>8, <2>11, <2>12, <2>13
<1> QED BY <1>0, <1>6, <1>7, FramesAdded DEF SameCopies

LEMMA DeliveryInit == Init => DeliveryInv
<1> SUFFICES ASSUME Init PROVE DeliveryInv
  OBVIOUS
<1>1. FrameInv /\ ServiceInv
  BY FrameInit DEF FrameInv
<1>2. /\ heap = <<>> /\ Len(heap) = 0
      /\ \A t \in Topics : topics[t] = 0
      /\ \A w \in Workers : pc[w] = "poll"
      /\ \A c \in Conns : /\ ctx[c] = "request" /\ rd[c] = 0
                          /\ outbox[c] = <<>> /\ DOMAIN outbox[c] = {}
  BY DEF Init
<1>3. TopicInv
  BY <1>1, <1>2 DEF TopicInv, PlaceAt, CarriedAt, FoundPCs
<1>4. \A c \in Conns : \A m, op : Copies(c, m, op) = {}
  BY <1>2 DEF Copies
<1> QED BY <1>1, <1>2, <1>3, <1>4 DEF DeliveryInv, FanAt, UnsentAt, CountAt,
           RetainedAt

LEMMA DeliveryNext == DeliveryInv /\ [Next]_vars => DeliveryInv'
<1> SUFFICES ASSUME DeliveryInv, [Next]_vars PROVE DeliveryInv'
  OBVIOUS
<1>1. FrameInv' /\ ServiceInv' /\ TypeInv'
  BY FrameNext DEF DeliveryInv, FrameInv, ServiceInv
<1>2. CASE Next
  <2>1. TopicInv'
    BY <1>1, <1>2, TopicStep DEF DeliveryInv, TopicInv, TopicParts
  <2>2. /\ \A o \in 1..Len(heap'), c \in Conns : SubsAt(o, c)'
        /\ \A w \in Workers, s \in Conns : FanAt(w, s)'
        /\ \A c \in Conns : UnsentAt(c)' /\ CountAt(c)' /\ RetainedAt(c)'
    BY <1>1, <1>2, SubsStep, FanStep, UnsentStep, CountStep, RetainedStep
  <2> QED BY <1>1, <2>1, <2>2 DEF DeliveryInv
<1>3. CASE UNCHANGED vars
  <2>1. UNCHANGED <<log, rd, ctx, reply, outbox, pc, cur, job, loc, tgt, todo,
                    heap, topics>>
    BY <1>3 DEF vars, netVars, connVars, workerVars, localVars, topicVars
  <2>2. \A c \in Conns : Stage(c)' = Stage(c)
    BY <2>1 DEF Stage, Inside, LastUnanswerable, Request
  <2>3. TopicInv'
    BY <1>1, <2>1 DEF DeliveryInv, TopicInv, KeptAt, PlaceAt, CarriedAt, Kept,
       Known, Request
  <2>4. \A o \in 1..Len(heap'), c \in Conns : SubsAt(o, c)'
    BY <2>1 DEF DeliveryInv, SubsAt, Eligible, Subscribes, Inside
  <2>5. \A w \in Workers, s \in Conns : FanAt(w, s)'
    BY <2>1 DEF DeliveryInv, FanAt, Copies, Subscribes, Request
  <2>6. ASSUME NEW c \in Conns PROVE UnsentAt(c)' /\ CountAt(c)' /\ RetainedAt(c)'
    <3>1. UnsentAt(c) /\ CountAt(c) /\ RetainedAt(c) /\ Stage(c)' = Stage(c)
      BY <2>2 DEF DeliveryInv
    <3>2. UnsentAt(c)'
      BY <2>1, <3>1 DEF UnsentAt, Inside, Copies, Latest
    <3>3. CountAt(c)'
      BY <2>1, <3>1 DEF CountAt, Copies, Subscribes, Request
    <3>4. RetainedAt(c)'
      BY <2>1, <3>1 DEF RetainedAt, Copies, Replayable, Subscribes, Request, Known
    <3> QED BY <3>2, <3>3, <3>4
  <2> QED BY <1>1, <2>3, <2>4, <2>5, <2>6 DEF DeliveryInv
<1> QED BY <1>2, <1>3

(* In every behaviour: a message reaches a connection at most once for     *)
(* each SUBSCRIBE the connection made to the message's topic, distributed  *)
(* by publish_message, and at most as often again as the retained message  *)
(* that follows a SUBACK.                                                  *)
THEOREM CopiesBoundedHolds == Spec => []CopiesBounded
<1>1. DeliveryInv => CopiesBounded
  <2> SUFFICES ASSUME DeliveryInv, NEW c \in Conns, NEW m \in RequestNames,
                      NEW op \in {"PUBLISH", "RETAINED"}, Copies(c, m, op) # {}
               PROVE  /\ Known(m, "PUBLISH")
                      /\ Cardinality(Copies(c, m, op))
                           <= Cardinality(Subscribes(c, Request(m).topic))
    BY DEF CopiesBounded, Known
  <2>1. CASE op = "PUBLISH"
    BY <2>1 DEF DeliveryInv, FrameInv, PublishAt, CountAt, Copies
  <2>2. CASE op = "RETAINED"
    <3>1. PICK t : t = Request(m).topic
      OBVIOUS
    <3>2. /\ Known(m, "PUBLISH")
          /\ Cardinality(Copies(c, m, op)) <= Cardinality(Replayable(c, t))
      BY <2>2, <3>1 DEF DeliveryInv, RetainedAt
    <3>3. /\ Replayable(c, t) \in SUBSET Subscribes(c, t) /\ rd[c] \in Nat
          /\ Subscribes(c, t) \in SUBSET (1..rd[c]) /\ OutTypes
      BY DEF Replayable, Subscribes, DeliveryInv, TopicInv, ServiceInv, TypeInv,
         LogTypes
    <3>4. /\ Cardinality(Replayable(c, t)) <= Cardinality(Subscribes(c, t))
          /\ Cardinality(Replayable(c, t)) \in Nat
          /\ Cardinality(Subscribes(c, t)) \in Nat
          /\ Cardinality(Copies(c, m, op)) \in Nat
      BY <3>3, CardSub, CardNat, CopiesNat
    <3> QED BY <3>1, <3>2, <3>4
  <2> QED BY <2>1, <2>2
<1> QED BY <1>1, DeliveryInit, DeliveryNext, PTL DEF Spec

-----------------------------------------------------------------------------
(***************************************************************************)
(* The event loop implements the service: every step is the step of the    *)
(* service its kind names, or leaves what the service is about alone.      *)
(***************************************************************************)
Sent == [c \in Conns |-> [n \in DOMAIN log[c] |-> log[c][n].req]]
Stages == [c \in Conns |-> Stage(c)]

LEMMA SentView ==
  ASSUME LogTypes, NEW c \in Conns
  PROVE  /\ Sent[c] \in Seq(Requests) /\ Len(Sent[c]) = Len(log[c])
         /\ DOMAIN log[c] = 1..Len(log[c]) /\ Len(log[c]) \in Nat
         /\ \A n \in 1..Len(log[c]) : Sent[c][n] = log[c][n].req
<1>1. log[c] \in Seq(LogEntries)
  BY DEF LogTypes
<1>2. PICK k \in Nat : k = Len(log[c]) /\ DOMAIN log[c] = 1..k
  BY <1>1
<1>3. \A n \in 1..k : log[c][n].req \in Requests
  <2>1. \A n \in 1..k : log[c][n] \in LogEntries
    BY <1>1, <1>2
  <2> QED BY <2>1 DEF LogEntries
<1>4. Sent[c] = [n \in 1..k |-> log[c][n].req]
  BY <1>2 DEF Sent
<1>5. Sent[c] \in [1..k -> Requests]
  BY <1>3, <1>4
<1>6. Sent[c] \in Seq(Requests) /\ Len(Sent[c]) = k
  BY <1>5
<1> QED BY <1>2, <1>4, <1>6

LEMMA ServiceStart == Init => Service!Init
<1> SUFFICES ASSUME Init PROVE Service!Init
  OBVIOUS
<1>1. /\ log = [c \in Conns |-> <<>>] /\ rd = [c \in Conns |-> 0]
      /\ outbox = [c \in Conns |-> <<>>]
      /\ \A c \in Conns : ctx[c] = "request"
      /\ \A w \in Workers : pc[w] = "poll"
  BY DEF Init
<1>2. \A c \in Conns : Stage(c) = "ready"
  BY <1>1 DEF Stage, Inside, LastUnanswerable
<1>3. \A c \in Conns : [n \in DOMAIN log[c] |-> log[c][n].req] = <<>>
  BY <1>1
<1> QED BY <1>1, <1>2, <1>3 DEF Service!Init

LEMMA SendsRequest ==
  ASSUME LogTypes, LogTypes', NEW c \in Conns, NEW r \in Requests, Requested(c, r)
  PROVE  Service!Send(c, r)
<1>1. log' = [log EXCEPT ![c] = Append(@, [req |-> r, owed |-> Owed(r)])]
  BY DEF Requested
<1>2. PICK e : e = [req |-> r, owed |-> Owed(r)]
  OBVIOUS
<1>3. PICK k \in Nat : k = Len(log[c]) /\ DOMAIN log[c] = 1..k
  BY SentView
<1>4. log[c] \in Seq(LogEntries) /\ log \in [Conns -> Seq(LogEntries)]
  BY DEF LogTypes
<1>5. PICK q : q = log[c]
  OBVIOUS
<1>6. /\ DOMAIN Append(q, e) = 1..(k + 1)
      /\ \A n \in 1..k : Append(q, e)[n] = q[n]
      /\ Append(q, e)[k + 1] = e
  BY <1>3, <1>4, <1>5
<1>7. log'[c] = Append(q, e) /\ \A d \in Conns \ {c} : log'[d] = log[d]
  BY <1>1, <1>2, <1>4, <1>5
<1>8. e.req = r
  BY <1>2
<1>9. /\ Sent[c] \in Seq(Requests) /\ Len(Sent[c]) = k
      /\ \A n \in 1..k : Sent[c][n] = log[c][n].req
  BY <1>3, SentView
<1>10. Sent'[c] = [n \in 1..(k + 1) |-> log'[c][n].req]
  BY <1>6, <1>7 DEF Sent
<1>11. Sent'[c] = Append(Sent[c], r)
  <2>1. PICK p, p1 : p = Sent[c] /\ p1 = Append(p, r)
    OBVIOUS
  <2>2. /\ DOMAIN p1 = 1..(k + 1) /\ p1 \in Seq(Requests)
        /\ \A n \in 1..k : p1[n] = p[n]
        /\ p1[k + 1] = r
    BY <1>9, <2>1
  <2>3. p1 = [n \in 1..(k + 1) |-> p1[n]]
    BY <2>2
  <2>4. \A n \in 1..(k + 1) : p1[n] = log'[c][n].req
    <3> SUFFICES ASSUME NEW n \in 1..(k + 1) PROVE p1[n] = log'[c][n].req
      OBVIOUS
    <3>1. n \in 1..k \/ n = k + 1
      OBVIOUS
    <3> QED BY <1>5, <1>6, <1>7, <1>8, <1>9, <2>1, <2>2, <3>1
  <2> QED BY <1>10, <2>1, <2>3, <2>4
<1>12. \A d \in Conns \ {c} : Sent'[d] = Sent[d]
  BY <1>7 DEF Sent
<1>13. Sent' = [Sent EXCEPT ![c] = Append(@, r)]
  BY <1>11, <1>12 DEF Sent
<1>14. Stages' = Stages /\ UNCHANGED <<rd, outbox>>
  BY DEF Stages, Requested, StagesStay
<1> QED BY <1>13, <1>14 DEF Service!Send, Sent, Stages

LEMMA TakesRequest ==
  ASSUME ServiceInv, NEW c \in Conns, Reads(c) PROVE Service!Take(c)
<1>0. LogTypes /\ rd[c] \in Nat
  BY DEF ServiceInv, TypeInv, LogTypes
<1>1. /\ Stages[c] = "ready" /\ rd[c] < Len(Sent[c])
      /\ Sent[c][rd[c] + 1] = NextRequest(c)
  <2>1. Len(Sent[c]) = Len(log[c]) /\ Len(log[c]) \in Nat
    BY <1>0, SentView
  <2>2. rd[c] + 1 \in 1..Len(log[c])
    BY <1>0, <2>1 DEF Reads
  <2> QED BY <1>0, <2>1, <2>2, SentView
         DEF Reads, Stages, NextRequest, NextName, Request
<1>2. rd' = [rd EXCEPT ![c] = @ + 1] /\ UNCHANGED outbox /\ Sent' = Sent
  BY DEF Reads, Sent
<1>3. Stages' = [Stages EXCEPT ![c] = IF GivenUp(Sent[c][rd[c] + 1])
                                      THEN "mute" ELSE "working"]
  BY <1>1 DEF Reads, To, Stages
<1> QED BY <1>1, <1>2, <1>3 DEF Service!Take, Sent, Stages

\* Requests the service takes are those the broker has read.
LEMMA TakenView ==
  ASSUME LogTypes, NEW c \in Conns
  PROVE  /\ \A n \in 1..rd[c] : Sent[c][n] = log[c][n].req
         /\ \A t : Service!Taken(c, "SUBSCRIBE", t) = Subscribes(c, t)
         /\ \A m, t : m[1] = c /\ Kept(m, t) =>
              m[2] \in Service!Taken(c, "PUBLISH", t)
<1>1. \A n \in 1..rd[c] : n \in 1..Len(log[c])
  BY DEF LogTypes
<1>2. \A n \in 1..rd[c] : Sent[c][n] = log[c][n].req
  BY <1>1, SentView
<1>3. \A op, t : Service!Taken(c, op, t) =
                   {n \in 1..rd[c] : log[c][n].req.op = op /\ log[c][n].req.topic = t}
  BY <1>2 DEF Service!Taken, Sent
<1>4. \A t : Service!Taken(c, "SUBSCRIBE", t) = Subscribes(c, t)
  BY <1>3 DEF Subscribes
<1>5. ASSUME NEW m, NEW t, m[1] = c, Kept(m, t)
      PROVE  m[2] \in Service!Taken(c, "PUBLISH", t)
  <2>1. /\ m[2] \in 1..rd[c] /\ log[c][m[2]].req.op = "PUBLISH"
        /\ log[c][m[2]].req.topic = t
    BY <1>5, BoundsAssumption DEF Kept, Known, Request, RequestNames, LogTypes
  <2> QED BY <1>3, <2>1
<1> QED BY <1>2, <1>4, <1>5

LEMMA EmitsFrame ==
  ASSUME NEW c, NEW op, NEW rc, NEW re, Puts(c, op, rc, re)
  PROVE  Service!Emits(c, op, rc, re)
  BY DEF Puts, Service!Emits, Frame, SentKinds

LEMMA OffersMessage ==
  ASSUME DeliveryInv, NEW w \in Workers, NEW c \in Conns, NEW s \in Conns,
         Offering(w, c, s)
  PROVE  Service!Offers(c, s)
<1>0. LogTypes /\ LocalTypes /\ OutTypes /\ rd[s] \in Nat /\ rd[c] \in Nat
  BY DEF DeliveryInv, TopicInv, ServiceInv, TypeInv, LogTypes
<1>1. PICK m, r : m = <<c, rd[c]>> /\ r = Request(m)
  OBVIOUS
<1>2. /\ Stage(c) = "working" /\ job[w] = m /\ Known(m, "PUBLISH")
      /\ pc[w] = "fanout" /\ todo[w] # <<>> /\ Head(todo[w]) = s
      /\ Puts(s, "PUBLISH", 0, m)
  BY <1>1 DEF Offering, Sending, Latest
<1>3. Stages[c] = "working" /\ Sent[c][rd[c]] = r /\ r.op = "PUBLISH"
  <2>1. rd[c] \in 1..rd[c]
    BY <1>0, <1>1, <1>2, BoundsAssumption DEF Known, RequestNames
  <2> QED BY <1>0, <1>1, <1>2, <2>1, TakenView DEF Stages, Request, Known
<1>4. Cardinality(Copies(s, m, "PUBLISH")) < Cardinality(Subscribes(s, r.topic))
  <2>1. Cardinality(Copies(s, m, "PUBLISH")) + Cardinality(Places(todo[w], s))
          <= Cardinality(Subscribes(s, r.topic))
    BY <1>1, <1>2 DEF DeliveryInv, FanAt
  <2>2. todo[w] \in Seq(Conns)
    BY <1>0 DEF LocalTypes
  <2>3. /\ Places(todo[w], s) # {} /\ IsFiniteSet(Places(todo[w], s))
        /\ Cardinality(Places(todo[w], s)) \in Nat
    BY <1>2, <2>2, PlacesPop, PlacesNat
  <2>4. Cardinality(Places(todo[w], s)) # 0
    BY <2>3, FS_EmptySet
  <2>5. /\ Cardinality(Copies(s, m, "PUBLISH")) \in Nat
        /\ Cardinality(Subscribes(s, r.topic)) \in Nat
    BY <1>0, CopiesNat, SubscribesNat
  <2> QED BY <2>1, <2>3, <2>4, <2>5
<1>5. Service!Taken(s, "SUBSCRIBE", r.topic) = Subscribes(s, r.topic)
  BY <1>0, TakenView
<1>6. Service!Copies(c, s) = Copies(s, m, "PUBLISH")
  BY <1>1 DEF Copies, Service!Copies
<1>7. Service!Emits(s, "PUBLISH", 0, <<c, rd[c]>>)
  BY <1>1, <1>2, EmitsFrame
<1>8. Service!Current(c) = r
  BY <1>3 DEF Service!Current, Sent
<1>9. [d \in Conns |-> Stage(d)][c] = "working"
  BY <1>3 DEF Stages
<1>10. Cardinality(Service!Copies(c, s))
         < Cardinality(Service!Taken(s, "SUBSCRIBE", Service!Current(c).topic))
  BY <1>4, <1>5, <1>6, <1>8
<1>11. Service!Current(c).op = "PUBLISH"
  BY <1>3, <1>8
<1>12. \A S : Service!Cardinality(S) = Cardinality(S)
  BY DEF Service!Cardinality, Cardinality
<1> QED BY <1>7, <1>9, <1>10, <1>11, <1>12 DEF Service!Offers

LEMMA FinishesRequest ==
  ASSUME ServiceInv, NEW c \in Conns, NEW next \in {"ready", "replay"},
         Settles(c, next)
  PROVE  Service!Finish(c)
<1>0. LogTypes /\ rd[c] \in Nat
  BY DEF ServiceInv, TypeInv, LogTypes
<1>1. PICK r, a : r = Request(<<c, rd[c]>>) /\ a = Answer(r)
  OBVIOUS
<1>2. /\ Stage(c) = "working" /\ rd[c] > 0 /\ To(c, next) /\ UNCHANGED <<log, rd>>
      /\ IF a = <<>> THEN UNCHANGED outbox ELSE Puts(c, a[1], a[2], <<c, rd[c]>>)
      /\ next # "ready" => r.op = "SUBSCRIBE"
  BY <1>1 DEF Settles, Latest
<1>3. Service!Current(c) = r
  <2>1. rd[c] \in 1..rd[c]
    BY <1>0, <1>2
  <2>2. Sent[c][rd[c]] = r
    BY <1>0, <1>1, <2>1, TakenView DEF Request
  <2> QED BY <2>2 DEF Service!Current, Sent
<1>4. IF a = <<>> THEN UNCHANGED outbox
      ELSE Service!Emits(c, a[1], a[2], <<c, rd[c]>>)
  BY <1>2, EmitsFrame
<1>5. Stages[c] = "working" /\ Stages' = [Stages EXCEPT ![c] = next] /\ Sent' = Sent
  BY <1>2 DEF Stages, To, Sent
<1>6. next \in {"ready"} \cup (IF r.op = "SUBSCRIBE" THEN {"replay"} ELSE {})
  BY <1>2
<1> QED BY <1>1, <1>2, <1>3, <1>4, <1>5, <1>6 DEF Service!Finish, Sent, Stages

LEMMA ReplaysMessage ==
  ASSUME DeliveryInv, NEW c \in Conns, Repeats(c) PROVE Service!Replay(c)
<1>0. LogTypes /\ rd[c] \in Nat /\ CarriedAt(c) /\ TopicTypes
  BY DEF DeliveryInv, TopicInv, ServiceInv, TypeInv, LogTypes
<1>1. PICK r : r = Request(<<c, rd[c]>>)
  OBVIOUS
<1>2. /\ Stage(c) = "replay" /\ rd[c] > 0 /\ To(c, "ready") /\ UNCHANGED <<log, rd>>
      /\ ctx[c] = "reply"
  BY DEF Repeats
<1>3. PICK m \in RequestNames \cup {Wild} :
        /\ Puts(c, "RETAINED", 0, m)
        /\ IF reply[c].retained \in live THEN m = reply[c].retained ELSE m = Wild
  BY DEF Repeats
<1>4. Service!Current(c) = r
  <2>1. rd[c] \in 1..rd[c]
    BY <1>0, <1>2
  <2>2. Sent[c][rd[c]] = r
    BY <1>0, <1>1, <2>1, TakenView DEF Request
  <2> QED BY <2>2 DEF Service!Current, Sent
<1>5. m \in Service!Retained(r.topic) \cup {Wild}
  <2>1. CASE m = Wild
    BY <2>1
  <2>2. CASE m # Wild
    <3>1. m \in RequestNames /\ m = reply[c].retained
      BY <1>3, <2>2
    <3>2. PICK d \in Conns, n \in 1..MaxSends : m = <<d, n>>
      BY <3>1 DEF RequestNames
    <3>3. m # NoMsg
      BY <3>2 DEF NoMsg
    <3>4. Kept(m, r.topic)
      BY <1>0, <1>1, <1>2, <2>2, <3>1, <3>3 DEF CarriedAt
    <3>5. n \in Service!Taken(d, "PUBLISH", r.topic) /\ n \in 1..rd[d]
      <4>1. m[1] = d /\ m[2] = n
        BY <3>2
      <4>2. n \in Service!Taken(d, "PUBLISH", r.topic)
        BY <1>0, <3>4, <4>1, TakenView
      <4> QED BY <4>2 DEF Service!Taken
    <3>6. Sent[d][n].retain
      BY <1>0, <3>4, <3>2, <3>5, TakenView DEF Kept, Request
    <3>7. m \in UNION {{x} \X Service!Taken(x, "PUBLISH", r.topic) : x \in Conns}
      BY <3>2, <3>5
    <3> QED BY <3>2, <3>6, <3>7 DEF Service!Retained, Sent
  <2> QED BY <2>1, <2>2
<1>6. Service!Emits(c, "RETAINED", 0, m)
  BY <1>3, EmitsFrame
<1>7. Stages[c] = "replay" /\ Stages' = [Stages EXCEPT ![c] = "ready"] /\ Sent' = Sent
  BY <1>2 DEF Stages, To, Sent
<1> QED BY <1>2, <1>4, <1>5, <1>6, <1>7 DEF Service!Replay, Sent, Stages

LEMMA ServiceStep ==
  DeliveryInv /\ DeliveryInv' /\ [Next]_vars => [Service!Next]_(Service!vars)
<1> SUFFICES ASSUME DeliveryInv, DeliveryInv', [Next]_vars
             PROVE  Service!Next \/ UNCHANGED Service!vars
  OBVIOUS
<1>0. ServiceInv /\ ServiceInv' /\ LogTypes /\ LogTypes'
  BY DEF DeliveryInv, TopicInv, ServiceInv, TypeInv
<1>1. ASSUME Idles PROVE UNCHANGED Service!vars
  <2>1. Sent' = Sent /\ Stages' = Stages /\ UNCHANGED <<rd, outbox>>
    BY <1>1 DEF Idles, StagesStay, Sent, Stages
  <2> QED BY <2>1 DEF Service!vars, Sent, Stages
<1>2. ASSUME NEW c \in Conns, NEW r \in Requests, Requested(c, r) PROVE Service!Next
  BY <1>0, <1>2, SendsRequest DEF Service!Next
<1>3. ASSUME NEW c \in Conns, Reads(c) PROVE Service!Next
  BY <1>0, <1>3, TakesRequest DEF Service!Next
<1>4. ASSUME StagesStay, NEW w \in Workers, NEW c \in Conns, NEW s \in Conns,
             Offering(w, c, s)
      PROVE  Service!Next
  <2>1. Service!Offers(c, s)
    BY <1>4, OffersMessage
  <2>2. Sent' = Sent /\ Stages' = Stages /\ UNCHANGED rd
    BY <1>4 DEF StagesStay, Offering, Sent, Stages
  <2> QED BY <2>1, <2>2 DEF Service!Next, Service!Distribute, Sent, Stages
<1>5. ASSUME NEW c \in Conns, NEW next \in {"ready", "replay"}, Settles(c, next)
      PROVE  Service!Next
  BY <1>0, <1>5, FinishesRequest DEF Service!Next
<1>6. ASSUME NEW c \in Conns, Repeats(c) PROVE Service!Next
  BY <1>6, ReplaysMessage DEF Service!Next
<1>7. ASSUME Fails PROVE Service!Next
  <2>1. \A c \in Conns : Stages[c] # "down"
    BY <1>7 DEF Fails, Stages, Stage, Down
  <2>2. UNCHANGED outbox \/ \E c, s \in Conns : Service!Offers(c, s)
    BY <1>7, OffersMessage DEF Fails
  <2>3. Stages' = [c \in Conns |-> "down"] /\ Sent' = Sent /\ UNCHANGED rd
    BY <1>7 DEF Fails, Stages, Sent
  <2>4. Service!Fail
    BY <2>1, <2>2, <2>3 DEF Service!Fail, Sent, Stages
  <2> QED BY <2>4 DEF Service!Next
<1>8. CASE Next
  BY <1>0, <1>1, <1>2, <1>3, <1>4, <1>5, <1>6, <1>7, <1>8, ServiceKinds
<1>9. CASE UNCHANGED vars
  <2>1. UNCHANGED <<log, rd, ctx, outbox, pc, cur>>
    BY <1>9 DEF vars, netVars, connVars, workerVars
  <2>2. Idles
    BY <2>1 DEF Idles, StagesStay, Stage, Inside, LastUnanswerable, Request
  <2> QED BY <1>1, <2>2
<1> QED BY <1>8, <1>9

(* The event loop, with its threads, one-shot events, reply slots and      *)
(* topic objects, implements the publish/subscribe service: every          *)
(* behaviour of Spec is one of PubSub under the mapping of                 *)
(* BrokerRefinement.                                                       *)
THEOREM ImplementsServiceHolds == Spec => ImplementsService
<1> QED BY ServiceStart, ServiceStep, DeliveryInit, DeliveryNext, PTL
       DEF Spec, ImplementsService, Service!Spec
-----------------------------------------------------------------------------
(***************************************************************************)
(* What an acknowledgement promises: after a SUBACK and a PUBACK the       *)
(* message was offered (PubackMeansOffered), after a PUBACK and a SUBACK   *)
(* the retained message follows (NewSubscriberGetsRetained).  Both are     *)
(* about three requests of different connections, read by different        *)
(* workers, which meet in a topic object: what one left there must still   *)
(* be there when the other comes.                                          *)
(***************************************************************************)

(***************************************************************************)
(* Offers.  A connection that was told it is subscribed, or is about to    *)
(* be, stands in the list of an object of the topic; so does one that is   *)
(* owed a message; and a walk has still to visit it or has visited it.     *)
(***************************************************************************)
InList(s, t) ==
  \E o \in 1..Len(heap) : heap[o].name = t /\ Places(heap[o].subs, s) # {}
LinkedAt(w) ==
  pc[w] \in {"sub_link", "sub_retained"} =>
    InList(cur[w], Request(job[w]).topic)
Grants(c) == ctx[c] = "reply" /\ reply[c].op = "SUBACK" /\ reply[c].rc = 0
GrantedAt(c) == Grants(c) => InList(c, Request(Latest(c)).topic)
ListedAt(c) ==
  \A n \in 1..rd[c] :
    log[c][n].req.op = "SUBSCRIBE" /\ Answered(c, n)
      => InList(c, log[c][n].req.topic)
OwedAt(c) ==
  \A n \in 1..Len(log[c]) : log[c][n].req.op = "PUBLISH" =>
    \A s \in log[c][n].owed : s \in Conns /\ InList(s, log[c][n].req.topic)
OfferAt(w) ==
  pc[w] = "fanout" /\ CreatedOnce(Request(job[w]).topic) =>
    \A s \in log[job[w][1]][job[w][2]].owed :
      Places(todo[w], s) # {} \/ Copies(s, job[w], "PUBLISH") # {}

OfferInv ==
  /\ DeliveryInv
  /\ \A w \in Workers : LinkedAt(w) /\ OfferAt(w)
  /\ \A c \in Conns : GrantedAt(c) /\ ListedAt(c) /\ OwedAt(c)
  /\ PubackMeansOffered

(***************************************************************************)
(* Retained messages.  The only message retained on a topic is in its      *)
(* object and not freed from the moment its distribution starts, although  *)
(* retain_message frees what it finds there before it puts its own.        *)
(***************************************************************************)
Sole(m) ==
  CreatedOnce(Request(m).topic) /\ RetainedOn(Request(m).topic) = {m}
Past(m) ==
  Answered(m[1], m[2]) \/ \E w \in Workers : pc[w] = "fanout" /\ job[w] = m
Shelved(m) ==
  /\ m \in live
  /\ \E o \in 1..Len(heap) : /\ heap[o].name = Request(m).topic
                             /\ heap[o].retained = m
SafeAt(m) ==
  Known(m, "PUBLISH") /\ Request(m).retain /\ Sole(m) /\ Past(m) => Shelved(m)
\* A message is put in an object when its handler is at the walk, and is
\* not freed before that.
UnkeptAt(c) ==
  Stage(c) = "working" /\ ~Inside(c, {"fanout"}) =>
    \A o \in 1..Len(heap) : heap[o].retained # Latest(c)
LiveAt(w) == pc[w] \in {"clear", "keep"} => job[w] \in live
\* What a subscriber is owed, what its reply carries, what it was sent.
DueAt(c) ==
  \A n \in 1..Len(log[c]) : log[c][n].req.op = "SUBSCRIBE" =>
    \A m \in log[c][n].owed :
      Kept(m, log[c][n].req.topic) /\ Answered(m[1], m[2])
PromisedAt(c) ==
  Grants(c) =>
    \A m \in log[c][rd[c]].owed : Sole(m) => reply[c].retained = m
Served(c, n) ==
  \A m \in log[c][n].owed : Sole(m) => Copies(c, m, "RETAINED") # {}
ReplayedAt(c) ==
  \A n \in 1..rd[c] :
    /\ log[c][n].req.op = "SUBSCRIBE" /\ log[c][n].req.topic # EmptyTopic
    /\ n < rd[c] \/ Stage(c) = "ready" \/ armed[c] = "in"
    => Served(c, n)

RetainInv ==
  /\ DeliveryInv
  /\ \A m \in RequestNames : SafeAt(m)
  /\ \A w \in Workers : LiveAt(w)
  /\ \A c \in Conns :
       UnkeptAt(c) /\ DueAt(c) /\ PromisedAt(c) /\ ReplayedAt(c)
-----------------------------------------------------------------------------
(***************************************************************************)
(* What only grows: the frames, the lists, the objects of a topic.         *)
(***************************************************************************)
LEMMA FramesStay ==
  ASSUME ServiceInv, ServiceInv', Next
  PROVE  \A d \in Conns : \A i \in DOMAIN outbox[d] :
           i \in DOMAIN outbox'[d] /\ outbox'[d][i] = outbox[d][i]
<1>0. OutTypes
  BY DEF ServiceInv, TypeInv
<1>1. ASSUME NEW c \in Conns, NEW op, NEW rc, NEW re, Puts(c, op, rc, re)
      PROVE  \A d \in Conns : \A i \in DOMAIN outbox[d] :
               i \in DOMAIN outbox'[d] /\ outbox'[d][i] = outbox[d][i]
  <2>1. PICK f : Added(c, f)
    BY <1>0, <1>1, PutsView
  <2> QED BY <2>1 DEF Added
<1>2. \/ UNCHANGED outbox
      \/ \E c \in Conns : \E op, rc, re : Puts(c, op, rc, re)
  BY ServiceKinds
  DEF Idles, Requested, Reads, Offering, Sending, Settles, Repeats, Fails
<1> QED BY <1>1, <1>2

LEMMA CopiesStay ==
  ASSUME ServiceInv, ServiceInv', Next, NEW s \in Conns, NEW m, NEW op,
         Copies(s, m, op) # {}
  PROVE  Copies(s, m, op)' # {}
  BY FramesStay DEF Copies

LEMMA AnsweredStays ==
  ASSUME ServiceInv, ServiceInv', Next, NEW c \in Conns, NEW n, Answered(c, n)
  PROVE  Answered(c, n)'
<1>1. PICK i \in DOMAIN outbox[c] : /\ outbox[c][i].re = <<c, n>>
                                    /\ outbox[c][i].op \in {"SUBACK", "PUBACK"}
                                    /\ outbox[c][i].rc = 0
  BY DEF Answered
<1>2. i \in DOMAIN outbox'[c] /\ outbox'[c][i] = outbox[c][i]
  BY FramesStay
<1> QED BY <1>1, <1>2 DEF Answered

\* An acknowledged request was read, and is of a kind that is acknowledged.
LEMMA AnsweredRead ==
  ASSUME FrameInv, NEW c \in Conns, NEW n, Answered(c, n)
  PROVE  n \in 1..rd[c] /\ Answer(log[c][n].req) # <<>>
<1>1. PICK i \in DOMAIN outbox[c] : /\ outbox[c][i].re = <<c, n>>
                                    /\ outbox[c][i].op \in {"SUBACK", "PUBACK"}
                                    /\ outbox[c][i].rc = 0
  BY DEF Answered
<1>2. PICK k \in 1..rd[c] :
        /\ outbox[c][i].re = <<c, k>>
        /\ <<outbox[c][i].op, outbox[c][i].rc>> = Answer(log[c][k].req)
  BY <1>1 DEF FrameInv, AckAt, AckReal, IsAck
<1> QED BY <1>1, <1>2

\* A request is acknowledged while it is in work, a SUBSCRIBE from a reply
\* that grants it, a PUBLISH at the end of its walk.
LEMMA NewAnswer ==
  ASSUME ServiceInv, ServiceInv', Next, NEW c \in Conns, NEW n,
         ~Answered(c, n), Answered(c, n)'
  PROVE  /\ n = rd[c] /\ n > 0 /\ UNCHANGED <<log, rd>>
         /\ log[c][n].req.op = "SUBSCRIBE" => Grants(c)
         /\ log[c][n].req.op = "PUBLISH" =>
              \E w \in Workers : /\ pc[w] = "fanout" /\ todo[w] = <<>>
                                 /\ job[w] = <<c, n>>
<1>0. OutTypes
  BY DEF ServiceInv, TypeInv
<1>1. PICK i \in DOMAIN outbox'[c] :
        /\ outbox'[c][i].re = <<c, n>>
        /\ outbox'[c][i].op \in {"SUBACK", "PUBACK"}
        /\ outbox'[c][i].rc = 0
  BY DEF Answered
<1>2. ASSUME NEW d \in Conns, NEW f, Added(d, f)
      PROVE  d = c /\ f.re = <<c, n>> /\ f.op \in {"SUBACK", "PUBACK"} /\ f.rc = 0
  <2>1. d = c
    BY <1>1, <1>2 DEF Added, Answered
  <2>2. i = Len(outbox[c]) + 1
    <3>1. i \in DOMAIN outbox[c] => outbox'[c][i] = outbox[c][i]
      BY <1>2, <2>1 DEF Added
    <3>2. i \notin DOMAIN outbox[c]
      BY <1>1, <3>1 DEF Answered
    <3> QED BY <1>2, <2>1, <3>2 DEF Added
  <2> QED BY <1>1, <1>2, <2>1, <2>2 DEF Added
<1>3. ~ UNCHANGED outbox
  BY DEF Answered
<1>4. ASSUME NEW w \in Workers, NEW d \in Conns, NEW s \in Conns, Offering(w, d, s)
      PROVE  FALSE
  <2>1. PICK f : f.op = "PUBLISH" /\ Added(s, f)
    BY <1>0, <1>4, PutsView DEF Offering, Sending
  <2> QED BY <1>2, <2>1
<1>5. ASSUME NEW d \in Conns, Repeats(d) PROVE FALSE
  <2>1. PICK f : f.op = "RETAINED" /\ Added(d, f)
    BY <1>0, <1>5, PutsView DEF Repeats
  <2> QED BY <1>2, <2>1
<1>6. PICK d \in Conns, next \in {"ready", "replay"} : Settles(d, next)
  BY <1>3, <1>4, <1>5, ServiceKinds DEF Idles, Requested, Reads, Fails
<1>7. PICK r, a : r = Request(Latest(d)) /\ a = Answer(r)
  OBVIOUS
<1>8. /\ rd[d] > 0 /\ UNCHANGED <<log, rd>> /\ Puts(d, a[1], a[2], Latest(d))
      /\ r.op = "SUBSCRIBE" => ctx[d] = "reply" /\ reply[d].op = "SUBACK"
      /\ r.op = "PUBLISH" =>
           \E w \in Workers : /\ pc[w] = "fanout" /\ todo[w] = <<>>
                              /\ job[w] = Latest(d)
  BY <1>3, <1>6, <1>7 DEF Settles
<1>9. PICK f : f.op = a[1] /\ f.rc = a[2] /\ f.re = Latest(d) /\ Added(d, f)
  BY <1>0, <1>8, PutsView
<1>10. d = c /\ n = rd[c] /\ a[2] = 0
  BY <1>2, <1>9 DEF Latest
<1>11. ReplyAt(c)
  BY DEF ServiceInv
<1>12. r = log[c][n].req
  BY <1>7, <1>10 DEF Latest, Request
<1>13. r.op = "SUBSCRIBE" => Grants(c)
  <2> SUFFICES ASSUME r.op = "SUBSCRIBE" PROVE Grants(c)
    OBVIOUS
  <2>1. ctx[c] = "reply" /\ reply[c].op = "SUBACK"
    BY <1>8, <1>10
  <2>2. a = <<reply[c].op, reply[c].rc>>
    BY <1>7, <1>10, <1>11, <2>1 DEF ReplyAt, Fits, Latest
  <2> QED BY <1>10, <2>1, <2>2 DEF Grants
<1> QED BY <1>8, <1>10, <1>12, <1>13 DEF Latest

LEMMA InListStays ==
  ASSUME TypeInv, Next, NEW s \in Conns, NEW t, InList(s, t)
  PROVE  InList(s, t)'
<1>1. PICK o \in 1..Len(heap) : heap[o].name = t /\ Places(heap[o].subs, s) # {}
  BY DEF InList
<1>2. OldObject(o)
  BY HeapShape, HeapView
<1>3. Places(heap'[o].subs, s) # {}
  <2>1. ASSUME NEW w \in Workers, Inserts(w),
               heap'[o].subs = <<cur[w]>> \o heap[o].subs
        PROVE  Places(heap'[o].subs, s) # {}
    <3>1. PICK q, d : q = heap[o].subs /\ d = cur[w]
      OBVIOUS
    <3>2. q \in Seq(Conns) /\ d \in Conns
      BY <2>1, <3>1, ObjectType DEF TypeInv, OwnerInv, CurIsConn, Inserts
    <3>3. Places(<<d>> \o q, s) = IF s = d THEN Places(q, s) \cup {Len(q) + 1}
                                            ELSE Places(q, s)
      BY <3>2, PlacesPush
    <3> QED BY <1>1, <2>1, <3>1, <3>3
  <2> QED BY <1>1, <1>2, <2>1 DEF OldObject
<1> QED BY <1>1, <1>2, <1>3 DEF InList, OldObject

\* Objects keep their names: a topic with one object had no more before.
LEMMA CreatedOnceBack ==
  ASSUME TypeInv, Next, NEW t, CreatedOnce(t)' PROVE CreatedOnce(t)
<1>0. Len(heap) \in Nat /\ Len(heap') \in Nat
  BY HeapShape, HeapView
<1>1. PICK S, T : /\ S = {i \in DOMAIN heap : heap[i].name = t}
                  /\ T = {i \in DOMAIN heap' : heap'[i].name = t}
  OBVIOUS
<1>2. DOMAIN heap = 1..Len(heap) /\ heap' \in Seq(TopicObjects)
  BY TypeNext DEF TypeInv, TopicTypes
<1>3. DOMAIN heap' = 1..Len(heap')
  BY <1>2
<1>4. S \in SUBSET T /\ T \in SUBSET (1..Len(heap')) /\ S \in SUBSET (1..Len(heap))
  <2>1. ASSUME NEW i \in S PROVE i \in T
    BY <1>1, <1>2, <1>3, <2>1, HeapShape, HeapView DEF OldObject
  <2> QED BY <1>1, <1>2, <1>3, <2>1
<1>5. /\ Cardinality(S) <= Cardinality(T) /\ Cardinality(S) \in Nat
      /\ Cardinality(T) \in Nat
  BY <1>0, <1>4, CardNat, CardSub
<1>6. Cardinality(T) <= 1
  BY <1>1 DEF CreatedOnce
<1> QED BY <1>1, <1>5, <1>6 DEF CreatedOnce

\* The object of a topic that was created once.
LEMMA OnlyObject ==
  ASSUME TopicTypes, NEW t, CreatedOnce(t), NEW o \in 1..Len(heap),
         NEW p \in 1..Len(heap), heap[o].name = t, heap[p].name = t
  PROVE  o = p
<1>1. PICK S : S = {i \in DOMAIN heap : heap[i].name = t}
  OBVIOUS
<1>2. Len(heap) \in Nat /\ DOMAIN heap = 1..Len(heap)
  BY DEF TopicTypes
<1>3. PICK R, Q : R = {o} /\ Q = R \cup {p}
  OBVIOUS
<1>4. /\ S \in SUBSET (1..Len(heap)) /\ R \in SUBSET (1..Len(heap))
      /\ Q \in SUBSET S
  BY <1>1, <1>2, <1>3
<1>5. PICK a, b : a = Cardinality(Q) /\ b = Cardinality(S)
  OBVIOUS
<1>6. a \in Nat /\ b \in Nat /\ a <= b /\ b <= 1
  BY <1>1, <1>2, <1>4, <1>5, CardSub, CardNat DEF CreatedOnce
<1>7. Cardinality(R) = 1
  BY <1>3, FS_Singleton
<1>8. o # p => p \notin R
  BY <1>3
<1>9. p \notin R => Cardinality(Q) = Cardinality(R) + 1
  BY <1>2, <1>3, <1>4, CardAdd
<1>10. p \in R
  BY <1>5, <1>6, <1>7, <1>9
<1> QED BY <1>8, <1>10
-----------------------------------------------------------------------------
LEMMA CurStays ==
  ASSUME ServiceInv, Next, NEW w \in Workers, pc[w] # "poll", pc'[w] # "poll"
  PROVE  cur'[w] = cur[w]
<1>0. Functions
  BY HaveFunctions DEF ServiceInv
<1>1. ASSUME NEW v \in Workers, NEW c \in Conns, Others(v, c), Handles(v, c)
      PROVE  cur'[w] = cur[w]
  <2>1. CASE v = w
    BY <1>1, <2>1, HandlesView
  <2>2. CASE v # w
    BY <1>1, <2>2 DEF Others
  <2> QED BY <2>1, <2>2
<1>2. ASSUME NEW c \in Conns, ClientStep(c) PROVE cur'[w] = cur[w]
  BY <1>2 DEF ClientStep, ClientConnect, ClientSend, ClientStall,
     ClientFinish, ClientLeave, ClientReset,
     ClientOnly, workerVars
<1>3. ASSUME NEW v \in Workers, Poll(v) PROVE cur'[w] = cur[w]
  BY <1>3 DEF Poll, EpollWait
<1>4. ASSUME NEW v \in Workers, NEW c \in Conns,
             AcceptHandler(v, c) \/ AcceptFails(v, c)
      PROVE  cur'[w] = cur[w]
  BY <1>4 DEF AcceptHandler, AcceptFails, Return
<1>5. Dies => cur'[w] = cur[w]
  BY DEF Dies, Crash
<1> QED BY <1>1, <1>2, <1>3, <1>4, <1>5, StepKinds

LEMMA LinkedStep ==
  ASSUME OfferInv, ServiceInv', Next, NEW w \in Workers PROVE LinkedAt(w)'
<1>0. ServiceInv /\ TypeInv /\ TopicTypes /\ PlaceAt(w) /\ HandlerAt(w) /\ CurIsConn
  BY DEF OfferInv, DeliveryInv, TopicInv, ServiceInv, TypeInv, HandlerInv, OwnerInv
<1> SUFFICES ASSUME pc'[w] \in {"sub_link", "sub_retained"}
             PROVE  InList(cur[w], Request(job[w]).topic)'
  BY DEF LinkedAt
<1>1. /\ SameHand(w)
      /\ \/ pc[w] \in {"sub_link", "sub_retained"}
         \/ Inserts(w)
  BY <1>0, HandShape DEF Hand, HandPCs, SubPCs, PubPCs, Advances, Walks,
     WalkStarts, Looks, Made, Begins
<1>2. pc[w] \in SubPCs
  BY <1>1 DEF SubPCs, Inserts
<1>3. PICK c, m, t : c = cur[w] /\ m = job[w] /\ t = Request(m).topic
  OBVIOUS
<1>4. c \in Conns /\ cur'[w] = c /\ job'[w] = m /\ (Request(m).topic)' = t
  <2>1. pc[w] \in HandPCs /\ pc[w] \notin {"poll", "dead"}
    BY <1>2 DEF HandPCs, SubPCs
  <2> QED BY <1>0, <1>1, <1>3, <2>1, CurStays, HandKnown
      DEF CurIsConn, SameHand, Request
<1>5. SUFFICES InList(c, t)'
  BY <1>3, <1>4 DEF InList, Request
<1>6. CASE pc[w] \in {"sub_link", "sub_retained"}
  BY <1>0, <1>3, <1>4, <1>6, InListStays DEF OfferInv, LinkedAt
<1>7. CASE Inserts(w)
  <2>1. PICK o, q : o = tgt[w] /\ q = heap[o].subs
    OBVIOUS
  <2>2. o \in 1..Len(heap) /\ heap[o].name = t /\ q \in Seq(Conns)
    <3>1. tgt[w] \in 0..Len(heap) /\ tgt[w] # 0 /\ Len(heap) \in Nat
      BY <1>0, <1>7 DEF TypeInv, LocalTypes, TopicTypes, HandlerAt, Inserts
    <3>2. heap[o].name = t
      BY <1>0, <1>3, <1>7, <2>1 DEF PlaceAt, Inserts
    <3> QED BY <1>0, <2>1, <3>1, <3>2, ObjectType
  <2>3. heap' = [heap EXCEPT ![o] = Topic(heap[o].name, <<c>> \o q, heap[o].retained)]
    BY <1>3, <1>7, <2>1 DEF Inserts, SetSubs
  <2>4. /\ heap'[o].name = t /\ heap'[o].subs = <<c>> \o q
        /\ o \in 1..Len(heap')
    BY <1>0, <2>2, <2>3 DEF TopicTypes, Topic
  <2>5. Places(<<c>> \o q, c) = Places(q, c) \cup {Len(q) + 1}
    BY <1>4, <2>2, PlacesPush
  <2> QED BY <2>4, <2>5 DEF InList
<1> QED BY <1>1, <1>6, <1>7

\* The request a reply is for stays the same.
LEMMA LatestStays ==
  ASSUME LogTypes, Next, NEW c \in Conns, rd[c] > 0, rd'[c] = rd[c]
  PROVE  /\ Request(<<c, rd[c]>>)' = Request(<<c, rd[c]>>)
         /\ log'[c][rd[c]] = log[c][rd[c]] /\ Latest(c)' = Latest(c)
<1>1. rd[c] \in 1..Len(log[c])
  BY DEF LogTypes
<1> QED BY <1>1, LogGrows DEF Request, Latest

LEMMA GrantedStep ==
  ASSUME OfferInv, ServiceInv', Next, NEW c \in Conns PROVE GrantedAt(c)'
<1>0. ServiceInv /\ TypeInv /\ LogTypes /\ ReplyAt(c)
  BY DEF OfferInv, DeliveryInv, TopicInv, ServiceInv, TypeInv
<1> SUFFICES ASSUME Grants(c)' PROVE InList(c, Request(Latest(c)).topic)'
  BY DEF GrantedAt
<1>1. PICK t : t = Request(<<c, rd[c]>>).topic
  OBVIOUS
<1>2. CASE ctx[c] = "reply" /\ reply'[c] = reply[c] /\ rd'[c] = rd[c]
  <2>1. Grants(c) /\ rd[c] > 0
    BY <1>0, <1>2 DEF Grants, ReplyAt
  <2>2. InList(c, t)'
    BY <1>0, <1>1, <2>1, InListStays DEF OfferInv, GrantedAt, Latest
  <2> QED BY <1>0, <1>1, <1>2, <2>1, <2>2, LatestStays DEF InList, Latest, Request
<1>3. ASSUME NEW w \in Workers, pc[w] = "sub_retained", cur[w] = c, rd'[c] = rd[c],
             UNCHANGED log
      PROVE  InList(c, Request(Latest(c)).topic)'
  <2>1. job[w] = <<c, rd[c]>>
    BY <1>0, <1>3 DEF ServiceInv, WorkAt, StartPCs, SubPCs
  <2>2. InList(c, t)'
    BY <1>0, <1>1, <1>3, <2>1, InListStays DEF OfferInv, LinkedAt
  <2> QED BY <1>1, <1>3, <2>2 DEF InList, Latest, Request
<1> QED BY <1>0, <1>2, <1>3, CarriesStep DEF Carries, Grants

LEMMA ListedStep ==
  ASSUME OfferInv, ServiceInv', Next, NEW c \in Conns PROVE ListedAt(c)'
<1>0. ServiceInv /\ TypeInv /\ LogTypes /\ FrameInv
  BY DEF OfferInv, DeliveryInv, TopicInv, ServiceInv, TypeInv
<1> SUFFICES ASSUME NEW n \in 1..rd'[c], log'[c][n].req.op = "SUBSCRIBE",
                    Answered(c, n)'
             PROVE  InList(c, log[c][n].req.topic)'
  BY DEF ListedAt
<1>1. CASE Answered(c, n)
  <2>1. n \in 1..rd[c]
    BY <1>0, <1>1, AnsweredRead
  <2>2. log'[c][n] = log[c][n]
    BY <1>0, <2>1, LogGrows
  <2>3. InList(c, log[c][n].req.topic)
    BY <1>1, <2>1, <2>2 DEF OfferInv, ListedAt
  <2>4. PICK t : t = log[c][n].req.topic
    OBVIOUS
  <2>5. InList(c, t)'
    BY <1>0, <2>3, <2>4, InListStays
  <2> QED BY <2>2, <2>4, <2>5 DEF InList
<1>2. CASE ~Answered(c, n)
  <2>1. n = rd[c] /\ UNCHANGED <<log, rd>> /\ Grants(c)
    BY <1>0, <1>2, NewAnswer
  <2>2. InList(c, log[c][n].req.topic)
    BY <2>1 DEF OfferInv, GrantedAt, Latest, Request
  <2> QED BY <1>0, <2>1, <2>2, InListStays DEF InList
<1> QED BY <1>1, <1>2

\* A request that was just sent, and what it is owed.
LEMMA NewEntry ==
  ASSUME LogTypes, Next, NEW c \in Conns, NEW n \in 1..Len(log'[c])
  PROVE  \/ n \in 1..Len(log[c]) /\ log'[c][n] = log[c][n]
         \/ /\ log'[c][n].owed = Owed(log'[c][n].req)
            /\ log'[c][n].req \in Requests /\ UNCHANGED rd
<1>1. CASE UNCHANGED <<log, rd>>
  BY <1>1
<1>2. ASSUME NEW d \in Conns, NEW r \in Requests,
             log' = [log EXCEPT ![d] = Append(@, [req |-> r, owed |-> Owed(r)])],
             UNCHANGED rd
      PROVE  \/ n \in 1..Len(log[c]) /\ log'[c][n] = log[c][n]
             \/ /\ log'[c][n].owed = Owed(log'[c][n].req)
                /\ log'[c][n].req \in Requests /\ UNCHANGED rd
  <2>1. CASE d # c
    BY <1>2, <2>1 DEF LogTypes
  <2>2. CASE d = c
    <3>1. PICK q, e : q = log[c] /\ e = [req |-> r, owed |-> Owed(r)]
      OBVIOUS
    <3>2. q \in Seq(LogEntries) /\ log'[c] = Append(q, e)
      BY <1>2, <2>2, <3>1 DEF LogTypes
    <3>3. /\ Len(q) \in Nat /\ Len(log'[c]) = Len(q) + 1
          /\ \A k \in 1..Len(q) : log'[c][k] = q[k]
          /\ log'[c][Len(q) + 1] = e
      BY <3>2
    <3>4. CASE n \in 1..Len(q)
      BY <3>1, <3>3, <3>4
    <3>5. CASE n = Len(q) + 1
      <4>1. e.req = r /\ e.owed = Owed(r)
        BY <3>1
      <4> QED BY <1>2, <3>3, <3>5, <4>1
    <3> QED BY <3>3, <3>4, <3>5
  <2> QED BY <2>1, <2>2
<1>3. CASE UNCHANGED log
  BY <1>3
<1> QED BY <1>1, <1>2, <1>3, LogShape

LEMMA OwedStep ==
  ASSUME OfferInv, ServiceInv', Next, NEW c \in Conns PROVE OwedAt(c)'
<1>0. ServiceInv /\ TypeInv /\ LogTypes
  BY DEF OfferInv, DeliveryInv, TopicInv, ServiceInv, TypeInv
<1> SUFFICES ASSUME NEW n \in 1..Len(log'[c]), log'[c][n].req.op = "PUBLISH",
                    NEW s \in log'[c][n].owed
             PROVE  s \in Conns /\ InList(s, log[c][n].req.topic)'
  BY DEF OwedAt
<1>1. CASE n \in 1..Len(log[c]) /\ log'[c][n] = log[c][n]
  <2>1. s \in Conns /\ InList(s, log[c][n].req.topic)
    BY <1>1 DEF OfferInv, OwedAt
  <2>2. PICK t : t = log[c][n].req.topic
    OBVIOUS
  <2>3. InList(s, t)'
    BY <1>0, <2>1, <2>2, InListStays
  <2> QED BY <1>1, <2>1, <2>2, <2>3 DEF InList
<1>2. CASE log'[c][n].owed = Owed(log'[c][n].req)
  <2>1. PICK r, t : r = log'[c][n].req /\ t = r.topic
    OBVIOUS
  <2>2. s \in Owed(r) /\ r.op = "PUBLISH"
    BY <1>2, <2>1
  <2>3. s \in Conns /\ \E k \in 1..rd[s] : /\ log[s][k].req.op = "SUBSCRIBE"
                                           /\ log[s][k].req.topic = t
                                           /\ Answered(s, k)
    BY <2>1, <2>2 DEF Owed
  <2>4. InList(s, t)
    BY <2>3 DEF OfferInv, ListedAt
  <2> QED BY <1>0, <2>1, <2>3, <2>4, InListStays DEF InList
<1> QED BY <1>0, <1>1, <1>2, NewEntry

\* A walk reads the list of the topic's object, and takes off it whom it
\* has sent the message.
LEMMA OfferStep ==
  ASSUME OfferInv, ServiceInv', Next, NEW w \in Workers PROVE OfferAt(w)'
<1>0. /\ ServiceInv /\ TypeInv /\ TopicTypes /\ LocalTypes /\ LogTypes /\ OutTypes
      /\ PlaceAt(w)
  BY DEF OfferInv, DeliveryInv, TopicInv, ServiceInv, TypeInv
<1> SUFFICES ASSUME pc'[w] = "fanout", CreatedOnce(Request(job[w]).topic)',
                    NEW s \in log'[job'[w][1]][job'[w][2]].owed
             PROVE  Places(todo'[w], s) # {} \/ Copies(s, job[w], "PUBLISH")' # {}
  BY DEF OfferAt, Copies
<1>1. Hand(w)
  BY <1>0, HandShape
<1>2. SameHand(w) /\ (Walks(w) \/ WalkStarts(w)) /\ pc[w] \in PubPCs
  BY <1>1 DEF Hand, HandPCs, SubPCs, PubPCs, Advances, Walks, WalkStarts,
     Inserts, Frees, Keeps, Looks, Made, Begins
<1>3. PICK m, t : m = job[w] /\ t = Request(m).topic
  OBVIOUS
<1>4. /\ job'[w] = m /\ Request(m)' = Request(m) /\ Known(m, "PUBLISH")
  <2>1. pc[w] \in HandPCs /\ pc[w] \notin SubPCs
    BY <1>2 DEF HandPCs, PubPCs, SubPCs
  <2> QED BY <1>0, <1>2, <1>3, <2>1, HandKnown DEF SameHand, Request
<1>5. /\ m[1] \in Conns /\ m[2] \in 1..Len(log[m[1]])
      /\ log'[m[1]][m[2]] = log[m[1]][m[2]]
      /\ log[m[1]][m[2]].req.op = "PUBLISH" /\ log[m[1]][m[2]].req.topic = t
  <2>1. m[1] \in Conns /\ m[2] \in 1..MaxSends /\ m[2] <= rd[m[1]]
    BY <1>4 DEF Known, RequestNames
  <2>2. /\ rd[m[1]] \in Nat /\ rd[m[1]] <= Len(log[m[1]]) /\ Len(log[m[1]]) \in Nat
        /\ \A k \in 1..Len(log[m[1]]) : log'[m[1]][k] = log[m[1]][k]
    BY <1>0, <2>1, LogGrows
  <2>3. m[2] \in 1..Len(log[m[1]])
    BY <2>1, <2>2, BoundsAssumption
  <2> QED BY <1>3, <1>4, <2>1, <2>2, <2>3 DEF Known, Request
<1>6. s \in log[m[1]][m[2]].owed /\ s \in Conns /\ InList(s, t)
  BY <1>4, <1>5 DEF OfferInv, OwedAt
<1>7. CreatedOnce(t)
  <2>1. CreatedOnce(t)'
    BY <1>3, <1>4 DEF CreatedOnce, Request
  <2> QED BY <1>0, <2>1, CreatedOnceBack
<1>8. ASSUME pc[w] = "fanout"
      PROVE  Places(todo[w], s) # {} \/ Copies(s, m, "PUBLISH") # {}
  BY <1>3, <1>6, <1>7, <1>8 DEF OfferInv, OfferAt
<1>9. Copies(s, m, "PUBLISH") # {} => Copies(s, m, "PUBLISH")' # {}
  BY <1>0, <1>6, CopiesStay
<1>10. SUFFICES Places(todo'[w], s) # {} \/ Copies(s, m, "PUBLISH")' # {}
  BY <1>4 DEF Copies
<1>11. CASE pc[w] = "fanout" /\ todo'[w] = todo[w]
  BY <1>8, <1>9, <1>11
<1>12. CASE /\ pc[w] = "fanout" /\ Sending(w, Head(todo[w]))
            /\ todo'[w] = Tail(todo[w])
  <2>1. PICK q, h : q = todo[w] /\ h = Head(q)
    OBVIOUS
  <2>2. PICK f : f.op = "PUBLISH" /\ f.re = m /\ Added(h, f) /\ h \in Conns
    BY <1>0, <1>3, <1>12, <2>1, PutsView DEF Sending
  <2>3. q \in Seq(Conns) /\ q # <<>>
    BY <1>0, <1>12, <2>1 DEF Sending, LocalTypes
  <2>4. Places(q, s) = IF s = h THEN Places(Tail(q), s) \cup {Len(q)}
                                 ELSE Places(Tail(q), s)
    BY <1>6, <2>1, <2>3, PlacesPop
  <2>5. CASE s = h
    BY <1>0, <2>2, <2>5, CopiesAdded
  <2>6. CASE s # h
    BY <1>8, <1>9, <1>12, <2>1, <2>4, <2>6
  <2> QED BY <2>5, <2>6
<1>13. CASE WalkStarts(w)
  <2>1. pc[w] \in {"retain", "keep"} /\ todo'[w] = heap[loc[w]].subs
    BY <1>13 DEF WalkStarts, Keeps
  <2>2. loc[w] \in 1..Len(heap) /\ heap[loc[w]].name = t
    <3>1. loc[w] \in 0..Len(heap) /\ Len(heap) \in Nat /\ HandlerAt(w)
      BY <1>0 DEF LocalTypes, TopicTypes, TypeInv, HandlerInv
    <3>2. loc[w] # 0
      BY <2>1, <3>1 DEF HandlerAt, PubPCs
    <3> QED BY <1>0, <1>3, <2>1, <3>1, <3>2 DEF PlaceAt, FoundPCs
  <2>3. PICK o \in 1..Len(heap) : heap[o].name = t /\ Places(heap[o].subs, s) # {}
    BY <1>6 DEF InList
  <2>4. o = loc[w]
    BY <1>0, <1>7, <2>2, <2>3, OnlyObject
  <2> QED BY <2>1, <2>3, <2>4
<1> QED BY <1>2, <1>11, <1>12, <1>13 DEF Walks

LEMMA PubackStep ==
  ASSUME OfferInv, ServiceInv', Next PROVE PubackMeansOffered'
<1>0. /\ ServiceInv /\ TypeInv /\ LogTypes /\ OutTypes /\ FrameInv
  BY DEF OfferInv, DeliveryInv, TopicInv, ServiceInv, TypeInv
<1> SUFFICES ASSUME NEW m \in RequestNames, m[2] <= rd'[m[1]],
                    Request(m)'.op = "PUBLISH", CreatedOnce(Request(m).topic)',
                    NEW i \in DOMAIN outbox'[m[1]],
                    outbox'[m[1]][i].op = "PUBACK", outbox'[m[1]][i].re = m,
                    NEW s \in log'[m[1]][m[2]].owed
             PROVE  Copies(s, m, "PUBLISH")' # {}
  BY DEF PubackMeansOffered, Offered
<1>1. PICK c, n : m = <<c, n>> /\ c \in Conns /\ n \in 1..MaxSends
                  /\ m[1] = c /\ m[2] = n
  BY DEF RequestNames
<1>2. outbox'[c][i].rc = 0
  <2>1. PICK k \in 1..rd'[c] :
          <<outbox'[c][i].op, outbox'[c][i].rc>> = Answer(log'[c][k].req)
    BY <1>0, <1>1, FrameNext DEF FrameInv, AckAt, AckReal, IsAck
  <2>2. PICK r : r = log'[c][k].req
    OBVIOUS
  <2>3. Answer(r) # <<>> /\ Answer(r)[1] = "PUBACK" /\ Answer(r)[2] = outbox'[c][i].rc
    BY <1>1, <2>1, <2>2
  <2>4. Answer(r) = <<"PUBACK", 0>>
    BY <2>3 DEF Answer
  <2> QED BY <2>3, <2>4
<1>3. Answered(c, n)'
  BY <1>1, <1>2 DEF Answered
<1>4. /\ n \in 1..rd[c] /\ log'[c][n] = log[c][n]
  <2>1. CASE Answered(c, n)
    BY <1>0, <1>1, <2>1, AnsweredRead, LogGrows
  <2>2. CASE ~Answered(c, n)
    BY <1>0, <1>1, <1>3, <2>2, NewAnswer DEF LogTypes
  <2> QED BY <2>1, <2>2
<1>5. PICK t : t = Request(m).topic
  OBVIOUS
<1>6. Request(m)' = Request(m) /\ Request(m).op = "PUBLISH" /\ m[2] <= rd[m[1]]
  <2>1. rd[c] \in Nat
    BY <1>0, <1>1 DEF LogTypes
  <2> QED BY <1>1, <1>4, <2>1 DEF Request
<1>7. CreatedOnce(t)
  <2>1. CreatedOnce(t)'
    BY <1>5, <1>6 DEF CreatedOnce
  <2> QED BY <1>0, <2>1, CreatedOnceBack
<1>8. s \in log[c][n].owed /\ s \in Conns
  <2>1. n \in 1..Len(log[c])
    BY <1>0, <1>1, <1>4, LogGrows
  <2>2. s \in log[c][n].owed /\ log[c][n].req.op = "PUBLISH"
    BY <1>1, <1>4, <1>6 DEF Request
  <2> QED BY <1>1, <2>1, <2>2 DEF OfferInv, OwedAt
<1>9. Copies(s, m, "PUBLISH") # {}
  <2>1. CASE Answered(c, n)
    <3>1. PICK j \in DOMAIN outbox[c] : /\ outbox[c][j].re = m
                                        /\ outbox[c][j].op \in {"SUBACK", "PUBACK"}
      BY <1>1, <2>1 DEF Answered
    <3>2. outbox[c][j].op = "PUBACK"
      <4>1. PICK k \in 1..rd[c] :
              /\ outbox[c][j].re = <<c, k>>
              /\ <<outbox[c][j].op, outbox[c][j].rc>> = Answer(log[c][k].req)
        BY <1>0, <1>1, <3>1 DEF FrameInv, AckAt, AckReal, IsAck
      <4>2. k = n /\ log[c][k].req.op = "PUBLISH"
        BY <1>1, <1>6, <3>1, <4>1 DEF Request
      <4> QED BY <4>1, <4>2, AnswerOps
    <3> QED BY <1>1, <1>5, <1>6, <1>7, <1>8, <3>1, <3>2
        DEF OfferInv, PubackMeansOffered, Offered
  <2>2. CASE ~Answered(c, n)
    <3>1. PICK w \in Workers : pc[w] = "fanout" /\ todo[w] = <<>> /\ job[w] = m
      BY <1>0, <1>1, <1>3, <1>6, <2>2, NewAnswer DEF Request
    <3>2. Places(todo[w], s) # {} \/ Copies(s, m, "PUBLISH") # {}
      BY <1>1, <1>5, <1>7, <1>8, <3>1 DEF OfferInv, OfferAt
    <3>3. Places(<<>>, s) = {}
      BY DEF Places
    <3> QED BY <3>1, <3>2, <3>3
  <2> QED BY <2>1, <2>2
<1> QED BY <1>0, <1>8, <1>9, CopiesStay

LEMMA OfferInit == Init => OfferInv
<1> SUFFICES ASSUME Init PROVE OfferInv
  OBVIOUS
<1>1. DeliveryInv
  BY DeliveryInit
<1>2. \A c \in Conns : log[c] = <<>> /\ rd[c] = 0 /\ outbox[c] = <<>>
                       /\ ctx[c] = "request"
  BY DEF Init
<1>3. \A w \in Workers : pc[w] = "poll"
  BY DEF Init
<1>4. PubackMeansOffered
  BY <1>2 DEF PubackMeansOffered, Offered, RequestNames
<1> QED BY <1>1, <1>2, <1>3, <1>4 DEF OfferInv, LinkedAt, OfferAt, GrantedAt, Grants,
       ListedAt, OwedAt

LEMMA OfferNext == OfferInv /\ [Next]_vars => OfferInv'
<1> SUFFICES ASSUME OfferInv, [Next]_vars PROVE OfferInv'
  OBVIOUS
<1>1. DeliveryInv'
  BY DeliveryNext DEF OfferInv
<1>2. CASE Next
  <2>1. ServiceInv'
    BY <1>1 DEF DeliveryInv, TopicInv
  <2> QED BY <1>1, <1>2, <2>1, LinkedStep, OfferStep, GrantedStep, ListedStep,
       OwedStep, PubackStep DEF OfferInv
<1>3. CASE UNCHANGED vars
  <2>1. UNCHANGED <<log, rd, outbox, ctx, reply, heap, pc, cur, job, todo>>
    BY <1>3 DEF vars, netVars, connVars, topicVars, localVars, workerVars
  <2>2. \A w \in Workers : LinkedAt(w)'
    BY <2>1 DEF OfferInv, LinkedAt, InList, Request
  <2>3. \A w \in Workers : OfferAt(w)'
    BY <2>1 DEF OfferInv, OfferAt, Copies, CreatedOnce, Request
  <2>4. \A c \in Conns : GrantedAt(c)' /\ ListedAt(c)' /\ OwedAt(c)'
    <3>1. \A c \in Conns : GrantedAt(c)'
      BY <2>1 DEF OfferInv, GrantedAt, Grants, InList, Latest, Request
    <3>2. \A c \in Conns : ListedAt(c)'
      BY <2>1 DEF OfferInv, ListedAt, InList, Answered
    <3>3. ASSUME NEW c \in Conns PROVE OwedAt(c)'
      <4>1. \A s, t : InList(s, t) => InList(s, t)'
        BY <2>1 DEF InList
      <4>2. log' = log /\ OwedAt(c)
        BY <2>1 DEF OfferInv
      <4> QED BY <4>1, <4>2 DEF OwedAt
    <3> QED BY <3>1, <3>2, <3>3
  <2>5. PubackMeansOffered'
    BY <2>1 DEF OfferInv, PubackMeansOffered, Offered, Copies, CreatedOnce, Request
  <2> QED BY <1>1, <2>2, <2>3, <2>4, <2>5 DEF OfferInv
<1> QED BY <1>2, <1>3

(* In every behaviour: when a publisher gets its PUBACK, every connection  *)
(* that held a SUBACK for the topic when the message was sent was offered  *)
(* it by publish_message, whatever other threads inserted in the list in   *)
(* the meantime, provided one thread only created the topic.               *)
THEOREM PubackMeansOfferedHolds == Spec => []PubackMeansOffered
<1>1. OfferInv => PubackMeansOffered
  BY DEF OfferInv
<1> QED BY <1>1, OfferInit, OfferNext, PTL DEF Spec
-----------------------------------------------------------------------------
(***************************************************************************)
(* The retained message.                                                   *)
(***************************************************************************)
\* Messages are freed by retain_message only.
LEMMA LiveShape ==
  ASSUME Next PROVE UNCHANGED live \/ \E w \in Workers : Frees(w)
<1> USE DEF topicVars, OwnClientOnly, ClientOnly
<1>1. ASSUME NEW c \in Conns, ClientStep(c) PROVE UNCHANGED live
  BY <1>1 DEF ClientStep, ClientConnect, ClientSend, ClientStall,
     ClientFinish, ClientLeave, ClientReset
<1>2. ASSUME NEW w \in Workers, Poll(w) PROVE UNCHANGED live
  BY <1>2 DEF Poll, EpollWait
<1>3. ASSUME NEW w \in Workers, NEW c \in Conns, Handle(w, c)
      PROVE  UNCHANGED live
  BY <1>3 DEF Handle, HangUp, AcceptHandler, AcceptFails, RecvNothing,
     RecvPartial, RecvReset, RecvOther, RecvAck, RecvPingreq, RecvPublish,
     RecvConnectRefused, RecvConnectKeep, RecvConnectClean,
     RecvSubscribeRefused, RecvSubscribe, ReplyNone, ReplyAck, ReplySuback,
     ReplyPublish
<1>4. ASSUME NEW w \in Workers, Continue(w) PROVE UNCHANGED live \/ Frees(w)
  <2>1. CASE RetainDestroy(w)
    BY <2>1 DEF RetainDestroy, Frees, netVars, connVars, localVars
  <2>2. CASE SubscribeCreate(w) \/ PublishCreate(w)
    BY <2>2 DEF SubscribeCreate, PublishCreate, CreateTopic
  <2>3. CASE \/ ConnectAdd(w) \/ AddSubscriberFind(w) \/ AddSubscriberInsert(w)
             \/ AddSubscriberLink(w) \/ SubscribeRetained(w)
             \/ ReplyRetained(w) \/ ReplyDangling(w) \/ SkipRetain(w)
             \/ RetainClear(w) \/ RetainKeep(w) \/ FanOut(w)
             \/ FanOutWild(w) \/ FinishPublish(w) \/ RecvResume(w)
    BY <2>3 DEF ConnectAdd, AddSubscriberFind, AddSubscriberInsert,
       AddSubscriberLink, SubscribeRetained, ReplyRetained, ReplyDangling,
       SkipRetain, RetainClear, RetainKeep, FanOut, FanOutWild, FinishPublish,
       RecvResume
  <2> QED BY <1>4, <2>1, <2>2, <2>3 DEF Continue
<1> QED BY <1>1, <1>2, <1>3, <1>4 DEF Next

\* The worker that distributes a message.
LEMMA Distributing ==
  ASSUME ServiceInv, NEW w \in Workers, NEW c, c = cur[w], pc[w] \in PubPCs
  PROVE  /\ c \in Conns /\ job[w] = Latest(c) /\ Known(job[w], "PUBLISH")
         /\ Stage(c) = "working"
         /\ pc[w] # "fanout" => ~Inside(c, {"fanout"})
         /\ pc[w] # "pub_create" => loc[w] \in 1..Len(heap)
<1>1. /\ WorkAt(w) /\ HandlerAt(w) /\ CurIsConn /\ AllDead /\ OneOwner
      /\ pc[w] \notin {"poll", "dead", "suback_retained"}
      /\ loc[w] \in 0..Len(heap) /\ Len(heap) \in Nat
  BY DEF ServiceInv, TypeInv, HandlerInv, OwnerInv, PubPCs, LocalTypes, TopicTypes
<1>2. /\ c \in Conns /\ ctx[c] = "reply" /\ job[w] = Latest(c)
      /\ reply[c].op = "PUBLISH" /\ Known(job[w], "PUBLISH")
      /\ pc[w] # "pub_create" => loc[w] # 0
  BY <1>1 DEF WorkAt, HandlerAt, CurIsConn, PubPCs, SubPCs, Latest
<1>3. ~LastUnanswerable(c)
  BY <1>2 DEF ServiceInv, ReplyAt, Fits, LastUnanswerable
<1>4. \A v \in Workers : pc[v] \notin {"poll", "dead"} /\ cur[v] = c => v = w
  BY <1>1, Apart
<1>5. ~Inside(c, {"suback_retained"}) /\ ~Down
  BY <1>1, <1>4 DEF Inside, AllDead, Down
<1>6. Stage(c) = "working"
  BY <1>2, <1>3, <1>5 DEF Stage, Down
<1>7. pc[w] # "fanout" => ~Inside(c, {"fanout"})
  BY <1>4 DEF Inside
<1> QED BY <1>1, <1>2, <1>6, <1>7

\* A message that is being retained is neither acknowledged nor distributed.
LEMMA NotPast ==
  ASSUME FrameInv, NEW w \in Workers, pc[w] \in {"retain", "clear", "keep"}
  PROVE  ~Past(job[w])
<1>0. ServiceInv /\ pc[w] \in PubPCs
  BY DEF FrameInv, PubPCs
<1>1. PICK c : c = cur[w]
  OBVIOUS
<1>2. /\ c \in Conns /\ job[w] = <<c, rd[c]>> /\ Stage(c) = "working"
      /\ ~Inside(c, {"fanout"})
  BY <1>0, <1>1, Distributing DEF Latest
<1>3. ~Answered(c, rd[c])
  <2>1. ~Acked(c, rd[c])
    BY <1>2 DEF FrameInv, AckAt, AckOpen
  <2> QED BY <2>1 DEF Acked, Answered, IsAck
<1>4. ASSUME NEW v \in Workers, pc[v] = "fanout", job[v] = job[w] PROVE FALSE
  <2>1. PICK d : d = cur[v]
    OBVIOUS
  <2>2. job[v] = <<d, rd[d]>>
    BY <1>0, <1>4, <2>1, Distributing DEF Latest, PubPCs
  <2> QED BY <1>2, <1>4, <2>1, <2>2 DEF Inside
<1> QED BY <1>2, <1>3, <1>4 DEF Past

\* Objects keep their names and messages are only added.
LEMMA SoleBack ==
  ASSUME TypeInv, Next, NEW m, Known(m, "PUBLISH"), Request(m).retain, Sole(m)'
  PROVE  Sole(m) /\ Request(m)' = Request(m)
<1>0. LogTypes
  BY DEF TypeInv
<1>1. Request(m)' = Request(m)
  BY <1>0, KeptStays
<1>2. PICK t : t = Request(m).topic
  OBVIOUS
<1>3. CreatedOnce(t)' /\ RetainedOn(t)' = {m}
  BY <1>1, <1>2 DEF Sole, CreatedOnce, RetainedOn
<1>4. RetainedOn(t) \subseteq RetainedOn(t)'
  <2> SUFFICES ASSUME NEW x \in RetainedOn(t) PROVE x \in RetainedOn(t)'
    OBVIOUS
  <2>1. PICK d, k : x[1] = d /\ x[2] = k /\ d \in Conns /\ k \in 1..MaxSends
    BY DEF RetainedOn, RequestNames
  <2>2. /\ x \in RequestNames /\ k <= rd[d] /\ log[d][k].req.op = "PUBLISH"
        /\ log[d][k].req.topic = t /\ log[d][k].req.retain
    BY <2>1 DEF RetainedOn, Request
  <2>3. /\ rd[d] \in Nat /\ rd'[d] \in Nat /\ rd[d] <= rd'[d] /\ Len(log[d]) \in Nat
        /\ rd[d] <= Len(log[d])
        /\ \A j \in 1..Len(log[d]) : log'[d][j] = log[d][j]
    BY <1>0, <2>1, LogGrows
  <2>4. k <= rd'[d] /\ log'[d][k] = log[d][k]
    <3>1. k \in 1..Len(log[d])
      BY <2>1, <2>2, <2>3, BoundsAssumption
    <3> QED BY <2>1, <2>2, <2>3, <3>1, BoundsAssumption
  <2> QED BY <2>1, <2>2, <2>4 DEF RetainedOn, Request
<1>5. m \in RetainedOn(t)
  BY <1>2 DEF Known, RetainedOn
<1>6. CreatedOnce(t)
  BY <1>3, CreatedOnceBack
<1> QED BY <1>1, <1>2, <1>3, <1>4, <1>5, <1>6 DEF Sole

\* A worker that retains a message where the sole one is retains that one.
LEMMA SoleJob ==
  ASSUME TopicInv, NEW m, Sole(m), NEW w \in Workers,
         pc[w] \in {"retain", "clear", "keep"}, Request(job[w]).retain,
         heap[loc[w]].name = Request(m).topic
  PROVE  job[w] = m
<1>1. ServiceInv /\ PlaceAt(w) /\ pc[w] \in PubPCs
  BY DEF TopicInv, PubPCs
<1>2. Known(job[w], "PUBLISH") /\ heap[loc[w]].name = Request(job[w]).topic
  BY <1>1, Distributing DEF PlaceAt, FoundPCs
<1>3. job[w] \in RetainedOn(Request(m).topic)
  BY <1>2 DEF RetainedOn, Known
<1> QED BY <1>3 DEF Sole

LEMMA ShelvedStays ==
  ASSUME RetainInv, Next, NEW m, Known(m, "PUBLISH"), Sole(m), Past(m), Shelved(m)
  PROVE  Shelved(m)'
<1>0. /\ TopicInv /\ ServiceInv /\ TypeInv /\ FrameInv /\ LogTypes
  BY DEF RetainInv, DeliveryInv, TopicInv, ServiceInv, TypeInv
<1>1. Request(m)' = Request(m)
  BY <1>0, KeptStays
<1>2. PICK o \in 1..Len(heap) : heap[o].name = Request(m).topic /\ heap[o].retained = m
  BY DEF Shelved
<1>3. m \in live'
  <2>1. ASSUME NEW w \in Workers, Frees(w) PROVE m \in live'
    <3>1. /\ pc[w] = "retain" /\ Request(job[w]).retain
          /\ live' = (live \cup {job[w]}) \ {heap[loc[w]].retained}
      BY <2>1 DEF Frees
    <3>2. m \in live
      BY DEF Shelved
    <3>3. heap[loc[w]].retained # m
      <4> SUFFICES ASSUME heap[loc[w]].retained = m PROVE FALSE
        OBVIOUS
      <4>1. loc[w] \in 1..Len(heap)
        BY <1>0, <3>1, Distributing DEF PubPCs
      <4>2. m # NoMsg
        BY DEF Known, RequestNames, NoMsg
      <4>3. heap[loc[w]].name = Request(m).topic
        BY <1>0, <4>1, <4>2 DEF TopicInv, KeptAt, Kept
      <4>4. job[w] = m
        BY <1>0, <3>1, <4>3, SoleJob
      <4> QED BY <1>0, <3>1, <4>4, NotPast
    <3> QED BY <3>1, <3>2, <3>3
  <2> QED BY <2>1, LiveShape DEF Shelved
<1>4. OldObject(o)
  BY <1>0, HeapShape, HeapView
<1>5. ASSUME NEW w \in Workers, Clears(w) \/ Keeps(w), loc[w] = o PROVE FALSE
  <2>1. pc[w] \in {"clear", "keep"}
    BY <1>5 DEF Clears, Keeps
  <2>2. Request(job[w]).retain
    BY <1>0, <2>1 DEF TopicInv, PlaceAt
  <2>3. job[w] = m
    BY <1>0, <1>2, <1>5, <2>1, <2>2, SoleJob
  <2> QED BY <1>0, <2>1, <2>3, NotPast
<1>6. heap'[o].retained = m /\ heap'[o].name = Request(m).topic /\ o \in 1..Len(heap')
  BY <1>2, <1>4, <1>5 DEF OldObject
<1> QED BY <1>1, <1>3, <1>6 DEF Shelved

LEMMA SafeStep ==
  ASSUME RetainInv, ServiceInv', Next, NEW m \in RequestNames PROVE SafeAt(m)'
<1>0. /\ TopicInv /\ ServiceInv /\ TypeInv /\ FrameInv /\ LogTypes
  BY DEF RetainInv, DeliveryInv, TopicInv, ServiceInv, TypeInv
<1> SUFFICES ASSUME Known(m, "PUBLISH")', Request(m)'.retain, Sole(m)', Past(m)'
             PROVE  Shelved(m)'
  BY DEF SafeAt
<1>1. PICK c, n : m = <<c, n>> /\ m[1] = c /\ m[2] = n /\ c \in Conns
                  /\ n \in 1..MaxSends
  BY DEF RequestNames
<1>2. ASSUME n \in 1..rd[c] PROVE Known(m, "PUBLISH") /\ Request(m).retain
  <2>1. rd[c] \in Nat /\ log'[c][n] = log[c][n]
    BY <1>0, <1>1, <1>2, LogGrows
  <2>2. Request(m)' = Request(m)
    BY <1>1, <2>1 DEF Request
  <2> QED BY <1>1, <1>2, <2>1, <2>2 DEF Known
<1>3. ASSUME Known(m, "PUBLISH"), Request(m).retain, Past(m) PROVE Shelved(m)'
  <2>1. Sole(m)
    BY <1>0, <1>3, SoleBack
  <2>2. Shelved(m)
    BY <1>3, <2>1 DEF RetainInv, SafeAt
  <2> QED BY <1>3, <2>1, <2>2, ShelvedStays
<1>4. CASE Answered(c, n)
  BY <1>0, <1>1, <1>2, <1>3, <1>4, AnsweredRead DEF Past
<1>5. CASE Answered(c, n)' /\ ~Answered(c, n)
  <2>1. /\ n = rd[c] /\ n > 0 /\ UNCHANGED <<log, rd>>
        /\ log[c][n].req.op = "PUBLISH" =>
             \E w \in Workers : /\ pc[w] = "fanout" /\ todo[w] = <<>>
                                /\ job[w] = <<c, n>>
    BY <1>0, <1>1, <1>5, NewAnswer
  <2>2. Known(m, "PUBLISH") /\ Request(m).retain
    BY <1>1, <1>2, <2>1 DEF Known
  <2>3. Past(m)
    BY <1>1, <2>1, <2>2 DEF Past, Known, Request
  <2> QED BY <1>3, <2>2, <2>3
<1>6. ASSUME NEW w \in Workers, pc'[w] = "fanout", job'[w] = m PROVE Shelved(m)'
  <2>1. Hand(w)
    BY <1>0, HandShape
  <2>2. SameHand(w) /\ (Walks(w) \/ WalkStarts(w)) /\ pc[w] \in PubPCs
    BY <1>6, <2>1 DEF Hand, HandPCs, SubPCs, PubPCs, Advances, Walks, WalkStarts,
       Inserts, Frees, Keeps, Looks, Made, Begins
  <2>3. job[w] = m /\ Known(m, "PUBLISH")
    BY <1>0, <1>6, <2>2, Distributing DEF SameHand
  <2>4. Request(m)' = Request(m) /\ Request(m).retain
    BY <1>0, <2>3, KeptStays
  <2>5. CASE Walks(w)
    BY <1>3, <1>6, <2>3, <2>4, <2>5 DEF Walks, Past
  <2>6. CASE WalkStarts(w)
    <3>1. Keeps(w)
      BY <2>3, <2>4, <2>6 DEF WalkStarts
    <3>2. PICK o : o = loc[w]
      OBVIOUS
    <3>3. o \in 1..Len(heap) /\ heap[o].name = Request(m).topic
      BY <1>0, <2>2, <2>3, <3>1, <3>2, Distributing
      DEF Keeps, TopicInv, PlaceAt, FoundPCs
    <3>4. heap' = [heap EXCEPT ![o] = Topic(heap[o].name, heap[o].subs, m)]
      BY <2>3, <3>1, <3>2 DEF Keeps, SetRetained
    <3>5. /\ heap'[o].name = heap[o].name /\ heap'[o].retained = m
          /\ o \in 1..Len(heap')
      BY <1>0, <3>3, <3>4 DEF TypeInv, TopicTypes, Topic
    <3>6. m \in live'
      BY <2>3, <3>1 DEF Keeps, RetainInv, LiveAt
    <3> QED BY <2>4, <3>3, <3>5, <3>6 DEF Shelved
  <2> QED BY <2>2, <2>5, <2>6
<1>7. Answered(c, n)' \/ \E w \in Workers : pc'[w] = "fanout" /\ job'[w] = m
  BY <1>1 DEF Past
<1> QED BY <1>4, <1>5, <1>6, <1>7

\* A message is not freed while it is being retained: it is in no object yet.
LEMMA LiveStep ==
  ASSUME RetainInv, Next, NEW w \in Workers PROVE LiveAt(w)'
<1>0. ServiceInv /\ TypeInv
  BY DEF RetainInv, DeliveryInv, TopicInv, ServiceInv
<1> SUFFICES ASSUME pc'[w] \in {"clear", "keep"} PROVE job'[w] \in live'
  BY DEF LiveAt
<1>1. Hand(w)
  BY <1>0, HandShape
<1>2. /\ SameHand(w) /\ pc[w] \in {"retain", "clear", "keep"}
      /\ Frees(w) \/ pc[w] \in {"clear", "keep"}
  BY <1>1 DEF Hand, HandPCs, SubPCs, PubPCs, Advances, Walks, WalkStarts,
     Inserts, Frees, Keeps, Looks, Made, Begins
<1>3. PICK c, m : c = cur[w] /\ m = job[w]
  OBVIOUS
<1>4. \A o \in 1..Len(heap) : heap[o].retained # m
  <2>1. /\ c \in Conns /\ m = Latest(c) /\ Stage(c) = "working"
        /\ ~Inside(c, {"fanout"})
    BY <1>0, <1>2, <1>3, Distributing DEF PubPCs
  <2> QED BY <2>1 DEF RetainInv, UnkeptAt
<1>5. ASSUME NEW v \in Workers, Frees(v), m \in live \/ v = w PROVE m \in live'
  <2>1. loc[v] \in 1..Len(heap)
    BY <1>0, <1>5, Distributing DEF Frees, PubPCs
  <2>2. heap[loc[v]].retained # m
    BY <1>4, <2>1
  <2> QED BY <1>3, <1>5, <2>2 DEF Frees
<1>6. CASE pc[w] \in {"clear", "keep"}
  <2>1. m \in live
    BY <1>3, <1>6 DEF RetainInv, LiveAt
  <2> QED BY <1>2, <1>3, <1>5, <2>1, LiveShape DEF SameHand
<1>7. CASE Frees(w)
  BY <1>2, <1>3, <1>5, <1>7 DEF SameHand
<1> QED BY <1>2, <1>6, <1>7

LEMMA UnkeptStep ==
  ASSUME RetainInv, ServiceInv', Next, NEW c \in Conns PROVE UnkeptAt(c)'
<1>0. /\ TopicInv /\ ServiceInv /\ TypeInv /\ LogTypes /\ rd[c] \in Nat
      /\ rd'[c] \in Nat
  BY DEF RetainInv, DeliveryInv, TopicInv, ServiceInv, TypeInv, LogTypes
<1> SUFFICES ASSUME Stage(c)' = "working", ~Inside(c, {"fanout"})',
                    NEW o \in 1..Len(heap')
             PROVE  heap'[o].retained # Latest(c)'
  BY DEF UnkeptAt
<1>1. PICK m : m = <<c, rd'[c]>>
  OBVIOUS
<1>2. SUFFICES heap'[o].retained # m
  BY <1>1 DEF Latest
<1>3. m # NoMsg
  BY <1>1 DEF NoMsg
<1>4. ASSUME o \in 1..Len(heap) PROVE heap[o].retained # m
  <2>1. CASE rd'[c] = rd[c]
    <3>1. Stage(c) = "working" /\ ~Inside(c, {"fanout"})
      BY <1>0, <2>1, StageMoves, FanOutGoesOn
    <3> QED BY <1>1, <1>4, <2>1, <3>1 DEF RetainInv, UnkeptAt, Latest
  <2>2. CASE rd'[c] # rd[c]
    <3>1. rd[c] < rd'[c]
      BY <1>0, <2>2, LogGrows
    <3>2. ~Known(m, "PUBLISH")
      BY <1>0, <1>1, <3>1 DEF Known
    <3> QED BY <1>0, <1>3, <1>4, <3>2 DEF TopicInv, KeptAt, Kept
  <2> QED BY <2>1, <2>2
<1>5. ASSUME NEW w \in Workers, Keeps(w) PROVE job[w] # m
  <2>1. PICK d : d = cur[w]
    OBVIOUS
  <2>2. /\ d \in Conns /\ job[w] = <<d, rd[d]>> /\ Known(job[w], "PUBLISH")
        /\ pc[w] = "keep"
    BY <1>0, <1>5, <2>1, Distributing DEF Keeps, PubPCs, Latest
  <2>3. pc'[w] = "fanout" /\ cur'[w] = d
    BY <1>0, <1>5, <2>1 DEF Keeps, Goto, TypeInv, OwnerInv, OwnerTypes
  <2>4. d # c
    BY <2>3 DEF Inside
  <2> QED BY <1>1, <2>2, <2>4
<1>6. CASE o \in 1..Len(heap)
  <2>1. OldObject(o)
    BY <1>0, <1>6, HeapShape, HeapView
  <2> QED BY <1>3, <1>4, <1>5, <1>6, <2>1 DEF OldObject
<1>7. CASE NewObject(o)
  BY <1>3, <1>7 DEF NewObject, Topic
<1> QED BY <1>0, <1>6, <1>7, HeapShape, HeapView

LEMMA DueStep ==
  ASSUME RetainInv, ServiceInv', Next, NEW c \in Conns PROVE DueAt(c)'
<1>0. /\ ServiceInv /\ FrameInv /\ LogTypes
  BY DEF RetainInv, DeliveryInv, TopicInv, ServiceInv, TypeInv
<1> SUFFICES ASSUME NEW n \in 1..Len(log'[c]), log'[c][n].req.op = "SUBSCRIBE",
                    NEW m \in log'[c][n].owed
             PROVE  Kept(m, log[c][n].req.topic)' /\ Answered(m[1], m[2])'
  BY DEF DueAt
<1>1. PICK r, t : r = log'[c][n].req /\ t = r.topic
  OBVIOUS
<1>2. ASSUME Kept(m, t), Answered(m[1], m[2])
      PROVE  Kept(m, log[c][n].req.topic)' /\ Answered(m[1], m[2])'
  <2>1. Kept(m, t)'
    BY <1>0, <1>2, KeptStays
  <2>2. m[1] \in Conns
    BY <1>2 DEF Kept, Known, RequestNames
  <2>3. PICK d, k : d = m[1] /\ k = m[2]
    OBVIOUS
  <2>4. Answered(d, k)'
    BY <1>0, <1>2, <2>2, <2>3, AnsweredStays
  <2> QED BY <1>1, <2>1, <2>3, <2>4 DEF Kept, Answered
<1>3. CASE n \in 1..Len(log[c]) /\ log'[c][n] = log[c][n]
  BY <1>1, <1>2, <1>3 DEF RetainInv, DueAt
<1>4. CASE log'[c][n].owed = Owed(log'[c][n].req)
  <2>1. m \in Owed(r) /\ r.op = "SUBSCRIBE"
    BY <1>1, <1>4
  <2>2. /\ m \in RequestNames /\ m[2] <= rd[m[1]] /\ Request(m).op = "PUBLISH"
        /\ Request(m).topic = t /\ Request(m).retain /\ Answered(m[1], m[2])
    BY <1>1, <2>1 DEF Owed
  <2>3. Request(m).topic \in Topics
    <3>1. PICK d, k : d = m[1] /\ k = m[2] /\ d \in Conns
      BY <2>2 DEF RequestNames
    <3>2. k \in 1..rd[d] /\ Answer(log[d][k].req) # <<>>
      BY <1>0, <2>2, <3>1, AnsweredRead
    <3>3. PICK q : q = log[d][k].req
      OBVIOUS
    <3>4. q \in Requests /\ q = Request(m)
      <4>1. k \in 1..Len(log[d]) /\ log[d] \in Seq(LogEntries)
        BY <1>0, <3>1, <3>2 DEF LogTypes
      <4>2. log[d][k] \in LogEntries
        BY <4>1
      <4> QED BY <3>1, <3>3, <4>2 DEF LogEntries, Request
    <3>5. q.topic # EmptyTopic
      BY <2>2, <3>2, <3>3, <3>4 DEF Answer
    <3> QED BY <2>2, <3>4, <3>5, RequestFields
  <2>4. Kept(m, t)
    BY <2>2, <2>3 DEF Kept, Known
  <2> QED BY <1>2, <2>2, <2>4
<1> QED BY <1>0, <1>3, <1>4, NewEntry

\* What a subscriber is owed is in the topic's object, if nothing replaces it.
LEMMA DueSole ==
  ASSUME RetainInv, Next, NEW c \in Conns, NEW n \in 1..Len(log[c]),
         log[c][n].req.op = "SUBSCRIBE", NEW m \in log[c][n].owed, Sole(m)'
  PROVE  /\ Sole(m) /\ Shelved(m) /\ m \in RequestNames
         /\ Request(m).topic = log[c][n].req.topic
<1>0. TypeInv
  BY DEF RetainInv, DeliveryInv, TopicInv, ServiceInv
<1>1. Kept(m, log[c][n].req.topic) /\ Answered(m[1], m[2])
  BY DEF RetainInv, DueAt
<1>2. /\ Known(m, "PUBLISH") /\ Request(m).retain /\ m \in RequestNames
      /\ Request(m).topic = log[c][n].req.topic
  BY <1>1 DEF Kept, Known
<1>3. Sole(m)
  BY <1>0, <1>2, SoleBack
<1>4. Past(m)
  BY <1>1 DEF Past
<1> QED BY <1>2, <1>3, <1>4 DEF RetainInv, SafeAt

\* A reply that grants a SUBSCRIBE answers the last request.
LEMMA GrantsSubscribe ==
  ASSUME ServiceInv, NEW c \in Conns, Grants(c)
  PROVE  /\ rd[c] \in 1..Len(log[c]) /\ log[c][rd[c]].req.op = "SUBSCRIBE"
<1>1. /\ ReplyAt(c) /\ ctx[c] = "reply" /\ reply[c].op = "SUBACK"
      /\ rd[c] \in Nat /\ Len(log[c]) \in Nat /\ rd[c] <= Len(log[c])
  BY DEF ServiceInv, TypeInv, LogTypes, Grants
<1>2. rd[c] > 0 /\ Answer(Request(<<c, rd[c]>>)) = <<"SUBACK", reply[c].rc>>
  BY <1>1 DEF ReplyAt, Fits
<1>3. Request(<<c, rd[c]>>).op = "SUBSCRIBE"
  BY <1>2, AnswerOps
<1> QED BY <1>1, <1>2, <1>3 DEF Request

LEMMA PromisedStep ==
  ASSUME RetainInv, ServiceInv', Next, NEW c \in Conns PROVE PromisedAt(c)'
<1>0. /\ TopicInv /\ ServiceInv /\ TypeInv /\ LogTypes /\ TopicTypes
  BY DEF RetainInv, DeliveryInv, TopicInv, ServiceInv, TypeInv
<1> SUFFICES ASSUME Grants(c)', NEW m \in log'[c][rd'[c]].owed, Sole(m)'
             PROVE  reply'[c].retained = m
  BY DEF PromisedAt
<1>1. \A k \in 1..Len(log[c]) : log'[c][k] = log[c][k]
  BY <1>0, LogGrows
<1>2. CASE ctx[c] = "reply" /\ reply'[c] = reply[c] /\ rd'[c] = rd[c]
  <2>1. Grants(c)
    BY <1>2 DEF Grants
  <2>2. rd[c] \in 1..Len(log[c]) /\ log[c][rd[c]].req.op = "SUBSCRIBE"
    BY <1>0, <2>1, GrantsSubscribe
  <2>3. m \in log[c][rd[c]].owed
    BY <1>1, <1>2, <2>2
  <2>4. Sole(m)
    BY <2>2, <2>3, DueSole
  <2> QED BY <1>2, <2>1, <2>3, <2>4 DEF RetainInv, PromisedAt
<1>3. ASSUME NEW w \in Workers, pc[w] = "sub_retained", cur[w] = c,
             rd'[c] = rd[c], reply'[c].retained = heap[loc[w]].retained
      PROVE  reply'[c].retained = m
  <2>1. /\ job[w] = <<c, rd[c]>> /\ Known(job[w], "SUBSCRIBE")
        /\ loc[w] \in 1..Len(heap) /\ heap[loc[w]].name = Request(job[w]).topic
    <3>1. /\ WorkAt(w) /\ HandlerAt(w) /\ PlaceAt(w) /\ loc[w] \in 0..Len(heap)
          /\ Len(heap) \in Nat
      BY <1>0 DEF TopicInv, ServiceInv, TypeInv, HandlerInv, LocalTypes, TopicTypes
    <3>2. loc[w] # 0
      BY <1>3, <3>1 DEF HandlerAt, SubPCs
    <3> QED BY <1>3, <3>1, <3>2
        DEF WorkAt, StartPCs, SubPCs, HandlerAt, PlaceAt, FoundPCs
  <2>2. rd[c] \in 1..Len(log[c]) /\ log[c][rd[c]].req = Request(job[w])
    <3>1. rd[c] \in 1..MaxSends /\ rd[c] <= Len(log[c]) /\ Len(log[c]) \in Nat
      BY <1>0, <2>1 DEF Known, RequestNames, LogTypes
    <3> QED BY <2>1, <3>1, BoundsAssumption DEF Request
  <2>3. log[c][rd[c]].req.op = "SUBSCRIBE" /\ m \in log[c][rd[c]].owed
    BY <1>1, <1>3, <2>1, <2>2 DEF Known
  <2>4. Sole(m) /\ Shelved(m) /\ Request(m).topic = Request(job[w]).topic
    BY <2>2, <2>3, DueSole
  <2>5. PICK o \in 1..Len(heap) : heap[o].name = Request(m).topic /\ heap[o].retained = m
    BY <2>4 DEF Shelved
  <2>6. o = loc[w]
    BY <1>0, <2>1, <2>4, <2>5, OnlyObject DEF Sole
  <2> QED BY <1>3, <2>5, <2>6
<1> QED BY <1>0, <1>2, <1>3, CarriesStep DEF Carries, Grants

\* The retained message is sent after the SUBACK and before the next read.
LEMMA ReplayedStep ==
  ASSUME RetainInv, ServiceInv', Next, NEW c \in Conns PROVE ReplayedAt(c)'
<1>0. /\ ServiceInv /\ TypeInv /\ LogTypes /\ OutTypes
      /\ rd[c] \in Nat /\ rd'[c] \in Nat
  BY DEF RetainInv, DeliveryInv, TopicInv, ServiceInv, TypeInv, LogTypes
<1> SUFFICES ASSUME NEW n \in 1..rd'[c],
                    log'[c][n].req.op = "SUBSCRIBE",
                    log'[c][n].req.topic # EmptyTopic,
                    n < rd'[c] \/ Stage(c)' = "ready" \/ armed'[c] = "in",
                    NEW m \in log'[c][n].owed, Sole(m)'
             PROVE  Copies(c, m, "RETAINED")' # {}
  BY DEF ReplayedAt, Served, Copies
<1>1. rd'[c] = rd[c] \/ Reads(c)
  BY <1>0, ServiceKinds
  DEF Idles, Requested, Reads, Offering, Settles, Repeats, Fails, LogTypes
<1>2. Reads(c) => /\ Stage(c) = "ready" /\ rd'[c] = rd[c] + 1
                  /\ Stage(c)' \in {"mute", "working"}
  BY <1>0 DEF Reads, To, LogTypes
<1>3. armed'[c] = "in" => Stage(c)' \in {"ready", "down"}
  BY ArmedReady
<1>4. n \in 1..rd[c]
  BY <1>0, <1>1, <1>2, <1>3
<1>5. n \in 1..Len(log[c]) /\ log'[c][n] = log[c][n]
  BY <1>0, <1>4, LogGrows
<1>6. /\ Sole(m) /\ Shelved(m) /\ m \in RequestNames
      /\ log[c][n].req.op = "SUBSCRIBE" /\ log[c][n].req.topic # EmptyTopic
      /\ m \in log[c][n].owed
  BY <1>5, DueSole
<1>7. ASSUME n < rd[c] \/ Stage(c) = "ready" \/ armed[c] = "in"
      PROVE  Copies(c, m, "RETAINED")' # {}
  <2>1. Copies(c, m, "RETAINED") # {}
    BY <1>4, <1>6, <1>7 DEF RetainInv, ReplayedAt, Served
  <2> QED BY <1>0, <2>1, CopiesStay
<1>8. CASE Down'
  <2>1. armed'[c] = armed[c]
    BY <1>0, <1>8, DownArmed
  <2>2. Stage(c)' = "down"
    BY <1>8 DEF Stage, Down
  <2> QED BY <1>0, <1>1, <1>2, <1>4, <1>7, <2>1, <2>2
<1>9. CASE ~Down' /\ n = rd[c] /\ rd'[c] = rd[c]
  <2>1. Stage(c)' # "down"
    BY <1>9 DEF Stage, Down
  <2>2. Stage(c)' = "ready"
    BY <1>0, <1>3, <1>9, <2>1
  <2>3. /\ log[c][rd[c]].req = Request(Latest(c)) /\ Latest(c) = <<c, rd[c]>>
    BY DEF Request, Latest
  <2>4. ASSUME Grants(c) PROVE reply[c].retained = m
    BY <1>6, <1>9, <2>4 DEF RetainInv, PromisedAt
  <2>5. ASSUME ctx[c] = "reply", reply[c].op = "SUBACK"
        PROVE  Grants(c)
    <3>1. ReplyAt(c)
      BY <1>0 DEF ServiceInv
    <3>2. Answer(Request(<<c, rd[c]>>)) = <<"SUBACK", reply[c].rc>>
      BY <2>5, <3>1 DEF ReplyAt, Fits
    <3>3. PICK r : r = Request(<<c, rd[c]>>)
      OBVIOUS
    <3>4. r.op = "SUBSCRIBE" /\ r.topic # EmptyTopic
      BY <1>6, <1>9, <2>3, <3>3
    <3>5. Answer(r) = <<"SUBACK", 0>>
      BY <3>4 DEF Answer
    <3> QED BY <2>5, <3>2, <3>3, <3>5 DEF Grants
  <2>6. CASE Stage(c) = "ready"
    BY <1>7, <2>6
  <2>7. ASSUME NEW next \in {"ready", "replay"}, Settles(c, next) PROVE FALSE
    <3>1. next = "ready"
      BY <2>2, <2>7 DEF Settles, To
    <3>2. ctx[c] = "reply" /\ reply[c].op = "SUBACK" /\ reply[c].retained = NoMsg
      BY <1>6, <1>9, <2>3, <2>7, <3>1 DEF Settles
    <3>3. m = NoMsg
      BY <2>4, <2>5, <3>2
    <3> QED BY <1>6, <3>3 DEF RequestNames, NoMsg
  <2>8. CASE Repeats(c)
    <3>1. reply[c].retained = m
      BY <2>4, <2>5, <2>8 DEF Repeats
    <3>2. Puts(c, "RETAINED", 0, m)
      BY <1>6, <2>8, <3>1 DEF Repeats, Shelved
    <3>3. PICK f : f.op = "RETAINED" /\ f.re = m /\ Added(c, f)
      BY <1>0, <3>2, PutsView
    <3>4. Copies(c, m, "RETAINED")'
            = Copies(c, m, "RETAINED") \cup {Len(outbox[c]) + 1}
      BY <1>0, <3>3, CopiesAdded
    <3> QED BY <3>4
  <2>9. CASE Stage(c)' = Stage(c)
    BY <2>2, <2>6, <2>9
  <2>10. \/ Stage(c)' = Stage(c) \/ Repeats(c) \/ Stage(c)' # "ready"
         \/ \E next \in {"ready", "replay"} : Settles(c, next)
    BY <1>0, <1>2, ServiceKinds
    DEF Idles, Requested, Reads, Settles, Repeats, Fails, To, StagesStay
  <2> QED BY <2>2, <2>7, <2>8, <2>9, <2>10
<1>10. CASE ~Down' /\ ~(n = rd[c] /\ rd'[c] = rd[c])
  BY <1>0, <1>1, <1>2, <1>4, <1>7, <1>10
<1> QED BY <1>8, <1>9, <1>10

LEMMA RetainInit == Init => RetainInv
<1> SUFFICES ASSUME Init PROVE RetainInv
  OBVIOUS
<1>1. DeliveryInv
  BY DeliveryInit
<1>2. \A c \in Conns : log[c] = <<>> /\ rd[c] = 0 /\ ctx[c] = "request"
  BY DEF Init
<1>3. (\A w \in Workers : pc[w] = "poll") /\ heap = <<>>
  BY DEF Init
<1>4. ASSUME NEW m \in RequestNames PROVE SafeAt(m)
  BY <1>2 DEF SafeAt, Known, RequestNames
<1>5. ASSUME NEW c \in Conns PROVE UnkeptAt(c)
  BY <1>3 DEF UnkeptAt
<1>6. ASSUME NEW c \in Conns PROVE DueAt(c) /\ PromisedAt(c) /\ ReplayedAt(c)
  BY <1>2 DEF DueAt, PromisedAt, Grants, ReplayedAt
<1> QED BY <1>1, <1>3, <1>4, <1>5, <1>6 DEF RetainInv, LiveAt

LEMMA RetainNext == RetainInv /\ [Next]_vars => RetainInv'
<1> SUFFICES ASSUME RetainInv, [Next]_vars PROVE RetainInv'
  OBVIOUS
<1>1. DeliveryInv'
  BY DeliveryNext DEF RetainInv
<1>2. CASE Next
  <2>1. ServiceInv'
    BY <1>1 DEF DeliveryInv, TopicInv
  <2> QED BY <1>1, <1>2, <2>1, SafeStep, LiveStep, UnkeptStep, DueStep, PromisedStep,
       ReplayedStep DEF RetainInv
<1>3. CASE UNCHANGED vars
  <2>1. UNCHANGED <<log, rd, outbox, ctx, reply, heap, live, armed, pc, cur, job>>
    BY <1>3 DEF vars, netVars, connVars, topicVars, localVars, workerVars
  <2>2. \A m : /\ Known(m, "PUBLISH")' = Known(m, "PUBLISH")
               /\ Request(m)' = Request(m)
    BY <2>1 DEF Known, Request
  <2>3. \A m : Sole(m)' = Sole(m)
    BY <2>1 DEF Sole, CreatedOnce, RetainedOn, Request
  <2>4. \A m \in RequestNames : SafeAt(m)'
    <3> SUFFICES ASSUME NEW m \in RequestNames PROVE SafeAt(m)'
      OBVIOUS
    <3>1. Past(m)' = Past(m) /\ Shelved(m)' = Shelved(m)
      BY <2>1 DEF Past, Shelved, Answered, Request
    <3> QED BY <2>2, <2>3, <3>1 DEF RetainInv, SafeAt
  <2>5. \A w \in Workers : LiveAt(w)'
    BY <2>1 DEF RetainInv, LiveAt
  <2>6. \A c \in Conns : Stage(c)' = Stage(c)
    BY <2>1 DEF Stage, Down, LastUnanswerable, Inside, Request
  <2>7. \A c \in Conns : UnkeptAt(c)'
    BY <2>1, <2>6 DEF RetainInv, UnkeptAt, Inside, Latest
  <2>8. \A c \in Conns : DueAt(c)'
    <3>1. \A m, t : Kept(m, t)' = Kept(m, t)
      BY <2>2 DEF Kept
    <3>2. \A d, k : Answered(d, k)' = Answered(d, k)
      BY <2>1 DEF Answered
    <3>3. log' = log
      BY <2>1
    <3> QED BY <3>1, <3>2, <3>3 DEF RetainInv, DueAt
  <2>9. \A c \in Conns : PromisedAt(c)'
    BY <2>1, <2>3 DEF RetainInv, PromisedAt, Grants
  <2>10. \A c \in Conns : ReplayedAt(c)'
    <3>1. \A c \in Conns : \A n : Served(c, n)' = Served(c, n)
      BY <2>1, <2>3 DEF Served, Copies
    <3>2. log' = log /\ rd' = rd /\ armed' = armed
      BY <2>1
    <3> QED BY <2>6, <3>1, <3>2 DEF RetainInv, ReplayedAt
  <2> QED BY <1>1, <2>4, <2>5, <2>7, <2>8, <2>9, <2>10 DEF RetainInv
<1> QED BY <1>2, <1>3

(* In every behaviour: a client that subscribes after the PUBACK of the    *)
(* only message retained on the topic is sent that message after its       *)
(* SUBACK: between the two, retain_message of that message has put it in   *)
(* the topic's object and no thread takes it out or frees it.              *)
THEOREM NewSubscriberGetsRetainedHolds == Spec => []NewSubscriberGetsRetained
<1>1. ASSUME RetainInv PROVE NewSubscriberGetsRetained
  <2>0. LogTypes
    BY <1>1 DEF RetainInv, DeliveryInv, TopicInv, ServiceInv, TypeInv
  <2> SUFFICES ASSUME NEW c \in Conns, armed[c] = "in", NEW n \in 1..rd[c],
                      log[c][n].req.op = "SUBSCRIBE",
                      log[c][n].req.topic # EmptyTopic,
                      CreatedOnce(log[c][n].req.topic),
                      Cardinality(RetainedOn(log[c][n].req.topic)) = 1,
                      NEW m \in log[c][n].owed
               PROVE  Copies(c, m, "RETAINED") # {}
    BY DEF NewSubscriberGetsRetained
  <2>1. PICK t : t = log[c][n].req.topic
    OBVIOUS
  <2>2. n \in 1..Len(log[c])
    BY <2>0 DEF LogTypes
  <2>3. Kept(m, t)
    BY <1>1, <2>1, <2>2 DEF RetainInv, DueAt
  <2>4. m \in RetainedOn(t) /\ Request(m).topic = t
    BY <2>3 DEF Kept, Known, RetainedOn
  <2>5. IsFiniteSet(RetainedOn(t))
    <3>1. IsFiniteSet(Conns) /\ IsFiniteSet(1..MaxSends)
      BY ConnsAssumption, BoundsAssumption, FS_Interval
    <3>2. IsFiniteSet(RequestNames)
      BY <3>1, FS_Product DEF RequestNames
    <3>3. RetainedOn(t) \subseteq RequestNames
      BY DEF RetainedOn
    <3> QED BY <3>2, <3>3, FS_Subset
  <2>6. RetainedOn(t) = {m}
    <3>1. PICK x : RetainedOn(t) = {x}
      BY <2>1, <2>5, FS_Singleton
    <3> QED BY <2>4, <3>1
  <2>7. Sole(m)
    BY <2>1, <2>4, <2>6 DEF Sole
  <2> QED BY <1>1, <2>7 DEF RetainInv, ReplayedAt, Served
<1> QED BY <1>1, RetainInit, RetainNext, PTL DEF Spec
=============================================================================
