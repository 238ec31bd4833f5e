------------------------ MODULE BrokerServiceProofs -------------------------
(***************************************************************************)
(* What the two handlers of a connection know about its current request:   *)
(* between reading it and answering it no other request of the connection  *)
(* is read, the reply slot holds its answer, and the connection is watched *)
(* or held.  From this follow who can be wedged (OnlyUnanswerableWedges)   *)
(* and what the table of clients holds (ClientsTracked).                   *)
(***************************************************************************)
EXTENDS BrokerProofs, BrokerRefinement

StartPCs == {"connect_add"} \cup SubPCs

\* The reply v is what request m is to be answered with.
Fits(v, m) ==
  IF v.op = "NONE" THEN GivenUp(Request(m))
  ELSE /\ ~GivenUp(Request(m))
       /\ v.re = m
       /\ IF v.op = "PUBLISH" THEN Request(m).op = "PUBLISH"
                              ELSE Answer(Request(m)) = <<v.op, v.rc>>
       /\ v.retained # NoMsg => v.op = "SUBACK"

\* The slot of a connection that waits for its socket is for its last request.
ReplyAt(c) == ctx[c] = "reply" => rd[c] > 0 /\ Fits(reply[c], <<c, rd[c]>>)

\* The handler a worker is inside works on that request.
WorkAt(w) ==
  /\ pc[w] \in StartPCs => /\ ctx[cur[w]] = "request"
                           /\ job[w] = <<cur[w], rd[cur[w]]>>
  /\ pc[w] \in PubPCs => /\ ctx[cur[w]] = "reply"
                         /\ reply[cur[w]].op = "PUBLISH"
                         /\ job[w] = <<cur[w], rd[cur[w]]>>
  /\ pc[w] = "suback_retained" => /\ ctx[cur[w]] = "reply"
                                  /\ reply[cur[w]].op = "SUBACK"
                                  /\ reply[cur[w]].retained # NoMsg

\* After a request nobody answers no further one is read.
MuteAt(c) ==
  LastUnanswerable(c) =>
    /\ armed[c] # "in"
    /\ \A w \in Workers : c \in batch[w] => ctx[c] = "reply"

\* An intact connection is watched, held, or was given up.
ServedAt(c) ==
  peer[c] \in {"open", "partial", "eof"} =>
    \/ armed[c] # "none"
    \/ \E w \in Workers : c \in batch[w]
    \/ LastUnanswerable(c)

\* Nothing was read of a connection that was not accepted.
FreshAt(c) == peer[c] \in {"none", "queued", "lost"} => rd[c] = 0

AllDead == \A v, w \in Workers : pc[v] = "dead" => pc[w] = "dead"

ServiceInv ==
  /\ TypeInv
  /\ ReplySlot
  /\ AllDead
  /\ \A w \in Workers : WorkAt(w)
  /\ \A c \in Conns : ReplyAt(c) /\ MuteAt(c) /\ ServedAt(c) /\ FreshAt(c)

\* Identifiers: where a client got its own, and where the table has it.
CleanConnect(c, i) ==
  \E n \in 1..rd[c] : /\ log[c][n].req.op = "CONNECT"
                      /\ log[c][n].req.clean
                      /\ log[c][n].req.id = i
NamedAt(c) == cid[c] = c \/ (cid[c] \in Ids /\ CleanConnect(c, cid[c]))
HasConnected(c) ==
  \E n \in 1..rd[c] : /\ log[c][n].req.op = "CONNECT"
                      /\ log[c][n].req.id # EmptyId
AddingAt(w) ==
  pc[w] = "connect_add" => Request(job[w]).clean /\ clients[cur[w]] = 0
TrackedAt(c) ==
  /\ HasConnected(c)
  /\ \A w \in Workers : c \in batch[w] =>
       pc[w] # "dead" /\ (pc[w] = "connect_add" => cur[w] # c)
  => clients[c] > 0 \/ \E d \in Conns \ {c} : UsedId(d, cid[c])

\* No slot was freed: one entry for a Client, one for an identifier.
Single ==
  ~hole =>
    /\ \A c \in Conns : clients[c] <= 1 /\ strays[c] = 0
    /\ \A c, d \in Conns :
         clients[c] > 0 /\ clients[d] > 0 /\ cid[c] = cid[d] => c = d

IdInv ==
  /\ ServiceInv
  /\ Single
  /\ \A w \in Workers : AddingAt(w)
  /\ \A c \in Conns : NamedAt(c) /\ TrackedAt(c)

-----------------------------------------------------------------------------
(***************************************************************************)
(* The kinds of steps a handler takes, as far as the connection c and the  *)
(* worker w are concerned.                                                 *)
(***************************************************************************)
\* Nothing of another worker or another connection changes.
Others(w, c) ==
  /\ \A v \in Workers \ {w} : /\ pc'[v] = pc[v] /\ cur'[v] = cur[v]
                              /\ job'[v] = job[v] /\ batch'[v] = batch[v]
  /\ \A d \in Conns \ {c} : /\ ctx'[d] = ctx[d] /\ reply'[d] = reply[d]
                            /\ rd'[d] = rd[d] /\ armed'[d] = armed[d]
  /\ UNCHANGED <<peer, log>>

Slot(c) == <<ctx[c], reply[c], armed[c]>>
Takes(c) == ctx[c] = "request" /\ rd[c] < Len(log[c]) /\ rd'[c] = rd[c] + 1
Leaves(w, c) == /\ pc'[w] = "poll" /\ batch'[w] = batch[w] \ {c}
                /\ cur'[w] = cur[w] /\ job'[w] = job[w]
Stays(w, c, labels) ==
  pc'[w] \in labels /\ cur'[w] = c /\ batch'[w] = batch[w]

Drops(w, c) ==
  /\ Holds(w, c) /\ Leaves(w, c) /\ rd'[c] = rd[c] /\ Slot(c)' = Slot(c)
  /\ peer[c] = "reset" \/ (ctx[c] = "reply" /\ reply[c].op = "NONE")
Rests(w, c) ==
  /\ Holds(w, c) /\ Leaves(w, c) /\ rd'[c] = rd[c] /\ ctx[c] = "request"
  /\ Slot(c)' = <<ctx[c], reply[c], "in">>
Rejects(w, c) ==
  /\ Holds(w, c) /\ Leaves(w, c) /\ Takes(c) /\ Slot(c)' = Slot(c)
  /\ GivenUp(NextRequest(c))
Queues(w, c) ==
  /\ Holds(w, c) /\ Leaves(w, c) /\ Takes(c)
  /\ ctx'[c] = "reply" /\ armed'[c] = "out"
  /\ Fits(reply'[c], NextName(c))
Starts(w, c) ==
  /\ Holds(w, c) /\ Stays(w, c, StartPCs) /\ Takes(c) /\ Slot(c)' = Slot(c)
  /\ ~GivenUp(NextRequest(c))
  /\ job'[w] = NextName(c)
Moves(w, c) ==
  /\ cur[w] = c /\ c \in batch[w] /\ rd'[c] = rd[c] /\ Slot(c)' = Slot(c)
  /\ \/ pc[w] \in SubPCs /\ Stays(w, c, SubPCs)
     \/ pc[w] \in PubPCs /\ Stays(w, c, PubPCs)
  /\ job'[w] = job[w]
Prepares(w, c) ==
  /\ cur[w] = c /\ c \in batch[w] /\ pc[w] \in StartPCs /\ Leaves(w, c)
  /\ rd'[c] = rd[c]
  /\ ctx'[c] = "reply" /\ armed'[c] = "out"
  /\ reply'[c].op \in {"CONNACK", "SUBACK"} /\ Fits(reply'[c], job[w])
Answers(w, c) ==
  /\ \/ Holds(w, c)
     \/ /\ cur[w] = c /\ c \in batch[w]
        /\ pc[w] \in PubPCs \cup {"suback_retained"}
  /\ ctx[c] = "reply" /\ reply[c].op # "NONE"
  /\ rd'[c] = rd[c] /\ Leaves(w, c)
  /\ Slot(c)' = <<"request", NoReply, "in">>
Enters(w, c) ==
  /\ Holds(w, c) /\ ctx[c] = "reply" /\ rd'[c] = rd[c] /\ Slot(c)' = Slot(c)
  /\ \/ /\ reply[c].op = "SUBACK" /\ reply[c].retained # NoMsg
        /\ Stays(w, c, {"suback_retained"})
     \/ /\ reply[c].op = "PUBLISH" /\ Stays(w, c, PubPCs)
        /\ job'[w] = reply[c].re
Spins(w, c) ==
  /\ \/ Holds(w, c) /\ ctx[c] = "request" /\ Stays(w, c, {"spin"})
     \/ /\ pc[w] = "spin" /\ cur[w] = c /\ c \in batch[w]
        /\ Stays(w, c, {"poll"})
  /\ rd'[c] = rd[c] /\ Slot(c)' = Slot(c)

Handles(w, c) ==
  \/ Drops(w, c) \/ Rests(w, c) \/ Rejects(w, c) \/ Queues(w, c)
  \/ Starts(w, c) \/ Moves(w, c) \/ Prepares(w, c) \/ Answers(w, c)
  \/ Enters(w, c) \/ Spins(w, c)

Dies == Crash /\ UNCHANGED <<peer, log, rd, ctx, reply, armed, job>>

-----------------------------------------------------------------------------
\* The types the kinds of steps are read off from.
Functions ==
  /\ rd \in [Conns -> Nat] /\ ctx \in [Conns -> {"request", "reply"}]
  /\ reply \in [Conns -> Replies]
  /\ armed \in [Fds -> {"none", "in", "out"}] /\ Conns \subseteq Fds
  /\ pc \in [Workers -> PCs] /\ cur \in [Workers -> Fds]
  /\ job \in [Workers -> RequestNames \cup {NoMsg}]
  /\ batch \in [Workers -> SUBSET Fds]

LEMMA HaveFunctions == ASSUME TypeInv PROVE Functions
  BY DEF TypeInv, OwnerInv, OwnerTypes, LogTypes, ReplyTypes, LocalTypes, Fds,
     Functions

\* What the requests of each kind are answered with.
LEMMA NoReplyFits ==
  ASSUME NEW m, GivenUp(Request(m)) PROVE Fits(NoReply, m)
  BY DEF Fits, NoReply

LEMMA AckFits ==
  ASSUME NEW m, NEW op, NEW rc, NEW r,
         op \notin {"NONE", "PUBLISH"}, r # NoMsg => op = "SUBACK",
         ~GivenUp(Request(m)), Answer(Request(m)) = <<op, rc>>
  PROVE  Fits([op |-> op, rc |-> rc, re |-> m, retained |-> r], m)
  BY DEF Fits

LEMMA PublishFits ==
  ASSUME NEW m, ~GivenUp(Request(m)), Request(m).op = "PUBLISH"
  PROVE  Fits([op |-> "PUBLISH", rc |-> 0, re |-> m, retained |-> NoMsg], m)
  BY DEF Fits

\* Steps of Handle that end the handler.
LEMMA HandleReturns ==
  ASSUME TypeInv, ReplySlot, NEW w \in Workers, NEW c \in Conns,
         \/ HangUp(w, c) \/ RecvNothing(w, c) \/ RecvOther(w, c)
         \/ ReplyNone(w, c) \/ ReplyAck(w, c)
  PROVE  Others(w, c) /\ Handles(w, c)
<1> USE DEF netVars, connVars, localVars, OwnClientOnly, Return, Leaves, Slot,
            Others, Functions
<1>0. Functions
  BY HaveFunctions
<1>1. CASE HangUp(w, c) \/ ReplyNone(w, c)
  <2>1. /\ Holds(w, c) /\ Return(w, c)
        /\ UNCHANGED <<peer, log, job, rd, ctx, reply, armed>>
        /\ peer[c] = "reset" \/ (ctx[c] = "reply" /\ reply[c].op = "NONE")
    BY <1>1 DEF HangUp, ReplyNone, Replying
  <2>2. Drops(w, c) /\ Others(w, c)
    BY <1>0, <2>1 DEF Holds, Drops
  <2> QED BY <2>2 DEF Handles
<1>2. CASE RecvNothing(w, c)
  <2>1. Rests(w, c) /\ Others(w, c)
    BY <1>0, <1>2 DEF RecvNothing, Rearm, Holds, Rests
  <2> QED BY <2>1 DEF Handles
<1>3. CASE RecvOther(w, c)
  <2>1. GivenUp(NextRequest(c))
    BY <1>3 DEF RecvOther, Incoming, GivenUp
  <2>2. Rejects(w, c) /\ Others(w, c)
    BY <1>0, <1>3, <2>1 DEF RecvOther, Incoming, Holds, Rejects, Takes
  <2> QED BY <2>2 DEF Handles
<1>4. CASE ReplyAck(w, c)
  <2>1. Answers(w, c) /\ Others(w, c)
    BY <1>0, <1>4 DEF ReplyAck, Replying, AwaitRequest, Rearm, Holds, Answers
  <2> QED BY <2>1 DEF Handles
<1> QED BY <1>1, <1>2, <1>3, <1>4

\* Requests answered, or given up, by the handler that reads them.
LEMMA HandleQueues ==
  ASSUME TypeInv, ReplySlot, NEW w \in Workers, NEW c \in Conns,
         \/ RecvAck(w, c) \/ RecvPingreq(w, c) \/ RecvPublish(w, c)
         \/ RecvConnectRefused(w, c) \/ RecvConnectKeep(w, c)
         \/ RecvSubscribeRefused(w, c)
  PROVE  Others(w, c) /\ Queues(w, c)
<1> USE DEF netVars, connVars, localVars, OwnClientOnly
<1>0. Functions
  BY HaveFunctions
<1> DEFINE m == NextName(c)
<1>1. PICK op : Incoming(w, c, op) /\ AwaitWritable(w, c)
                /\ UNCHANGED <<peer, log, job>>
  BY DEF RecvAck, RecvPingreq, RecvPublish, RecvConnectRefused,
     RecvConnectKeep, RecvSubscribeRefused
<1>2. reply[c] = NoReply
  BY <1>1 DEF Incoming, ReplySlot
<1>3. PICK v : /\ Fits(v, m)
               /\ reply' = [reply EXCEPT ![c] = v]
  <2>1. CASE UNCHANGED reply /\ GivenUp(Request(m))
    <3>1. reply' = [reply EXCEPT ![c] = NoReply]
      BY <1>0, <1>2, <2>1 DEF Functions
    <3> QED BY <2>1, <3>1, NoReplyFits
  <2>2. CASE RecvPublish(w, c) /\ NextRequest(c).topic # EmptyTopic
    BY <2>2, PublishFits
    DEF RecvPublish, SetReply, NextRequest, Incoming, GivenUp
  <2>3. ASSUME NEW op1 \in {"CONNACK", "SUBACK", "PINGRESP"}, NEW rc, NEW r,
               r # NoMsg => op1 = "SUBACK",
               SetReply(c, op1, rc, m, r),
               ~GivenUp(Request(m)), Answer(Request(m)) = <<op1, rc>>
        PROVE  \E v : Fits(v, m) /\ reply' = [reply EXCEPT ![c] = v]
    BY <2>3, AckFits DEF SetReply
  <2>4. CASE RecvPingreq(w, c)
    <3>1. /\ SetReply(c, "PINGRESP", 0, m, NoMsg)
          /\ ~GivenUp(Request(m)) /\ Answer(Request(m)) = <<"PINGRESP", 0>>
      BY <2>4 DEF RecvPingreq, Incoming, NextRequest, GivenUp, Answer
    <3> QED BY <2>3, <3>1
  <2>5. CASE RecvConnectRefused(w, c)
    <3>1. /\ SetReply(c, "CONNACK", 1, m, NoMsg)
          /\ ~GivenUp(Request(m)) /\ Answer(Request(m)) = <<"CONNACK", 1>>
      BY <2>5 DEF RecvConnectRefused, Incoming, NextRequest, GivenUp, Answer
    <3> QED BY <2>3, <3>1
  <2>6. CASE RecvConnectKeep(w, c)
    <3>1. /\ SetReply(c, "CONNACK", 0, m, NoMsg)
          /\ ~GivenUp(Request(m)) /\ Answer(Request(m)) = <<"CONNACK", 0>>
      BY <2>6 DEF RecvConnectKeep, Incoming, NextRequest, GivenUp, Answer
    <3> QED BY <2>3, <3>1
  <2>7. CASE RecvSubscribeRefused(w, c)
    <3>1. /\ \E r : SetReply(c, "SUBACK", 1, m, r)
          /\ ~GivenUp(Request(m)) /\ Answer(Request(m)) = <<"SUBACK", 1>>
      BY <2>7 DEF RecvSubscribeRefused, Incoming, NextRequest, GivenUp, Answer
    <3> QED BY <2>3, <3>1
  <2>8. CASE \/ RecvAck(w, c)
             \/ RecvPublish(w, c) /\ NextRequest(c).topic = EmptyTopic
    <3>1. UNCHANGED reply /\ GivenUp(Request(m))
      BY <2>8 DEF RecvAck, RecvPublish, Incoming, NextRequest, GivenUp
    <3> QED BY <2>1, <3>1
  <2> QED BY <2>2, <2>4, <2>5, <2>6, <2>7, <2>8
<1>4. Others(w, c) /\ Holds(w, c) /\ Leaves(w, c) /\ Takes(c)
      /\ ctx'[c] = "reply" /\ armed'[c] = "out" /\ reply'[c] = v
  BY <1>0, <1>1, <1>3 DEF Functions, Incoming, AwaitWritable, Rearm, Holds,
     Return, Others, Leaves, Takes
<1> QED BY <1>3, <1>4 DEF Queues

\* Handlers that start and go on later, or were in the middle.
LEMMA HandleStarts ==
  ASSUME ServiceInv, NEW w \in Workers, NEW c \in Conns,
         RecvConnectClean(w, c) \/ RecvSubscribe(w, c)
  PROVE  Others(w, c) /\ Starts(w, c)
<1> USE DEF netVars, connVars, localVars, Enter
<1>0. Functions
  BY HaveFunctions DEF ServiceInv
<1>1. PICK label \in StartPCs, op \in {"CONNECT", "SUBSCRIBE"} :
        /\ Incoming(w, c, op)
        /\ Enter(w, c, label)
        /\ job' = [job EXCEPT ![w] = NextName(c)]
        /\ UNCHANGED <<peer, log, ctx, reply, armed>>
  BY DEF RecvConnectClean, RecvSubscribe, StartPCs, SubPCs
<1>2. ~GivenUp(NextRequest(c))
  BY <1>1 DEF Incoming, GivenUp
<1> QED BY <1>0, <1>1, <1>2 DEF Functions, Incoming, Holds, Others, Starts,
           Stays, Takes, Slot

LEMMA HandleEnters ==
  ASSUME ServiceInv, NEW w \in Workers, NEW c \in Conns,
         ReplySuback(w, c) \/ ReplyPublish(w, c)
  PROVE  Others(w, c) /\ Enters(w, c)
<1> USE DEF netVars, connVars, localVars, Enter
<1>0. Functions
  BY HaveFunctions DEF ServiceInv
<1>1. /\ Holds(w, c) /\ ctx[c] = "reply"
      /\ UNCHANGED <<peer, log, rd, ctx, reply, armed>>
      /\ \/ /\ reply[c].op = "SUBACK" /\ reply[c].retained # NoMsg
            /\ Enter(w, c, "suback_retained") /\ UNCHANGED job
         \/ /\ reply[c].op = "PUBLISH"
            /\ \E label \in PubPCs : Enter(w, c, label)
            /\ job' = [job EXCEPT ![w] = reply[c].re]
  BY DEF ReplySuback, ReplyPublish, Replying, PubPCs
<1> QED BY <1>0, <1>1 DEF Functions, Holds, Others, Enters, Stays, Slot

LEMMA HandleSpins ==
  ASSUME ServiceInv, NEW w \in Workers, NEW c \in Conns,
         RecvPartial(w, c) \/ RecvReset(w, c)
  PROVE  (Others(w, c) /\ Handles(w, c)) \/ Dies
<1> USE DEF netVars, connVars, localVars, Enter
<1>0. Functions
  BY HaveFunctions DEF ServiceInv
<1>1. CASE Crash
  BY <1>1 DEF RecvPartial, RecvReset, Dies
<1>2. CASE Enter(w, c, "spin")
  <2>1. Others(w, c) /\ Spins(w, c)
    BY <1>0, <1>2 DEF RecvPartial, RecvReset, Functions, Holds, Others, Spins,
       Stays, Slot
  <2> QED BY <2>1 DEF Handles
<1>3. CASE RecvReset(w, c) /\ Return(w, c)
  <2>1. Others(w, c) /\ Drops(w, c)
    BY <1>0, <1>3 DEF RecvReset, Functions, Holds, Others, Drops, Leaves,
       Slot, Return
  <2> QED BY <2>1 DEF Handles
<1> QED BY <1>1, <1>2, <1>3 DEF RecvPartial, RecvReset

LEMMA ContinueResumes ==
  ASSUME ServiceInv, NEW w \in Workers, RecvResume(w)
  PROVE  /\ cur[w] \in Conns /\ Others(w, cur[w]) /\ Spins(w, cur[w])
         /\ UNCHANGED outbox
<1>0. Functions /\ OneOwner /\ CurIsConn
  BY HaveFunctions DEF ServiceInv, TypeInv, OwnerInv
<1>1. /\ pc[w] = "spin" /\ Goto(w, "poll")
      /\ UNCHANGED <<peer, log, outbox, rd, ctx, reply, armed, job>>
  BY DEF RecvResume, netVars, connVars, localVars
<1>2. cur[w] \in Conns /\ cur[w] \in batch[w]
  BY <1>0, <1>1 DEF OneOwner, CurIsConn
<1> QED BY <1>0, <1>1, <1>2 DEF Functions, Goto, Others, Spins, Stays, Slot

\* The later steps.
LEMMA ContinueMoves ==
  ASSUME ServiceInv, NEW w \in Workers,
         \/ SubscribeCreate(w) \/ AddSubscriberFind(w)
         \/ AddSubscriberInsert(w) \/ AddSubscriberLink(w)
         \/ PublishCreate(w) \/ SkipRetain(w) \/ RetainDestroy(w)
         \/ RetainClear(w) \/ RetainKeep(w) \/ FanOut(w) \/ FanOutWild(w)
  PROVE  (Others(w, cur[w]) /\ Moves(w, cur[w])) \/ Dies
<1> USE DEF netVars, connVars, localVars, workerVars, Goto
<1>0. Functions /\ OneOwner
  BY HaveFunctions DEF ServiceInv, TypeInv, OwnerInv
<1>1. /\ UNCHANGED <<peer, log, rd, ctx, reply, armed, job>>
      /\ pc[w] \in SubPCs \cup PubPCs
      /\ \/ Crash
         \/ pc[w] \in SubPCs /\ \E label \in SubPCs : Goto(w, label)
         \/ pc[w] \in PubPCs /\ \E label \in PubPCs : Goto(w, label)
         \/ pc[w] \in PubPCs /\ UNCHANGED <<pc, batch, cur>>
  BY DEF SubscribeCreate, AddSubscriberFind, AddSubscriberInsert,
     AddSubscriberLink, PublishCreate, SkipRetain, RetainDestroy, RetainClear,
     RetainKeep, FanOut, FanOutWild, CreateTopic, SubPCs, PubPCs
<1>2. cur[w] \in batch[w]
  BY <1>0, <1>1 DEF OneOwner, SubPCs, PubPCs
<1>3. CASE Crash
  BY <1>1, <1>3 DEF Dies
<1>4. CASE ~Crash
  BY <1>0, <1>1, <1>2, <1>4 DEF Functions, Others, Moves, Stays, Slot
<1> QED BY <1>3, <1>4

LEMMA ContinuePrepares ==
  ASSUME ServiceInv, NEW w \in Workers, ConnectAdd(w) \/ SubscribeRetained(w)
  PROVE  Others(w, cur[w]) /\ Prepares(w, cur[w]) /\ cur[w] \in Conns
<1> USE DEF netVars, connVars, localVars
<1> DEFINE c == cur[w]
           m == job[w]
<1>0. Functions /\ OneOwner /\ HandlerAt(w) /\ CurIsConn
  BY HaveFunctions DEF ServiceInv, TypeInv, OwnerInv, HandlerInv
<1>1. /\ pc[w] \in {"connect_add", "sub_retained"}
      /\ AwaitWritable(w, c) /\ UNCHANGED <<peer, log, rd, job>>
  BY DEF ConnectAdd, SubscribeRetained
<1>2. c \in batch[w] /\ c \in Conns /\ pc[w] \in StartPCs
  BY <1>0, <1>1 DEF OneOwner, CurIsConn, StartPCs, SubPCs
<1>3. PICK v : /\ Fits(v, m) /\ v.op \in {"CONNACK", "SUBACK"}
               /\ reply' = [reply EXCEPT ![c] = v]
  <2>1. CASE ConnectAdd(w)
    <3>1. Known(m, "CONNECT")
      BY <1>0, <2>1 DEF ConnectAdd, HandlerAt
    <3>2. ~GivenUp(Request(m)) /\ Answer(Request(m)) = <<"CONNACK", 0>>
      BY <3>1, NamesAssumption DEF Known, GivenUp, Answer
    <3> QED BY <2>1, <3>2, AckFits DEF ConnectAdd, SetReply
  <2>2. CASE SubscribeRetained(w)
    <3>1. Known(m, "SUBSCRIBE")
      BY <1>0, <2>2 DEF SubscribeRetained, HandlerAt, SubPCs
    <3>2. ~GivenUp(Request(m)) /\ Answer(Request(m)) = <<"SUBACK", 0>>
      BY <3>1, NamesAssumption DEF Known, GivenUp, Answer
    <3> QED BY <2>2, <3>2, AckFits DEF SubscribeRetained, SetReply
  <2> QED BY <2>1, <2>2
<1>4. Others(w, c) /\ Leaves(w, c)
      /\ ctx'[c] = "reply" /\ armed'[c] = "out" /\ reply'[c] = v
  BY <1>0, <1>1, <1>2, <1>3 DEF Functions, AwaitWritable, Rearm, Return,
     Others, Leaves
<1>5. rd'[c] = rd[c]
  BY <1>1
<1> QED BY <1>2, <1>3, <1>4, <1>5 DEF Prepares

LEMMA ContinueAnswers ==
  ASSUME ServiceInv, NEW w \in Workers,
         ReplyRetained(w) \/ ReplyDangling(w) \/ FinishPublish(w)
  PROVE  \/ Others(w, cur[w]) /\ Answers(w, cur[w]) /\ cur[w] \in Conns
         \/ Dies
<1> USE DEF netVars, connVars, localVars
<1> DEFINE c == cur[w]
<1>0. Functions /\ OneOwner /\ WorkAt(w) /\ CurIsConn
  BY HaveFunctions DEF ServiceInv, TypeInv, OwnerInv
<1>1. /\ pc[w] \in {"suback_retained", "fanout"}
      /\ UNCHANGED <<peer, log, rd, job>>
      /\ \/ Crash /\ UNCHANGED <<ctx, reply, armed>>
         \/ AwaitRequest(w, c)
  BY DEF ReplyRetained, ReplyDangling, FinishPublish
<1>2. /\ c \in batch[w] /\ c \in Conns
      /\ ctx[c] = "reply" /\ reply[c].op # "NONE"
      /\ pc[w] \in PubPCs \cup {"suback_retained"}
  BY <1>0, <1>1 DEF OneOwner, CurIsConn, WorkAt, PubPCs
<1>3. CASE Crash /\ UNCHANGED <<ctx, reply, armed>>
  BY <1>1, <1>3 DEF Dies
<1>4. CASE AwaitRequest(w, c)
  <2>1. Others(w, c) /\ Leaves(w, c) /\ Slot(c)' = <<"request", NoReply, "in">>
    BY <1>0, <1>1, <1>2, <1>4 DEF Functions, AwaitRequest, Rearm, Return,
       Others, Leaves, Slot
  <2> QED BY <1>1, <1>2, <2>1 DEF Answers
<1> QED BY <1>1, <1>3, <1>4

\* Every step of the event loop, by its kind.
LEMMA StepKinds ==
  ASSUME ServiceInv, Next
  PROVE  \/ \E c \in Conns : ClientStep(c)
         \/ \E w \in Workers : Poll(w)
         \/ \E w \in Workers, c \in Conns :
              \/ AcceptHandler(w, c) \/ AcceptFails(w, c)
              \/ Others(w, c) /\ Handles(w, c)
         \/ Dies
<1>0. CurIsConn /\ TypeInv /\ ReplySlot
  BY DEF ServiceInv, TypeInv, OwnerInv
<1>1. ASSUME NEW w \in Workers, NEW c \in Conns, Handle(w, c)
      PROVE  \/ AcceptHandler(w, c) \/ AcceptFails(w, c)
             \/ Others(w, c) /\ Handles(w, c)
             \/ Dies
  BY <1>0, <1>1, HandleReturns, HandleQueues, HandleStarts, HandleEnters,
     HandleSpins DEF Handle, Handles
<1>2. ASSUME NEW w \in Workers, Continue(w)
      PROVE  \/ \E c \in Conns : Others(w, c) /\ Handles(w, c)
             \/ Dies
  <2>1. CASE pc[w] \in SubPCs \cup PubPCs
    BY <1>0, <1>2, <2>1, ContinueMoves, ContinuePrepares, ContinueAnswers
    DEF Continue, RecvResume, CurIsConn, SubPCs, PubPCs, Handles
  <2>2. CASE pc[w] \notin SubPCs \cup PubPCs
    BY <1>2, <2>2, ContinuePrepares, ContinueAnswers, ContinueResumes
    DEF Continue, SubPCs, PubPCs, Handles, SubscribeCreate,
        AddSubscriberFind, AddSubscriberInsert, AddSubscriberLink, PublishCreate, SkipRetain,
        RetainDestroy, RetainClear, RetainKeep, FanOut, FanOutWild
  <2> QED BY <2>1, <2>2
<1> QED BY <1>1, <1>2 DEF Next

-----------------------------------------------------------------------------
\* Requests are only added, and read entries stay.
LEMMA LogGrows ==
  ASSUME LogTypes, Next
  PROVE  \A d \in Conns : /\ rd[d] \in Nat /\ rd'[d] \in Nat
                          /\ rd[d] <= rd'[d]
                          /\ Len(log[d]) \in Nat /\ rd[d] <= Len(log[d])
                          /\ \A n \in 1..Len(log[d]) : log'[d][n] = log[d][n]
<1>1. LogTypes'
  BY LogStep
<1>2. ASSUME NEW c \in Conns, NEW r,
             log' = [log EXCEPT ![c] =
                      Append(@, [req |-> r, owed |-> Owed(r)])]
      PROVE  \A d \in Conns : \A n \in 1..Len(log[d]) : log'[d][n] = log[d][n]
  <2> DEFINE e == [req |-> r, owed |-> Owed(r)]
  <2>1. \A i \in 1..Len(log[c]) : Append(log[c], e)[i] = log[c][i]
    <3>1. log[c] \in Seq(LogEntries)
      BY DEF LogTypes
    <3> HIDE DEF e
    <3> QED BY <3>1
  <2> QED BY <1>2, <2>1 DEF LogTypes
<1>3. ASSUME NEW c \in Conns, rd' = [rd EXCEPT ![c] = @ + 1]
      PROVE  \A d \in Conns : rd[d] <= rd'[d]
  BY <1>3 DEF LogTypes
<1>4. \A d \in Conns : \A n \in 1..Len(log[d]) : log'[d][n] = log[d][n]
  BY <1>2, LogShape
<1>5. \A d \in Conns : rd[d] <= rd'[d]
  <2>1. UNCHANGED rd \/ \E c \in Conns : rd' = [rd EXCEPT ![c] = @ + 1]
    BY LogShape
  <2>2. CASE UNCHANGED rd
    BY <2>2 DEF LogTypes
  <2> QED BY <1>3, <2>1, <2>2
<1> QED BY <1>1, <1>4, <1>5 DEF LogTypes

\* The parts of ServiceInv that the types do not give.
ServiceParts ==
  /\ AllDead
  /\ \A w \in Workers : WorkAt(w)
  /\ \A c \in Conns : ReplyAt(c) /\ MuteAt(c) /\ ServedAt(c) /\ FreshAt(c)

LEMMA ServiceClient ==
  ASSUME ServiceInv, NEW c \in Conns, ClientStep(c) PROVE ServiceParts'
<1>1. /\ UNCHANGED <<rd, ctx, reply, armed, job, pc, batch, cur>>
      /\ \A d \in Conns : peer'[d] \in {"open", "partial", "eof"} =>
                            peer[d] \in {"open", "partial", "eof"}
      /\ \A d \in Conns : peer'[d] \in {"none", "queued", "lost"} =>
                            peer[d] \in {"none", "queued", "lost"}
  BY DEF ClientStep, ClientConnect, ClientSend, ClientStall,
     ClientFinish, ClientLeave, ClientReset,
     ClientOnly, connVars, localVars, workerVars, ServiceInv, TypeInv,
     OwnerInv, OwnerTypes, PeerStates
<1>2. \A d \in Conns : rd[d] > 0 => Request(<<d, rd[d]>>)' = Request(<<d, rd[d]>>)
  <2>1. Next /\ LogTypes
    BY DEF Next, ServiceInv, TypeInv
  <2>2. \A d \in Conns : rd[d] > 0 => rd[d] \in 1..Len(log[d])
    BY <2>1, LogGrows
  <2> QED BY <1>1, <2>1, <2>2, LogGrows DEF Request
<1>3. AllDead' /\ \A w \in Workers : WorkAt(w)'
  BY <1>1 DEF ServiceInv, AllDead, WorkAt
<1>4. ASSUME NEW d \in Conns
      PROVE  ReplyAt(d)' /\ MuteAt(d)' /\ ServedAt(d)' /\ FreshAt(d)'
  <2>1. ReplyAt(d) /\ MuteAt(d) /\ ServedAt(d) /\ FreshAt(d)
    BY DEF ServiceInv
  <2>2. LastUnanswerable(d)' <=> LastUnanswerable(d)
    BY <1>1, <1>2 DEF LastUnanswerable
  <2>3. MuteAt(d)' /\ ServedAt(d)' /\ FreshAt(d)'
    BY <1>1, <2>1, <2>2 DEF MuteAt, ServedAt, FreshAt
  <2>4. ReplyAt(d)'
    BY <1>1, <1>2, <2>1 DEF ReplyAt, Fits
  <2> QED BY <2>3, <2>4
<1> QED BY <1>3, <1>4 DEF ServiceParts

\* What depends on the requests read, when no request is added or read.
LEMMA SameRequests ==
  ASSUME NEW d \in Conns, log' = log, rd'[d] = rd[d]
  PROVE  /\ Request(<<d, rd[d]>>)' = Request(<<d, rd[d]>>)
         /\ LastUnanswerable(d)' <=> LastUnanswerable(d)
         /\ ctx'[d] = ctx[d] /\ reply'[d] = reply[d] /\ ReplyAt(d)
              => ReplyAt(d)'
<1>1. Request(<<d, rd[d]>>)' = Request(<<d, rd[d]>>)
  BY DEF Request
<1> QED BY <1>1 DEF LastUnanswerable, ReplyAt, Fits

LEMMA ServicePoll ==
  ASSUME ServiceInv, NEW w \in Workers, Poll(w) PROVE ServiceParts'
<1>0. Functions /\ OneOwner
  BY HaveFunctions DEF ServiceInv, TypeInv, OwnerInv
<1>1. PICK S \in SUBSET Ready : EpollWait(w, S)
  BY DEF Poll
<1>2. /\ UNCHANGED <<peer, log, rd, ctx, reply, job, pc, cur>>
      /\ batch' = [batch EXCEPT ![w] = S]
      /\ armed' = [x \in Fds |-> IF x \in S THEN "none" ELSE armed[x]]
      /\ batch[w] = {}
  BY <1>1 DEF EpollWait, Disarm, netVars, connVars, localVars
<1>3. \A d \in Conns : d \in S => armed[d] \in {"in", "out"}
  BY ConnsAssumption DEF Ready
<1>4. AllDead' /\ \A v \in Workers : WorkAt(v)'
  BY <1>2 DEF ServiceInv, AllDead, WorkAt
<1>5. ASSUME NEW d \in Conns
      PROVE  ReplyAt(d)' /\ MuteAt(d)' /\ ServedAt(d)' /\ FreshAt(d)'
  <2>1. /\ ReplyAt(d) /\ MuteAt(d) /\ ServedAt(d) /\ FreshAt(d)
        /\ armed[d] = "out" => ctx[d] = "reply"
    BY DEF ServiceInv, ReplySlot
  <2>2. ReplyAt(d)' /\ (LastUnanswerable(d)' <=> LastUnanswerable(d))
    BY <1>2, <2>1, SameRequests
  <2>3. MuteAt(d)'
    BY <1>0, <1>2, <1>3, <2>1, <2>2 DEF MuteAt, Functions
  <2>4. ServedAt(d)' /\ FreshAt(d)'
    BY <1>0, <1>2, <2>1, <2>2 DEF ServedAt, FreshAt, Functions
  <2> QED BY <2>2, <2>3, <2>4
<1> QED BY <1>4, <1>5 DEF ServiceParts

LEMMA ServiceAccept ==
  ASSUME ServiceInv, NEW w \in Workers, NEW c \in Conns,
         AcceptHandler(w, c) \/ AcceptFails(w, c)
  PROVE  ServiceParts'
<1>0. Functions /\ OneOwner /\ NotAccepted /\ peer \in [Conns -> PeerStates]
  BY HaveFunctions DEF ServiceInv, TypeInv, OwnerInv, OwnerTypes
<1>1. /\ UNCHANGED <<log, rd, ctx, reply, job, cur>>
      /\ pc[w] = "poll" /\ UNCHANGED pc
      /\ batch' = [batch EXCEPT ![w] = @ \ {Listener}]
      /\ peer[c] = "queued"
  BY <1>0 DEF AcceptHandler, AcceptFails, Holds, Return, connVars, localVars,
     Functions
<1>2. /\ \A d \in Conns \ {c} : peer'[d] = peer[d] /\ armed'[d] = armed[d]
      /\ peer'[c] \in {"open", "partial", "eof"} => armed'[c] # "none"
  BY <1>0, ConnsAssumption DEF AcceptHandler, AcceptFails, Functions, Fds
<1>3. \A d \in Conns, v \in Workers : d \in batch'[v] <=> d \in batch[v]
  BY <1>0, <1>1, ConnsAssumption DEF Functions
<1>4. AllDead' /\ \A v \in Workers : WorkAt(v)'
  BY <1>1 DEF ServiceInv, AllDead, WorkAt
<1>5. ASSUME NEW d \in Conns
      PROVE  ReplyAt(d)' /\ MuteAt(d)' /\ ServedAt(d)' /\ FreshAt(d)'
  <2>1. ReplyAt(d) /\ MuteAt(d) /\ ServedAt(d) /\ FreshAt(d)
    BY DEF ServiceInv
  <2>2. ReplyAt(d)' /\ (LastUnanswerable(d)' <=> LastUnanswerable(d))
    BY <1>1, <2>1, SameRequests
  <2>3. CASE d # c
    BY <1>1, <1>2, <1>3, <2>1, <2>2, <2>3 DEF MuteAt, ServedAt, FreshAt
  <2>4. CASE d = c
    <3>1. \A v \in Workers : c \notin batch'[v]
      BY <1>0, <1>1, <1>3 DEF NotAccepted
    <3>2. ~LastUnanswerable(c) /\ rd[c] = 0
      BY <1>1, <2>1, <2>4 DEF FreshAt, LastUnanswerable
    <3> QED BY <1>1, <1>2, <2>2, <2>4, <3>1, <3>2 DEF MuteAt, ServedAt, FreshAt
  <2> QED BY <2>2, <2>3, <2>4
<1> QED BY <1>4, <1>5 DEF ServiceParts

LEMMA ServiceDies == ASSUME ServiceInv, Dies PROVE ServiceParts'
<1>1. /\ UNCHANGED <<peer, log, rd, ctx, reply, armed, job, batch, cur>>
      /\ pc' = [w \in Workers |-> "dead"]
  BY DEF Dies, Crash
<1>2. AllDead' /\ \A w \in Workers : WorkAt(w)'
  BY <1>1 DEF AllDead, WorkAt, StartPCs, SubPCs, PubPCs
<1>3. ASSUME NEW d \in Conns
      PROVE  ReplyAt(d)' /\ MuteAt(d)' /\ ServedAt(d)' /\ FreshAt(d)'
  <2>1. ReplyAt(d) /\ MuteAt(d) /\ ServedAt(d) /\ FreshAt(d)
    BY DEF ServiceInv
  <2>2. ReplyAt(d)' /\ (LastUnanswerable(d)' <=> LastUnanswerable(d))
    BY <1>1, <2>1, SameRequests
  <2> QED BY <1>1, <2>1, <2>2 DEF MuteAt, ServedAt, FreshAt
<1> QED BY <1>2, <1>3 DEF ServiceParts

\* The worker and the connection of a handler's step, by the kind of step.
LEMMA ServiceOwn ==
  ASSUME ServiceInv, NEW w \in Workers, NEW c \in Conns,
         Others(w, c), Handles(w, c)
  PROVE  WorkAt(w)' /\ ReplyAt(c)' /\ MuteAt(c)' /\ ServedAt(c)'
<1>0. /\ WorkAt(w) /\ ReplyAt(c) /\ MuteAt(c) /\ ServedAt(c) /\ UNCHANGED <<peer, log>>
      /\ rd[c] \in Nat
      /\ \A v \in Workers \ {w} : batch'[v] = batch[v]
  BY DEF ServiceInv, Others, TypeInv, LogTypes
<1>1. \A v \in Workers \ {w} : c \in batch[w] => c \notin batch[v]
  BY DEF ServiceInv, TypeInv, OwnerInv, OneOwner
<1>2. c \in batch[w] => armed[c] = "none"
  BY DEF ServiceInv, TypeInv, OwnerInv, OneOwner
<1>3. rd'[c] = rd[c] => Request(<<c, rd[c]>>)' = Request(<<c, rd[c]>>)
  BY <1>0, SameRequests
<1>4. rd'[c] = rd[c] + 1 => Request(<<c, rd[c]>>)' = NextRequest(c)
  BY <1>0 DEF NextRequest, NextName, Request
<1>5. NextName(c) = <<c, rd[c] + 1>>
  BY DEF NextName
<1> USE DEF Holds, Leaves, Stays, Takes, Slot
<1>6. CASE Drops(w, c)
  <2>1. rd'[c] = rd[c] /\ ctx'[c] = ctx[c] /\ reply'[c] = reply[c] /\ armed'[c] = armed[c]
    BY <1>6 DEF Drops
  <2>2. WorkAt(w)'
    BY <1>6 DEF Drops, WorkAt, StartPCs, SubPCs, PubPCs
  <2>3. ReplyAt(c)' /\ (LastUnanswerable(c)' <=> LastUnanswerable(c))
    BY <1>0, <2>1, SameRequests
  <2>4. MuteAt(c)'
    BY <1>0, <1>1, <1>6, <2>1, <2>3 DEF Drops, MuteAt
  <2>5. peer[c] = "reset" \/ LastUnanswerable(c)
    BY <1>0, <1>6 DEF Drops, ReplyAt, Fits, LastUnanswerable
  <2>6. ServedAt(c)'
    BY <1>0, <2>3, <2>5 DEF ServedAt
  <2> QED BY <2>2, <2>3, <2>4, <2>6
<1>7. CASE Rests(w, c)
  <2>1. rd'[c] = rd[c] /\ ctx'[c] = "request" /\ ctx[c] = "request" /\ armed'[c] = "in" /\ c \in batch[w]
    BY <1>7 DEF Rests
  <2>2. WorkAt(w)'
    BY <1>7 DEF Rests, WorkAt, StartPCs, SubPCs, PubPCs
  <2>3. LastUnanswerable(c)' <=> LastUnanswerable(c)
    BY <1>0, <2>1, SameRequests
  <2>4. ~LastUnanswerable(c)
    BY <1>0, <2>1 DEF MuteAt
  <2> QED BY <2>1, <2>2, <2>3, <2>4 DEF MuteAt, ServedAt, ReplyAt
<1>8. CASE Rejects(w, c)
  <2>1. rd'[c] = rd[c] + 1 /\ ctx'[c] = "request" /\ armed'[c] = "none" /\ c \in batch[w]
    BY <1>2, <1>8 DEF Rejects
  <2>2. WorkAt(w)'
    BY <1>8 DEF Rejects, WorkAt, StartPCs, SubPCs, PubPCs
  <2>3. LastUnanswerable(c)'
    BY <1>0, <1>4, <1>8, <2>1 DEF Rejects, LastUnanswerable
  <2>4. \A v \in Workers : c \notin batch'[v]
    BY <1>0, <1>1, <1>8 DEF Rejects
  <2> QED BY <2>1, <2>2, <2>3, <2>4 DEF MuteAt, ServedAt, ReplyAt
<1>9. CASE Queues(w, c)
  <2>1. rd'[c] = rd[c] + 1 /\ ctx'[c] = "reply" /\ armed'[c] = "out"
    BY <1>9 DEF Queues
  <2>2. WorkAt(w)'
    BY <1>9 DEF Queues, WorkAt, StartPCs, SubPCs, PubPCs
  <2>3. ReplyAt(c)'
    BY <1>0, <1>5, <1>9, <2>1 DEF Queues, ReplyAt, Fits, Request
  <2> QED BY <2>1, <2>2, <2>3 DEF MuteAt, ServedAt
<1>10. CASE Starts(w, c)
  <2>1. rd'[c] = rd[c] + 1 /\ ctx'[c] = "request" /\ armed'[c] = "none" /\ c \in batch'[w]
    BY <1>2, <1>10 DEF Starts
  <2>2. WorkAt(w)'
    BY <1>5, <1>10, <2>1 DEF Starts, WorkAt, StartPCs, SubPCs, PubPCs
  <2>3. ~LastUnanswerable(c)'
    BY <1>4, <1>10, <2>1 DEF Starts, LastUnanswerable
  <2> QED BY <2>1, <2>2, <2>3 DEF MuteAt, ServedAt, ReplyAt
<1>11. CASE Moves(w, c) \/ Enters(w, c) \/ Spins(w, c)
  <2>1. /\ rd'[c] = rd[c] /\ ctx'[c] = ctx[c] /\ reply'[c] = reply[c] /\ armed'[c] = armed[c]
        /\ batch'[w] = batch[w] /\ c \in batch[w]
    BY <1>11 DEF Moves, Enters, Spins
  <2>2. WorkAt(w)'
    BY <1>0, <1>11, <2>1 DEF Moves, Enters, Spins, WorkAt, ReplyAt, Fits, StartPCs, SubPCs, PubPCs
  <2>3. ReplyAt(c)' /\ (LastUnanswerable(c)' <=> LastUnanswerable(c))
    BY <1>0, <2>1, SameRequests
  <2> QED BY <1>0, <2>1, <2>2, <2>3 DEF MuteAt, ServedAt
<1>12. CASE Prepares(w, c)
  <2>1. rd'[c] = rd[c] /\ ctx'[c] = "reply" /\ armed'[c] = "out" /\ ctx[c] = "request"
        /\ job[w] = <<c, rd[c]>> /\ c \in batch[w]
    BY <1>0, <1>12 DEF Prepares, WorkAt
  <2>2. WorkAt(w)'
    BY <1>12 DEF Prepares, WorkAt, StartPCs, SubPCs, PubPCs
  <2>3. rd[c] > 0
    <3>1. HandlerAt(w)
      BY DEF ServiceInv, TypeInv, HandlerInv
    <3>2. job[w] \in RequestNames
      BY <1>12, <3>1 DEF Prepares, HandlerAt, Known, StartPCs
    <3> QED BY <2>1, <3>2, BoundsAssumption DEF RequestNames
  <2>4. ReplyAt(c)'
    BY <1>3, <1>12, <2>1, <2>3 DEF Prepares, ReplyAt, Fits
  <2> QED BY <2>1, <2>2, <2>4 DEF MuteAt, ServedAt
<1>13. CASE Answers(w, c)
  <2>1. rd'[c] = rd[c] /\ ctx'[c] = "request" /\ armed'[c] = "in"
    BY <1>13 DEF Answers
  <2>2. WorkAt(w)'
    BY <1>13 DEF Answers, WorkAt, StartPCs, SubPCs, PubPCs
  <2>3. ~LastUnanswerable(c)
    BY <1>0, <1>13 DEF Answers, ReplyAt, Fits, LastUnanswerable
  <2>4. ~LastUnanswerable(c)'
    BY <1>0, <2>1, <2>3, SameRequests
  <2> QED BY <2>1, <2>2, <2>4 DEF MuteAt, ServedAt, ReplyAt
<1> QED BY <1>6, <1>7, <1>8, <1>9, <1>10, <1>11, <1>12, <1>13 DEF Handles

LEMMA ServiceHandles ==
  ASSUME ServiceInv, NEW w \in Workers, NEW c \in Conns,
         Others(w, c), Handles(w, c)
  PROVE  ServiceParts'
<1>0. /\ OneOwner /\ NotAccepted
      /\ \A v \in Workers : WorkAt(v)
      /\ \A d \in Conns : ReplyAt(d) /\ MuteAt(d) /\ ServedAt(d) /\ FreshAt(d)
  BY DEF ServiceInv, TypeInv, OwnerInv
<1>1. /\ c \in batch[w] /\ pc[w] # "dead" /\ pc'[w] # "dead"
      /\ batch'[w] = batch[w] \/ batch'[w] = batch[w] \ {c}
  BY DEF Handles, Drops, Rests, Rejects, Queues, Starts, Moves, Prepares,
     Answers, Enters, Spins, Holds, Leaves, Stays, StartPCs, SubPCs, PubPCs
<1>2. WorkAt(w)' /\ ReplyAt(c)' /\ MuteAt(c)' /\ ServedAt(c)'
  BY ServiceOwn
<1>3. FreshAt(c)'
  BY <1>0, <1>1 DEF Others, NotAccepted, FreshAt
<1>4. AllDead'
  BY <1>1 DEF ServiceInv, AllDead, Others
<1>5. ASSUME NEW v \in Workers \ {w} PROVE WorkAt(v)'
  <2>1. /\ pc'[v] = pc[v] /\ cur'[v] = cur[v] /\ job'[v] = job[v]
    BY DEF Others
  <2>2. CASE pc[v] \in StartPCs \cup PubPCs \cup {"suback_retained"}
    <3>1. cur[v] \in Conns /\ cur[v] # c
      BY <1>0, <1>1, <2>2 DEF OneOwner, ServiceInv, TypeInv, OwnerInv,
         CurIsConn, StartPCs, SubPCs, PubPCs
    <3>2. /\ ctx'[cur[v]] = ctx[cur[v]] /\ reply'[cur[v]] = reply[cur[v]]
          /\ rd'[cur[v]] = rd[cur[v]]
      BY <3>1 DEF Others
    <3> QED BY <1>0, <2>1, <3>2 DEF WorkAt
  <2>3. CASE pc[v] \notin StartPCs \cup PubPCs \cup {"suback_retained"}
    BY <2>1, <2>3 DEF WorkAt
  <2> QED BY <2>2, <2>3
<1>6. ASSUME NEW d \in Conns \ {c}
      PROVE  ReplyAt(d)' /\ MuteAt(d)' /\ ServedAt(d)' /\ FreshAt(d)'
  <2>1. /\ ctx'[d] = ctx[d] /\ reply'[d] = reply[d] /\ rd'[d] = rd[d]
        /\ armed'[d] = armed[d] /\ UNCHANGED <<peer, log>>
    BY DEF Others
  <2>2. \A v \in Workers : d \in batch'[v] <=> d \in batch[v]
    BY <1>1 DEF Others
  <2>3. ReplyAt(d)' /\ (LastUnanswerable(d)' <=> LastUnanswerable(d))
    BY <1>0, <2>1, SameRequests
  <2> QED BY <1>0, <2>1, <2>2, <2>3 DEF MuteAt, ServedAt, FreshAt
<1> QED BY <1>2, <1>3, <1>4, <1>5, <1>6 DEF ServiceParts

LEMMA ServiceInit == Init => ServiceInv
<1> SUFFICES ASSUME Init PROVE ServiceInv
  OBVIOUS
<1>1. TypeInv
  BY TypeInit
<1>2. ReplySlot
  BY ConnsAssumption DEF Init, ReplySlot, Fds
<1>3. AllDead /\ \A w \in Workers : WorkAt(w)
  BY DEF Init, AllDead, WorkAt, StartPCs, SubPCs, PubPCs
<1>4. ASSUME NEW c \in Conns
      PROVE  ReplyAt(c) /\ MuteAt(c) /\ ServedAt(c) /\ FreshAt(c)
  <2>1. /\ rd[c] = 0 /\ ctx[c] = "request"
        /\ peer[c] \in {"open", "partial", "eof"} => armed[c] = "in"
    BY ConnsAssumption DEF Init, Fds
  <2> QED BY <2>1 DEF ReplyAt, MuteAt, ServedAt, FreshAt, LastUnanswerable
<1> QED BY <1>1, <1>2, <1>3, <1>4 DEF ServiceInv

LEMMA ServiceNext == ServiceInv /\ [Next]_vars => ServiceInv'
<1> SUFFICES ASSUME ServiceInv, [Next]_vars PROVE ServiceInv'
  OBVIOUS
<1>1. TypeInv'
  BY TypeNext DEF ServiceInv
<1>2. ReplyInv
  BY DEF ServiceInv, TypeInv, ReplyInv, ReplyTypes
<1>3. ReplySlot'
  BY <1>2, SlotNext DEF ReplyInv
<1>4. ServiceParts'
  <2>1. CASE Next
    BY <2>1, StepKinds, ServiceClient, ServicePoll, ServiceAccept,
       ServiceDies, ServiceHandles
  <2>2. CASE UNCHANGED vars
    <3>1. UNCHANGED <<peer, log, rd, ctx, reply, armed, job, batch, cur, pc>>
      BY <2>2 DEF vars, netVars, connVars, localVars, workerVars
    <3> QED BY <3>1 DEF ServiceInv, ServiceParts, AllDead, WorkAt, ReplyAt,
               Fits, MuteAt, ServedAt, FreshAt, LastUnanswerable, Request
  <2> QED BY <2>1, <2>2
<1> QED BY <1>1, <1>3, <1>4 DEF ServiceInv, ServiceParts

(* In every behaviour: an intact connection that the kernel does not watch *)
(* and no worker holds is one whose last request is not answered (an       *)
(* opcode unpack_packet rejects, an acknowledgement, a PUBLISH without a   *)
(* topic); no failed send and no interleaving of handlers loses one.       *)
THEOREM OnlyUnanswerableWedgesHolds == Spec => []OnlyUnanswerableWedges
<1>1. ServiceInv => OnlyUnanswerableWedges
  BY DEF ServiceInv, ServedAt, OnlyUnanswerableWedges, Wedged
<1> QED BY <1>1, ServiceInit, ServiceNext, PTL DEF Spec

-----------------------------------------------------------------------------
(***************************************************************************)
(* The table of tracked clients.  A step is quiet when no CONNECT with an  *)
(* identifier is read and connect_handler does not run.                    *)
(***************************************************************************)
Quiet ==
  /\ UNCHANGED <<cid, clients, strays, hole>>
  /\ \A v \in Workers : pc[v] \in {"dead", "connect_add"} =>
       /\ batch'[v] = batch[v] /\ cur'[v] = cur[v] /\ job'[v] = job[v]
       /\ pc'[v] \in {pc[v], "dead"}
  /\ \A v \in Workers : pc'[v] = "connect_add" => pc[v] = "connect_add"
  /\ \A c \in Conns : HasConnected(c)' => HasConnected(c)

LEMMA SameConnected ==
  ASSUME LogTypes, Next, UNCHANGED rd
  PROVE  \A c \in Conns : HasConnected(c)' => HasConnected(c)
<1> SUFFICES ASSUME NEW c \in Conns, HasConnected(c)' PROVE HasConnected(c)
  OBVIOUS
<1>1. PICK n \in 1..rd[c] : /\ log'[c][n].req.op = "CONNECT"
                            /\ log'[c][n].req.id # EmptyId
  BY DEF HasConnected
<1>2. n \in 1..Len(log[c])
  BY LogGrows
<1>3. log'[c][n] = log[c][n]
  BY <1>2, LogGrows
<1> QED BY <1>1, <1>3 DEF HasConnected

LEMMA OtherConnected ==
  ASSUME ServiceInv, NEW w \in Workers, NEW c \in Conns, NEW op,
         Incoming(w, c, op), UNCHANGED log,
         op = "CONNECT" => NextRequest(c).id = EmptyId
  PROVE  \A d \in Conns : HasConnected(d)' => HasConnected(d)
<1>1. rd \in [Conns -> Nat]
  BY DEF ServiceInv, TypeInv, LogTypes
<1>2. NextRequest(c) = log[c][rd[c] + 1].req
  BY DEF NextRequest, NextName, Request
<1> SUFFICES ASSUME NEW d \in Conns, HasConnected(d)' PROVE HasConnected(d)
  OBVIOUS
<1>3. PICK n \in 1..rd'[d] : /\ log[d][n].req.op = "CONNECT"
                             /\ log[d][n].req.id # EmptyId
  BY DEF HasConnected
<1>4. n \in 1..rd[d] \/ (d = c /\ n = rd[c] + 1)
  BY <1>1 DEF Incoming
<1>5. CASE n \in 1..rd[d]
  BY <1>3, <1>5 DEF HasConnected
<1>6. CASE d = c /\ n = rd[c] + 1
  BY <1>2, <1>3, <1>6 DEF Incoming
<1> QED BY <1>4, <1>5, <1>6

LEMMA QuietSteps ==
  ASSUME ServiceInv, Next
  PROVE  \/ Quiet
         \/ \E w \in Workers, c \in Conns : \/ RecvConnectKeep(w, c)
                                            \/ RecvConnectClean(w, c)
         \/ \E w \in Workers : ConnectAdd(w)
<1> USE DEF idVars, connVars, netVars, workerVars, localVars, OwnClientOnly,
            ClientOnly
<1>0. Functions /\ LogTypes
  BY HaveFunctions DEF ServiceInv, TypeInv
<1>1. ASSUME NEW c \in Conns, ClientStep(c) PROVE Quiet
  <2>1. UNCHANGED <<cid, clients, strays, hole, pc, batch, cur, job, rd>>
    BY <1>1 DEF ClientStep, ClientConnect, ClientSend, ClientStall,
     ClientFinish, ClientLeave, ClientReset
  <2> QED BY <1>0, <2>1, SameConnected DEF Quiet
<1>2. ASSUME NEW w \in Workers, Poll(w) PROVE Quiet
  <2>1. PICK S : pc[w] = "poll" /\ batch' = [batch EXCEPT ![w] = S]
                 /\ UNCHANGED <<cid, clients, strays, hole, pc, cur, job, rd>>
    BY <1>2 DEF Poll, EpollWait
  <2> QED BY <1>0, <2>1, SameConnected DEF Quiet, Functions
<1>3. ASSUME NEW w \in Workers, NEW c \in Conns, Handle(w, c),
             ~RecvConnectKeep(w, c), ~RecvConnectClean(w, c)
      PROVE  Quiet
  <2>1. /\ UNCHANGED <<cid, clients, strays, hole>> /\ pc[w] = "poll"
        /\ \/ UNCHANGED rd
           \/ UNCHANGED log /\ \E op : /\ Incoming(w, c, op)
                                       /\ op = "CONNECT" =>
                                            NextRequest(c).id = EmptyId
    BY <1>3 DEF Handle, HangUp, AcceptHandler, AcceptFails, RecvNothing,
       RecvPartial, RecvReset, RecvOther, RecvAck, RecvPingreq, RecvPublish,
       RecvConnectRefused, RecvSubscribeRefused, RecvSubscribe, ReplyNone,
       ReplyAck, ReplySuback, ReplyPublish, Incoming, Holds, Replying
  <2>2. \A d \in Conns : HasConnected(d)' => HasConnected(d)
    BY <1>0, <2>1, SameConnected, OtherConnected
  <2>3. \/ /\ \E label \in PCs \ {"connect_add"} : pc' = [pc EXCEPT ![w] = label]
           /\ \A v \in Workers \ {w} : /\ batch'[v] = batch[v]
                                       /\ cur'[v] = cur[v] /\ job'[v] = job[v]
        \/ Crash /\ UNCHANGED job
    <3> USE <1>0 DEF Functions, Return, Enter, AwaitWritable, AwaitRequest, PCs
    <3>1. CASE \/ HangUp(w, c) \/ AcceptHandler(w, c) \/ AcceptFails(w, c)
               \/ RecvNothing(w, c) \/ RecvPartial(w, c) \/ RecvReset(w, c)
               \/ RecvOther(w, c)
      BY <3>1 DEF HangUp, AcceptHandler, AcceptFails, RecvNothing, RecvPartial,
         RecvReset, RecvOther
    <3>2. CASE \/ RecvAck(w, c) \/ RecvPingreq(w, c) \/ RecvPublish(w, c)
               \/ RecvConnectRefused(w, c) \/ RecvSubscribeRefused(w, c)
               \/ RecvSubscribe(w, c)
      BY <3>2 DEF RecvAck, RecvPingreq, RecvPublish, RecvConnectRefused,
         RecvSubscribeRefused, RecvSubscribe
    <3>3. CASE \/ ReplyNone(w, c) \/ ReplyAck(w, c) \/ ReplySuback(w, c)
               \/ ReplyPublish(w, c)
      BY <3>3 DEF ReplyNone, ReplyAck, ReplySuback, ReplyPublish
    <3> QED BY <1>3, <3>1, <3>2, <3>3 DEF Handle
  <2> QED BY <1>0, <2>1, <2>2, <2>3 DEF Quiet, Crash, Functions
<1>4. ASSUME NEW w \in Workers, Continue(w), ~ConnectAdd(w) PROVE Quiet
  <2>1. /\ UNCHANGED <<cid, clients, strays, hole, rd>>
        /\ pc[w] \notin {"dead", "connect_add"}
    BY <1>4 DEF Continue, RecvResume, SubscribeCreate, AddSubscriberFind,
       AddSubscriberInsert, AddSubscriberLink, SubscribeRetained,
       ReplyRetained, ReplyDangling, PublishCreate, SkipRetain, RetainDestroy,
       RetainClear, RetainKeep, FanOut, FanOutWild, FinishPublish, CreateTopic
  <2>2. \A d \in Conns : HasConnected(d)' => HasConnected(d)
    BY <1>0, <2>1, SameConnected
  <2>3. \/ /\ \E label \in PCs \ {"connect_add"} : pc' = [pc EXCEPT ![w] = label]
           /\ \A v \in Workers \ {w} : /\ batch'[v] = batch[v]
                                       /\ cur'[v] = cur[v] /\ job'[v] = job[v]
        \/ Crash /\ UNCHANGED job
        \/ UNCHANGED <<pc, batch, cur, job>>
    <3> USE <1>0 DEF Functions, Return, Goto, AwaitWritable, AwaitRequest, PCs
    <3>1. CASE \/ RecvResume(w) \/ SubscribeCreate(w) \/ AddSubscriberFind(w)
               \/ AddSubscriberInsert(w) \/ AddSubscriberLink(w)
               \/ SubscribeRetained(w) \/ ReplyRetained(w) \/ ReplyDangling(w)
      BY <3>1 DEF RecvResume, SubscribeCreate, AddSubscriberFind,
         AddSubscriberInsert, AddSubscriberLink, SubscribeRetained,
         ReplyRetained, ReplyDangling, CreateTopic
    <3>2. CASE \/ PublishCreate(w) \/ SkipRetain(w) \/ RetainDestroy(w)
               \/ RetainClear(w) \/ RetainKeep(w)
               \/ FanOut(w) \/ FanOutWild(w) \/ FinishPublish(w)
      BY <3>2 DEF PublishCreate, SkipRetain, RetainDestroy, RetainClear,
         RetainKeep, FanOut, FanOutWild, FinishPublish, CreateTopic
    <3> QED BY <1>4, <3>1, <3>2 DEF Continue
  <2> QED BY <1>0, <2>1, <2>2, <2>3 DEF Quiet, Crash, Functions
<1> QED BY <1>1, <1>2, <1>3, <1>4 DEF Next

IdParts ==
  /\ Single
  /\ \A w \in Workers : AddingAt(w)
  /\ \A c \in Conns : NamedAt(c) /\ TrackedAt(c)

\* An identifier once used stays used.
LEMMA CleanStays ==
  ASSUME LogTypes, Next
  PROVE  \A c \in Conns : \A i : CleanConnect(c, i) => CleanConnect(c, i)'
<1> SUFFICES ASSUME NEW c \in Conns, NEW i, CleanConnect(c, i)
             PROVE  CleanConnect(c, i)'
  OBVIOUS
<1>1. PICK n \in 1..rd[c] : /\ log[c][n].req.op = "CONNECT"
                            /\ log[c][n].req.clean
                            /\ log[c][n].req.id = i
  BY DEF CleanConnect
<1>2. n \in 1..Len(log[c]) /\ n \in 1..rd'[c]
  BY LogGrows
<1>3. log'[c][n] = log[c][n]
  BY <1>2, LogGrows
<1> QED BY <1>1, <1>2, <1>3 DEF CleanConnect

LEMMA IdQuiet == ASSUME IdInv, Next, Quiet PROVE IdParts'
<1>0. LogTypes
  BY DEF IdInv, ServiceInv, TypeInv
<1>1. \A c \in Conns : NamedAt(c)'
  BY <1>0, CleanStays DEF IdInv, NamedAt, Quiet
<1>2. ASSUME NEW w \in Workers PROVE AddingAt(w)'
  <2>1. SUFFICES ASSUME pc'[w] = "connect_add" PROVE AddingAt(w)'
    BY DEF AddingAt
  <2>2. /\ pc[w] = "connect_add" /\ job'[w] = job[w] /\ cur'[w] = cur[w]
        /\ HandlerAt(w) /\ AddingAt(w)
    BY <2>1 DEF Quiet, IdInv, ServiceInv, TypeInv, HandlerInv
  <2>3. Request(job[w])' = Request(job[w])
    BY <1>0, <2>2, LogStep DEF HandlerAt, ReadStays, Request
  <2> QED BY <2>2, <2>3 DEF AddingAt, Quiet
<1>3. ASSUME NEW c \in Conns PROVE TrackedAt(c)'
  <2>1. SUFFICES
          ASSUME HasConnected(c)',
                 \A w \in Workers : c \in batch'[w] =>
                   pc'[w] # "dead" /\ (pc'[w] = "connect_add" => cur'[w] # c)
          PROVE  \/ clients[c] > 0
                 \/ \E d \in Conns \ {c} : UsedId(d, cid[c])'
    BY DEF TrackedAt, Quiet
  <2>2. HasConnected(c)
    BY <2>1 DEF Quiet
  <2>3. \A w \in Workers : c \in batch[w] =>
          pc[w] # "dead" /\ (pc[w] = "connect_add" => cur[w] # c)
    BY <2>1 DEF Quiet
  <2>4. clients[c] > 0 \/ \E d \in Conns \ {c} : UsedId(d, cid[c])
    BY <2>2, <2>3 DEF IdInv, TrackedAt
  <2>5. \A d \in Conns : UsedId(d, cid[c]) => UsedId(d, cid[c])'
    <3>1. \A d \in Conns : UsedId(d, cid[c])
                             <=> cid[d] = cid[c] \/ CleanConnect(d, cid[c])
      BY DEF UsedId, CleanConnect
    <3>2. \A d \in Conns : UsedId(d, cid[c])'
                             <=> cid[d] = cid[c] \/ CleanConnect(d, cid[c])'
      BY DEF UsedId, CleanConnect, Quiet
    <3>3. ASSUME NEW d \in Conns, CleanConnect(d, cid[c])
          PROVE  CleanConnect(d, cid[c])'
      BY <1>0, <3>3, CleanStays DEF CleanConnect, Quiet
    <3> QED BY <3>1, <3>2, <3>3
  <2> QED BY <2>4, <2>5
<1> QED BY <1>1, <1>2, <1>3 DEF IdInv, IdParts, Single, Quiet

\* What a step of connect_handler for c leaves alone.
ConnectStep(w, c) ==
  /\ c \in batch[w] /\ pc[w] \in {"poll", "connect_add"} /\ UNCHANGED log
  /\ pc[w] = "connect_add" => cur[w] = c
  /\ \A v \in Workers \ {w} : /\ pc'[v] = pc[v] /\ cur'[v] = cur[v]
                              /\ job'[v] = job[v] /\ batch'[v] = batch[v]
  /\ batch'[w] = batch[w] \/ batch'[w] = batch[w] \ {c}
  /\ \A d \in Conns \ {c} : cid'[d] = cid[d] /\ rd'[d] = rd[d]
  /\ cid'[c] = cid[c] \/ CleanConnect(c, cid[c]) \/ cid[c] = c

\* add_client and del_client take away only entries under the identifier they
\* are given.
Taken(c, i) ==
  \A d \in Conns \ {c} :
    \/ clients'[d] = clients[d]
    \/ clients'[d] \in Nat /\ clients'[d] < clients[d] /\ cid[d] = i

LEMMA AddTakes ==
  ASSUME IdTypes, NEW c \in Conns, NEW i, AddClient(c, i)
  PROVE  Taken(c, i) /\ clients'[c] \in Nat
         /\ (clients'[c] > clients[c] \/ (clients'[c] = clients[c] /\ InTable(c, i)))
<1>1. CASE clients' = [clients EXCEPT ![c] = @ + 1]
  BY <1>1 DEF IdTypes, Taken
<1>2. ASSUME NEW d \in Conns, InTable(d, i),
             clients' = [clients EXCEPT ![d] = @ - 1, ![c] = @ + 1]
      PROVE  Taken(c, i) /\ clients'[c] \in Nat
             /\ (clients'[c] > clients[c] \/ (clients'[c] = clients[c] /\ InTable(c, i)))
  <2>1. CASE d = c
    BY <1>2, <2>1 DEF IdTypes, Taken
  <2>2. CASE d # c
    BY <1>2, <2>2 DEF IdTypes, Taken, InTable
  <2> QED BY <2>1, <2>2
<1> QED BY <1>1, <1>2 DEF AddClient

LEMMA DelTakes ==
  ASSUME IdTypes, NEW c \in Conns, DelClient(c)
  PROVE  Taken(c, cid[c]) /\ clients'[c] = 0
<1>1. CASE clients' = [clients EXCEPT ![c] = 0]
  BY <1>1 DEF IdTypes, Taken
<1>2. ASSUME NEW d \in Conns, InTable(d, cid[c]),
             clients' = [[clients EXCEPT ![d] = @ - 1] EXCEPT ![c] = 0]
      PROVE  Taken(c, cid[c]) /\ clients'[c] = 0
  BY <1>2 DEF IdTypes, Taken, InTable
<1> QED BY <1>1, <1>2 DEF DelClient, FreeId

\* While no slot was freed, the entry that is replaced is the only one.
LEMMA AddSingle ==
  ASSUME IdTypes, Single, NEW c \in Conns, NEW i, AddClient(c, i),
         cid'[c] = i, \A d \in Conns \ {c} : cid'[d] = cid[d],
         cid[c] = i \/ clients[c] = 0
  PROVE  Single'
<1> SUFFICES ASSUME ~hole PROVE Single'
  BY DEF AddClient, Single
<1>0. /\ \A d \in Conns : clients[d] \in Nat /\ strays[d] = 0 /\ clients[d] <= 1
      /\ \A d, e \in Conns :
           clients[d] > 0 /\ clients[e] > 0 /\ cid[d] = cid[e] => d = e
  BY DEF IdTypes, Single
<1>1. /\ UNCHANGED strays
      /\ \/ /\ \A d \in Conns : ~InTable(d, i)
            /\ clients' = [clients EXCEPT ![c] = @ + 1]
         \/ \E d \in Conns :
              /\ InTable(d, i)
              /\ clients' = [clients EXCEPT ![d] = @ - 1, ![c] = @ + 1]
  BY <1>0 DEF AddClient
<1>2. CASE /\ \A d \in Conns : ~InTable(d, i)
           /\ clients' = [clients EXCEPT ![c] = @ + 1]
  <2>1. clients[c] = 0 /\ clients'[c] = 1
    BY <1>0, <1>2 DEF InTable, IdTypes
  <2>2. \A d \in Conns \ {c} : /\ clients'[d] = clients[d]
                               /\ clients[d] > 0 => cid[d] # i
    BY <1>0, <1>2 DEF InTable, IdTypes
  <2> QED BY <1>0, <1>1, <2>1, <2>2 DEF Single
<1>3. ASSUME NEW d \in Conns, InTable(d, i),
             clients' = [clients EXCEPT ![d] = @ - 1, ![c] = @ + 1]
      PROVE  Single'
  <2>1. clients[d] = 1 /\ cid[d] = i
    BY <1>0, <1>3 DEF InTable
  <2>2. CASE d = c
    <3>1. \A e \in Conns : clients'[e] = clients[e] /\ cid'[e] = cid[e]
      BY <1>3, <2>1, <2>2 DEF IdTypes
    <3> QED BY <1>0, <1>1, <3>1 DEF Single
  <2>3. CASE d # c
    <3>1. clients[c] = 0
      BY <1>0, <2>1, <2>3
    <3>2. clients'[c] = 1 /\ clients'[d] = 0
      BY <1>3, <2>1, <2>3, <3>1 DEF IdTypes
    <3>3. \A e \in Conns \ {c, d} : /\ clients'[e] = clients[e]
                                    /\ clients[e] > 0 => cid[e] # i
      BY <1>0, <1>3, <2>1 DEF IdTypes
    <3> QED BY <1>0, <1>1, <3>2, <3>3 DEF Single
  <2> QED BY <2>2, <2>3
<1> QED BY <1>1, <1>2, <1>3

LEMMA DelSingle ==
  ASSUME IdTypes, Single, NEW c \in Conns, DelClient(c), UNCHANGED cid
  PROVE  Single'
<1> SUFFICES ASSUME ~hole' PROVE Single'
  BY DEF Single
<1>1. /\ ~\E d \in Conns : InTable(d, cid[c])
      /\ FreeId(c, clients, strays)
      /\ hole' = hole
  BY Zenon DEF DelClient
<1>a. ~hole
  BY <1>1, Zenon
<1>2. clients[c] = 0
  BY <1>1 DEF InTable, IdTypes
<1>3. \A d \in Conns : clients'[d] = clients[d] /\ strays'[d] = strays[d]
  BY <1>1, <1>2 DEF FreeId, IdTypes
<1> QED BY <1>a, <1>3 DEF Single

\* The other workers and the other connections.
LEMMA IdOthers ==
  ASSUME IdInv, Next, NEW w \in Workers, NEW c \in Conns, ConnectStep(w, c),
         NEW i \in {cid[c], cid'[c]}, Taken(c, i)
  PROVE  /\ \A v \in Workers \ {w} : AddingAt(v)'
         /\ \A d \in Conns \ {c} : NamedAt(d)' /\ TrackedAt(d)'
<1>0. LogTypes /\ OneOwner /\ CurIsConn /\ clients \in [Conns -> Nat]
  BY DEF IdInv, ServiceInv, TypeInv, OwnerInv, IdTypes
<1>1. ASSUME NEW v \in Workers \ {w}, pc'[v] = "connect_add" PROVE AddingAt(v)'
  <2>1. /\ pc[v] = "connect_add" /\ job'[v] = job[v] /\ cur'[v] = cur[v]
        /\ AddingAt(v) /\ cur[v] # c
    BY <1>0, <1>1 DEF ConnectStep, IdInv, OneOwner
  <2>2. Request(job[v])' = Request(job[v])
    BY <2>1 DEF ConnectStep, Request
  <2>3. cur[v] \in Conns
    BY <1>0, <2>1 DEF CurIsConn
  <2>4. clients'[cur[v]] = 0
    BY <1>0, <2>1, <2>3 DEF AddingAt, Taken
  <2> QED BY <2>1, <2>2, <2>4 DEF AddingAt
<1>2. ASSUME NEW d \in Conns \ {c} PROVE NamedAt(d)'
  BY <1>0, CleanStays DEF NamedAt, IdInv, ConnectStep
<1>3. ASSUME NEW d \in Conns \ {c} PROVE TrackedAt(d)'
  <2>0. cid'[d] = cid[d] /\ cid[d] \in Ids \cup Conns
    BY DEF ConnectStep, IdInv, ServiceInv, TypeInv, IdTypes
  <2>1. SUFFICES
          ASSUME HasConnected(d)',
                 \A v \in Workers : d \in batch'[v] =>
                   pc'[v] # "dead" /\ (pc'[v] = "connect_add" => cur'[v] # d)
          PROVE  \/ clients'[d] > 0
                 \/ \E e \in Conns \ {d} : UsedId(e, cid[d])'
    BY <2>0 DEF TrackedAt
  <2>2. HasConnected(d)
    BY <2>1 DEF HasConnected, ConnectStep
  <2>3. \A v \in Workers : d \in batch[v] =>
          pc[v] # "dead" /\ (pc[v] = "connect_add" => cur[v] # d)
    <3>1. ASSUME NEW v \in Workers \ {w}, d \in batch[v]
          PROVE  pc[v] # "dead" /\ (pc[v] = "connect_add" => cur[v] # d)
      BY <2>1, <3>1 DEF ConnectStep
    <3>2. pc[w] # "dead" /\ (pc[w] = "connect_add" => cur[w] # d)
      BY DEF ConnectStep
    <3> QED BY <3>1, <3>2
  <2>4. clients[d] > 0 \/ \E e \in Conns \ {d} : UsedId(e, cid[d])
    BY <2>2, <2>3 DEF IdInv, TrackedAt
  <2>5. \A e \in Conns : /\ CleanConnect(e, cid[d]) => UsedId(e, cid[d])'
                         /\ UsedId(e, cid[d]) =>
                              cid[e] = cid[d] \/ CleanConnect(e, cid[d])
                         /\ cid'[e] = cid[d] => UsedId(e, cid[d])'
    <3>1. \A e \in Conns : CleanConnect(e, cid[d]) => CleanConnect(e, cid[d])'
      BY <1>0, <2>0, CleanStays DEF CleanConnect
    <3>2. \A e \in Conns : UsedId(e, cid[d])'
                             <=> cid'[e] = cid[d] \/ CleanConnect(e, cid[d])'
      BY <2>0 DEF UsedId, CleanConnect
    <3>3. \A e \in Conns : UsedId(e, cid[d])
                             <=> cid[e] = cid[d] \/ CleanConnect(e, cid[d])
      BY DEF UsedId, CleanConnect
    <3> QED BY <3>1, <3>2, <3>3
  <2>6. cid[c] = cid[d] => UsedId(c, cid[d])'
    <3>1. SUFFICES ASSUME cid[c] = cid[d] PROVE UsedId(c, cid[d])'
      OBVIOUS
    <3>2. cid[d] # c
      BY NamesAssumption DEF IdInv, NamedAt
    <3> QED BY <2>5, <3>1, <3>2 DEF ConnectStep
  <2>7. ASSUME NEW e \in Conns \ {d}, UsedId(e, cid[d])
        PROVE  UsedId(e, cid[d])'
    <3>1. CASE e = c
      BY <2>5, <2>6, <2>7, <3>1
    <3>2. CASE e # c
      BY <2>5, <2>7, <3>2 DEF ConnectStep
    <3> QED BY <3>1, <3>2
  <2>8. CASE clients[d] > 0
    <3>1. CASE i = cid[d]
      BY <2>5, <2>6, <3>1
    <3>2. CASE i # cid[d]
      BY <2>8, <3>2 DEF Taken
    <3> QED BY <3>1, <3>2
  <2> QED BY <2>4, <2>7, <2>8
<1> QED BY <1>1, <1>2, <1>3 DEF AddingAt

LEMMA IdKeep ==
  ASSUME IdInv, Next, NEW w \in Workers, NEW c \in Conns, RecvConnectKeep(w, c)
  PROVE  IdParts'
<1>0. Functions /\ LogTypes /\ IdTypes
  BY HaveFunctions DEF IdInv, ServiceInv, TypeInv
<1>1. /\ Holds(w, c) /\ Return(w, c) /\ UNCHANGED <<log, cid, job>>
      /\ AddClient(c, cid[c])
      /\ rd' = [rd EXCEPT ![c] = @ + 1]
  BY DEF RecvConnectKeep, Incoming, AwaitWritable, netVars, localVars
<1>2. ConnectStep(w, c)
  BY <1>0, <1>1 DEF ConnectStep, Functions, Holds, Return
<1>3. cid[c] \in Ids \cup Conns /\ cid'[c] = cid[c]
  BY <1>0, <1>1 DEF IdTypes
<1>4. /\ \A v \in Workers \ {w} : AddingAt(v)'
      /\ \A d \in Conns \ {c} : NamedAt(d)' /\ TrackedAt(d)'
  BY <1>0, <1>1, <1>2, <1>3, AddTakes, IdOthers
<1>5. Single'
  BY <1>0, <1>1, <1>3, AddSingle DEF IdInv
<1>6. AddingAt(w)'
  BY <1>0, <1>1 DEF AddingAt, Return, Functions
<1>7. NamedAt(c)'
  BY <1>0, <1>3, CleanStays DEF IdInv, NamedAt
<1>8. TrackedAt(c)'
  <2>1. clients'[c] > 0
    BY <1>0, <1>1, AddTakes DEF InTable, IdTypes
  <2> QED BY <2>1 DEF TrackedAt
<1> QED BY <1>4, <1>5, <1>6, <1>7, <1>8 DEF IdParts

LEMMA IdClean ==
  ASSUME IdInv, Next, NEW w \in Workers, NEW c \in Conns,
         RecvConnectClean(w, c)
  PROVE  IdParts'
<1>0. Functions /\ LogTypes /\ IdTypes
  BY HaveFunctions DEF IdInv, ServiceInv, TypeInv
<1>1. /\ Holds(w, c) /\ Enter(w, c, "connect_add") /\ UNCHANGED <<log, cid>>
      /\ job' = [job EXCEPT ![w] = NextName(c)]
      /\ NextRequest(c).clean
      /\ DelClient(c)
      /\ rd' = [rd EXCEPT ![c] = @ + 1]
  BY DEF RecvConnectClean, Incoming, netVars
<1>2. ConnectStep(w, c)
  BY <1>0, <1>1 DEF ConnectStep, Functions, Holds, Enter
<1>3. cid[c] \in Ids \cup Conns /\ cid'[c] = cid[c]
  BY <1>0, <1>1 DEF IdTypes
<1>4. /\ \A v \in Workers \ {w} : AddingAt(v)'
      /\ \A d \in Conns \ {c} : NamedAt(d)' /\ TrackedAt(d)'
  BY <1>0, <1>1, <1>2, <1>3, DelTakes, IdOthers
<1>5. Single'
  BY <1>0, <1>1, DelSingle DEF IdInv
<1>6. AddingAt(w)'
  <2>1. cur'[w] = c /\ job'[w] = NextName(c)
    BY <1>0, <1>1 DEF Enter, Functions
  <2>2. Request(job[w])' = NextRequest(c)
    BY <1>1, <2>1 DEF Request, NextRequest
  <2>3. clients'[c] = 0
    BY <1>0, <1>1, DelTakes
  <2> QED BY <1>1, <2>1, <2>2, <2>3 DEF AddingAt
<1>7. NamedAt(c)'
  BY <1>0, <1>3, CleanStays DEF IdInv, NamedAt
<1>8. TrackedAt(c)'
  <2>1. c \in batch'[w] /\ pc'[w] = "connect_add" /\ cur'[w] = c
    BY <1>0, <1>1 DEF Functions, Holds, Enter
  <2> QED BY <2>1 DEF TrackedAt
<1> QED BY <1>4, <1>5, <1>6, <1>7, <1>8 DEF IdParts

LEMMA IdAdd ==
  ASSUME IdInv, Next, NEW w \in Workers, ConnectAdd(w)
  PROVE  IdParts'
<1>c. PICK c : c = cur[w]
  OBVIOUS
<1>0. /\ Functions /\ LogTypes /\ IdTypes /\ OneOwner /\ CurIsConn
      /\ HandlerAt(w) /\ WorkAt(w) /\ AddingAt(w)
  BY HaveFunctions DEF IdInv, ServiceInv, TypeInv, OwnerInv, HandlerInv
<1>1. PICK i : i = Request(job[w]).id
  OBVIOUS
<1>2. /\ pc[w] = "connect_add" /\ Return(w, c) /\ UNCHANGED <<log, rd, job>>
      /\ cid' = [cid EXCEPT ![c] = i]
      /\ AddClient(c, i)
  BY <1>1, <1>c DEF ConnectAdd, AwaitWritable, netVars, localVars
<1>3. /\ c \in Conns /\ c \in batch[w]
      /\ Known(job[w], "CONNECT") /\ i \in Ids /\ Request(job[w]).clean
      /\ job[w] = <<c, rd[c]>>
  BY <1>0, <1>1, <1>2, <1>c
  DEF HandlerAt, AddingAt, WorkAt, CurIsConn, OneOwner,
     Known, StartPCs
<1>4. CleanConnect(c, i)
  <2>1. rd[c] \in 1..rd[c]
    BY <1>0, <1>3, BoundsAssumption DEF Known, RequestNames, Functions
  <2>2. /\ log[c][rd[c]].req.op = "CONNECT" /\ log[c][rd[c]].req.clean
        /\ log[c][rd[c]].req.id = i
    BY <1>1, <1>3 DEF Known, Request
  <2> QED BY <2>1, <2>2 DEF CleanConnect
<1>5. cid'[c] = i /\ \A d \in Conns \ {c} : cid'[d] = cid[d]
  BY <1>0, <1>2, <1>3 DEF IdTypes
<1>6. ConnectStep(w, c)
  <2>1. CleanConnect(c, cid[c]) \/ cid[c] = c
    BY <1>3 DEF IdInv, NamedAt
  <2> QED BY <1>0, <1>2, <1>3, <1>5, <1>c, <2>1
         DEF ConnectStep, Functions, Return
<1>7. /\ \A v \in Workers \ {w} : AddingAt(v)'
      /\ \A d \in Conns \ {c} : NamedAt(d)' /\ TrackedAt(d)'
  <2>1. i \in {cid[c], cid'[c]} /\ Taken(c, i)
    BY <1>0, <1>2, <1>3, <1>5, AddTakes
  <2> QED BY <1>3, <1>6, <2>1, IdOthers
<1>8. Single'
  <2>1. clients[c] = 0
    BY <1>0, <1>2, <1>c DEF AddingAt
  <2> QED BY <1>0, <1>2, <1>3, <1>5, <2>1, AddSingle DEF IdInv
<1>9. AddingAt(w)'
  BY <1>0, <1>2 DEF AddingAt, Return, Functions
<1>10. NamedAt(c)' /\ TrackedAt(c)'
  <2>1. CleanConnect(c, i)'
    BY <1>0, <1>3, <1>4, CleanStays
  <2>2. clients'[c] > 0
    BY <1>0, <1>2, <1>3, AddTakes DEF InTable, IdTypes
  <2>3. NamedAt(c)'
    BY <1>3, <1>5, <2>1 DEF NamedAt, CleanConnect
  <2>4. TrackedAt(c)'
    BY <1>5, <2>2 DEF TrackedAt
  <2> QED BY <2>3, <2>4
<1> QED BY <1>7, <1>8, <1>9, <1>10 DEF IdParts

LEMMA IdNext == IdInv /\ [Next]_vars => IdInv'
<1> SUFFICES ASSUME IdInv, [Next]_vars PROVE IdInv'
  OBVIOUS
<1>1. ServiceInv'
  BY ServiceNext DEF IdInv
<1>2. IdParts'
  <2>1. CASE Next
    <3>1. ServiceInv
      BY DEF IdInv
    <3> QED BY <2>1, <3>1, QuietSteps, IdQuiet, IdKeep, IdClean, IdAdd
  <2>2. CASE UNCHANGED vars
    <3>1. UNCHANGED <<log, rd, job, batch, cur, pc, cid, clients, strays, hole>>
      BY <2>2 DEF vars, netVars, connVars, idVars, localVars, workerVars
    <3> QED BY <3>1 DEF IdInv, IdParts, Single, AddingAt, NamedAt, TrackedAt, Request,
               HasConnected, CleanConnect, UsedId
  <2> QED BY <2>1, <2>2
<1> QED BY <1>1, <1>2 DEF IdInv, IdParts

(* In every behaviour: a client that was told CONNACK 0 is in db->clients, *)
(* where the keepalive thread finds it, under a key that is not freed,     *)
(* unless another connection used its identifier; and no Client and no     *)
(* identifier is in the table twice before a deletion has left a hole in   *)
(* it.  The deletion and the insertion of a clean session are two steps    *)
(* with other workers in between.                                          *)
THEOREM ClientsTrackedHolds == Spec => []ClientsTracked
<1>1. Init => IdInv
  <2> SUFFICES ASSUME Init PROVE IdInv
    OBVIOUS
  <2>1. ServiceInv
    BY ServiceInit
  <2>2. \A c \in Conns : ~HasConnected(c)
    BY DEF Init, HasConnected
  <2> QED BY <2>1, <2>2 DEF Init, IdInv, Single, AddingAt, NamedAt, TrackedAt
<1>2. IdInv => ClientsTracked
  <2> SUFFICES ASSUME IdInv PROVE ClientsTracked
    OBVIOUS
  <2>1. OneOwner
    BY DEF IdInv, ServiceInv, TypeInv, OwnerInv
  <2>2. \A c \in Conns : armed[c] = "in" => \A w \in Workers : c \notin batch[w]
    BY <2>1 DEF OneOwner
  <2> QED BY <2>2 DEF IdInv, Single, TrackedAt, HasConnected, Accepted,
             ClientsTracked
<1> QED BY <1>1, <1>2, IdNext, PTL DEF Spec
-----------------------------------------------------------------------------
(***************************************************************************)
(* What the broker puts on a socket, and in which order.  Every step of    *)
(* the event loop is read as a step of the service BrokerRefinement maps   *)
(* it to: a request is read, its message is offered to a subscriber, it is *)
(* answered, the retained message follows.  From this follow the order of  *)
(* the answers (AnswersInOrder) and of a publisher's messages              *)
(* (PublisherOrder).                                                       *)
(***************************************************************************)

(***************************************************************************)
(* What a step puts on the sockets, with the kind of step it is.           *)
(***************************************************************************)
Puts(c, op, rc, re) ==
  \E s \in SentKinds :
    outbox' = [outbox EXCEPT ![c] = Append(@, Frame(op, rc, re, s))]

Silent(w, c) ==
  /\ \/ Drops(w, c) \/ Rests(w, c) \/ Rejects(w, c) \/ Queues(w, c)
     \/ Starts(w, c) \/ Moves(w, c) \/ Prepares(w, c) \/ Spins(w, c)
     \/ Enters(w, c) /\ reply[c].op = "PUBLISH"
  /\ UNCHANGED outbox
Acks(w, c) ==
  /\ Holds(w, c) /\ Answers(w, c) /\ reply[c].op # "PUBLISH"
  /\ reply[c].retained = NoMsg
  /\ Puts(c, reply[c].op, reply[c].rc, reply[c].re)
AcksFirst(w, c) ==
  /\ Enters(w, c) /\ reply[c].op = "SUBACK"
  /\ Puts(c, "SUBACK", reply[c].rc, reply[c].re)
Replays(w, c) ==
  /\ pc[w] = "suback_retained" /\ Answers(w, c)
  /\ \E r \in RequestNames \cup {Wild} :
       /\ Puts(c, "RETAINED", 0, r)
       /\ IF reply[c].retained \in live THEN r = reply[c].retained ELSE r = Wild
Sending(w, s) ==
  /\ pc[w] = "fanout" /\ todo[w] # <<>> /\ s = Head(todo[w]) /\ s \in Conns
  /\ Puts(s, "PUBLISH", 0, job[w])
Distributes(w, c) ==
  /\ Moves(w, c) /\ todo'[w] = Tail(todo[w])
  /\ \E s \in Conns : Sending(w, s)
Finishes(w, c) ==
  /\ pc[w] = "fanout" /\ todo[w] = <<>> /\ Answers(w, c)
  /\ IF WantsPuback(Request(job[w])) THEN Puts(c, "PUBACK", 0, job[w])
                                     ELSE UNCHANGED outbox
Works(w, c) ==
  \/ Silent(w, c) \/ Acks(w, c) \/ AcksFirst(w, c) \/ Replays(w, c)
  \/ Distributes(w, c) \/ Finishes(w, c)
Ends ==
  /\ Dies /\ \E w \in Workers : pc[w] # "dead"
  /\ UNCHANGED outbox \/ \E w \in Workers, s \in Conns : Sending(w, s)

LEMMA SendAllPuts ==
  ASSUME NEW c, NEW op, NEW rc, NEW re, SendAll(c, op, rc, re)
  PROVE  Puts(c, op, rc, re)
<1>1. Outcomes(c) \subseteq SentKinds
  BY DEF Outcomes, SentKinds
<1> QED BY <1>1 DEF SendAll, Puts

\* An answer that is not a moment's work, told from the other kinds.
LEMMA AnswersOnly ==
  ASSUME NEW w \in Workers, NEW c \in Conns, Handles(w, c),
         ctx[c] = "reply", ctx'[c] = "request"
  PROVE  Answers(w, c)
  BY DEF Handles, Drops, Rests, Rejects, Queues, Starts, Moves, Prepares,
     Enters, Spins, Takes, Slot

LEMMA SilentOnly ==
  ASSUME NEW w \in Workers, NEW c \in Conns, Handles(w, c), UNCHANGED outbox,
         ctx'[c] = "request" => ctx[c] = "request",
         ctx[c] = "reply" => reply[c].op # "SUBACK" \/ pc[w] # "poll"
                             \/ pc'[w] # "suback_retained"
  PROVE  Silent(w, c)
  BY DEF Handles, Silent, Enters, Answers, Holds, Stays, Slot, PubPCs

LEMMA HandleWorks ==
  ASSUME ServiceInv, NEW w \in Workers, NEW c \in Conns, Handle(w, c)
  PROVE  \/ (AcceptHandler(w, c) \/ AcceptFails(w, c)) /\ UNCHANGED outbox
         \/ Others(w, c) /\ Works(w, c)
         \/ Ends
<1> USE DEF netVars, connVars, OwnClientOnly
<1>0. TypeInv /\ ReplySlot /\ Functions
  BY HaveFunctions DEF ServiceInv
<1>1. CASE AcceptHandler(w, c) \/ AcceptFails(w, c)
  BY <1>1 DEF AcceptHandler, AcceptFails
<1>2. CASE \/ HangUp(w, c) \/ RecvNothing(w, c) \/ RecvOther(w, c)
           \/ ReplyNone(w, c)
  <2>1. Others(w, c) /\ Handles(w, c)
    BY <1>0, <1>2, HandleReturns
  <2>2. UNCHANGED <<outbox, ctx>> /\ pc'[w] = "poll"
    BY <1>0, <1>2 DEF HangUp, RecvNothing, RecvOther, ReplyNone, Return,
       Functions
  <2>3. Silent(w, c)
    BY <2>1, <2>2, SilentOnly
  <2> QED BY <2>1, <2>3 DEF Works
<1>3. CASE ReplyAck(w, c)
  <2>1. Others(w, c) /\ Handles(w, c)
    BY <1>0, <1>3, HandleReturns
  <2>2. /\ Holds(w, c) /\ ctx[c] = "reply" /\ ctx'[c] = "request"
        /\ reply[c].op # "PUBLISH" /\ reply[c].retained = NoMsg
        /\ SendAll(c, reply[c].op, reply[c].rc, reply[c].re)
    BY <1>0, <1>3 DEF ReplyAck, Replying, AwaitRequest, Functions
  <2>3. Acks(w, c)
    BY <2>1, <2>2, AnswersOnly, SendAllPuts DEF Acks
  <2> QED BY <2>1, <2>3 DEF Works
<1>4. CASE \/ RecvAck(w, c) \/ RecvPingreq(w, c) \/ RecvPublish(w, c)
           \/ RecvConnectRefused(w, c) \/ RecvConnectKeep(w, c)
           \/ RecvSubscribeRefused(w, c)
  <2>1. Others(w, c) /\ Queues(w, c)
    BY <1>0, <1>4, HandleQueues
  <2>2. UNCHANGED outbox
    BY <1>4 DEF RecvAck, RecvPingreq, RecvPublish, RecvConnectRefused,
       RecvConnectKeep, RecvSubscribeRefused
  <2> QED BY <2>1, <2>2 DEF Works, Silent
<1>5. CASE RecvConnectClean(w, c) \/ RecvSubscribe(w, c)
  <2>1. Others(w, c) /\ Starts(w, c)
    BY <1>5, HandleStarts
  <2>2. UNCHANGED outbox
    BY <1>5 DEF RecvConnectClean, RecvSubscribe
  <2> QED BY <2>1, <2>2 DEF Works, Silent
<1>6. CASE ReplySuback(w, c)
  <2>1. Others(w, c) /\ Enters(w, c)
    BY <1>6, HandleEnters
  <2>2. reply[c].op = "SUBACK" /\ SendAll(c, "SUBACK", reply[c].rc, reply[c].re)
    BY <1>6 DEF ReplySuback
  <2> QED BY <2>1, <2>2, SendAllPuts DEF Works, AcksFirst
<1>7. CASE ReplyPublish(w, c)
  <2>1. Others(w, c) /\ Enters(w, c)
    BY <1>7, HandleEnters
  <2> QED BY <1>7, <2>1 DEF Works, Silent, ReplyPublish
<1>8. CASE RecvPartial(w, c) \/ RecvReset(w, c)
  <2>1. UNCHANGED <<outbox, ctx>> /\ ctx[c] = "request"
    BY <1>8 DEF RecvPartial, RecvReset
  <2>2. (Others(w, c) /\ Handles(w, c)) \/ Dies
    BY <1>8, HandleSpins
  <2>3. pc[w] # "dead"
    BY <1>8 DEF RecvPartial, RecvReset, Holds
  <2> QED BY <2>1, <2>2, <2>3, SilentOnly DEF Works, Ends
<1> QED BY <1>1, <1>2, <1>3, <1>4, <1>5, <1>6, <1>7, <1>8 DEF Handle

LEMMA ContinueWorks ==
  ASSUME ServiceInv, NEW w \in Workers, Continue(w)
  PROVE  \/ cur[w] \in Conns /\ Others(w, cur[w]) /\ Works(w, cur[w])
         \/ Ends
<1> USE DEF netVars, connVars
<1>c. PICK c : c = cur[w]
  OBVIOUS
<1>0. Functions /\ OneOwner /\ CurIsConn /\ WorkAt(w) /\ LocalTypes
  BY HaveFunctions DEF ServiceInv, TypeInv, OwnerInv
<1>1. CASE ConnectAdd(w) \/ SubscribeRetained(w)
  <2>1. Others(w, c) /\ Prepares(w, c) /\ c \in Conns
    BY <1>1, <1>c, ContinuePrepares
  <2>2. UNCHANGED outbox
    BY <1>1 DEF ConnectAdd, SubscribeRetained
  <2> QED BY <1>c, <2>1, <2>2 DEF Works, Silent
<1>2. CASE \/ SubscribeCreate(w) \/ AddSubscriberFind(w)
           \/ AddSubscriberInsert(w) \/ AddSubscriberLink(w)
           \/ PublishCreate(w) \/ SkipRetain(w) \/ RetainDestroy(w)
           \/ RetainClear(w) \/ RetainKeep(w)
  <2>1. UNCHANGED outbox /\ pc[w] \in SubPCs \cup PubPCs
    BY <1>2 DEF SubscribeCreate, AddSubscriberFind, AddSubscriberInsert,
       AddSubscriberLink, PublishCreate, SkipRetain, RetainDestroy,
       RetainClear, RetainKeep, CreateTopic, SubPCs, PubPCs
  <2>2. c \in Conns
    BY <1>0, <1>c, <2>1 DEF CurIsConn, SubPCs, PubPCs
  <2>3. pc[w] # "dead"
    BY <2>1 DEF SubPCs, PubPCs
  <2> QED BY <1>2, <1>c, <2>1, <2>2, <2>3, ContinueMoves
         DEF Works, Silent, Ends
<1>3. CASE FanOut(w) \/ FanOutWild(w)
  <2>1. /\ pc[w] = "fanout" /\ todo[w] # <<>> /\ todo[w] \in Seq(Conns)
        /\ SendAll(Head(todo[w]), "PUBLISH", 0, job[w])
    BY <1>0, <1>3 DEF FanOut, FanOutWild, LocalTypes
  <2>2. Sending(w, Head(todo[w])) /\ Head(todo[w]) \in Conns
    BY <2>1, SendAllPuts DEF Sending
  <2>3. c \in Conns
    BY <1>0, <1>c, <2>1 DEF CurIsConn
  <2>4. CASE FanOut(w)
    <3>1. todo'[w] = Tail(todo[w]) /\ pc'[w] # "dead"
      BY <1>0, <2>4 DEF FanOut, LocalTypes, workerVars
    <3>2. ~Dies
      BY <3>1 DEF Dies, Crash
    <3> QED BY <1>c, <2>2, <2>3, <2>4, <3>1, <3>2, ContinueMoves
           DEF Works, Distributes
  <2>5. CASE FanOutWild(w)
    <3>1. pc'[w] = "dead"
      BY <2>5 DEF FanOutWild, Crash
    <3>2. ~Moves(w, c)
      BY <3>1 DEF Moves, Stays, SubPCs, PubPCs
    <3> QED BY <1>c, <2>1, <2>2, <2>5, <3>2, ContinueMoves DEF Ends
  <2> QED BY <1>3, <2>4, <2>5
<1>4. CASE FinishPublish(w)
  <2>1. /\ pc[w] = "fanout" /\ todo[w] = <<>>
        /\ IF WantsPuback(Request(job[w])) THEN SendAll(c, "PUBACK", 0, job[w])
                                           ELSE UNCHANGED outbox
    BY <1>4, <1>c DEF FinishPublish
  <2>2. ~Dies
    BY <1>0, <1>4 DEF FinishPublish, AwaitRequest, Return, Dies, Crash,
       Functions
  <2>3. Others(w, c) /\ Answers(w, c) /\ c \in Conns
    BY <1>4, <1>c, <2>2, ContinueAnswers
  <2> QED BY <1>c, <2>1, <2>3, SendAllPuts DEF Works, Finishes
<1>5. CASE ReplyRetained(w) \/ ReplyDangling(w)
  <2>1. CASE Dies
    <3>1. UNCHANGED outbox
      BY <1>0, <1>5, <2>1 DEF ReplyRetained, ReplyDangling, AwaitRequest,
         Return, Dies, Crash, Functions
    <3>2. pc[w] # "dead"
      BY <1>5 DEF ReplyRetained, ReplyDangling
    <3> QED BY <2>1, <3>1, <3>2 DEF Ends
  <2>2. CASE ~Dies
    <3>1. Others(w, c) /\ Answers(w, c) /\ c \in Conns
      BY <1>5, <1>c, <2>2, ContinueAnswers
    <3>2. ~Crash
      BY <3>1 DEF Answers, Leaves, Crash
    <3>3. PICK r : /\ pc[w] = "suback_retained"
                   /\ SendAll(c, "RETAINED", 0, r)
                   /\ IF reply[c].retained \in live THEN r = reply[c].retained
                                                    ELSE r = Wild
      BY <1>5, <1>c, <3>2 DEF ReplyRetained, ReplyDangling
    <3>4. r \in RequestNames \cup {Wild}
      BY <3>3 DEF ServiceInv, TypeInv, TopicTypes
    <3> QED BY <1>c, <3>1, <3>3, <3>4, SendAllPuts DEF Works, Replays
  <2> QED BY <2>1, <2>2
<1>6. CASE RecvResume(w)
  BY <1>6, ContinueResumes DEF Works, Silent
<1> QED BY <1>1, <1>2, <1>3, <1>4, <1>5, <1>6 DEF Continue

LEMMA WorkKinds ==
  ASSUME ServiceInv, Next
  PROVE  \/ (\E c \in Conns : ClientStep(c)) /\ UNCHANGED outbox
         \/ (\E w \in Workers : Poll(w)) /\ UNCHANGED outbox
         \/ \E w \in Workers, c \in Conns :
              \/ (AcceptHandler(w, c) \/ AcceptFails(w, c)) /\ UNCHANGED outbox
              \/ Others(w, c) /\ Works(w, c)
         \/ Ends
<1>1. ASSUME NEW c \in Conns, ClientStep(c) PROVE UNCHANGED outbox
  BY <1>1 DEF ClientStep, ClientConnect, ClientSend, ClientStall,
     ClientFinish, ClientLeave, ClientReset, ClientOnly
<1>2. ASSUME NEW w \in Workers, Poll(w) PROVE UNCHANGED outbox
  BY <1>2 DEF Poll, EpollWait, netVars
<1> QED BY <1>1, <1>2, HandleWorks, ContinueWorks DEF Next

-----------------------------------------------------------------------------
(***************************************************************************)
(* How the steps move a connection through the stages of the service.      *)
(***************************************************************************)
Down == \E w \in Workers : pc[w] = "dead"

\* The stage of c as the worker w that holds c sees it.
StageIn(w, c) ==
  IF LastUnanswerable(c) THEN "mute"
  ELSE IF pc[w] = "suback_retained" THEN "replay"
  ELSE IF ctx[c] = "reply" \/ pc[w] \in StartPCs THEN "working" ELSE "ready"

\* Only c changes its stage.
To(c, s) == \A d \in Conns : Stage(d)' = IF d = c THEN s ELSE Stage(d)
StagesStay == \A d \in Conns : Stage(d)' = Stage(d)

LEMMA HandlesView ==
  ASSUME NEW w \in Workers, NEW c \in Conns, Handles(w, c)
  PROVE  /\ c \in batch[w] /\ pc[w] # "dead" /\ pc'[w] # "dead"
         /\ pc[w] = "poll" \/ cur[w] = c
         /\ \/ pc'[w] = "poll" /\ batch'[w] = batch[w] \ {c}
            \/ cur'[w] = c /\ batch'[w] = batch[w]
  BY DEF Handles, Drops, Rests, Rejects, Queues, Starts, Moves, Prepares,
     Answers, Enters, Spins, Holds, Leaves, Stays, StartPCs, SubPCs, PubPCs

LEMMA StageView ==
  ASSUME ServiceInv, NEW w \in Workers, NEW c \in Conns,
         Others(w, c), Handles(w, c)
  PROVE  /\ ~Down /\ ~Down'
         /\ Stage(c) = StageIn(w, c)
         /\ Stage(c)' = StageIn(w, c)'
         /\ \A d \in Conns \ {c} : Stage(d)' = Stage(d)
<1> DEFINE L == StartPCs \cup {"suback_retained"}
<1>0. OneOwner /\ AllDead
  BY DEF ServiceInv, TypeInv, OwnerInv
<1>1. /\ c \in batch[w] /\ pc[w] # "dead" /\ pc'[w] # "dead"
      /\ pc[w] = "poll" \/ cur[w] = c
      /\ pc'[w] = "poll" \/ cur'[w] = c
  BY HandlesView
<1>2. ~Down /\ ~Down'
  BY <1>0, <1>1 DEF AllDead, Down, Others
<1>3. \A v \in Workers \ {w} : /\ pc'[v] = pc[v] /\ cur'[v] = cur[v]
                               /\ pc[v] \in L => cur[v] # c
  BY <1>0, <1>1 DEF Others, OneOwner, StartPCs, SubPCs
<1>4. "poll" \notin L
  BY DEF StartPCs, SubPCs
<1>5. ASSUME NEW K \in SUBSET L
      PROVE  /\ Inside(c, K) <=> pc[w] \in K
             /\ Inside(c, K)' <=> pc'[w] \in K
             /\ \A d \in Conns \ {c} : Inside(d, K)' <=> Inside(d, K)
  BY <1>1, <1>3, <1>4 DEF Inside
<1>6. StartPCs \in SUBSET L /\ {"suback_retained"} \in SUBSET L
  OBVIOUS
<1>7. \A d \in Conns :
        Stage(d) = IF Down THEN "down"
                   ELSE IF LastUnanswerable(d) THEN "mute"
                   ELSE IF Inside(d, {"suback_retained"}) THEN "replay"
                   ELSE IF ctx[d] = "reply" \/ Inside(d, StartPCs)
                        THEN "working" ELSE "ready"
  <2>1. StartPCs = {"connect_add", "sub_create", "sub_find", "sub_insert",
                    "sub_link", "sub_retained"}
    BY DEF StartPCs, SubPCs
  <2> QED BY <2>1 DEF Stage, Down
<1>8. \A d \in Conns :
        Stage(d)' = IF Down' THEN "down"
                    ELSE IF LastUnanswerable(d)' THEN "mute"
                    ELSE IF Inside(d, {"suback_retained"})' THEN "replay"
                    ELSE IF ctx'[d] = "reply" \/ Inside(d, StartPCs)'
                         THEN "working" ELSE "ready"
  <2>1. StartPCs = {"connect_add", "sub_create", "sub_find", "sub_insert",
                    "sub_link", "sub_retained"}
    BY DEF StartPCs, SubPCs
  <2> QED BY <2>1 DEF Stage, Down
<1>9. Stage(c) = StageIn(w, c)
  BY <1>2, <1>5, <1>6, <1>7 DEF StageIn
<1>10. Stage(c)' = StageIn(w, c)'
  BY <1>2, <1>5, <1>6, <1>8 DEF StageIn
<1>11. ASSUME NEW d \in Conns \ {c} PROVE Stage(d)' = Stage(d)
  <2>1. /\ Inside(d, {"suback_retained"})' <=> Inside(d, {"suback_retained"})
        /\ Inside(d, StartPCs)' <=> Inside(d, StartPCs)
    BY <1>5, <1>6
  <2>2. ctx'[d] = ctx[d] /\ (LastUnanswerable(d)' <=> LastUnanswerable(d))
    BY SameRequests DEF Others
  <2> QED BY <1>2, <1>7, <1>8, <2>1, <2>2
<1> QED BY <1>2, <1>9, <1>10, <1>11

\* The steps of the service, in the terms of the event loop.
Latest(c) == <<c, rd[c]>>
Idles == StagesStay /\ UNCHANGED <<log, rd, outbox>>
Requested(c, r) ==
  /\ log' = [log EXCEPT ![c] = Append(@, [req |-> r, owed |-> Owed(r)])]
  /\ StagesStay /\ UNCHANGED <<rd, outbox>>
Reads(c) ==
  /\ Stage(c) = "ready" /\ rd[c] < Len(log[c])
  /\ rd' = [rd EXCEPT ![c] = @ + 1]
  /\ To(c, IF GivenUp(NextRequest(c)) THEN "mute" ELSE "working")
  /\ UNCHANGED <<log, outbox>>
Offering(w, c, s) ==
  /\ cur[w] = c /\ Stage(c) = "working" /\ job[w] = Latest(c)
  /\ Known(job[w], "PUBLISH") /\ Sending(w, s) /\ UNCHANGED <<log, rd>>
Settles(c, next) ==
  LET r == Request(Latest(c))
      a == Answer(r)
  IN /\ Stage(c) = "working" /\ rd[c] > 0 /\ To(c, next)
     /\ IF a = <<>> THEN UNCHANGED outbox ELSE Puts(c, a[1], a[2], Latest(c))
     /\ IF r.op = "SUBSCRIBE"
        THEN /\ ctx[c] = "reply" /\ reply[c].op = "SUBACK"
             /\ next = IF reply[c].retained = NoMsg THEN "ready" ELSE "replay"
        ELSE next = "ready"
     /\ r.op = "PUBLISH" =>
          \E w \in Workers : /\ pc[w] = "fanout" /\ todo[w] = <<>>
                            /\ job[w] = Latest(c)
     /\ UNCHANGED <<log, rd>>
Repeats(c) ==
  /\ Stage(c) = "replay" /\ rd[c] > 0 /\ To(c, "ready")
  /\ Request(Latest(c)).op = "SUBSCRIBE"
  /\ ctx[c] = "reply" /\ reply[c].op = "SUBACK" /\ reply[c].retained # NoMsg
  /\ \E r \in RequestNames \cup {Wild} :
       /\ Puts(c, "RETAINED", 0, r)
       /\ IF reply[c].retained \in live THEN r = reply[c].retained ELSE r = Wild
  /\ UNCHANGED <<log, rd>>
Fails ==
  /\ ~Down /\ \A d \in Conns : Stage(d)' = "down"
  /\ \/ UNCHANGED outbox
     \/ \E w \in Workers, c, s \in Conns : Offering(w, c, s)
  /\ UNCHANGED <<log, rd>>

\* Reading a request.
LEMMA TakesView ==
  ASSUME ServiceInv, ServiceInv', NEW w \in Workers, NEW c \in Conns,
         Others(w, c), Rejects(w, c) \/ Queues(w, c) \/ Starts(w, c),
         UNCHANGED outbox
  PROVE  Reads(c)
<1>0. /\ ~LastUnanswerable(c) /\ ctx[c] = "request" /\ pc[w] = "poll"
      /\ Handles(w, c) /\ Takes(c) /\ c \in batch[w]
  BY DEF Rejects, Queues, Starts, Takes, Holds, ServiceInv, MuteAt, Handles
<1>1. /\ Stage(c) = StageIn(w, c) /\ Stage(c)' = StageIn(w, c)'
      /\ \A d \in Conns \ {c} : Stage(d)' = Stage(d)
  BY <1>0, StageView
<1>2. Functions /\ rd' \in [Conns -> Nat] /\ UNCHANGED log
  BY HaveFunctions DEF ServiceInv, TypeInv, LogTypes, Others
<1>3. rd' = [rd EXCEPT ![c] = @ + 1] /\ rd'[c] = rd[c] + 1
  BY <1>0, <1>2 DEF Functions, Others, Takes
<1>4. Stage(c) = "ready"
  BY <1>0, <1>1 DEF StageIn, StartPCs, SubPCs
<1>5. LastUnanswerable(c)' <=> GivenUp(NextRequest(c))
  BY <1>2, <1>3 DEF LastUnanswerable, NextRequest, NextName, Request, Functions
<1>6. Stage(c)' = IF GivenUp(NextRequest(c)) THEN "mute" ELSE "working"
  BY <1>1, <1>5
  DEF StageIn, Rejects, Queues, Starts, Leaves, Stays, StartPCs, SubPCs
<1> QED BY <1>0, <1>1, <1>2, <1>3, <1>4, <1>6 DEF Reads, To, Takes

\* Everything else a handler does.
LEMMA StaysView ==
  ASSUME ServiceInv, ServiceInv', NEW w \in Workers, NEW c \in Conns,
         Others(w, c), Handles(w, c), rd'[c] = rd[c]
  PROVE  /\ UNCHANGED <<log, rd>>
         /\ Stage(c) = StageIn(w, c) /\ Stage(c)' = StageIn(w, c)'
         /\ \A d \in Conns \ {c} : Stage(d)' = Stage(d)
         /\ LastUnanswerable(c)' <=> LastUnanswerable(c)
<1>1. Functions /\ rd' \in [Conns -> Nat] /\ UNCHANGED log
  BY HaveFunctions DEF ServiceInv, TypeInv, LogTypes, Others
<1>2. UNCHANGED rd
  BY <1>1 DEF Functions, Others
<1> QED BY <1>1, <1>2, StageView, SameRequests

LEMMA QuietView ==
  ASSUME ServiceInv, ServiceInv', NEW w \in Workers, NEW c \in Conns,
         Others(w, c),
         \/ Drops(w, c) \/ Rests(w, c) \/ Moves(w, c) \/ Prepares(w, c)
         \/ Spins(w, c) \/ (Enters(w, c) /\ reply[c].op = "PUBLISH")
  PROVE  StagesStay /\ UNCHANGED <<log, rd>>
<1>1. Handles(w, c) /\ rd'[c] = rd[c] /\ WorkAt(w)
  BY DEF Handles, Drops, Rests, Moves, Prepares, Spins, Enters, ServiceInv
<1>2. /\ UNCHANGED <<log, rd>>
      /\ Stage(c) = StageIn(w, c) /\ Stage(c)' = StageIn(w, c)'
      /\ \A d \in Conns \ {c} : Stage(d)' = Stage(d)
      /\ LastUnanswerable(c)' <=> LastUnanswerable(c)
  BY <1>1, StaysView
<1>3. StageIn(w, c)' = StageIn(w, c)
  BY <1>1, <1>2 DEF StageIn, Drops, Rests, Moves, Prepares, Spins, Enters,
     WorkAt, Holds, Leaves, Stays, Slot, StartPCs, SubPCs, PubPCs
<1> QED BY <1>2, <1>3 DEF StagesStay

LEMMA AnswerOps ==
  ASSUME NEW r, NEW op, NEW rc, Answer(r) = <<op, rc>>
  PROVE  /\ Answer(r) # <<>> /\ Answer(r)[1] = op /\ Answer(r)[2] = rc
         /\ op = "SUBACK" <=> r.op = "SUBSCRIBE"
         /\ r.op = "PUBLISH" => op = "PUBACK"
<1>1. Answer(r) # <<>> /\ Answer(r)[1] = op /\ Answer(r)[2] = rc
  OBVIOUS
<1>2. r.op = "SUBSCRIBE" => Answer(r)[1] = "SUBACK"
  BY DEF Answer
<1>3. r.op # "SUBSCRIBE" /\ Answer(r) # <<>> => Answer(r)[1] # "SUBACK"
  BY DEF Answer
<1>4. r.op = "PUBLISH" /\ Answer(r) # <<>> => Answer(r)[1] = "PUBACK"
  BY DEF Answer
<1> QED BY <1>1, <1>2, <1>3, <1>4

LEMMA SettlesView ==
  ASSUME ServiceInv, ServiceInv', NEW w \in Workers, NEW c \in Conns,
         Others(w, c), Acks(w, c) \/ AcksFirst(w, c) \/ Finishes(w, c)
  PROVE  \E next \in {"ready", "replay"} : Settles(c, next)
<1>1. /\ Handles(w, c) /\ rd'[c] = rd[c] /\ WorkAt(w) /\ HandlerAt(w)
      /\ ctx[c] = "reply" /\ ReplyAt(c) /\ reply[c].op # "NONE"
  BY DEF Handles, Acks, AcksFirst, Finishes, Answers, Enters, ServiceInv,
     TypeInv, HandlerInv
<1>2. /\ UNCHANGED <<log, rd>>
      /\ Stage(c) = StageIn(w, c) /\ Stage(c)' = StageIn(w, c)'
      /\ \A d \in Conns \ {c} : Stage(d)' = Stage(d)
      /\ LastUnanswerable(c)' <=> LastUnanswerable(c)
  BY <1>1, StaysView
<1>3. /\ ~LastUnanswerable(c) /\ rd[c] > 0 /\ reply[c].re = Latest(c)
      /\ reply[c].op # "PUBLISH" =>
           Answer(Request(Latest(c))) = <<reply[c].op, reply[c].rc>>
  BY <1>1 DEF ReplyAt, Fits, LastUnanswerable, Latest
<1>4. Stage(c) = "working"
  BY <1>1, <1>2, <1>3 DEF StageIn, Acks, AcksFirst, Finishes, Holds, Enters
<1>a. reply[c].op # "PUBACK"
  <2>1. reply[c] \in Replies
    BY DEF ServiceInv, TypeInv, ReplyTypes
  <2> QED BY <2>1 DEF Replies
<1>5. CASE Acks(w, c)
  <2>1. Stage(c)' = "ready"
    BY <1>2, <1>3, <1>5
    DEF StageIn, Acks, Answers, Leaves, Slot, StartPCs, SubPCs
  <2>2. Settles(c, "ready")
    BY <1>1, <1>2, <1>3, <1>4, <1>5, <1>a, <2>1, AnswerOps DEF Acks, Settles, To
  <2> QED BY <2>2
<1>6. CASE AcksFirst(w, c)
  <2>1. Stage(c)' = "replay" /\ reply[c].retained # NoMsg
    BY <1>2, <1>3, <1>6 DEF StageIn, AcksFirst, Enters, Stays
  <2>2. Settles(c, "replay")
    BY <1>1, <1>2, <1>3, <1>4, <1>6, <1>a, <2>1, AnswerOps DEF AcksFirst, Settles, To
  <2> QED BY <2>2
<1>7. CASE Finishes(w, c)
  <2>1. Stage(c)' = "ready"
    BY <1>2, <1>3, <1>7
    DEF StageIn, Finishes, Answers, Leaves, Slot, StartPCs, SubPCs
  <2>2. pc[w] = "fanout" /\ cur[w] = c
    BY <1>7 DEF Finishes, Answers, Holds
  <2>3. job[w] = Latest(c) /\ Known(job[w], "PUBLISH")
    BY <1>1, <2>2 DEF WorkAt, HandlerAt, PubPCs, Latest
  <2>4. PICK r : r = Request(job[w])
    OBVIOUS
  <2>5. r.op = "PUBLISH" /\ r.topic # EmptyTopic
    BY <2>3, <2>4, NamesAssumption DEF Known
  <2>6. Answer(r) = IF WantsPuback(r) THEN <<"PUBACK", 0>> ELSE <<>>
    BY <2>5 DEF Answer, WantsPuback
  <2>7. IF Answer(r) = <<>> THEN UNCHANGED outbox
        ELSE Puts(c, Answer(r)[1], Answer(r)[2], Latest(c))
    BY <1>7, <2>3, <2>4, <2>6 DEF Finishes
  <2>8. todo[w] = <<>>
    BY <1>7 DEF Finishes
  <2>9. Settles(c, "ready")
    BY <1>2, <1>3, <1>4, <2>1, <2>2, <2>3, <2>4, <2>5, <2>7, <2>8
    DEF Settles, To
  <2> QED BY <2>9
<1> QED BY <1>5, <1>6, <1>7

LEMMA RepeatsView ==
  ASSUME ServiceInv, ServiceInv', NEW w \in Workers, NEW c \in Conns,
         Others(w, c), Replays(w, c)
  PROVE  Repeats(c)
<1>1. /\ Handles(w, c) /\ rd'[c] = rd[c] /\ WorkAt(w) /\ cur[w] = c
      /\ ctx[c] = "reply" /\ ReplyAt(c) /\ pc[w] = "suback_retained"
  BY DEF Handles, Replays, Answers, ServiceInv, Holds
<1>2. /\ UNCHANGED <<log, rd>>
      /\ Stage(c) = StageIn(w, c) /\ Stage(c)' = StageIn(w, c)'
      /\ \A d \in Conns \ {c} : Stage(d)' = Stage(d)
      /\ LastUnanswerable(c)' <=> LastUnanswerable(c)
  BY <1>1, StaysView
<1>3. reply[c].op = "SUBACK" /\ reply[c].retained # NoMsg
  BY <1>1 DEF WorkAt
<1>4. /\ ~LastUnanswerable(c) /\ rd[c] > 0
      /\ Answer(Request(Latest(c))) = <<reply[c].op, reply[c].rc>>
  BY <1>1, <1>3 DEF ReplyAt, Fits, LastUnanswerable, Latest
<1>5. Request(Latest(c)).op = "SUBSCRIBE"
  BY <1>3, <1>4, AnswerOps
<1>6. Stage(c) = "replay"
  BY <1>1, <1>2, <1>4 DEF StageIn
<1>7. Stage(c)' = "ready"
  BY <1>2, <1>4
  DEF StageIn, Replays, Answers, Leaves, Slot, StartPCs, SubPCs
<1> QED BY <1>1, <1>2, <1>3, <1>4, <1>5, <1>6, <1>7 DEF Replays, Repeats, To

LEMMA OfferingView ==
  ASSUME ServiceInv, NEW w \in Workers, NEW s \in Conns, Sending(w, s),
         UNCHANGED <<log, rd>>
  PROVE  cur[w] \in Conns /\ Offering(w, cur[w], s)
<1>c. PICK c : c = cur[w]
  OBVIOUS
<1>1. /\ pc[w] = "fanout" /\ WorkAt(w) /\ HandlerAt(w) /\ CurIsConn /\ AllDead
      /\ OneOwner
  BY DEF Sending, ServiceInv, TypeInv, HandlerInv, OwnerInv
<1>2. /\ c \in Conns /\ ctx[c] = "reply" /\ job[w] = Latest(c)
      /\ reply[c].op = "PUBLISH" /\ Known(job[w], "PUBLISH")
      /\ c \in batch[w]
  BY <1>1, <1>c DEF WorkAt, HandlerAt, CurIsConn, OneOwner, PubPCs, Latest
<1>3. ~LastUnanswerable(c)
  BY <1>2 DEF ServiceInv, ReplyAt, Fits, LastUnanswerable
<1>4. ~Inside(c, {"suback_retained"}) /\ ~Down
  BY <1>1, <1>2, <1>c DEF Inside, OneOwner, AllDead, Down
<1>5. Stage(c) = "working"
  BY <1>2, <1>3, <1>4 DEF Stage, Down
<1> QED BY <1>2, <1>5, <1>c DEF Offering

\* Every step of the event loop is a step of the service or none.
LEMMA ServiceKinds ==
  ASSUME ServiceInv, ServiceInv', Next
  PROVE  \/ Idles
         \/ \E c \in Conns, r \in Requests : Requested(c, r)
         \/ \E c \in Conns : Reads(c)
         \/ StagesStay /\ \E w \in Workers, c, s \in Conns :
              Offering(w, c, s) /\ todo'[w] = Tail(todo[w])
         \/ \E c \in Conns, next \in {"ready", "replay"} : Settles(c, next)
         \/ \E c \in Conns : Repeats(c)
         \/ Fails
<1>0. Functions /\ LogTypes
  BY HaveFunctions DEF ServiceInv, TypeInv
<1>1. ASSUME UNCHANGED <<rd, ctx, pc, cur>>,
             \A d \in Conns : rd[d] > 0 => Request(Latest(d))' = Request(Latest(d))
      PROVE  StagesStay
  <2>1. \A d \in Conns : LastUnanswerable(d)' <=> LastUnanswerable(d)
    BY <1>1 DEF LastUnanswerable, Latest
  <2> QED BY <1>1, <2>1 DEF StagesStay, Stage, Inside
<1>2. ASSUME NEW c \in Conns, ClientStep(c)
      PROVE  Idles \/ \E r \in Requests : Requested(c, r)
  <2>1. /\ UNCHANGED <<rd, outbox, ctx, pc, cur>>
        /\ \/ UNCHANGED log
           \/ \E r \in Requests :
                log' = [log EXCEPT ![c] = Append(@, [req |-> r, owed |-> Owed(r)])]
    BY <1>2 DEF ClientStep, ClientConnect, ClientSend, ClientLeave,
       ClientStall, ClientFinish, ClientReset, ClientOnly, connVars, workerVars
  <2>2. \A d \in Conns : rd[d] > 0 => Request(Latest(d))' = Request(Latest(d))
    <3>1. \A d \in Conns : rd[d] > 0 => rd[d] \in 1..Len(log[d])
      BY <1>0, LogGrows
    <3> QED BY <1>0, <2>1, <3>1, LogGrows DEF Request, Latest
  <2>3. StagesStay
    BY <1>1, <2>1, <2>2
  <2> QED BY <2>1, <2>3 DEF Idles, Requested
<1>3. ASSUME NEW w \in Workers, Poll(w), UNCHANGED outbox PROVE Idles
  <2>1. UNCHANGED <<log, rd, ctx, pc, cur>>
    BY <1>3 DEF Poll, EpollWait, netVars, connVars
  <2> QED BY <1>1, <1>3, <2>1 DEF Idles, Request, Latest
<1>4. ASSUME NEW w \in Workers, NEW c \in Conns,
             AcceptHandler(w, c) \/ AcceptFails(w, c), UNCHANGED outbox
      PROVE  Idles
  <2>1. UNCHANGED <<log, rd, ctx, cur>> /\ pc[w] = "poll"
        /\ pc' = [pc EXCEPT ![w] = "poll"]
    BY <1>4 DEF AcceptHandler, AcceptFails, Return, Holds, connVars
  <2>2. UNCHANGED pc
    BY <1>0, <2>1 DEF Functions
  <2> QED BY <1>1, <1>4, <2>1, <2>2 DEF Idles, Request, Latest
<1>5. ASSUME NEW w \in Workers, NEW c \in Conns, Others(w, c), Works(w, c)
      PROVE  \/ Idles \/ Reads(c)
             \/ StagesStay /\ \E s \in Conns :
                  Offering(w, c, s) /\ todo'[w] = Tail(todo[w])
             \/ \E next \in {"ready", "replay"} : Settles(c, next)
             \/ Repeats(c)
  <2>1. CASE Silent(w, c)
    BY <1>5, <2>1, TakesView, QuietView DEF Silent, Idles
  <2>2. CASE Acks(w, c) \/ AcksFirst(w, c) \/ Finishes(w, c)
    BY <1>5, <2>2, SettlesView
  <2>3. CASE Replays(w, c)
    BY <1>5, <2>3, RepeatsView
  <2>4. CASE Distributes(w, c)
    <3>1. StagesStay /\ UNCHANGED <<log, rd>>
      BY <1>5, <2>4, QuietView DEF Distributes
    <3> QED BY <2>4, <3>1, OfferingView DEF Distributes, Moves
  <2> QED BY <1>5, <2>1, <2>2, <2>3, <2>4 DEF Works
<1>6. CASE Ends
  <2>1. UNCHANGED <<log, rd>> /\ pc' = [w \in Workers |-> "dead"]
    BY <1>6 DEF Ends, Dies, Crash
  <2>2. ~Down /\ Down'
    BY <1>6, <2>1 DEF Ends, Down, ServiceInv, AllDead
  <2>3. \A d \in Conns : Stage(d)' = "down"
    BY <2>2 DEF Stage, Down
  <2> QED BY <1>6, <2>1, <2>2, <2>3, OfferingView DEF Ends, Fails
<1> QED BY <1>2, <1>3, <1>4, <1>5, <1>6, WorkKinds

-----------------------------------------------------------------------------
(***************************************************************************)
(* The order of the frames on a socket.  A request is answered while it is *)
(* in work, so no acknowledgement names it before; and the messages of one *)
(* publisher are distributed while they are in work, one after another.    *)
(***************************************************************************)
Settled(c) == Stage(c) \in {"ready", "replay"} \/ armed[c] = "in"

AckReal(c) ==
  \A i \in DOMAIN outbox[c] : IsAck(outbox[c][i]) =>
    \E n \in 1..rd[c] :
      /\ outbox[c][i].re = <<c, n>>
      /\ <<outbox[c][i].op, outbox[c][i].rc>> = Answer(log[c][n].req)
AckOrder(c) ==
  \A i, j \in DOMAIN outbox[c] :
    i < j /\ IsAck(outbox[c][i]) /\ IsAck(outbox[c][j])
      => outbox[c][i].re[2] < outbox[c][j].re[2]
AckDone(c) ==
  \A n \in 1..rd[c] :
    Answer(log[c][n].req) # <<>> /\ (n < rd[c] \/ Settled(c)) => Acked(c, n)
AckOpen(c) == Stage(c) = "working" => ~Acked(c, rd[c])
AckAt(c) == AckReal(c) /\ AckOrder(c) /\ AckDone(c) /\ AckOpen(c)

\* Distributed messages were read, and those of one publisher keep its order.
PublishAt(c) ==
  \A i \in DOMAIN outbox[c] :
    outbox[c][i].op = "PUBLISH" => Known(outbox[c][i].re, "PUBLISH")
OrderAt(c) ==
  \A i, j \in DOMAIN outbox[c] :
    /\ i < j /\ outbox[c][i].op = "PUBLISH" /\ outbox[c][j].op = "PUBLISH"
    /\ outbox[c][i].re[1] = outbox[c][j].re[1]
    => outbox[c][i].re[2] <= outbox[c][j].re[2]

FrameInv ==
  /\ ServiceInv
  /\ \A c \in Conns : AckAt(c) /\ PublishAt(c) /\ OrderAt(c)

\* What one frame more on the socket of c changes.
Added(c, f) ==
  /\ DOMAIN outbox[c] = 1..Len(outbox[c]) /\ Len(outbox[c]) \in Nat
  /\ DOMAIN outbox'[c] = 1..(Len(outbox[c]) + 1)
  /\ \A i \in 1..Len(outbox[c]) : outbox'[c][i] = outbox[c][i]
  /\ outbox'[c][Len(outbox[c]) + 1] = f
  /\ \A d \in Conns \ {c} : outbox'[d] = outbox[d]

LEMMA PutsView ==
  ASSUME OutTypes, NEW c \in Conns, NEW op, NEW rc, NEW re, Puts(c, op, rc, re)
  PROVE  \E f : f.op = op /\ f.rc = rc /\ f.re = re /\ Added(c, f)
<1>1. PICK s \in SentKinds :
        outbox' = [outbox EXCEPT ![c] = Append(@, Frame(op, rc, re, s))]
  BY DEF Puts
<1>2. PICK f : f = Frame(op, rc, re, s)
  OBVIOUS
<1>3. f.op = op /\ f.rc = rc /\ f.re = re
  BY <1>2 DEF Frame
<1>4. outbox' = [outbox EXCEPT ![c] = Append(outbox[c], f)]
  BY <1>1, <1>2
<1>5. outbox \in [Conns -> Seq(Frames)] /\ outbox[c] \in Seq(Frames)
  BY DEF OutTypes
<1>6. PICK q : q = outbox[c]
  OBVIOUS
<1>7. /\ DOMAIN q = 1..Len(q) /\ Len(q) \in Nat
      /\ DOMAIN Append(q, f) = 1..(Len(q) + 1)
      /\ \A i \in 1..Len(q) : Append(q, f)[i] = q[i]
      /\ Append(q, f)[Len(q) + 1] = f
  BY <1>5, <1>6
<1>8. outbox'[c] = Append(q, f) /\ \A d \in Conns \ {c} : outbox'[d] = outbox[d]
  BY <1>4, <1>5, <1>6
<1>9. Added(c, f)
  BY <1>6, <1>7, <1>8 DEF Added
<1> QED BY <1>3, <1>9

\* No acknowledgement is added for c.
NoAck(c) ==
  /\ \A i \in DOMAIN outbox[c] : /\ i \in DOMAIN outbox'[c]
                                 /\ outbox'[c][i] = outbox[c][i]
  /\ \A i \in DOMAIN outbox'[c] :
       IsAck(outbox'[c][i]) => i \in DOMAIN outbox[c]

\* The last step of the process leaves the registrations alone, and no later
\* step of a thread changes them.
LEMMA DownArmed ==
  ASSUME ServiceInv, Next, Down' PROVE UNCHANGED armed
<1>1. ASSUME NEW c \in Conns, ClientStep(c) PROVE UNCHANGED armed
  BY <1>1 DEF ClientStep, ClientConnect, ClientSend, ClientStall,
     ClientFinish, ClientLeave, ClientReset, ClientOnly
<1>2. ASSUME NEW w \in Workers, Poll(w) PROVE FALSE
  BY <1>2 DEF Poll, EpollWait, Down, ServiceInv, AllDead
<1>3. ASSUME NEW w \in Workers, NEW c \in Conns,
             AcceptHandler(w, c) \/ AcceptFails(w, c)
      PROVE  FALSE
  <2>1. Functions
    BY HaveFunctions DEF ServiceInv
  <2>2. pc[w] = "poll" /\ UNCHANGED pc
    BY <1>3, <2>1 DEF AcceptHandler, AcceptFails, Holds, Return, Functions
  <2> QED BY <2>2 DEF Down, ServiceInv, AllDead
<1>4. ASSUME NEW w \in Workers, NEW c \in Conns, Others(w, c), Handles(w, c)
      PROVE  FALSE
  BY <1>4, StageView
<1>5. Dies => UNCHANGED armed
  BY DEF Dies
<1> QED BY <1>1, <1>2, <1>3, <1>4, <1>5, StepKinds

\* A connection in the kernel's hands is ready for its next request.
LEMMA ArmedReady ==
  ASSUME ServiceInv', NEW c \in Conns, armed'[c] = "in"
  PROVE  Stage(c)' \in {"ready", "down"}
<1>1. /\ ctx'[c] = "request" /\ ~LastUnanswerable(c)'
      /\ \A w \in Workers : c \notin batch'[w]
  BY DEF ServiceInv, ReplySlot, MuteAt, TypeInv, OwnerInv, OneOwner
<1>2. \A w \in Workers : pc'[w] \notin {"poll", "dead"} => cur'[w] # c
  BY <1>1 DEF ServiceInv, TypeInv, OwnerInv, OneOwner
<1> QED BY <1>1, <1>2 DEF Stage, Inside

LEMMA SettledStays ==
  ASSUME ServiceInv, ServiceInv', Next, NEW c \in Conns,
         Stage(c)' \in {Stage(c), "down"}, Settled(c)'
  PROVE  Settled(c)
<1>1. CASE Stage(c)' \in {"ready", "replay"}
  BY <1>1 DEF Settled
<1>2. CASE armed'[c] = "in"
  <2>1. Stage(c)' \in {"ready", "down"}
    BY <1>2, ArmedReady
  <2>2. CASE Down'
    BY <1>2, <2>2, DownArmed DEF Settled
  <2>3. CASE ~Down'
    <3>1. Stage(c)' # "down"
      BY <2>3 DEF Stage, Down
    <3> QED BY <2>1, <3>1 DEF Settled
  <2> QED BY <2>2, <2>3
<1> QED BY <1>1, <1>2 DEF Settled

\* What was read of d stays as it is.
SameReads(d) ==
  /\ rd[d] \in Nat /\ rd'[d] = rd[d]
  /\ \A n \in 1..rd[d] : log'[d][n] = log[d][n]

LEMMA AckKept ==
  ASSUME NEW d \in Conns, AckReal(d), AckOrder(d), NoAck(d),
         rd[d] \in Nat, rd'[d] \in Nat, rd[d] <= rd'[d],
         \A n \in 1..rd[d] : log'[d][n] = log[d][n]
  PROVE  /\ AckReal(d)' /\ AckOrder(d)'
         /\ \A n : Acked(d, n)' <=> Acked(d, n)
<1>1. AckReal(d)'
  BY DEF AckReal, NoAck
<1>2. AckOrder(d)'
  BY DEF AckOrder, NoAck
<1>3. ASSUME NEW n PROVE Acked(d, n)' <=> Acked(d, n)
  BY DEF Acked, NoAck
<1> QED BY <1>1, <1>2, <1>3

LEMMA AckKeep ==
  ASSUME ServiceInv, ServiceInv', Next, NEW d \in Conns, AckAt(d),
         SameReads(d), NoAck(d), Stage(d)' \in {Stage(d), "down"}
  PROVE  AckAt(d)'
<1>1. Settled(d)' => Settled(d)
  BY SettledStays
<1>2. /\ AckReal(d)' /\ AckOrder(d)'
      /\ \A n : Acked(d, n)' <=> Acked(d, n)
  BY AckKept DEF AckAt, SameReads
<1>3. AckDone(d)'
  BY <1>1, <1>2 DEF AckAt, AckDone, SameReads
<1>4. AckOpen(d)'
  BY <1>2 DEF AckAt, AckOpen, SameReads
<1> QED BY <1>2, <1>3, <1>4 DEF AckAt

LEMMA AckReads ==
  ASSUME ServiceInv, ServiceInv', NEW c \in Conns, AckAt(c), Reads(c)
  PROVE  AckAt(c)'
<1>1. /\ rd[c] \in Nat /\ rd'[c] = rd[c] + 1 /\ UNCHANGED <<log, outbox>>
      /\ Stage(c)' = IF GivenUp(NextRequest(c)) THEN "mute" ELSE "working"
      /\ Stage(c) = "ready"
  BY DEF Reads, To, ServiceInv, TypeInv, LogTypes
<1>2. NoAck(c)
  BY <1>1 DEF NoAck
<1>3. /\ AckReal(c)' /\ AckOrder(c)'
      /\ \A n : Acked(c, n)' <=> Acked(c, n)
  BY <1>1, <1>2, AckKept DEF AckAt
<1>4. ~Acked(c, rd[c] + 1)
  <2>1. ASSUME NEW i \in DOMAIN outbox[c], IsAck(outbox[c][i])
        PROVE  outbox[c][i].re # <<c, rd[c] + 1>>
    <3>1. PICK n \in 1..rd[c] : outbox[c][i].re = <<c, n>>
      BY <2>1 DEF AckAt, AckReal
    <3> QED BY <1>1, <3>1
  <2> QED BY <2>1 DEF Acked
<1>5. GivenUp(NextRequest(c)) => Answer(log[c][rd[c] + 1].req) = <<>>
  BY DEF NextRequest, NextName, Request, GivenUp, Answer
<1>6. Settled(c)' => Stage(c)' = "mute"
  <2>1. armed'[c] = "in" => Stage(c)' # "working"
    <3>1. SUFFICES ASSUME armed'[c] = "in" PROVE Stage(c)' # "working"
      OBVIOUS
    <3>2. ctx'[c] = "request" /\ \A w \in Workers : c \notin batch'[w]
      BY <3>1 DEF ServiceInv, ReplySlot, TypeInv, OwnerInv, OneOwner
    <3>3. \A w \in Workers : pc'[w] \notin {"poll", "dead"} => cur'[w] # c
      BY <3>2 DEF ServiceInv, TypeInv, OwnerInv, OneOwner
    <3> QED BY <3>2, <3>3 DEF Stage, Inside
  <2> QED BY <1>1, <2>1 DEF Settled
<1>7. AckDone(c)'
  <2> SUFFICES ASSUME NEW n \in 1..rd'[c], Answer(log[c][n].req) # <<>>,
                      n < rd'[c] \/ Settled(c)'
               PROVE  Acked(c, n)
    BY <1>1, <1>3 DEF AckDone
  <2>1. CASE n = rd[c] + 1
    BY <1>1, <1>5, <1>6, <2>1
  <2>2. CASE n # rd[c] + 1
    <3>1. n \in 1..rd[c]
      BY <1>1, <2>2
    <3> QED BY <1>1, <3>1 DEF AckAt, AckDone, Settled
  <2> QED BY <2>1, <2>2
<1>8. AckOpen(c)'
  BY <1>1, <1>3, <1>4 DEF AckOpen
<1> QED BY <1>3, <1>7, <1>8 DEF AckAt

LEMMA AckSettles ==
  ASSUME ServiceInv, NEW c \in Conns, NEW next \in {"ready", "replay"},
         AckAt(c), Settles(c, next)
  PROVE  AckAt(c)'
<1>a. PICK a : a = Answer(Request(Latest(c)))
  OBVIOUS
<1>0. OutTypes /\ rd[c] \in Nat
  BY DEF ServiceInv, TypeInv, LogTypes
<1>1. /\ rd[c] > 0 /\ UNCHANGED <<log, rd>> /\ Stage(c) = "working"
      /\ IF a = <<>> THEN UNCHANGED outbox ELSE Puts(c, a[1], a[2], Latest(c))
      /\ Stage(c)' = next
  BY <1>a DEF Settles, To
<1>2. a = Answer(log[c][rd[c]].req)
  BY <1>a DEF Latest, Request
<1>3. CASE a = <<>>
  <2>1. NoAck(c)
    BY <1>1, <1>3 DEF NoAck
  <2>2. /\ AckReal(c)' /\ AckOrder(c)'
        /\ \A n : Acked(c, n)' <=> Acked(c, n)
    BY <1>0, <1>1, <2>1, AckKept DEF AckAt
  <2>3. AckDone(c)'
    <3> SUFFICES ASSUME NEW n \in 1..rd[c], Answer(log[c][n].req) # <<>>
                 PROVE  Acked(c, n)
      BY <1>1, <2>2 DEF AckDone
    <3>1. n # rd[c]
      BY <1>2, <1>3
    <3>2. n < rd[c]
      BY <1>0, <3>1
    <3> QED BY <3>2 DEF AckAt, AckDone
  <2> QED BY <1>1, <2>2, <2>3 DEF AckAt, AckOpen
<1>4. CASE a # <<>>
  <2>1. PICK f : /\ f.op = a[1] /\ f.rc = a[2] /\ f.re = <<c, rd[c]>>
                 /\ Added(c, f)
    BY <1>0, <1>1, <1>4, PutsView DEF Latest
  <2>2. a = <<f.op, f.rc>> /\ IsAck(f)
    <3>1. a = <<a[1], a[2]>> /\ a[1] \notin {"PUBLISH", "RETAINED"}
      BY <1>4, <1>a DEF Answer
    <3> QED BY <2>1, <3>1 DEF IsAck
  <2>3. PICK k : k = Len(outbox[c])
    OBVIOUS
  <2>4. /\ k \in Nat /\ DOMAIN outbox[c] = 1..k /\ DOMAIN outbox'[c] = 1..(k + 1)
        /\ \A i \in 1..k : outbox'[c][i] = outbox[c][i]
        /\ outbox'[c][k + 1] = f
    BY <2>1, <2>3 DEF Added
  <2>5. AckReal(c)'
    <3> SUFFICES ASSUME NEW i \in 1..(k + 1), IsAck(outbox'[c][i])
                 PROVE  \E n \in 1..rd[c] :
                          /\ outbox'[c][i].re = <<c, n>>
                          /\ <<outbox'[c][i].op, outbox'[c][i].rc>>
                               = Answer(log[c][n].req)
      BY <1>1, <2>4 DEF AckReal
    <3>1. CASE i = k + 1
      <4>1. rd[c] \in 1..rd[c] /\ outbox'[c][i] = f
        BY <1>0, <1>1, <2>4, <3>1
      <4>2. f.re = <<c, rd[c]>> /\ <<f.op, f.rc>> = Answer(log[c][rd[c]].req)
        BY <1>2, <2>1, <2>2
      <4> QED BY <4>1, <4>2
    <3>2. CASE i # k + 1
      <4>1. i \in 1..k
        BY <2>4, <3>2
      <4> QED BY <2>4, <4>1 DEF AckAt, AckReal
    <3> QED BY <3>1, <3>2
  <2>6. \A i \in 1..k : IsAck(outbox[c][i]) => outbox[c][i].re[2] < rd[c]
    <3> SUFFICES ASSUME NEW i \in 1..k, IsAck(outbox[c][i])
                 PROVE  outbox[c][i].re[2] < rd[c]
      OBVIOUS
    <3>1. PICK n \in 1..rd[c] : outbox[c][i].re = <<c, n>>
      BY <2>4 DEF AckAt, AckReal
    <3>2. n # rd[c]
      BY <1>1, <2>4, <3>1 DEF AckAt, AckOpen, Acked
    <3> QED BY <1>0, <3>1, <3>2
  <2>7. AckOrder(c)'
    <3> SUFFICES ASSUME NEW i \in 1..(k + 1), NEW j \in 1..(k + 1), i < j,
                        IsAck(outbox'[c][i]), IsAck(outbox'[c][j])
                 PROVE  outbox'[c][i].re[2] < outbox'[c][j].re[2]
      BY <2>4 DEF AckOrder
    <3>1. i \in 1..k
      BY <2>4
    <3>2. CASE j = k + 1
      BY <2>1, <2>4, <2>6, <3>1, <3>2
    <3>3. CASE j # k + 1
      <4>1. j \in 1..k
        BY <2>4, <3>3
      <4> QED BY <2>4, <3>1, <4>1 DEF AckAt, AckOrder
    <3> QED BY <3>2, <3>3
  <2>8. Acked(c, rd[c])' /\ \A n : Acked(c, n) => Acked(c, n)'
    <3>1. Acked(c, rd[c])'
      BY <1>1, <2>1, <2>2, <2>4 DEF Acked
    <3> QED BY <2>4, <3>1 DEF Acked
  <2>9. AckDone(c)'
    <3> SUFFICES ASSUME NEW n \in 1..rd[c], Answer(log[c][n].req) # <<>>
                 PROVE  Acked(c, n)'
      BY <1>1 DEF AckDone
    <3>1. CASE n = rd[c]
      BY <1>1, <2>8, <3>1
    <3>2. CASE n # rd[c]
      BY <1>0, <2>8, <3>2 DEF AckAt, AckDone
    <3> QED BY <3>1, <3>2
  <2> QED BY <1>1, <2>5, <2>7, <2>9 DEF AckAt, AckOpen
<1> QED BY <1>3, <1>4

\* A frame more that is no acknowledgement.
LEMMA AddedNoAck ==
  ASSUME NEW c \in Conns, NEW f, Added(c, f), ~IsAck(f)
  PROVE  \A d \in Conns : NoAck(d)
<1>1. NoAck(c)
  <2>1. PICK k : k = Len(outbox[c])
    OBVIOUS
  <2>2. /\ k \in Nat /\ DOMAIN outbox[c] = 1..k /\ DOMAIN outbox'[c] = 1..(k + 1)
        /\ \A i \in 1..k : outbox'[c][i] = outbox[c][i]
        /\ outbox'[c][k + 1] = f
    BY <2>1 DEF Added
  <2>3. \A i \in 1..(k + 1) : IsAck(outbox'[c][i]) => i \in 1..k
    BY <2>2
  <2> QED BY <2>2, <2>3 DEF NoAck
<1>2. \A d \in Conns \ {c} : outbox'[d] = outbox[d]
  BY DEF Added
<1> QED BY <1>1, <1>2 DEF NoAck

LEMMA AckStep ==
  ASSUME FrameInv, ServiceInv', Next PROVE \A d \in Conns : AckAt(d)'
<1>0. /\ ServiceInv /\ LogTypes /\ OutTypes /\ \A d \in Conns : AckAt(d)
      /\ rd \in [Conns -> Nat]
  BY DEF FrameInv, ServiceInv, TypeInv, LogTypes
<1>r. \A d \in Conns : rd'[d] = rd[d] => SameReads(d)
  <2> SUFFICES ASSUME NEW d \in Conns, rd'[d] = rd[d] PROVE SameReads(d)
    OBVIOUS
  <2>1. \A n \in 1..rd[d] : n \in 1..Len(log[d])
    BY <1>0, LogGrows
  <2> QED BY <1>0, <2>1, LogGrows DEF SameReads
<1>1. ASSUME NEW d \in Conns, outbox'[d] = outbox[d] PROVE NoAck(d)
  BY <1>1 DEF NoAck
<1>2. CASE Idles \/ \E c \in Conns, r \in Requests : Requested(c, r)
  BY <1>0, <1>r, <1>1, <1>2, AckKeep DEF Idles, Requested, StagesStay
<1>3. ASSUME NEW c \in Conns, Reads(c) PROVE \A d \in Conns : AckAt(d)'
  <2>1. ASSUME NEW d \in Conns \ {c} PROVE AckAt(d)'
    <3>1. rd'[d] = rd[d] /\ outbox'[d] = outbox[d] /\ Stage(d)' = Stage(d)
      BY <1>0, <1>3 DEF Reads, To
    <3> QED BY <1>0, <1>r, <1>1, <3>1, AckKeep
  <2> QED BY <1>0, <1>3, <2>1, AckReads
<1>4. ASSUME NEW c \in Conns, NEW next \in {"ready", "replay"},
             Settles(c, next)
      PROVE  \A d \in Conns : AckAt(d)'
  <2>1. ASSUME NEW d \in Conns \ {c} PROVE AckAt(d)'
    <3>1. outbox'[d] = outbox[d]
      BY <1>0, <1>4, PutsView DEF Settles, Added
    <3>2. rd'[d] = rd[d] /\ Stage(d)' = Stage(d)
      BY <1>4 DEF Settles, To
    <3> QED BY <1>0, <1>r, <1>1, <3>1, <3>2, AckKeep
  <2> QED BY <1>0, <1>4, <2>1, AckSettles
<1>5. ASSUME NEW c \in Conns, Repeats(c) PROVE \A d \in Conns : AckAt(d)'
  <2>1. PICK f : f.op = "RETAINED" /\ Added(c, f)
    BY <1>0, <1>5, PutsView DEF Repeats
  <2>2. \A d \in Conns : NoAck(d)
    BY <2>1, AddedNoAck DEF IsAck
  <2>3. ASSUME NEW d \in Conns \ {c} PROVE AckAt(d)'
    <3>1. rd'[d] = rd[d] /\ Stage(d)' = Stage(d)
      BY <1>5 DEF Repeats, To
    <3> QED BY <1>0, <1>r, <2>2, <3>1, AckKeep
  <2>4. /\ rd'[c] = rd[c] /\ Stage(c) = "replay" /\ Stage(c)' = "ready"
        /\ SameReads(c) /\ rd[c] \in Nat
    BY <1>0, <1>r, <1>5 DEF Repeats, To
  <2>5. /\ AckReal(c)' /\ AckOrder(c)'
        /\ \A n : Acked(c, n)' <=> Acked(c, n)
    BY <1>0, <2>2, <2>4, AckKept DEF AckAt, SameReads
  <2>6. AckDone(c)'
    BY <1>0, <2>4, <2>5 DEF AckAt, AckDone, SameReads, Settled
  <2>7. AckAt(c)'
    BY <2>4, <2>5, <2>6 DEF AckAt, AckOpen
  <2> QED BY <2>3, <2>7
<1>6. ASSUME NEW w \in Workers, NEW c \in Conns, NEW s \in Conns,
             Offering(w, c, s),
             \A d \in Conns : Stage(d)' \in {Stage(d), "down"}
      PROVE  \A d \in Conns : AckAt(d)'
  <2>1. PICK f : f.op = "PUBLISH" /\ Added(s, f)
    BY <1>0, <1>6, PutsView DEF Offering, Sending
  <2>2. \A d \in Conns : NoAck(d)
    BY <2>1, AddedNoAck DEF IsAck
  <2>3. \A d \in Conns : rd'[d] = rd[d]
    BY <1>6 DEF Offering
  <2> QED BY <1>0, <1>r, <1>6, <2>2, <2>3, AckKeep
<1>7. CASE Fails
  <2>1. CASE UNCHANGED outbox
    BY <1>0, <1>r, <1>1, <1>7, <2>1, AckKeep DEF Fails
  <2>2. CASE ~UNCHANGED outbox
    BY <1>6, <1>7, <2>2 DEF Fails
  <2> QED BY <2>1, <2>2
<1> QED BY <1>0, <1>2, <1>3, <1>4, <1>5, <1>6, <1>7, ServiceKinds
       DEF StagesStay

\* PUBLISH frames come from Offering steps only.
LEMMA PublishStep ==
  ASSUME FrameInv, ServiceInv', Next
  PROVE  \A d \in Conns : PublishAt(d)' /\ OrderAt(d)'
<1>0. /\ ServiceInv /\ LogTypes /\ OutTypes
      /\ \A d \in Conns : PublishAt(d) /\ OrderAt(d)
  BY DEF FrameInv, ServiceInv, TypeInv
<1>1. \A m : Known(m, "PUBLISH") => Known(m, "PUBLISH")'
  BY <1>0, LogStep DEF ReadStays
<1>2. ASSUME NEW d \in Conns, outbox'[d] = outbox[d]
      PROVE  PublishAt(d)' /\ OrderAt(d)'
  BY <1>0, <1>1, <1>2 DEF PublishAt, OrderAt, Known, Request
<1>3. ASSUME NEW c \in Conns, NEW f, Added(c, f),
             f.op = "PUBLISH" =>
               \E d \in Conns : f.re = Latest(d) /\ Known(f.re, "PUBLISH")
      PROVE  \A d \in Conns : PublishAt(d)' /\ OrderAt(d)'
  <2>1. PICK k : k = Len(outbox[c])
    OBVIOUS
  <2>2. /\ k \in Nat /\ DOMAIN outbox[c] = 1..k /\ DOMAIN outbox'[c] = 1..(k + 1)
        /\ \A i \in 1..k : outbox'[c][i] = outbox[c][i]
        /\ outbox'[c][k + 1] = f
    BY <1>3, <2>1 DEF Added
  <2>3. PublishAt(c)'
    <3> SUFFICES ASSUME NEW i \in 1..(k + 1), outbox'[c][i].op = "PUBLISH"
                 PROVE  \E m : m = outbox'[c][i].re /\ Known(m, "PUBLISH")'
      BY <2>2 DEF PublishAt, Known, Request
    <3>1. CASE i = k + 1
      BY <1>1, <1>3, <2>2, <3>1
    <3>2. CASE i # k + 1
      <4>1. i \in 1..k
        BY <2>2, <3>2
      <4> QED BY <1>0, <1>1, <2>2, <4>1 DEF PublishAt
    <3> QED BY <3>1, <3>2
  <2>4. OrderAt(c)'
    <3> SUFFICES ASSUME NEW i \in 1..(k + 1), NEW j \in 1..(k + 1), i < j,
                        outbox'[c][i].op = "PUBLISH",
                        outbox'[c][j].op = "PUBLISH",
                        outbox'[c][i].re[1] = outbox'[c][j].re[1]
                 PROVE  outbox'[c][i].re[2] <= outbox'[c][j].re[2]
      BY <2>2 DEF OrderAt
    <3>1. i \in 1..k
      BY <2>2
    <3>2. CASE j = k + 1
      <4>1. PICK d \in Conns : outbox'[c][j].re = <<d, rd[d]>>
        BY <1>3, <2>2, <3>2 DEF Latest
      <4>2. Known(outbox[c][i].re, "PUBLISH") /\ outbox'[c][i] = outbox[c][i]
        BY <1>0, <2>2, <3>1 DEF PublishAt
      <4> QED BY <4>1, <4>2 DEF Known
    <3>3. CASE j # k + 1
      <4>1. j \in 1..k
        BY <2>2, <3>3
      <4> QED BY <1>0, <2>2, <3>1, <4>1 DEF OrderAt
    <3> QED BY <3>2, <3>3
  <2> QED BY <1>2, <1>3, <2>3, <2>4 DEF Added
<1>4. ASSUME NEW w \in Workers, NEW c \in Conns, NEW s \in Conns,
             Offering(w, c, s)
      PROVE  \A d \in Conns : PublishAt(d)' /\ OrderAt(d)'
  <2>1. PICK f : f.re = job[w] /\ Added(s, f)
    BY <1>0, <1>4, PutsView DEF Offering, Sending
  <2> QED BY <1>3, <1>4, <2>1 DEF Offering
<1>5. ASSUME NEW c \in Conns, NEW next, Settles(c, next)
      PROVE  \A d \in Conns : PublishAt(d)' /\ OrderAt(d)'
  <2>1. PICK a : a = Answer(Request(Latest(c)))
    OBVIOUS
  <2>2. CASE a = <<>>
    BY <1>2, <1>5, <2>1, <2>2 DEF Settles
  <2>3. CASE a # <<>>
    <3>1. a[1] # "PUBLISH"
      BY <2>1, <2>3 DEF Answer
    <3>2. PICK f : f.op = a[1] /\ Added(c, f)
      BY <1>0, <1>5, <2>1, <2>3, PutsView DEF Settles
    <3> QED BY <1>3, <3>1, <3>2
  <2> QED BY <2>2, <2>3
<1>6. ASSUME NEW c \in Conns, Repeats(c)
      PROVE  \A d \in Conns : PublishAt(d)' /\ OrderAt(d)'
  <2>1. PICK f : f.op = "RETAINED" /\ Added(c, f)
    BY <1>0, <1>6, PutsView DEF Repeats
  <2> QED BY <1>3, <2>1
<1>7. CASE UNCHANGED outbox
  BY <1>2, <1>7
<1> QED BY <1>0, <1>4, <1>5, <1>6, <1>7, ServiceKinds
       DEF Idles, Requested, Reads, Fails

LEMMA FrameInit == Init => FrameInv
<1> SUFFICES ASSUME Init PROVE FrameInv
  OBVIOUS
<1>1. ServiceInv
  BY ServiceInit
<1>2. \A c \in Conns : outbox[c] = <<>> /\ rd[c] = 0 /\ DOMAIN outbox[c] = {}
  BY DEF Init
<1> QED BY <1>1, <1>2 DEF FrameInv, AckAt, AckReal, AckOrder, AckDone,
           AckOpen, Acked, PublishAt, OrderAt

LEMMA FrameNext == FrameInv /\ [Next]_vars => FrameInv'
<1> SUFFICES ASSUME FrameInv, [Next]_vars PROVE FrameInv'
  OBVIOUS
<1>1. ServiceInv'
  BY ServiceNext DEF FrameInv
<1>2. CASE Next
  BY <1>1, <1>2, AckStep, PublishStep DEF FrameInv
<1>3. CASE UNCHANGED vars
  <2>1. UNCHANGED <<log, rd, ctx, armed, outbox, pc, cur>>
    BY <1>3 DEF vars, netVars, connVars, workerVars
  <2>2. \A c \in Conns : Stage(c)' = Stage(c)
    BY <2>1 DEF Stage, Inside, LastUnanswerable, Request
  <2>3. ASSUME NEW c \in Conns PROVE AckAt(c)'
    <3>1. AckAt(c) /\ Stage(c)' = Stage(c)
      BY <2>2 DEF FrameInv
    <3> QED BY <2>1, <3>1
           DEF AckAt, AckReal, AckOrder, AckDone, AckOpen, Acked, Settled
  <2>4. \A c \in Conns : PublishAt(c)' /\ OrderAt(c)'
    BY <2>1 DEF FrameInv, PublishAt, OrderAt, Known, Request
  <2> QED BY <1>1, <2>3, <2>4 DEF FrameInv
<1> QED BY <1>2, <1>3

(* In every behaviour: the requests of a connection are answered in the    *)
(* order it sent them, each once and with its own return code, whatever    *)
(* the other workers put on the same socket in between.                    *)
THEOREM AnswersInOrderHolds == Spec => []AnswersInOrder
<1>1. FrameInv => AnswersInOrder
  BY DEF FrameInv, AckAt, AckReal, AckOrder, AckDone, Settled, AnswersInOrder
<1> QED BY <1>1, FrameInit, FrameNext, PTL DEF Spec

(* In every behaviour: a subscriber gets the messages of one publisher in  *)
(* the order they were published, although any worker may distribute any   *)
(* of them.                                                                *)
THEOREM PublisherOrderHolds == Spec => []PublisherOrder
<1>1. FrameInv => PublisherOrder
  BY DEF FrameInv, OrderAt, PublisherOrder
<1> QED BY <1>1, FrameInit, FrameNext, PTL DEF Spec
=============================================================================
