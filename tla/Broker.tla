------------------------------- MODULE Broker -------------------------------
(***************************************************************************)
(* The event loop of the sizigy broker: worker threads that share one      *)
(* epoll instance, the handlers they run for the connections it hands out, *)
(* and the state those handlers share (the topic table, the topic objects  *)
(* behind it, the table of tracked clients).  Translated from              *)
(* src/src/server.c and src/src/sizigy.c.                                  *)
(*                                                                         *)
(* A handler is cut into one action per access to shared state; what a     *)
(* handler does to the Client structure it holds is part of the            *)
(* neighbouring action, because no other thread can see it in between      *)
(* (that is OneOwner, proved in BrokerProofs).  A handler gets a request   *)
(* whole or waits for the rest of it: how bytes become packets is the      *)
(* subject of PacketReader.  Client timestamps, the keepalive thread and   *)
(* the shutdown are in Lifecycle.                                          *)
(***************************************************************************)
EXTENDS Naturals, Sequences, FiniteSets

CONSTANTS
  Conns,        \* client connections, each with its Client structure
  Connected,    \* the connections accepted before the behaviour starts
  Workers,      \* the threads that run worker()
  Listener,     \* the listening socket, registered like a connection
  Topics,       \* topic names
  EmptyTopic,   \* the zero-length topic name
  Ids,          \* client identifiers a CONNECT may carry
  EmptyId,      \* the zero-length identifier
  Requests,     \* the requests clients send in this instance
  Sends,        \* those that each of the clients sends
  MaxSends,     \* how many requests one client sends
  MaxEvents,    \* MAX_EVENTS, the size of one epoll_wait batch
  Slow,         \* the connections whose socket buffer may be full
  Faults        \* which happen of "accept", "leave", "reset", "stall"

(***************************************************************************)
(* What a client can ask.  "ACK" stands for the SUBACK and PUBACK packets  *)
(* the broker accepts, "OTHER" for every opcode unpack_packet rejects.     *)
(***************************************************************************)
AllRequests ==
       [op : {"CONNECT"}, id : Ids \cup {EmptyId}, clean : BOOLEAN]
  \cup [op : {"SUBSCRIBE"}, topic : Topics \cup {EmptyTopic}]
  \cup [op : {"PUBLISH"}, topic : Topics \cup {EmptyTopic},
        qos : 0..2, retain : BOOLEAN]
  \cup [op : {"PINGREQ", "ACK", "OTHER"}]

ASSUME ConnsAssumption ==
  /\ IsFiniteSet(Conns)
  /\ Connected \subseteq Conns
  /\ Slow \subseteq Conns
  /\ Listener \notin Conns

\* The names random_name() gives to new Clients are not chosen by a client.
ASSUME NamesAssumption ==
  /\ EmptyTopic \notin Topics
  /\ EmptyId \notin Ids
  /\ Ids \cap Conns = {}

ASSUME RequestsAssumption ==
  /\ Requests \subseteq AllRequests
  /\ Sends \in [Conns -> SUBSET Requests]

ASSUME BoundsAssumption == MaxSends \in Nat /\ MaxEvents \in Nat \ {0}

VARIABLES
  peer,         \* [Conns -> PeerStates], the other end of each socket
  log,          \* what each client sent, in order
  rd,           \* how many of them the broker has read
  outbox,       \* what the broker tried to send on each socket, in order
  armed,        \* the one-shot epoll registration of each descriptor
  ctx,          \* client->ctx_handler
  reply,        \* client->reply
  cid,          \* client->id
  clients,      \* entries of db->clients for each Client, by its identifier
  strays,       \* those whose key was freed, and reads as anything
  hole,         \* hashmap_del has freed a slot of db->clients
  topics,       \* db->topics, from name to topic object (0: absent)
  heap,         \* the topic objects created so far
  live,         \* the retained messages allocated and not freed
  pc,           \* where each worker stands
  batch,        \* the events a worker got from epoll_wait and still holds
  cur,          \* the descriptor whose handler the worker is running
  job,          \* the packet that handler works on
  loc,          \* the handler's local t, a topic object
  tgt,          \* the topic add_subscriber looked up
  todo          \* the subscribers publish_message has still to visit

netVars == <<peer, log, outbox>>
connVars == <<rd, ctx, reply>>
idVars == <<cid, clients, strays, hole>>
topicVars == <<topics, heap, live>>
localVars == <<job, loc, tgt, todo>>
workerVars == <<pc, batch, cur>>
vars == <<netVars, connVars, idVars, topicVars, localVars, workerVars,
          armed>>

Fds == Conns \cup {Listener}
\* "partial": the client sent a part of a packet; "lost": accepting it failed.
PeerStates == {"none", "queued", "open", "partial", "eof", "reset", "lost"}
PCs == {"poll", "connect_add", "sub_create", "sub_find", "sub_insert",
        "sub_link", "sub_retained", "suback_retained", "pub_create", "retain",
        "clear", "keep", "fanout", "spin", "dead"}

\* Request n of connection c is named by the pair; so is the message it
\* carries if it is a PUBLISH.
RequestNames == Conns \X (1..MaxSends)
NoMsg == <<>>            \* a NULL Message pointer
Wild == <<0>>            \* a pointer malloc left uninitialised
Pointers == RequestNames \cup {NoMsg, Wild}

NoReply == [op |-> "NONE", rc |-> 0, re |-> NoMsg, retained |-> NoMsg]
Replies == [op : {"NONE", "CONNACK", "SUBACK", "PINGRESP", "PUBLISH"},
            rc : {0, 1}, re : RequestNames \cup {NoMsg}, retained : Pointers]

\* A frame on a socket, "re" naming the request it answers or distributes,
\* "sent" telling whether all, a part or nothing of it was written, or all of
\* it in pieces, between which the bytes of other workers may stand.  The
\* frames of a socket are in the order in which they were begun.
SentKinds == {"whole", "pieces", "cut", "none"}
Frames == [op : {"CONNACK", "SUBACK", "PINGRESP", "PUBACK", "PUBLISH",
                 "RETAINED"},
           rc : {0, 1}, re : RequestNames \cup {Wild},
           sent : SentKinds]

Request(m) == log[m[1]][m[2]].req

Init ==
  /\ peer = [c \in Conns |-> IF c \in Connected THEN "open" ELSE "none"]
  /\ log = [c \in Conns |-> <<>>]
  /\ rd = [c \in Conns |-> 0]
  /\ outbox = [c \in Conns |-> <<>>]
  /\ armed = [x \in Fds |-> IF x \in Connected \cup {Listener}
                            THEN "in" ELSE "none"]
  /\ ctx = [c \in Conns |-> "request"]
  /\ reply = [c \in Conns |-> NoReply]
  /\ cid = [c \in Conns |-> c]
  /\ clients = [c \in Conns |-> 0]
  /\ strays = [c \in Conns |-> 0]
  /\ hole = FALSE
  /\ topics = [t \in Topics |-> 0]
  /\ heap = <<>>
  /\ live = {}
  /\ pc = [w \in Workers |-> "poll"]
  /\ batch = [w \in Workers |-> {}]
  /\ cur = [w \in Workers |-> Listener]
  /\ job = [w \in Workers |-> NoMsg]
  /\ loc = [w \in Workers |-> 0]
  /\ tgt = [w \in Workers |-> 0]
  /\ todo = [w \in Workers |-> <<>>]

-----------------------------------------------------------------------------
(***************************************************************************)
(* Clients.  Sending is not a step of the broker: it makes the descriptor  *)
(* readable.  "owed" is a history value, computed when the request is      *)
(* sent: for a PUBLISH the connections that hold a SUBACK for its topic by *)
(* then, for a SUBSCRIBE the retained messages of its topic whose          *)
(* publisher holds a PUBACK by then.                                       *)
(***************************************************************************)
Answered(c, n) ==
  \E i \in DOMAIN outbox[c] :
    /\ outbox[c][i].re = <<c, n>>
    /\ outbox[c][i].op \in {"SUBACK", "PUBACK"}
    /\ outbox[c][i].rc = 0

Owed(r) ==
  CASE r.op = "PUBLISH" ->
         {c \in Conns : \E n \in 1..rd[c] :
            /\ log[c][n].req.op = "SUBSCRIBE"
            /\ log[c][n].req.topic = r.topic
            /\ Answered(c, n)}
    [] r.op = "SUBSCRIBE" ->
         {m \in RequestNames :
            /\ m[2] <= rd[m[1]]
            /\ Request(m).op = "PUBLISH"
            /\ Request(m).topic = r.topic
            /\ Request(m).retain
            /\ Answered(m[1], m[2])}
    [] OTHER -> {}

ClientOnly == UNCHANGED <<outbox, connVars, idVars, topicVars, localVars,
                          workerVars, armed>>

ClientConnect(c) ==
  /\ peer[c] = "none"
  /\ peer' = [peer EXCEPT ![c] = "queued"]
  /\ UNCHANGED log
  /\ ClientOnly

ClientSend(c, r) ==
  /\ peer[c] \in {"queued", "open"}
  /\ r \in Sends[c]
  /\ Len(log[c]) < MaxSends
  /\ log' = [log EXCEPT ![c] = Append(@, [req |-> r, owed |-> Owed(r)])]
  /\ UNCHANGED peer
  /\ ClientOnly

\* The client sends a part of its next request, and later the rest of it.
ClientStall(c) ==
  /\ "stall" \in Faults
  /\ peer[c] = "open"
  /\ Len(log[c]) < MaxSends
  /\ peer' = [peer EXCEPT ![c] = "partial"]
  /\ UNCHANGED log
  /\ ClientOnly

ClientFinish(c, r) ==
  /\ peer[c] = "partial"
  /\ r \in Sends[c]
  /\ Len(log[c]) < MaxSends
  /\ peer' = [peer EXCEPT ![c] = "open"]
  /\ log' = [log EXCEPT ![c] = Append(@, [req |-> r, owed |-> Owed(r)])]
  /\ ClientOnly

ClientLeave(c) ==
  /\ "leave" \in Faults
  /\ peer[c] = "open"
  /\ peer' = [peer EXCEPT ![c] = "eof"]
  /\ UNCHANGED log
  /\ ClientOnly

ClientReset(c) ==
  /\ "reset" \in Faults
  /\ peer[c] \in {"open", "eof"}
  /\ peer' = [peer EXCEPT ![c] = "reset"]
  /\ UNCHANGED log
  /\ ClientOnly

-----------------------------------------------------------------------------
(***************************************************************************)
(* worker(): epoll_wait, then one handler per event of the batch.  The     *)
(* order of the events inside a batch is the kernel's, so a worker that    *)
(* holds several takes any of them next.                                   *)
(***************************************************************************)
Readable(c) ==
  rd[c] < Len(log[c]) \/ peer[c] \in {"partial", "eof", "reset"}

Ready ==
       {c \in Conns : armed[c] = "in" /\ Readable(c)}
  \cup {c \in Conns : armed[c] = "out"}
  \cup {x \in {Listener} : /\ armed[x] = "in"
                           /\ \E c \in Conns : peer[c] = "queued"}

\* Mutant: registrations without EPOLLONESHOT.
Disarm_NotOneShot(S) == armed

\* EPOLLONESHOT: the kernel disarms what it hands out.
Disarm(S) == [x \in Fds |-> IF x \in S THEN "none" ELSE armed[x]]

\* Mutant: both events registered whatever the caller asks for.
Rearm_BothEvents(x, events) == armed' = [armed EXCEPT ![x] = "in and out"]

\* mod_epoll
Rearm(x, events) == armed' = [armed EXCEPT ![x] = events]

EpollWait(w, S) ==
  /\ pc[w] = "poll"
  /\ batch[w] = {}
  /\ S # {}
  /\ S \subseteq Ready
  /\ Cardinality(S) <= MaxEvents
  /\ batch' = [batch EXCEPT ![w] = S]
  /\ armed' = Disarm(S)
  /\ UNCHANGED <<netVars, connVars, idVars, topicVars, localVars, pc, cur>>

\* The worker starts the handler of x, the handler moves on, the handler
\* returns.
Holds(w, x) == pc[w] = "poll" /\ x \in batch[w]
Enter(w, x, label) ==
  /\ pc' = [pc EXCEPT ![w] = label]
  /\ cur' = [cur EXCEPT ![w] = x]
  /\ UNCHANGED batch
Goto(w, label) == pc' = [pc EXCEPT ![w] = label] /\ UNCHANGED <<batch, cur>>
Return(w, x) ==
  /\ pc' = [pc EXCEPT ![w] = "poll"]
  /\ batch' = [batch EXCEPT ![w] = @ \ {x}]
  /\ UNCHANGED cur

\* A memory error in one thread ends the process, and so every thread.
Crash == pc' = [w \in Workers |-> "dead"] /\ UNCHANGED <<batch, cur>>

\* The handler touches nothing but the Client it was given.
OwnClientOnly == UNCHANGED <<netVars, idVars, topicVars, localVars>>

\* The EPOLLERR / EPOLLHUP branch: close() is given the low bits of a
\* pointer, which is no open descriptor, and nothing re-arms the socket.
HangUp(w, c) ==
  /\ Holds(w, c)
  /\ peer[c] = "reset"
  /\ Return(w, c)
  /\ UNCHANGED <<connVars, armed>>
  /\ OwnClientOnly

(***************************************************************************)
(* accept_handler.  Its early returns leave the listener disarmed, so that *)
(* nobody is accepted any more: neither the client it failed for, whether  *)
(* or not accept() took that one off the queue, nor any later one.         *)
(***************************************************************************)
\* Mutant: the listener is not re-armed after an accept.
AcceptHandler_Forgets(w, c) ==
  /\ Holds(w, Listener)
  /\ peer[c] = "queued"
  /\ peer' = [peer EXCEPT ![c] = "open"]
  /\ armed' = [armed EXCEPT ![c] = "in"]
  /\ Return(w, Listener)
  /\ UNCHANGED <<log, outbox, connVars, idVars, topicVars, localVars>>

AcceptHandler(w, c) ==
  /\ Holds(w, Listener)
  /\ peer[c] = "queued"
  /\ peer' = [peer EXCEPT ![c] = "open"]
  /\ armed' = [armed EXCEPT ![c] = "in", ![Listener] = "in"]
  /\ Return(w, Listener)
  /\ UNCHANGED <<log, outbox, connVars, idVars, topicVars, localVars>>

AcceptFails(w, c) ==
  /\ "accept" \in Faults
  /\ Holds(w, Listener)
  /\ peer[c] = "queued"
  /\ peer' = [peer EXCEPT ![c] = "lost"]
  /\ Return(w, Listener)
  /\ UNCHANGED <<log, outbox, connVars, idVars, topicVars, localVars, armed>>

-----------------------------------------------------------------------------
(***************************************************************************)
(* request_handler: read a packet, run the handler of its opcode, leave an *)
(* answer in client->reply and wait for the socket to be writable.         *)
(***************************************************************************)
NextName(c) == <<c, rd[c] + 1>>
NextRequest(c) == Request(NextName(c))

Incoming(w, c, op) ==
  /\ Holds(w, c)
  /\ ctx[c] = "request"
  /\ rd[c] < Len(log[c])
  /\ NextRequest(c).op = op
  /\ rd' = [rd EXCEPT ![c] = @ + 1]

AwaitWritable(w, c) ==
  /\ ctx' = [ctx EXCEPT ![c] = "reply"]
  /\ Rearm(c, "out")
  /\ Return(w, c)

\* Mutant: every acknowledgement says 0.
SetReply_NoCode(c, op, rc, re, retained) ==
  reply' = [reply EXCEPT ![c] = [op |-> op, rc |-> 0, re |-> re,
                                 retained |-> retained]]

\* set_reply / set_ack_reply
SetReply(c, op, rc, re, retained) ==
  reply' = [reply EXCEPT ![c] = [op |-> op, rc |-> rc, re |-> re,
                                 retained |-> retained]]

\* End of file before the first byte: recv_packet gives NULL.
RecvNothing(w, c) ==
  /\ Holds(w, c)
  /\ ctx[c] = "request"
  /\ rd[c] = Len(log[c])
  /\ peer[c] = "eof"
  /\ Rearm(c, "in")
  /\ Return(w, c)
  /\ UNCHANGED connVars
  /\ OwnClientOnly

\* The packet is not complete: recv_packet calls recv() again and again, and
\* the worker does nothing else until the client sends the rest.
RecvPartial(w, c) ==
  /\ Holds(w, c)
  /\ ctx[c] = "request"
  /\ rd[c] = Len(log[c])
  /\ peer[c] = "partial"
  /\ Enter(w, c, "spin")
  /\ UNCHANGED <<netVars, connVars, idVars, topicVars, localVars, armed>>

\* The rest is there: the handler has a request to work on.
RecvResume(w) ==
  /\ pc[w] = "spin"
  /\ rd[cur[w]] < Len(log[cur[w]])
  /\ Goto(w, "poll")
  /\ UNCHANGED <<netVars, connVars, idVars, topicVars, localVars, armed>>

\* recv() fails: the -1 is added to an unsigned count, so recv_packet goes on
\* with a header it never received.  What it finds there makes it wait for
\* bytes that cannot come, name no known opcode, or overrun the stack.  (That
\* the stale bytes are a whole packet of a known kind is left out.)
RecvReset(w, c) ==
  /\ Holds(w, c)
  /\ ctx[c] = "request"
  /\ rd[c] = Len(log[c])
  /\ peer[c] = "reset"
  /\ \/ Enter(w, c, "spin")
     \/ Return(w, c)
     \/ Crash
  /\ UNCHANGED <<netVars, connVars, idVars, topicVars, localVars, armed>>

\* unpack_packet gives NULL for the opcode: return without re-arming.
RecvOther(w, c) ==
  /\ Incoming(w, c, "OTHER")
  /\ Return(w, c)
  /\ UNCHANGED <<ctx, reply, armed>>
  /\ OwnClientOnly

\* SUBACK and PUBACK are unpacked, but no handler answers them.
RecvAck(w, c) ==
  /\ Incoming(w, c, "ACK")
  /\ AwaitWritable(w, c)
  /\ UNCHANGED reply
  /\ OwnClientOnly

\* pingreq_handler
RecvPingreq(w, c) ==
  /\ Incoming(w, c, "PINGREQ")
  /\ SetReply(c, "PINGRESP", 0, NextName(c), NoMsg)
  /\ AwaitWritable(w, c)
  /\ OwnClientOnly

\* publish_handler: a missing topic is logged and leaves no reply.
RecvPublish(w, c) ==
  /\ Incoming(w, c, "PUBLISH")
  /\ IF NextRequest(c).topic = EmptyTopic
     THEN UNCHANGED reply
     ELSE SetReply(c, "PUBLISH", 0, NextName(c), NoMsg)
  /\ AwaitWritable(w, c)
  /\ OwnClientOnly

(***************************************************************************)
(* connect_handler and the table of clients.  The key of an entry is the   *)
(* string c->id itself, no copy.  hashmap_put stores into the first slot   *)
(* of the probe sequence that is free or holds the key: an entry it would  *)
(* replace may stand behind a slot hashmap_del has freed, and then the key *)
(* is in the table twice.                                                  *)
(***************************************************************************)
InTable(d, i) == clients[d] > 0 /\ cid[d] = i

\* add_client, under the identifier i
AddClient(c, i) ==
  /\ \/ /\ hole \/ ~\E d \in Conns : InTable(d, i)
        /\ clients' = [clients EXCEPT ![c] = @ + 1]
        /\ UNCHANGED strays
     \/ \E d \in Conns :
          /\ InTable(d, i)
          /\ clients' = [clients EXCEPT ![d] = @ - 1, ![c] = @ + 1]
          /\ UNCHANGED strays
     \/ \E d \in Conns :
          /\ strays[d] > 0
          /\ clients' = [clients EXCEPT ![c] = @ + 1]
          /\ strays' = [strays EXCEPT ![d] = @ - 1]
  /\ UNCHANGED hole

\* free(c->id): what c has left in the table has a dangling key.
FreeId(c, entries, dangling) ==
  /\ clients' = [entries EXCEPT ![c] = 0]
  /\ strays' = [dangling EXCEPT ![c] = @ + entries[c]]

\* Mutant: the entry under the old identifier is not deleted.
DelClient_Nothing(c) == FreeId(c, clients, strays) /\ UNCHANGED hole

\* del_client: hashmap_del blanks the first match, if any.  Then free(c->id).
DelClient(c) ==
  \/ /\ ~\E d \in Conns : InTable(d, cid[c])
     /\ FreeId(c, clients, strays)
     /\ UNCHANGED hole
  \/ \E d \in Conns :
       /\ InTable(d, cid[c])
       /\ FreeId(c, [clients EXCEPT ![d] = @ - 1], strays)
       /\ hole' = TRUE
  \/ \E d \in Conns :
       /\ strays[d] > 0
       /\ FreeId(c, clients, [strays EXCEPT ![d] = @ - 1])
       /\ hole' = TRUE

RecvConnectRefused(w, c) ==
  /\ Incoming(w, c, "CONNECT")
  /\ NextRequest(c).id = EmptyId
  /\ SetReply(c, "CONNACK", 1, NextName(c), NoMsg)
  /\ AwaitWritable(w, c)
  /\ OwnClientOnly

\* clean_session = 0: the Client is tracked under the identifier it has.
RecvConnectKeep(w, c) ==
  /\ Incoming(w, c, "CONNECT")
  /\ NextRequest(c).id # EmptyId
  /\ ~NextRequest(c).clean
  /\ AddClient(c, cid[c])
  /\ SetReply(c, "CONNACK", 0, NextName(c), NoMsg)
  /\ AwaitWritable(w, c)
  /\ UNCHANGED <<netVars, cid, topicVars, localVars>>

\* clean_session = 1: del_client, then the new identifier and add_client.
RecvConnectClean(w, c) ==
  /\ Incoming(w, c, "CONNECT")
  /\ NextRequest(c).id # EmptyId
  /\ NextRequest(c).clean
  /\ DelClient(c)
  /\ job' = [job EXCEPT ![w] = NextName(c)]
  /\ Enter(w, c, "connect_add")
  /\ UNCHANGED <<netVars, ctx, reply, cid, topicVars, loc, tgt, todo, armed>>

ConnectAdd(w) ==
  LET c == cur[w]
      i == Request(job[w]).id
  IN /\ pc[w] = "connect_add"
     /\ cid' = [cid EXCEPT ![c] = i]
     /\ AddClient(c, i)
     /\ SetReply(c, "CONNACK", 0, job[w], NoMsg)
     /\ AwaitWritable(w, c)
     /\ UNCHANGED <<netVars, rd, topicVars, localVars>>

(***************************************************************************)
(* subscribe_handler, and add_subscriber with its own hashmap_get before   *)
(* the lock and the insertion under it.                                    *)
(***************************************************************************)
\* A missing topic: set_reply leaves reply->retained as malloc returned it.
RecvSubscribeRefused(w, c) ==
  /\ Incoming(w, c, "SUBSCRIBE")
  /\ NextRequest(c).topic = EmptyTopic
  /\ \E r \in {NoMsg, Wild} : SetReply(c, "SUBACK", 1, NextName(c), r)
  /\ AwaitWritable(w, c)
  /\ OwnClientOnly

RecvSubscribe(w, c) ==
  /\ Incoming(w, c, "SUBSCRIBE")
  /\ NextRequest(c).topic # EmptyTopic
  /\ LET t == topics[NextRequest(c).topic]
     IN /\ job' = [job EXCEPT ![w] = NextName(c)]
        /\ loc' = [loc EXCEPT ![w] = t]
        /\ Enter(w, c, IF t = 0 THEN "sub_create" ELSE "sub_find")
  /\ UNCHANGED <<netVars, ctx, reply, idVars, topicVars, tgt, todo, armed>>

\* A topic object: its name, its subscribers, its retained message.
Topic(t, subs, m) == [name |-> t, subs |-> subs, retained |-> m]
SetSubs(i, subs) ==
  heap' = [heap EXCEPT ![i] = Topic(@.name, subs, @.retained)]
SetRetained(i, m) ==
  heap' = [heap EXCEPT ![i] = Topic(@.name, @.subs, m)]

\* Mutant: the new topic is not put in the table.
PutTopic_Nothing(t, i) == UNCHANGED topics

\* hashmap_put replaces what another worker put.  The table is below its load
\* limit: what happens at the limit is the subject of Hashmap.
PutTopic(t, i) == topics' = [topics EXCEPT ![t] = i]

\* create_topic, hashmap_put
CreateTopic(w, label) ==
  LET t == Request(job[w]).topic
  IN /\ heap' = Append(heap, Topic(t, <<>>, NoMsg))
     /\ PutTopic(t, Len(heap) + 1)
     /\ loc' = [loc EXCEPT ![w] = Len(heap) + 1]
     /\ Goto(w, label)
     /\ UNCHANGED <<netVars, connVars, idVars, live, job, tgt, todo, armed>>

SubscribeCreate(w) == pc[w] = "sub_create" /\ CreateTopic(w, "sub_find")

AddSubscriberFind(w) ==
  /\ pc[w] = "sub_find"
  /\ tgt' = [tgt EXCEPT ![w] = topics[Request(job[w]).topic]]
  /\ Goto(w, "sub_insert")
  /\ UNCHANGED <<netVars, connVars, idVars, topicVars, job, loc, todo, armed>>

\* db->lock is held from the insertion until the node is linked.
Locked == \E v \in Workers : pc[v] = "sub_link"

\* Mutants: the node is inserted twice; the new node drops the old list.
Inserted_Twice(w) == <<cur[w], cur[w]>> \o heap[tgt[w]].subs
Inserted_Drops(w) == <<cur[w]>>

\* The list with the new node in front.
Inserted(w) == <<cur[w]>> \o heap[tgt[w]].subs

\* list_head_insert makes the first node of a list its head before it sets
\* the node's next pointer; in a longer list the order is the other one.
AddSubscriberInsert(w) ==
  /\ pc[w] = "sub_insert"
  /\ ~Locked
  /\ SetSubs(tgt[w], Inserted(w))
  /\ Goto(w, IF heap[tgt[w]].subs = <<>> THEN "sub_link" ELSE "sub_retained")
  /\ UNCHANGED <<netVars, connVars, idVars, topics, live, localVars, armed>>

AddSubscriberLink(w) ==
  /\ pc[w] = "sub_link"
  /\ Goto(w, "sub_retained")
  /\ UNCHANGED <<netVars, connVars, idVars, topicVars, localVars, armed>>

\* Mutant: the reply does not get the topic's retained message.
RetainedBy_Forgets(w) == NoMsg

\* t->retained
RetainedBy(w) == heap[loc[w]].retained

SubscribeRetained(w) ==
  /\ pc[w] = "sub_retained"
  /\ SetReply(cur[w], "SUBACK", 0, job[w], RetainedBy(w))
  /\ AwaitWritable(w, cur[w])
  /\ UNCHANGED <<netVars, rd, idVars, topicVars, localVars>>
-----------------------------------------------------------------------------
(***************************************************************************)
(* reply_handler: the socket is writable, send what client->reply holds,   *)
(* free it and wait for the next request.                                  *)
(***************************************************************************)
\* sendall on a non-blocking socket: nothing goes out after a reset, and a
\* full buffer stops it anywhere or lets a part of the frame through at a
\* time.  Callers log a failure and go on.
Outcomes(c) == CASE peer[c] = "reset" -> {"none"}
                 [] c \in Slow /\ peer[c] # "reset" -> SentKinds
                 [] OTHER -> {"whole"}

Frame(op, rc, re, sent) == [op |-> op, rc |-> rc, re |-> re, sent |-> sent]

SendAll(c, op, rc, re) ==
  \E s \in Outcomes(c) :
    outbox' = [outbox EXCEPT ![c] = Append(@, Frame(op, rc, re, s))]

\* Mutants: the reply is not freed; the socket is not re-armed.
AwaitRequest_KeepsReply(w, c) ==
  /\ ctx' = [ctx EXCEPT ![c] = "request"]
  /\ Rearm(c, "in")
  /\ Return(w, c)
  /\ UNCHANGED reply
AwaitRequest_NoRearm(w, c) ==
  /\ reply' = [reply EXCEPT ![c] = NoReply]
  /\ ctx' = [ctx EXCEPT ![c] = "request"]
  /\ Return(w, c)
  /\ UNCHANGED armed

\* free_reply, ctx_handler = request_handler, mod_epoll(EPOLLIN)
AwaitRequest(w, c) ==
  /\ reply' = [reply EXCEPT ![c] = NoReply]
  /\ ctx' = [ctx EXCEPT ![c] = "request"]
  /\ Rearm(c, "in")
  /\ Return(w, c)

Replying(w, c) == Holds(w, c) /\ ctx[c] = "reply"

\* No reply to send: return, and the connection stays disarmed.
ReplyNone(w, c) ==
  /\ Replying(w, c)
  /\ reply[c].op = "NONE"
  /\ Return(w, c)
  /\ UNCHANGED <<connVars, armed>>
  /\ OwnClientOnly

\* Mutant: a failed send returns before the socket is re-armed.
ReplyAck_GivesUp(w, c) ==
  /\ Replying(w, c)
  /\ reply[c].op \in {"CONNACK", "SUBACK", "PINGRESP"}
  /\ reply[c].retained = NoMsg
  /\ \/ /\ SendAll(c, reply[c].op, reply[c].rc, reply[c].re)
        /\ AwaitRequest(w, c)
     \/ /\ "none" \in Outcomes(c)
        /\ Return(w, c)
        /\ UNCHANGED <<outbox, ctx, reply, armed>>
  /\ UNCHANGED <<peer, log, rd, idVars, topicVars, localVars>>

ReplyAck(w, c) ==
  /\ Replying(w, c)
  /\ reply[c].op \in {"CONNACK", "SUBACK", "PINGRESP"}
  /\ reply[c].retained = NoMsg
  /\ SendAll(c, reply[c].op, reply[c].rc, reply[c].re)
  /\ AwaitRequest(w, c)
  /\ UNCHANGED <<peer, log, rd, idVars, topicVars, localVars>>

ReplySuback(w, c) ==
  /\ Replying(w, c)
  /\ reply[c].op = "SUBACK"
  /\ reply[c].retained # NoMsg
  /\ SendAll(c, "SUBACK", reply[c].rc, reply[c].re)
  /\ Enter(w, c, "suback_retained")
  /\ UNCHANGED <<peer, log, connVars, idVars, topicVars, localVars, armed>>

ReplyRetained(w) ==
  LET c == cur[w]
      r == reply[c].retained
  IN /\ pc[w] = "suback_retained"
     /\ r \in live
     /\ SendAll(c, "RETAINED", 0, r)
     /\ AwaitRequest(w, c)
     /\ UNCHANGED <<peer, log, rd, idVars, topicVars, localVars>>

\* The pointer is stale: reading through it kills the process or yields
\* whatever the memory holds now.
ReplyDangling(w) ==
  LET c == cur[w]
  IN /\ pc[w] = "suback_retained"
     /\ reply[c].retained \notin live
     /\ \/ Crash /\ UNCHANGED <<outbox, ctx, reply, armed>>
        \/ SendAll(c, "RETAINED", 0, Wild) /\ AwaitRequest(w, c)
     /\ UNCHANGED <<peer, log, rd, idVars, topicVars, localVars>>

\* Mutant: the publisher's socket is re-armed before the distribution.
ReplyPublish_RearmsFirst(w, c) ==
  /\ Replying(w, c)
  /\ reply[c].op = "PUBLISH"
  /\ LET t == topics[Request(reply[c].re).topic]
     IN /\ job' = [job EXCEPT ![w] = reply[c].re]
        /\ loc' = [loc EXCEPT ![w] = t]
        /\ Enter(w, c, IF t = 0 THEN "pub_create" ELSE "retain")
  /\ ctx' = [ctx EXCEPT ![c] = "request"]
  /\ Rearm(c, "in")
  /\ UNCHANGED <<netVars, rd, reply, idVars, topicVars, tgt, todo>>

ReplyPublish(w, c) ==
  /\ Replying(w, c)
  /\ reply[c].op = "PUBLISH"
  /\ LET t == topics[Request(reply[c].re).topic]
     IN /\ job' = [job EXCEPT ![w] = reply[c].re]
        /\ loc' = [loc EXCEPT ![w] = t]
        /\ Enter(w, c, IF t = 0 THEN "pub_create" ELSE "retain")
  /\ UNCHANGED <<netVars, connVars, idVars, topicVars, tgt, todo, armed>>

PublishCreate(w) == pc[w] = "pub_create" /\ CreateTopic(w, "retain")

(***************************************************************************)
(* publish_message and retain_message on the topic object loc[w].  The     *)
(* walk starts at the list head it reads; nodes are only ever inserted in  *)
(* front of it, so that list is the one it visits.                         *)
(***************************************************************************)
StartWalk(w) == todo' = [todo EXCEPT ![w] = heap[loc[w]].subs]

SkipRetain(w) ==
  /\ pc[w] = "retain"
  /\ ~Request(job[w]).retain
  /\ StartWalk(w)
  /\ Goto(w, "fanout")
  /\ UNCHANGED <<netVars, connVars, idVars, topicVars, job, loc, tgt, armed>>

\* create_message, and destroy_message up to its free() if there is an older
\* one; freeing what another worker has freed is a memory error.
RetainDestroy(w) ==
  LET old == heap[loc[w]].retained
  IN /\ pc[w] = "retain"
     /\ Request(job[w]).retain
     /\ live' = (live \cup {job[w]}) \ {old}
     /\ \/ old = NoMsg /\ Goto(w, "keep")
        \/ old # NoMsg /\ Goto(w, "clear")
        \/ old \notin live \cup {NoMsg} /\ Crash
     /\ UNCHANGED <<netVars, connVars, idVars, topics, heap, localVars, armed>>

\* The end of destroy_message: *m = NULL.
RetainClear(w) ==
  /\ pc[w] = "clear"
  /\ SetRetained(loc[w], NoMsg)
  /\ Goto(w, "keep")
  /\ UNCHANGED <<netVars, connVars, idVars, topics, live, localVars, armed>>

RetainKeep(w) ==
  /\ pc[w] = "keep"
  /\ SetRetained(loc[w], job[w])
  /\ StartWalk(w)
  /\ Goto(w, "fanout")
  /\ UNCHANGED <<netVars, connVars, idVars, topics, live, job, loc, tgt, armed>>

FanOut(w) ==
  /\ pc[w] = "fanout"
  /\ todo[w] # <<>>
  /\ SendAll(Head(todo[w]), "PUBLISH", 0, job[w])
  /\ todo' = [todo EXCEPT ![w] = Tail(@)]
  /\ UNCHANGED <<peer, log, connVars, idVars, topicVars, job, loc, tgt, workerVars,
                 armed>>

\* The walk takes no lock: it may reach a node whose next pointer is not set
\* yet and follow whatever malloc left there.
FanOutWild(w) ==
  /\ pc[w] = "fanout"
  /\ Len(todo[w]) = 1
  /\ \E v \in Workers : pc[v] = "sub_link" /\ tgt[v] = loc[w]
  /\ SendAll(Head(todo[w]), "PUBLISH", 0, job[w])
  /\ Crash
  /\ UNCHANGED <<peer, log, connVars, idVars, topicVars, localVars, armed>>

\* Mutant: a PUBACK whatever the quality of service.
WantsPuback_Always(r) == TRUE

WantsPuback(r) == r.qos = 1

FinishPublish(w) ==
  LET c == cur[w]
  IN /\ pc[w] = "fanout"
     /\ todo[w] = <<>>
     /\ IF WantsPuback(Request(job[w]))
        THEN SendAll(c, "PUBACK", 0, job[w])
        ELSE UNCHANGED outbox
     /\ AwaitRequest(w, c)
     /\ UNCHANGED <<peer, log, rd, idVars, topicVars, localVars>>

-----------------------------------------------------------------------------
\* What the clients and the network do.
ClientStep(c) ==
  \/ ClientConnect(c)
  \/ \E r \in Requests : ClientSend(c, r)
  \/ ClientStall(c)
  \/ \E r \in Requests : ClientFinish(c, r)
  \/ ClientLeave(c)
  \/ ClientReset(c)

\* The first step of the handler of connection c, whole for most of them.
Handle(w, c) ==
  \/ HangUp(w, c)
  \/ AcceptHandler(w, c)
  \/ AcceptFails(w, c)
  \/ RecvNothing(w, c)
  \/ RecvPartial(w, c)
  \/ RecvReset(w, c)
  \/ RecvOther(w, c)
  \/ RecvAck(w, c)
  \/ RecvPingreq(w, c)
  \/ RecvPublish(w, c)
  \/ RecvConnectRefused(w, c)
  \/ RecvConnectKeep(w, c)
  \/ RecvConnectClean(w, c)
  \/ RecvSubscribeRefused(w, c)
  \/ RecvSubscribe(w, c)
  \/ ReplyNone(w, c)
  \/ ReplyAck(w, c)
  \/ ReplySuback(w, c)
  \/ ReplyPublish(w, c)

\* The later steps of the handlers that have several.
Continue(w) ==
  \/ RecvResume(w)
  \/ ConnectAdd(w)
  \/ SubscribeCreate(w)
  \/ AddSubscriberFind(w)
  \/ AddSubscriberInsert(w)
  \/ AddSubscriberLink(w)
  \/ SubscribeRetained(w)
  \/ ReplyRetained(w)
  \/ ReplyDangling(w)
  \/ PublishCreate(w)
  \/ SkipRetain(w)
  \/ RetainDestroy(w)
  \/ RetainClear(w)
  \/ RetainKeep(w)
  \/ FanOut(w)
  \/ FanOutWild(w)
  \/ FinishPublish(w)

Poll(w) == \E S \in SUBSET Ready : EpollWait(w, S)

Next ==
  \/ \E c \in Conns : ClientStep(c)
  \/ \E w \in Workers : Poll(w)
  \/ \E w \in Workers, c \in Conns : Handle(w, c)
  \/ \E w \in Workers : Continue(w)

Spec == Init /\ [][Next]_vars
(***************************************************************************)
(* Fairness.  A thread inside a handler is scheduled again: the sockets    *)
(* are non-blocking and the mutexes are held for a few instructions.  The  *)
(* one place where a handler waits is recv_packet, for the rest of a       *)
(* packet; nothing says that a client ever sends it, so no fairness is     *)
(* assumed of ClientFinish and a worker may be at "spin" for good.  The    *)
(* kernel's ready list is a queue, so a descriptor that stays ready is     *)
(* handed out although others keep becoming ready.                         *)
(***************************************************************************)
HandlerStep(w) == Continue(w) \/ \E c \in Conns : Handle(w, c)
HandedOut(x) ==
  \E w \in Workers, S \in SUBSET Ready : x \in S /\ EpollWait(w, S)

FairSpec ==
  /\ Spec
  /\ \A w \in Workers : WF_vars(HandlerStep(w))
  /\ \A x \in Fds : SF_vars(HandedOut(x))

-----------------------------------------------------------------------------
TopicObjects == [name : Topics, subs : Seq(Conns), retained : Pointers]
LogEntries == [req : Requests, owed : SUBSET (Conns \cup RequestNames)]

(* Every variable of the event loop has the type its C declaration or its  *)
(* use gives it; topic objects are referred to only once they exist.       *)
TypeOK ==
  /\ peer \in [Conns -> PeerStates]
  /\ log \in [Conns -> Seq(LogEntries)]
  /\ rd \in [Conns -> Nat]
  /\ outbox \in [Conns -> Seq(Frames)]
  /\ armed \in [Fds -> {"none", "in", "out"}]
  /\ ctx \in [Conns -> {"request", "reply"}]
  /\ reply \in [Conns -> Replies]
  /\ cid \in [Conns -> Ids \cup Conns]
  /\ clients \in [Conns -> Nat]
  /\ strays \in [Conns -> Nat]
  /\ hole \in BOOLEAN
  /\ heap \in Seq(TopicObjects)
  /\ topics \in [Topics -> 0..Len(heap)]
  /\ live \subseteq RequestNames
  /\ pc \in [Workers -> PCs]
  /\ batch \in [Workers -> SUBSET Fds]
  /\ cur \in [Workers -> Fds]
  /\ job \in [Workers -> RequestNames \cup {NoMsg}]
  /\ loc \in [Workers -> 0..Len(heap)]
  /\ tgt \in [Workers -> 0..Len(heap)]
  /\ todo \in [Workers -> Seq(Conns)]

(* The one-shot registration (EPOLLONESHOT in add_epoll and mod_epoll) is  *)
(* the only thing that keeps two threads off one Client structure: a       *)
(* descriptor is in the hands of at most one worker, and while a worker    *)
(* holds it the kernel will not hand it out again.                         *)
OneOwner ==
  /\ \A w \in Workers : \A x \in batch[w] : armed[x] = "none"
  /\ \A v, w \in Workers : v # w => batch[v] \cap batch[w] = {}
  /\ \A w \in Workers : pc[w] \notin {"poll", "dead"} => cur[w] \in batch[w]

(* No handler dereferences a NULL Topic: the t of subscribe_handler and    *)
(* reply_handler is an object once it was looked up or created, and so is  *)
(* what add_subscriber looks up a second time, with no test, after another *)
(* worker may have replaced it.                                            *)
NoNullTopic ==
  \A w \in Workers :
    /\ pc[w] \in {"sub_find", "sub_insert", "sub_link", "sub_retained",
                  "retain", "clear", "keep", "fanout"} => loc[w] # 0
    /\ pc[w] \in {"sub_insert", "sub_link"} => tgt[w] # 0

(* client->reply is one slot: when the broker waits for a connection's     *)
(* next request the slot is free, so no handler of request_handler         *)
(* overwrites an answer that was not sent, and the handler that will run   *)
(* is the one the registered event is for.                                 *)
ReplySlot ==
  \A c \in Conns :
    /\ armed[c] = "in" => ctx[c] = "request"
    /\ armed[c] = "out" => ctx[c] = "reply"
    /\ ctx[c] = "request" => reply[c] = NoReply

\* What a request is to be answered with, and whether it is answered at all.
Answer(r) ==
  CASE r.op = "CONNECT"   -> <<"CONNACK", IF r.id = EmptyId THEN 1 ELSE 0>>
    [] r.op = "SUBSCRIBE" -> <<"SUBACK", IF r.topic = EmptyTopic THEN 1 ELSE 0>>
    [] r.op = "PINGREQ"   -> <<"PINGRESP", 0>>
    [] r.op = "PUBLISH" /\ r.qos = 1 /\ r.topic # EmptyTopic -> <<"PUBACK", 0>>
    [] OTHER -> <<>>

IsAck(f) == f.op \notin {"PUBLISH", "RETAINED"}
Acked(c, n) ==
  \E i \in DOMAIN outbox[c] : IsAck(outbox[c][i]) /\ outbox[c][i].re = <<c, n>>

(* Requests of one connection are answered in the order it sent them, each *)
(* with its own acknowledgement and return code, none twice, whatever      *)
(* PUBLISH frames other workers put on the same socket in between; none is *)
(* outstanding but the last one read, and not that one either when the     *)
(* broker is ready for the next request.                                   *)
AnswersInOrder ==
  \A c \in Conns :
    /\ \A i \in DOMAIN outbox[c] : IsAck(outbox[c][i]) =>
         \E n \in 1..rd[c] :
           /\ outbox[c][i].re = <<c, n>>
           /\ <<outbox[c][i].op, outbox[c][i].rc>> = Answer(log[c][n].req)
    /\ \A i, j \in DOMAIN outbox[c] :
         i < j /\ IsAck(outbox[c][i]) /\ IsAck(outbox[c][j])
           => outbox[c][i].re[2] < outbox[c][j].re[2]
    /\ \A n \in 1..rd[c] :
         Answer(log[c][n].req) # <<>> /\ (n < rd[c] \/ armed[c] = "in")
           => Acked(c, n)

Wedged(c) ==
  /\ peer[c] \in {"open", "partial", "eof"}
  /\ armed[c] = "none"
  /\ \A w \in Workers : c \notin batch[w]

GivenUp(r) == \/ r.op \in {"OTHER", "ACK"}
              \/ r.op = "PUBLISH" /\ r.topic = EmptyTopic
LastUnanswerable(c) == rd[c] > 0 /\ GivenUp(Request(<<c, rd[c]>>))

(* A connection the kernel no longer watches and no worker holds can never *)
(* be served again.  That happens to an intact connection only after it    *)
(* sent something request_handler or reply_handler gives up on: an opcode  *)
(* unpack_packet rejects, an acknowledgement, a PUBLISH without a topic.   *)
OnlyUnanswerableWedges == \A c \in Conns : Wedged(c) => LastUnanswerable(c)

Subscribes(c, t) ==
  {n \in 1..rd[c] : /\ log[c][n].req.op = "SUBSCRIBE"
                    /\ log[c][n].req.topic = t}
Copies(c, m, op) ==
  {i \in DOMAIN outbox[c] : outbox[c][i].op = op /\ outbox[c][i].re = m}

(* A message reaches a connection at most once per SUBSCRIBE it made to    *)
(* the message's topic, so never a connection that did not subscribe: as a *)
(* PUBLISH distributed by publish_message, and again as the retained       *)
(* message that follows a SUBACK.                                          *)
CopiesBounded ==
  \A c \in Conns, m \in RequestNames, op \in {"PUBLISH", "RETAINED"} :
    Copies(c, m, op) # {} =>
      /\ m[2] <= rd[m[1]]
      /\ Request(m).op = "PUBLISH"
      /\ Cardinality(Copies(c, m, op))
           <= Cardinality(Subscribes(c, Request(m).topic))

(* Two messages of one publisher are put on a subscriber's socket in the   *)
(* order they were published, although any worker may distribute either.   *)
PublisherOrder ==
  \A c \in Conns : \A i, j \in DOMAIN outbox[c] :
    LET f == outbox[c][i]
        g == outbox[c][j]
    IN (/\ i < j
        /\ f.op = "PUBLISH" /\ g.op = "PUBLISH"
        /\ f.re[1] = g.re[1]) => f.re[2] <= g.re[2]

\* No two workers created the topic t at the same time.
CreatedOnce(t) == Cardinality({i \in DOMAIN heap : heap[i].name = t}) <= 1

Offered(m) ==
  \A i \in DOMAIN outbox[m[1]] :
    LET f == outbox[m[1]][i]
    IN f.op = "PUBACK" /\ f.re = m =>
         \A s \in log[m[1]][m[2]].owed : Copies(s, m, "PUBLISH") # {}

(* "Iterate through all the subscribers to send them the message": when    *)
(* the publisher gets its PUBACK, every connection that held a SUBACK for  *)
(* the topic when the message was sent has been offered it, provided the   *)
(* topic was created by one worker only.                                   *)
PubackMeansOffered ==
  \A m \in RequestNames :
    (/\ m[2] <= rd[m[1]]
     /\ Request(m).op = "PUBLISH"
     /\ CreatedOnce(Request(m).topic)) => Offered(m)

(* The same without the proviso: what the comment in publish_message       *)
(* says.  Two workers that miss the topic at the same time break it.       *)
PubackMeansOfferedAlways ==
  \A m \in RequestNames :
    m[2] <= rd[m[1]] /\ Request(m).op = "PUBLISH" => Offered(m)

RetainedOn(t) ==
  {m \in RequestNames : /\ m[2] <= rd[m[1]]
                        /\ Request(m).op = "PUBLISH"
                        /\ Request(m).topic = t
                        /\ Request(m).retain}

(* A client that subscribes after the retained message of a topic was      *)
(* acknowledged finds it after its SUBACK, as long as no other message was *)
(* retained on the topic and one worker created it.                        *)
NewSubscriberGetsRetained ==
  \A c \in Conns : armed[c] = "in" =>
    \A n \in 1..rd[c] :
      LET e == log[c][n]
      IN (/\ e.req.op = "SUBSCRIBE"
          /\ e.req.topic # EmptyTopic
          /\ CreatedOnce(e.req.topic)
          /\ Cardinality(RetainedOn(e.req.topic)) = 1)
         => \A m \in e.owed : Copies(c, m, "RETAINED") # {}

(* "new subscriber receive most recent retained message on each topic they *)
(* subscribe to": some message retained on the topic follows the SUBACK    *)
(* when one was acknowledged before the client subscribed.  A publisher    *)
(* that replaces the retained message meanwhile breaks it: retain_message  *)
(* frees the old message, whose address the waiting reply still holds.     *)
RetainedForNewSubscriber ==
  \A c \in Conns : armed[c] = "in" =>
    \A n \in 1..rd[c] :
      LET e == log[c][n]
      IN (/\ e.req.op = "SUBSCRIBE"
          /\ e.req.topic # EmptyTopic
          /\ CreatedOnce(e.req.topic)
          /\ e.owed # {})
         => \E m \in RetainedOn(e.req.topic) : Copies(c, m, "RETAINED") # {}

UsedId(c, i) ==
  \/ cid[c] = i
  \/ \E n \in 1..rd[c] : /\ log[c][n].req.op = "CONNECT"
                          /\ log[c][n].req.clean
                          /\ log[c][n].req.id = i

Accepted(c) ==
  \E n \in 1..rd[c] : log[c][n].req.op = "CONNECT" /\ log[c][n].req.id # EmptyId

(* db->clients is what the keepalive thread walks and what the shutdown    *)
(* frees entry by entry.  A client that was told CONNACK 0 is in it, under *)
(* a key that is not freed, unless another connection used its identifier. *)
(* And until a deletion has left a hole, the table has one entry for a     *)
(* Client and for an identifier, and no key that was freed; afterwards an  *)
(* entry may stand behind the hole, and a second one in it.                *)
ClientsTracked ==
  /\ \A c \in Conns :
       armed[c] = "in" /\ Accepted(c) =>
         clients[c] > 0 \/ \E d \in Conns \ {c} : UsedId(d, cid[c])
  /\ ~hole =>
       /\ \A c \in Conns : clients[c] <= 1 /\ strays[c] = 0
       /\ \A c, d \in Conns :
            clients[c] > 0 /\ clients[d] > 0 /\ cid[c] = cid[d] => c = d

Dead == \E w \in Workers : pc[w] = "dead"

\* The descriptor x waits for a thread that waits for the rest of a packet:
\* it is in the batch of that thread, or there is no other thread.
Stranded(x) ==
  \/ \E w \in Workers : pc[w] = "spin" /\ x \in batch[w]
  \/ \A w \in Workers : pc[w] = "spin"

(* Whatever an intact connection sends is read and worked off: either the  *)
(* broker comes back to waiting for its next request with everything read, *)
(* or the last thing it sent cannot be answered.  Provided, beside a       *)
(* living process, that the connection has not stopped inside a packet,    *)
(* and that no connection which has, or was reset, keeps the worker that   *)
(* got both of them in one batch, or every worker (recv_packet's loops).   *)
EventuallyServed ==
  \A c \in Conns :
    []<>(\/ peer[c] \in {"none", "queued", "lost", "partial", "reset"}
         \/ armed[c] = "in" /\ rd[c] = Len(log[c])
         \/ Wedged(c) /\ LastUnanswerable(c)
         \/ Stranded(c)
         \/ Dead)

(* A client in the accept queue is accepted, although the listener is      *)
(* one-shot, as long as no accept has failed before (accept_handler then   *)
(* leaves it unregistered for good), the process lives and a worker is     *)
(* free to take it.                                                        *)
EventuallyAccepted ==
  \A c \in Conns :
    peer[c] = "queued" ~> \/ peer[c] # "queued"
                         \/ \E d \in Conns : peer[d] = "lost"
                         \/ Stranded(Listener)
                         \/ Dead
=============================================================================
