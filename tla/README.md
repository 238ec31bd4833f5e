# sizigy in TLA+

Sizigy is a small MQTT-like publish/subscribe broker in C. These modules model
the broker as its source has it: the event loop with its worker threads, the
handlers and the data they share, the code that cuts a byte stream into packets,
the ring buffer, the hash map, the wire format, the keepalive thread and the
shutdown. TLC checks small instances; TLAPS proves the properties marked so
below for instances of any size. Paths are relative to the
repository as `src/`, so that `src/src/server.c` is the server.

## The system

| Component | State | Operations | Works with |
|---|---|---|---|
| Event loop (`server.c` worker, `network.c` add_epoll, mod_epoll) | one epoll instance, one-shot registrations, the batch each thread got | epoll_wait, dispatch through `ctx_handler`, the hang-up branch | calls every handler |
| Acceptance (`accept_handler`) | the listening socket, one `Client` per connection | accept, early returns on failure, registration | the event loop re-arms the listener |
| Request handling (`request_handler`, `*_handler`) | `client->ctx_handler`, `client->reply`, `client->id` | CONNECT, SUBSCRIBE, PUBLISH, PINGREQ, acknowledgements, rejected opcodes | reads packets, fills the reply slot, uses the tables |
| Reply handling (`reply_handler`, `publish_message`, `retain_message`) | the reply slot, the sockets | acknowledge, send the retained message, distribute a PUBLISH | writes to the sockets of other clients |
| Topics and clients (`sizigy.c`, `list.c`) | topic objects, their subscriber lists and retained messages, the client table | create_topic, add_subscriber, add_client, del_client, create_message, destroy_message | hash map; one lock, around the list insertion only |
| Packet framing (`recv_packet`, `recvbytes`) | a ring buffer per call, byte counts | header loop, body loop | ring buffer, the non-blocking socket |
| Ring buffer (`ringbuf.c`) | array, head, tail, full | push, bulk push, pop, reset | packet framing |
| Hash map (`hashmap.c`) | entries, sizes, a mutex | put, get, del, rehash, iterate | topics, clients |
| Keepalive thread | `last_action_time` of each client | check every second, close silent clients | iterates over the client table while workers use it |
| Shutdown (`main.c`, end of `start_server`) | the `run` eventfd | write tokens, join, release | every thread reads the eventfd |
| Wire protocol (`protocol.c`) | none | pack and unpack | request and reply handling |
| Cluster bus, peers | a listener on an epoll instance no thread waits on | none yet | none |
| Topic queue, command line clients, socket set-up, utilities | | not part of the core | |

What is hard in it:

* several threads run handlers, and a `Client` has no lock: only the one-shot
  registration keeps two threads off it;
* the topic table, the topic objects and the retained messages are shared, and
  look-up, creation and use of a topic are separate steps with no common lock;
* a request is handled by one event and answered by a later one, so what the
  first left in `client->reply` may be stale for the second;
* a handler that returns without `mod_epoll` silences its connection for good;
* bytes arrive in any pieces, `recv` fails, and the counts are unsigned;
* the hash map's rehash calls the function that holds its mutex;
* the keepalive thread closes descriptors under the workers, without a lock, and
  the kernel gives their numbers out again;
* the end of the process depends on how many threads read a counter, and when;
* sizes and field orders are written down twice, in code that fills a buffer and
  in code that sizes or reads it.

What makes each part correct: the event loop hands a descriptor to one thread at
a time and serves everyone who can be served; request and reply handling answer
each request once, in order, with the right code; distribution reaches every
acknowledged subscriber, at most once per subscription, in the publisher's
order; framing hands on exactly the packets sent; the ring buffer is a bounded
queue; the hash map finds what was put last and its calls return; the keepalive thread
closes the silent clients and no others; a signal ends every thread before the
data they use; a packet that is packed, forwarded and unpacked is the one built.

## Modules

`Broker` models the first five rows together, because they share state;
`PubSub` is what they promise their clients, and `BrokerRefinement` the mapping
under which the first implements the second.
`PacketReader` models one connection's framing and takes the ring buffer as the
queue that `RingBuffer` is shown to implement (`ByteQueue`). `Hashmap` models
the table: `Broker` takes the topic table, from which nothing is deleted, as the
finite map it is below the load limit, and the client table with the duplicate
and dangling entries deletions lead to. `Lifecycle` composes the keepalive
thread, the workers, the kernel's descriptors and the shutdown, and takes from
the handlers only what these touch. `Wire` models the packets `Broker` takes as
unpacked and `PacketReader` as bytes. The `MC` modules and `.cfg` files
give constants their values. The theorems are in modules of their own:
`BrokerProofs`, `BrokerServiceProofs` and `BrokerDeliveryProofs`, each
extending the one before, `LifecycleProofs`, `HashmapProofs`,
`PacketReaderProofs`, `WireProofs` and `RingBufferProofs`.

### Broker

Actions correspond to handlers. A handler is cut at each access to shared
state: the look-up of a topic, its creation, the second look-up in
`add_subscriber`, the insertion and the linking of the node, the reads and
writes of `t->retained`, each send. What a handler does to its own `Client` goes
with the neighbouring action; that nobody can see it in between is `OneOwner`.

| Variable | In the code |
|---|---|
| `armed` | the registration of a descriptor: none, EPOLLIN, EPOLLOUT |
| `batch`, `cur`, `pc` | the events a thread holds, the handler it is in, and where |
| `ctx`, `reply`, `cid` | `client->ctx_handler`, `client->reply`, `client->id` |
| `topics`, `heap`, `live` | `db->topics`, the topic objects ever created, the retained messages not freed |
| `clients`, `strays`, `hole` | `db->clients`: how many entries each `Client` has under its identifier, how many whose key was freed, and whether `hashmap_del` has freed a slot |
| `job`, `loc`, `tgt`, `todo` | the handler's packet, its `t`, the topic `add_subscriber` found, the rest of the list `publish_message` walks |
| `peer`, `log`, `rd`, `outbox` | the clients: connection state, what they sent (with the history value `owed`), how much was read, what was sent to them |

A request or message is named by the connection and its number; payloads are
left out.

The key of an entry in `db->clients` is the string `c->id` itself. `hashmap_put`
takes the first slot of the probe sequence that is free or holds the key, and
`hashmap_del` blanks the first match only: once a deletion has left a hole, a
key, and a `Client`, may be in the table twice, and `free(c->id)` leaves the key
of the entry that is not deleted dangling, where it compares equal to anything.
`AddClient`, `FreeId` and `DelClient` have every one of these outcomes, whatever
the hash values. `ClientsTracked` says what holds all the same: who was told
CONNACK 0 is in the table, and there are no duplicates and no dangling keys
before the first deletion. Afterwards the shutdown (`destroy_clients`) may free
a `Client` twice; nothing in the model or the code prevents it.

`PutTopic` is `hashmap_put` below the load limit and with memory to allocate:
the rehash that never returns, and the NULL a `hashmap_get` gives while it
lasts, are in `Hashmap`. `SendAll` appends a frame with what became of it: whole,
written in pieces between which other threads' bytes may stand, cut off, or not
written. Frames are in the order in which they were begun. The last three happen
where the socket buffer is full (`Slow`); that the bytes of two packets are not
mixed is not claimed.

Memory errors are choices: a dangling retained pointer ends the
process or yields other memory (`ReplyDangling`), so does a double free
(`RetainDestroy`); an unset next pointer ends it (`FanOutWild`). After a reset
`recv_packet` computes with a header it never received (`RecvReset`): it waits
for bytes that cannot come, finds no known opcode, or ends the process; the case
that the stale bytes look like a whole packet of a known kind is left out. A
client that has sent a part of a packet (`ClientStall`) keeps the worker in
`recv_packet` (`RecvPartial`) until it sends the rest, if ever (`ClientFinish`,
`RecvResume`). The hang-up branch is allowed whenever the peer reset the connection before the
handler runs, which includes resets epoll reported one call later.

Visible in the model and not claimed otherwise: after a client closes, its
descriptor is handed out and re-armed for ever (`RecvNothing`) and is never
closed; a failed accept leaves the listener disarmed (`AcceptFails`), and nobody
is accepted after it.

### PubSub

The service as a client can rely on it: one request of a connection in work at a
time, its answer at the end of the work, a message distributed while its PUBLISH
is in work and once per subscription made before, at most one retained message
(or garbage, see the findings) after a SUBACK, and a process that may end. Under
`BrokerRefinement!Stage` a request is in work from the moment it is read until
its answer is sent, across two events, two handlers and perhaps two threads.
What is not in `PubSub`, because the code does not do it: that every subscriber
is reached, and that the retained message is. `PubackMeansOffered` and
`NewSubscriberGetsRetained` say when they are.

### PacketReader

`stream` is what the client wrote, `arrived` what the network has delivered,
`taken` what `recv` returned. `n` and `Want` are unsigned in the code: an error
makes the header count huge, which ends the loop, and a length smaller than a
header wraps round `Word`. `LengthIn` gives the length a header names, or any
length if the bytes are not the beginning of a packet. `Cut` is a client that
stops while it sends, with an end of file or without one. A packet may be longer
than the ring can collect.

What keeps a worker in `recv_packet`, in the model as in the code: a client that
stalls or ends inside a packet; a header that came in pieces and whose last bytes
come together with the end of file, because `recvbytes` then returns 0; a packet
that is too long for the ring, which drops what does not fit, so that the body
loop never sees all of it; and a reset. `BackToPoll` says that there is no
other way, and `EventuallyDelivered` that none of them concerns a packet before
it.

### RingBuffer and ByteQueue

`ByteQueue` is the abstract specification: a bounded queue whose operations
refuse with -1. `RingBuffer` has the array, the two indices and the flag.
`RefinesQueue` says the second implements the first under the mapping that reads
`Size` bytes from the tail on.

### Hashmap

The work of a call under the mutex is one action; `hashmap_get` reads the value
after it gave the mutex back (`GetRead`). A full table leads to `PutRehash`,
which ends where the nested `hashmap_put` asks for the mutex its caller holds,
or to `PutFails` if there is no memory. The two tables of the broker differ in
the calls made (`kind`): topics are never deleted, clients never looked up by
`hashmap_get`. The hash function is a constant. A rehash swaps the table before
it blocks, so a `hashmap_get` that has found its entry and gave the mutex back
may read NULL for a key that is present: `GetIsCurrent` has that exception, and
no other.

### Lifecycle

| Variable | In the code |
|---|---|
| `status`, `fd`, `last`, `ctx`, `reply` | the fields of a `Client` |
| `tracked`, `subs` | `db->clients`, the subscribers of a topic |
| `owner`, `reg` | the kernel: whose socket a number is, and the `Client` and event it is registered with |
| `pc`, `cur` | each worker: waiting, in a handler, at the `mod_epoll` that ends it, lost in `recv_packet`, at the quit event, ended |
| `kpc`, `kcur`, `know`, `kval` | `keepalive`: the step of `check_client_status`, the entry, `now`, `val` |
| `counter`, `sig` | the eventfd, and the thread that runs `sigint_handler` with the tokens it has still to write |
| `phase` | tables in place, released, `main` returned, process killed by a memory error |
| `busy`, `spoke`, `received`, `lost` | history |

The check of a client is three steps (read, close, mark), between which workers
run; a handler is handed out, run, and ended by its `mod_epoll` in three, so that
a client may be closed before its request is read, between request and
re-arming, or between two events. The sends of one `reply_handler` are one step
(`Broker` has them one by one). `accept` gives the lowest free
number. A handler that finds its descriptor closed computes with a header it
never received (`RequestBadFd`); one that finds it reused reads the other
client's request, and registers its own `Client` for it. `val` is not
initialised, and `eventfd_read` leaves it alone while the counter is 0. A thread
interrupted in `epoll_wait` leaves its loop (EINTR). Nobody joins the keepalive
thread: a walk over the released table ends the process (`KFreed`).
`OnlyKeepaliveKills` says that this, and a client closed under its handler, are
the only ways it is brought down here. One event
per `epoll_wait`: what a thread that quits leaves in its batch is not served, as
everything else after a signal.

What the model shows of the code, beside what the properties say: a message for
a closed subscriber goes to whoever has its number next; an active client is
closed if a worker refreshes its timestamp after `now` was read; a silent client
is not closed as long as one before it in the table is alive, or was closed by
an earlier walk; and the process ends after a signal only if every token woke a
worker. The comments at `server.c:631` ("Iterate through all clients") and
`server.c:799` ("in order to wake up all threads") promise more; `SilentClosed`
and `ShutdownCompletes` state under which conditions it holds.

### Wire

Structures are records, a buffer is its bytes with `size` and `pos`, each
function of `protocol.c` an operator of its name. A byte has `Radix` values, so
that the 16- and 32-bit limits come within reach of short strings; `Wide` is
what a 16-bit field holds, and a packet is shorter than `Wide * Wide`, as its
32-bit size in the code (`recv_packet` takes no more than 2 MB). The bytes
`pack_connect`, `pack_subscribe` and others leave unfilled hold anything. The
actions are a packet's way: built, packed, unpacked by a client or by the
broker, distributed from a new buffer, retained, sent again, freed.

`unpack_connect` reads `clean_session` and `keepalive` where `pack_connect` put
the identifier: against "Opposite of pack" (`protocol.h:137`), a CONNECT does
not come back as it was sent, and `RoundTrip` leaves it out.

## Runs

| Run | Instance | Shows |
|---|---|---|
| `broker_pubsub` | 2 clients, 2 threads, 1 topic, 2 requests each (SUBSCRIBE, retained PUBLISH with qos 1, plain PUBLISH) | types, `OneOwner`, `ReplySlot`, `NoNullTopic`, `AnswersInOrder`, `CopiesBounded`, `PublisherOrder`, `PubackMeansOffered`, `NewSubscriberGetsRetained`, `ImplementsService` |
| `broker_session` | one accepted client and one that connects, 2 threads, 1 shared identifier, 2 requests each (clean and kept CONNECT; acknowledgements by the first); failing accepts, resets, a full socket buffer | `OneOwner`, `AnswersInOrder`, `OnlyUnanswerableWedges`, `ClientsTracked` |
| `broker_live` | 2 clients that connect and send one request each, the first a retained PUBLISH, one without a topic or a rejected opcode, the second PINGREQ, a refused CONNECT or a refused SUBSCRIBE, batches of 2; failing accepts, closes, resets, clients that stop inside a packet | `ImplementsService`, `EventuallyServed`, `EventuallyAccepted` |
| `broker_topic_race` | as `broker_pubsub` | violation: a subscriber lost when two threads create a topic |
| `broker_stale_retained` | as `broker_pubsub` | violation: the retained message freed between SUBSCRIBE and SUBACK |
| `ringbuf` | 3 slots, 3 byte values, bulk pushes up to 4 bytes | types, `RefinesQueue` |
| `packet_reader` | header of 3, ring of 5, lengths 3, 4, 8 and 9, 3 packets, end of file, reset, a client that ends or stalls while it sends | `DeliveredIntact`, `NoByteDropped`, `EventuallyDelivered`, `BackToPoll` |
| `packet_reader_pipelined` | the same, packets sent ahead and cut anywhere | violation: the beginning of the next packet is lost |
| `hashmap` | 6 slots, chains of 2, 4 keys, 3 of them with overlapping chains, 2 threads, 6 calls | types and the size count, `LatestFound`, `GetIsCurrent`, `NoEarlyBlock` |
| `hashmap_rehash` | the same, 3 calls | violation: a put whose probe sequence is used up never returns |
| `wire` | bytes of 3 values; 7 texts: empty, with a NUL, as long as a length field allows and longer | `FitsBuffer`, `RoundTrip`, `ForwardedIntact` |
| `lifecycle` | 2 clients, 2 descriptor numbers, 3 workers, keepalive period 1; up to 5 seconds, connections and requests, 1 before or after a signal | types, `OnlineOwnsFd`, `RegistrationIsOwn`, `MessagesReachSubscribers`, `OnlyKeepaliveKills`, `NoHastyClose`, `SilentClosed`, `ShutdownCompletes` |

Why the bounds are enough for what the runs are about. Interference in the
broker is between two threads over one topic object, one identifier or one
socket, so two threads, two clients and one topic produce every pairwise race;
two requests each allow subscribe before publish, publish before subscribe, and
a message retained and replaced. Two CONNECTs each under one identifier allow
every order of the deletions and insertions. With two clients a batch of two is
a full one. In the packet reader the
lengths are a bare header, one byte more, the largest packet, whose body fills
the ring, and one byte more than that. In the ring buffer a bulk push can exceed the capacity from any
position. In the hash map the chains of two keys wrap round the table's end and
overlap the third's, the fourth is apart from them, and the load limit is half
the table, three entries: a put can meet the limit, or a used up chain before
it.
In the wire format a byte of three values makes the limit of a 16-bit length 8,
which texts reach and pass. In `lifecycle` five events let a client connect,
subscribe, fall silent, be closed, and its number be used by the next; three
workers and the keepalive thread compete for two tokens, as
`EPOLL_WORKERS + 2` and the keepalive thread do for `EPOLL_WORKERS + 1`.
`Sends` gives each client of `Broker` its kinds of requests. `MaxSends`,
`MaxPackets`, `MaxCalls`, `MaxClock`, `MaxEvents` of `Lifecycle` and `SigEvents`
are the only caps, in the guards of what comes from outside;
`CHECK_DEADLOCK FALSE` stands where they make the system stop.

Symmetry is used in the safety runs of `Broker` only: connections and threads
are interchangeable where all are connected from the start, threads in
`broker_session`.

### Fairness

`Broker!FairSpec`: weak fairness for each thread inside a handler, since the
sockets are non-blocking and `db->lock` is held for an insertion; strong
fairness for each descriptor being handed out, since the kernel's ready list is
a queue, so that a ready descriptor is not passed over for ever although others
keep becoming ready. One place in a handler waits for somebody else: the loops
of `recv_packet`, for the rest of a packet. Clients have no fairness, so the rest
need not come (`ClientFinish`), and a worker may stay there (`pc` is `"spin"`).
The liveness properties say what that costs: `EventuallyServed` exempts a
connection in the batch of such a worker, and every connection once all workers
are there; `EventuallyAccepted` does the same for the listener, and holds only
as long as no accept has failed. `PacketReader!FairSpec`: what was sent arrives
(a client that stalls has not sent the rest), and the thread keeps running.
`Hashmap!FairSpec`: threads run, and a free mutex goes to who waits for it.
`Lifecycle!FairSpec`: each thread that can go on does, the keepalive thread and
a running signal handler included; time need not pass, clients need not speak,
no signal need come, and no worker is promised a particular event.

## Proofs

Every safety property the passing runs check is proved for every value of the
constants: any number of threads, connections, topics, requests, any sizes and
bounds. Each module has one or more inductive invariants, in parts named for
what they say; a lemma per action shows which parts it keeps, and the theorem
follows from the invariant.

**`BrokerProofs`**: who holds what.

* `OneOwnerHolds`. `OneOwner` alone is not inductive: that an accepted
  descriptor is in nobody's hands needs `NotAccepted`, and that a handler past
  its first step works on a connection, not on the listener, needs `CurIsConn`;
  with the types of the variables involved they make `OwnerInv`.
* `ReplySlotHolds`, from `OwnerInv`: a handler that fills the slot holds a
  descriptor whose handler is `request_handler`.
* `BrokerTypeCorrect` and `NoNullTopicHolds`. `TypeInv` adds that the request a
  handler works on was read and is of the kind the handler is for (`Known`),
  and that a topic looked up or created exists from then on (`HandlerInv`):
  topics are never deleted and `topics[t]` never goes back to 0.

**`BrokerServiceProofs`**: requests and answers.

* `OnlyUnanswerableWedgesHolds`. `ServiceInv` follows a connection through the
  two events of a request: what is in the reply slot answers the last request
  read (`ReplyAt`, `WorkAt`), nothing is read after a request nobody answers
  (`MuteAt`), and an intact connection is registered, in a thread's hands, or
  sent such a request (`ServedAt`).
* `ClientsTrackedHolds`. `IdInv` relates the entries of the table with
  `client->id`, also while `connect_handler` is between the deletion and the
  insertion, and says that nothing dangles before there is a hole.
* `AnswersInOrderHolds` and `PublisherOrderHolds`. `FrameInv` says which
  acknowledgements are in an outbox, that they are in order, and which one is
  still to come (`AckReal`, `AckOrder`, `AckDone`, `AckOpen`); and that messages
  of a publisher anywhere in an outbox are not newer than the one it has in work
  (`PublishAt`, `OrderAt`), which rests on one request of a connection being in
  work at a time.

**`BrokerDeliveryProofs`**: distribution.

* `CopiesBoundedHolds`. `TopicInv`: the topic objects a handler works on, and
  the messages retained in them, are of its request's topic. `DeliveryInv`
  counts: a subscriber stands in a list at most as often as it subscribed,
  a SUBSCRIBE whose handler has not inserted yet left out (`SubsAt`); the copies
  sent plus the places in the rest of the walk are at most its SUBSCRIBEs
  (`FanAt`).
* `ImplementsServiceHolds`: `Spec => ImplementsService`. Each step of `Broker` is
  classified by what it does to the outboxes and to the stage of a request
  (it reads one, offers a copy, sends an answer, repeats a retained message,
  fails, or does nothing visible) and mapped to the step of `PubSub`
  of that kind or a stutter.
* `PubackMeansOfferedHolds`. `OfferInv`: who was told it is subscribed, or is owed
  a message, is in a list of the topic; and on a topic created once, the walk
  has still to visit it or has sent it its copy.
* `NewSubscriberGetsRetainedHolds`. `RetainInv`: the only message retained on a
  topic is in the topic's object and not freed from the moment its distribution
  starts; the reply to a subscriber who is owed it carries it, and it is sent
  before the next request is read.

**`LifecycleProofs`**: the five invariants of `Lifecycle` and the action
property `NoHastyClose`. `LifeInv` adds what the kernel knows (`OwnersMatch`),
that a handler only runs for a client that was accepted (`AcceptedFirst`,
`HandledIsClient`), what each step of the keepalive walk knows of its client
(`Visiting`), that a handler outlives its client's socket only for the clients
in `busy` (`HeldOpen`), that the tables are released when every worker has ended
(`EndedFirst`), and how the time stamps relate to the clock (`Timing`).

**`HashmapProofs`**: the four invariants of `Hashmap`, for any hash function.
`MapInv` has the shape of the topic table: a key is in one place (`OnePlace`),
and no slot before it in its probe sequence is free (`Unbroken`); what a
`hashmap_get` that gave the mutex back still knows (`Getting`); and that a rehash
leaves the table empty (`Emptied`), so that a read after it gives NULL. For
`NoEarlyBlock`, a probe sequence that is all in use holds as many different keys
as it has slots, and each of them competes for it (`ChainIsNear`).

**`PacketReaderProofs`**: `DeliveredIntactHolds` and `NoByteDroppedHolds`, for
a client that waits for each packet to be read and for packets that arrive
whole (`mode # "any"`). For any other client the run `packet_reader_pipelined`
refutes them. `ReaderInv`: the stream is a row of packets (`StreamInv`), and at
each place of the loops the ring buffer holds the stream from the last packet
boundary on, never more than one packet; or the body loop waits for more than the
ring can hold, which never ends (`Stuck`).

**`WireProofs`**: `FitsBufferHolds`, `RoundTripHolds` and `ForwardedIntactHolds`.
`WireInv` says at which offset of a buffer each field of the packet being
carried is; lemmas give the two and four digits of a number back, and the end of
a text as the first NUL.

**`RingBufferProofs`**: `TypeCorrect` (inductive as it stands) and
`ImplementsQueue`: each step of the ring maps to a step of the queue or a
stutter, for any size of at least the one `MaxAssumption` asks for.

The theorems rest on the named assumptions of the modules, on constants only:
names are distinct, sets are included in one another, connections are finitely
many, sizes are positive, a byte has at least three values (a qos fits in it)
and a packet's size fits in 32 bits. TLC evaluates them in every run.

Model-checked only: the liveness properties `EventuallyServed`,
`EventuallyAccepted`, `EventuallyDelivered`, `BackToPoll`, `SilentClosed` and
`ShutdownCompletes`, because fairness and ENABLED are beyond the prover; and the
counterexamples of the four violation runs, which are behaviours, not theorems.

## Findings

Each has its run: two threads create the same topic (`server.c:282`); a stale
pointer to a retained message (`server.c:291`); the header loop that reads into
the next packet (`server.c:103`); the rehash that waits for its own mutex
(`hashmap.c:115`).

Three more disagreements with comments are described with the modules they are
in and have no run of their own: the field order of CONNECT (`protocol.c:180`),
the keepalive walk that ends early (`server.c:625`) and the tokens that do not
wake every thread (`main.c:39`).

## Not modelled

* `unsubscribe_handler` and `disconnect_handler`: `unpack_packet` rejects their
  opcodes, so they are not reached; `del_subscriber` with `list_remove_node`,
  `add_topic`, `destroy_subscription`, `recvall`, `hashmap_get_entry`,
  `hashmap_iterate3`, `read_uint64`, `write_uint64` and `advance_pos` have no
  reachable caller.
* The bus listener, the peers list, the topic's message queue: no behaviour
  (nothing is put into the queue, nothing reads the list).
* Packets that no `*_pkt` function builds.
* Command line clients (written against an earlier interface), socket set-up,
  logging, random names, CRC, formatting.
* What a freed `Client` does at the shutdown when the client table has it twice;
  in `Lifecycle` each client has one entry.
* A reset after which the stale bytes on the stack happen to be a whole packet of
  a known kind.
* Allocation failures other than the rehash's; data races inside a single load or
  store.

## Plan

1. Theorems of the abstract service: what `PubSub` alone implies for its clients
   (the bound on copies, the order of a publisher's messages).
2. The conditions under which the four refuted properties hold, stated and
   proved: a topic whose first SUBSCRIBE and PUBLISH do not overlap, a retained
   message that is not replaced while a SUBSCRIBE is in work, a table below half
   of its capacity. For the table, `NoEarlyBlock` is the first step.
3. The lemma on the least element of a set of numbers, stated in three proof
   modules, in a module of its own.
