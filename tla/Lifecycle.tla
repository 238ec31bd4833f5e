------------------------------ MODULE Lifecycle ------------------------------
(***************************************************************************)
(* The life of connections and of the process: the keepalive thread that   *)
(* closes silent clients while workers run their handlers, descriptor      *)
(* numbers the kernel gives out again, and the shutdown started by         *)
(* sigint_handler.  Translated from src/src/server.c, main.c, network.c    *)
(* and sizigy.c.  What the handlers do to topics is the subject of Broker; *)
(* here a request is the timestamps, tables and registrations it touches,  *)
(* and there is one topic.                                                 *)
(***************************************************************************)
EXTENDS Integers, FiniteSets

CONSTANTS
  Clients,        \* clients that may connect, each with its Client structure
  Early,          \* the client accepted before the behaviour starts
  Slot,           \* the position of each client's entry in db->clients
  Fds,            \* descriptor numbers for connections
  Pool,           \* the EPOLL_WORKERS threads of the pool
  Main, Bus,      \* the main thread and the bus thread, workers as well
  Keepalive,      \* the keepalive thread
  None,           \* no client, no descriptor, no thread
  K,              \* config.keepalive, in seconds
  Word,           \* the modulus of uint64_t
  Kinds,          \* the requests clients send
  MaxClock,       \* bound: the seconds that pass
  MaxEvents,      \* bound: seconds, connections and requests together
  SigEvents       \* the same bound in behaviours with a signal

Workers == Pool \cup {Main, Bus}

ASSUME SlotAssumption ==
  /\ Slot \in [Clients -> Nat]
  /\ \A c, d \in Clients : c # d => Slot[c] # Slot[d]
ASSUME TimeAssumption == K \in Nat \ {0} /\ MaxClock \in Nat /\ Word \in Nat
                         /\ Word > MaxClock + K
ASSUME NameAssumption ==
  /\ None \notin Clients \cup Fds \cup Workers \cup {Keepalive}
  /\ Keepalive \notin Workers
  /\ Early \in Clients
  /\ Fds \subseteq Nat /\ Fds # {}
  /\ IsFiniteSet(Pool)
  /\ Kinds \subseteq {"connect", "subscribe", "publish", "ping"}

VARIABLES
  clock,          \* time(NULL)
  status, fd, last, ctx, reply,     \* the fields of each Client
  tracked,        \* the clients in db->clients
  subs,           \* the subscribers of the topic
  owner,          \* the client whose socket a descriptor is
  reg,            \* the epoll registration of a descriptor
  pc, cur,        \* each worker: where it stands, the Client it handles
  kpc, kcur, know, kval,            \* keepalive: place, entry, now, val
  counter,        \* the value of the eventfd config.run
  sig,            \* sigint_handler: the thread it runs on, tokens to write
  phase,          \* the process
  events,         \* how many seconds, connections and requests there were
  \* history
  busy,           \* clients closed while a worker held them
  spoke,          \* {kcur} if it was active since keepalive read the time
  received,       \* clients that were sent a message
  lost            \* tokens that woke no worker: "merged", "keepalive"

clientVars == <<status, fd, last, ctx, reply, tracked, subs>>
epollVars == <<owner, reg>>
keepVars == <<kpc, kcur, know, kval>>
sigVars == <<counter, sig, lost>>
histVars == <<busy, spoke, received>>
vars == <<clock, clientVars, epollVars, pc, cur, keepVars, sigVars, phase,
          events, histVars>>

NoReg == [client |-> None, ev |-> "off"]

\* Mutant: as many tokens as the pool has threads.
Tokens_PoolOnly == Cardinality(Pool)

Tokens == Cardinality(Pool) + 1

LowestFd == CHOOSE f \in Fds : \A g \in Fds : f <= g

\* val is not initialised: eventfd_read leaves it alone when the counter is 0.
Init ==
  /\ clock = 0
  /\ status = [c \in Clients |-> IF c = Early THEN "ONLINE" ELSE "new"]
  /\ fd = [c \in Clients |-> IF c = Early THEN LowestFd ELSE None]
  /\ last = [c \in Clients |-> 0]
  /\ ctx = [c \in Clients |-> "request"]
  /\ reply = [c \in Clients |-> "none"]
  /\ tracked = {} /\ subs = {}
  /\ owner = [f \in Fds |-> IF f = LowestFd THEN Early ELSE None]
  /\ reg = [f \in Fds |-> IF f = LowestFd
                          THEN [client |-> Early, ev |-> "in"] ELSE NoReg]
  /\ pc = [w \in Workers |-> "wait"]
  /\ cur = [w \in Workers |-> None]
  /\ kpc = "read" /\ kcur = None /\ know = 0 /\ kval \in {0, 1}
  /\ counter = 0
  /\ sig = [on |-> None, left |-> Tokens, hit |-> FALSE]
  /\ phase = "up"
  /\ events = 0
  /\ busy = {} /\ spoke = {} /\ received = {} /\ lost = {}

Alive == phase \in {"up", "released"}

\* A thread that runs the signal handler does nothing else.
Runs(t) == Alive /\ sig.on # t

\* Something outside the process happens.
Event ==
  /\ events < IF sig.on = None /\ sig.left = Tokens THEN MaxEvents ELSE SigEvents
  /\ events' = events + 1

Tick ==
  /\ Alive
  /\ Event
  /\ clock < MaxClock
  /\ clock' = clock + 1
  /\ UNCHANGED <<clientVars, epollVars, pc, cur, keepVars, sigVars, phase,
                 histVars>>

-----------------------------------------------------------------------------
(***************************************************************************)
(* worker(): accept, requests and replies.                                 *)
(***************************************************************************)
\* Mutant: both events registered whatever the caller asks for.
ModEpoll_BothEvents(f, ev, c) ==
  IF owner[f] = None THEN reg
  ELSE [reg EXCEPT ![f] = [client |-> c, ev |-> "in and out"]]

\* mod_epoll: an open descriptor gets the event and the Client, whoever
\* registered it; a closed one is an error nobody looks at.
ModEpoll(f, ev, c) ==
  IF owner[f] = None THEN reg
  ELSE [reg EXCEPT ![f] = [client |-> c, ev |-> ev]]

\* Mutant: the descriptors of the subscribers are registered again as well.
AwaitRequest_Subscribers(c) ==
  [f \in Fds |->
     IF owner[f] # None /\ \E s \in subs : fd[s] = f
     THEN [client |-> CHOOSE s \in subs : fd[s] = f, ev |-> "in"]
     ELSE ModEpoll(fd[c], "in", c)[f]]

AwaitRequest(c) == ModEpoll(fd[c], "in", c)

\* accept_handler; accept() takes the lowest free number.
Accept(w, c) ==
  /\ Runs(w)
  /\ pc[w] = "wait"
  /\ Event
  /\ status[c] = "new"
  /\ \E f \in Fds :
       /\ owner[f] = None
       /\ \A g \in Fds : owner[g] = None => f <= g
       /\ fd' = [fd EXCEPT ![c] = f]
       /\ owner' = [owner EXCEPT ![f] = c]
       /\ reg' = [reg EXCEPT ![f] = [client |-> c, ev |-> "in"]]
  /\ status' = [status EXCEPT ![c] = "ONLINE"]
  /\ last' = [last EXCEPT ![c] = clock]
  /\ UNCHANGED <<clock, ctx, reply, tracked, subs, pc, cur, keepVars, sigVars,
                 phase, histVars>>

\* epoll_wait hands out the Client a descriptor is registered with.
EpollWait(w, f) ==
  /\ Runs(w)
  /\ pc[w] = "wait"
  /\ \/ reg[f].ev = "in" /\ Event
     \/ reg[f].ev = "out" /\ UNCHANGED events
  /\ reg' = [reg EXCEPT ![f].ev = "off"]
  /\ pc' = [pc EXCEPT ![w] = "run"]
  /\ cur' = [cur EXCEPT ![w] = reg[f].client]
  /\ UNCHANGED <<clock, clientVars, owner, keepVars, sigVars, phase, histVars>>

Running(w, handler) == Runs(w) /\ pc[w] = "run" /\ ctx[cur[w]] = handler

Return(w) ==
  /\ pc' = [pc EXCEPT ![w] = "wait"]
  /\ cur' = [cur EXCEPT ![w] = None]

\* The handler has come to its mod_epoll.
ToRearm(w, l) == pc' = [pc EXCEPT ![w] = l] /\ UNCHANGED <<cur, reg>>

\* update_client_last_action
Refresh(S) ==
  /\ last' = [c \in Clients |-> IF c \in S THEN clock ELSE last[c]]
  /\ spoke' = IF kcur \in S THEN {kcur} ELSE spoke

\* request_handler; connect_handler adds the client to db->clients,
\* subscribe_handler to the topic.
RequestHandler(w, kind) ==
  LET c == cur[w]
  IN /\ Running(w, "request")
     /\ owner[fd[c]] # None
     /\ Refresh({c})
     /\ tracked' = IF kind = "connect" THEN tracked \cup {c} ELSE tracked
     /\ subs' = IF kind = "subscribe" THEN subs \cup {c} ELSE subs
     /\ ctx' = [ctx EXCEPT ![c] = "reply"]
     /\ reply' = [reply EXCEPT ![c] = kind]
     /\ ToRearm(w, "rearm_out")
     /\ UNCHANGED <<clock, status, fd, owner, keepVars, sigVars, phase, events,
                    busy, received>>

\* The descriptor was closed and given to another client, who sent nothing:
\* recv_packet gives NULL and the handler waits for more.
RequestNothing(w) ==
  LET c == cur[w]
  IN /\ Running(w, "request")
     /\ owner[fd[c]] \notin {None, c}
     /\ ToRearm(w, "rearm_in")
     /\ UNCHANGED <<clock, clientVars, owner, keepVars, sigVars, phase, events,
                    histVars>>

\* The descriptor was closed under the handler: recv fails, and what
\* recv_packet takes for a header is undefined.
RequestBadFd(w) ==
  /\ Running(w, "request")
  /\ owner[fd[cur[w]]] = None
  /\ \/ Return(w) /\ UNCHANGED phase
     \/ pc' = [pc EXCEPT ![w] = "spin"] /\ UNCHANGED <<cur, phase>>
     \/ phase' = "crashed" /\ UNCHANGED <<pc, cur>>
  /\ UNCHANGED <<clock, clientVars, epollVars, keepVars, sigVars, events,
                 histVars>>

\* Mutant: a message goes to every tracked client.
Targets_AllClients == tracked

\* The subscribers publish_message walks.
Targets == subs

\* reply_handler: whoever owns the descriptor gets what is sent to it.  A
\* retained message that follows a SUBACK counts as activity, the SUBACK does
\* not.
ReplyHandler(w) ==
  LET c == cur[w]
      targets == IF reply[c] = "publish" THEN Targets ELSE {}
  IN /\ Running(w, "reply")
     /\ received' = received \cup ({owner[fd[s]] : s \in targets} \ {None})
     /\ \/ reply[c] = "publish" /\ Refresh(targets \cup {c})
        \/ reply[c] # "publish" /\ Refresh({})
        \/ reply[c] = "subscribe" /\ Refresh({c})
     /\ reply' = [reply EXCEPT ![c] = "none"]
     /\ ctx' = [ctx EXCEPT ![c] = "request"]
     /\ ToRearm(w, "rearm_in")
     /\ UNCHANGED <<clock, status, fd, tracked, subs, owner, keepVars, sigVars,
                    phase, events, busy>>

\* mod_epoll at the end of a handler, after which the worker is free.
Rearm(w) ==
  LET c == cur[w]
  IN /\ Runs(w)
     /\ \/ pc[w] = "rearm_out" /\ reg' = ModEpoll(fd[c], "out", c)
        \/ pc[w] = "rearm_in" /\ reg' = AwaitRequest(c)
     /\ Return(w)
     /\ UNCHANGED <<clock, clientVars, owner, keepVars, sigVars, phase, events,
                    histVars>>

-----------------------------------------------------------------------------
(***************************************************************************)
(* The keepalive thread: hashmap_iterate2 with check_client_status.        *)
(***************************************************************************)
KeepOnly == UNCHANGED <<clock, ctx, reply, fd, last, subs, tracked, pc, cur,
                        sig, events, received>>

KRead ==
  /\ Runs(Keepalive)
  /\ kpc = "read"
  /\ kval' = IF counter > 0 THEN counter ELSE kval
  /\ counter' = 0
  /\ lost' = IF counter > 0 THEN lost \cup {"keepalive"} ELSE lost
  /\ kpc' = IF kval' = 1 THEN "ended" ELSE "next"
  /\ UNCHANGED <<status, epollVars, kcur, know, phase, busy, spoke>>
  /\ KeepOnly

Walking == Runs(Keepalive) /\ phase = "up"

\* The entries behind the one visited last, in the order of the table.
Behind(c) == IF c = None THEN tracked
             ELSE {d \in tracked : Slot[d] > Slot[c]}

WalkEnds == kpc' = "read" /\ kcur' = None /\ know' = 0 /\ spoke' = {}

\* The next entry in use and the time at which its callback starts.
KNext ==
  /\ Walking
  /\ kpc = "next"
  /\ \/ /\ Behind(kcur) = {}
        /\ WalkEnds
     \/ \E c \in Behind(kcur) :
          /\ \A d \in Behind(kcur) : Slot[c] <= Slot[d]
          /\ kcur' = c
          /\ know' = clock
          /\ spoke' = {}
          /\ kpc' = "check"
  /\ UNCHANGED <<status, epollVars, kval, counter, lost, phase, busy>>
  /\ KeepOnly

\* Mutant: a second too early.
Silent_Early(c) == (know - last[c] + 1) % Word >= K

\* Mutant: > in place of >=.
Silent_Late(c) == (know - last[c]) % Word > K

Silent(c) == (know - last[c]) % Word >= K

\* HASHMAP_ERR for a client that is alive, or closed already, ends the walk.
KCheck ==
  /\ Walking
  /\ kpc = "check"
  /\ IF status[kcur] = "ONLINE" /\ Silent(kcur)
     THEN kpc' = "close" /\ UNCHANGED <<kcur, know, spoke>>
     ELSE WalkEnds
  /\ UNCHANGED <<status, epollVars, kval, counter, lost, phase, busy>>
  /\ KeepOnly

\* shutdown, close: the registration goes with the descriptor.
KClose ==
  /\ Walking
  /\ kpc = "close"
  /\ owner' = [owner EXCEPT ![fd[kcur]] = None]
  /\ reg' = [reg EXCEPT ![fd[kcur]] = NoReg]
  /\ busy' = IF \E w \in Workers : cur[w] = kcur THEN busy \cup {kcur} ELSE busy
  /\ kpc' = "offline"
  /\ UNCHANGED <<status, kcur, know, kval, counter, lost, phase, spoke>>
  /\ KeepOnly

\* Mutant: the client stays ONLINE.
GoOffline_Not(c) == UNCHANGED status

GoOffline(c) == status' = [status EXCEPT ![c] = "OFFLINE"]

\* c->status = OFFLINE; HASHMAP_OK, so the walk goes on.
KOffline ==
  /\ Walking
  /\ kpc = "offline"
  /\ GoOffline(kcur)
  /\ kpc' = "next"
  /\ UNCHANGED <<epollVars, kcur, know, kval, counter, lost, phase, busy,
                 spoke>>
  /\ KeepOnly

\* A walk over the released table; nobody joins the thread.
KFreed ==
  /\ Runs(Keepalive)
  /\ kpc \in {"next", "check", "close", "offline"}
  /\ phase = "released"
  /\ phase' = "crashed"
  /\ UNCHANGED <<status, epollVars, keepVars, counter, lost, busy, spoke>>
  /\ KeepOnly

-----------------------------------------------------------------------------
(***************************************************************************)
(* Shutdown.  The handler of SIGINT and SIGTERM runs on any thread; a      *)
(* thread it takes out of epoll_wait gets EINTR there and leaves its loop. *)
(***************************************************************************)
Others == UNCHANGED <<clock, clientVars, epollVars, keepVars, events, histVars>>

SigDeliver(t) ==
  /\ Alive
  /\ sig.on = None
  /\ sig.left = Tokens
  /\ events <= SigEvents
  /\ IF t = Keepalive THEN kpc # "ended" ELSE pc[t] # "ended"
  /\ sig' = [sig EXCEPT !.on = t, !.hit = t \in Workers /\ pc[t] = "wait"]
  /\ UNCHANGED <<pc, cur, counter, lost, phase>>
  /\ Others

\* eventfd_write, once per token.
SigWrite ==
  /\ Alive
  /\ sig.on # None
  /\ sig.left > 0
  /\ sig' = [sig EXCEPT !.left = @ - 1]
  /\ counter' = counter + 1
  /\ lost' = IF counter > 0 THEN lost \cup {"merged"} ELSE lost
  /\ UNCHANGED <<pc, cur, phase>>
  /\ Others

SigReturn ==
  /\ Alive
  /\ sig.on # None
  /\ sig.left = 0
  /\ sig' = [sig EXCEPT !.on = None]
  /\ pc' = IF sig.hit THEN [pc EXCEPT ![sig.on] = "ended"] ELSE pc
  /\ UNCHANGED <<cur, counter, lost, phase>>
  /\ Others

\* The eventfd is registered level-triggered: any waiting worker may see it.
SeeQuit(w) ==
  /\ Runs(w)
  /\ pc[w] = "wait"
  /\ counter > 0
  /\ pc' = [pc EXCEPT ![w] = "quit"]
  /\ UNCHANGED <<cur, sigVars, phase>>
  /\ Others

\* The worker ends whether or not there was something left to read.
ReadQuit(w) ==
  /\ Runs(w)
  /\ pc[w] = "quit"
  /\ counter' = 0
  /\ pc' = [pc EXCEPT ![w] = "ended"]
  /\ UNCHANGED <<cur, sig, lost, phase>>
  /\ Others

\* Mutant: the bus thread is not joined.
Joined_PoolOnly == Pool \cup {Main}

\* The threads whose end start_server waits for, itself included.
Joined == Workers

\* The tables are released once all of them ended.
Release ==
  /\ Runs(Main)
  /\ phase = "up"
  /\ \A w \in Joined : pc[w] = "ended"
  /\ phase' = "released"
  /\ UNCHANGED <<pc, cur, sigVars>>
  /\ Others

\* main returns: the process and the keepalive thread end.
Exit ==
  /\ Runs(Main)
  /\ phase = "released"
  /\ phase' = "gone"
  /\ UNCHANGED <<pc, cur, sigVars>>
  /\ Others

-----------------------------------------------------------------------------
Handle(w) == \/ \E kind \in Kinds : RequestHandler(w, kind)
             \/ RequestNothing(w)
             \/ RequestBadFd(w)
             \/ ReplyHandler(w)
             \/ Rearm(w)
Quit(w) == SeeQuit(w) \/ ReadQuit(w)
KeepStep == KRead \/ KNext \/ KCheck \/ KClose \/ KOffline \/ KFreed
SigStep == SigWrite \/ SigReturn
MainStep == Release \/ Exit

Next ==
  \/ Tick
  \/ \E w \in Workers :
       \/ \E c \in Clients : Accept(w, c)
       \/ \E f \in Fds : EpollWait(w, f)
       \/ Handle(w)
       \/ Quit(w)
  \/ KeepStep
  \/ \E t \in Workers \cup {Keepalive} : SigDeliver(t)
  \/ SigStep
  \/ MainStep

Spec == Init /\ [][Next]_vars

(***************************************************************************)
(* Fairness: a thread that can go on is scheduled.  Clients need not speak *)
(* or connect, time need not pass and no signal need come.                 *)
(***************************************************************************)
FairSpec ==
  /\ Spec
  /\ \A w \in Pool \cup {Bus} : WF_vars(Handle(w) \/ Quit(w))
  /\ WF_vars(Handle(Main) \/ Quit(Main) \/ MainStep)
  /\ WF_vars(KeepStep)
  /\ WF_vars(SigStep)

-----------------------------------------------------------------------------
(* Every variable has the type of its C declaration.                       *)
TypeOK ==
  /\ clock \in 0..MaxClock
  /\ status \in [Clients -> {"new", "ONLINE", "OFFLINE"}]
  /\ fd \in [Clients -> Fds \cup {None}]
  /\ last \in [Clients -> 0..MaxClock]
  /\ ctx \in [Clients -> {"request", "reply"}]
  /\ reply \in [Clients -> Kinds \cup {"none"}]
  /\ tracked \subseteq Clients /\ subs \subseteq Clients
  /\ owner \in [Fds -> Clients \cup {None}]
  /\ reg \in [Fds -> [client : Clients \cup {None}, ev : {"in", "out", "off"}]]
  /\ pc \in [Workers -> {"wait", "run", "rearm_in", "rearm_out", "spin", "quit",
                      "ended"}]
  /\ cur \in [Workers -> Clients \cup {None}]
  /\ kpc \in {"read", "next", "check", "close", "offline", "ended"}
  /\ kcur \in Clients \cup {None}
  /\ know \in 0..MaxClock
  /\ kval \in 0..Tokens
  /\ counter \in 0..Tokens
  /\ sig \in [on : Workers \cup {Keepalive, None}, left : 0..Tokens,
              hit : BOOLEAN]
  /\ phase \in {"up", "released", "gone", "crashed"}

\* The clients whose descriptor keepalive closed.
Closed == {c \in Clients : status[c] = "OFFLINE"}
          \cup (IF kpc = "offline" THEN {kcur} ELSE {})

(* The number in the Client structure is the client's own socket as long   *)
(* as it is ONLINE, however often the kernel reuses numbers: keepalive     *)
(* never closes a descriptor that meanwhile belongs to somebody else.      *)
OnlineOwnsFd ==
  \A c \in Clients :
    status[c] = "ONLINE" /\ c \notin Closed => owner[fd[c]] = c

(* The registration of a descriptor leads to the Client of its owner,      *)
(* except after keepalive closed a client whose handler was running: that  *)
(* handler goes on to register its own Client for a number which may by    *)
(* then be another client's.                                               *)
RegistrationIsOwn ==
  \A f \in Fds :
    reg[f].client # None => reg[f].client \in {owner[f]} \cup busy

(* A message goes to subscribers only, with one exception: the number of a *)
(* subscriber that keepalive closed stays in the topic, and whoever        *)
(* connects next under that number receives the closed client's messages.  *)
MessagesReachSubscribers ==
  \A d \in received :
    d \in subs \/ \E s \in subs \cap Closed : fd[s] = fd[d]

(* Only a client that was silent for the keepalive period is closed, or    *)
(* one that became active after the thread had read the time: the unsigned *)
(* difference to a later timestamp is huge.                                *)
NoHastyClose ==
  [][\A c \in Clients :
       status[c] = "ONLINE" /\ status'[c] = "OFFLINE" =>
         clock - last[c] >= K \/ c \in spoke]_vars

(* Of the threads at work here keepalive alone brings the process down, in *)
(* two ways: it closed a client under a handler, which then reads from a   *)
(* number that is no socket; or it is in the middle of a walk, with every  *)
(* other thread ended, when start_server, which does not join it, releases *)
(* the table.  A handler of a client nobody closed under it never reads    *)
(* from a number that is no socket, and no handler is left at the crash of *)
(* a walk, whichever threads took the signal and the tokens.  (Each client *)
(* has one table entry and no message is retained; what else may happen to *)
(* memory is in Broker.)                                                   *)
OnlyKeepaliveKills ==
  phase = "crashed" =>
    \/ busy # {}
    \/ /\ kpc \in {"next", "check", "close", "offline"}
       /\ \A w \in Workers : pc[w] = "ended"

First(c) == c \in tracked /\ \A d \in tracked : Slot[c] <= Slot[d]

(* A client that is silent for the keepalive period is closed, or speaks   *)
(* again, if its entry is the first of the table: any other is hidden by a *)
(* client before it that is alive or was closed in an earlier walk.        *)
SilentClosed ==
  \A c \in Clients :
    (/\ status[c] = "ONLINE"
     /\ First(c)
     /\ clock - last[c] >= K)
    ~> \/ status[c] = "OFFLINE" \/ ~First(c) \/ clock - last[c] < K
       \/ kpc = "ended" \/ phase # "up"

(* The process ends after a signal that interrupted a waiting worker, if   *)
(* every token woke a worker: none was added to a counter nobody had read  *)
(* yet, none was taken by keepalive, and no handler was led astray.        *)
ShutdownCompletes ==
  (sig.hit /\ lost = {})
  ~> (phase # "up" \/ lost # {} \/ \E w \in Workers : pc[w] = "spin")
=============================================================================
