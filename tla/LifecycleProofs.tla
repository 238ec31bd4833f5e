--------------------------- MODULE LifecycleProofs ---------------------------
(***************************************************************************)
(* Proofs about keepalive, descriptor reuse and shutdown, for any number   *)
(* of clients, descriptors and threads and any keepalive period.           *)
(***************************************************************************)
EXTENDS Lifecycle, FiniteSetTheorems, WellFoundedInduction, TLAPS

\* A non-empty set of naturals has a least element.
LEMMA Least ==
  ASSUME NEW S, S \subseteq Nat, S # {}
  PROVE  \E x \in S : \A y \in S : x <= y
<1> DEFINE R == OpToRel(<, Nat)
<1>1. IsWellFoundedOn(R, Nat)
  BY NatLessThanWellFounded
<1>2. \A x, y \in Nat : x < y => <<x, y>> \in R
  BY DEF OpToRel
<1> HIDE DEF R
<1>3. PICK x \in S : \A y \in S : ~(<<y, x>> \in R)
  BY <1>1, WFMin, Zenon
<1>4. \A y \in S : ~(y < x)
  BY <1>2, <1>3
<1> QED BY <1>4

LEMMA LowestFdType == LowestFd \in Fds
<1>1. \E f \in Fds : \A g \in Fds : f <= g
  BY Least, NameAssumption
<1> QED BY <1>1 DEF LowestFd

LEMMA TokensType == Tokens \in Nat \ {0}
  BY NameAssumption, FS_CardinalityType DEF Tokens

-----------------------------------------------------------------------------
\* The client's socket is open: keepalive has not closed it.
Open(c) == status[c] = "ONLINE" /\ ~(kpc = "offline" /\ kcur = c)

\* A thread writes no more tokens than it set out to.
Budget == counter + sig.left <= Tokens

\* Where a worker stands, and where it works on a Client.
Places == {"wait", "run", "rearm_in", "rearm_out", "spin", "quit", "ended"}
Handling == {"run", "rearm_in", "rearm_out"}

\* The tables are released when no worker is left.
EndedFirst ==
  phase \in {"released", "gone"} => \A w \in Workers : pc[w] = "ended"

\* What has an event is a Client, and so is what a handler works on.
HandledIsClient ==
  /\ \A f \in Fds : reg[f].ev # "off" => reg[f].client \in Clients
  /\ \A w \in Workers : pc[w] \in Handling => cur[w] \in Clients

\* A number is the number of the one client whose socket it is.
OwnersMatch ==
  /\ \A c \in Clients : Open(c) => fd[c] \in Fds /\ owner[fd[c]] = c
  /\ \A f \in Fds : owner[f] # None =>
       Open(owner[f]) /\ fd[owner[f]] = f

\* Nothing refers to a client that was not accepted yet.
AcceptedFirst ==
  /\ received \subseteq Clients
  /\ \A c \in Clients :
       IF status[c] = "new"
       THEN /\ c \notin tracked \cup subs \cup received
            /\ c # kcur
            /\ \A w \in Workers : cur[w] # c
            /\ \A f \in Fds : reg[f].client # c
       ELSE fd[c] \in Fds

\* A handler outlives its client's socket only if the client is in busy.
HeldOpen ==
  \A w \in Workers : cur[w] # None => Open(cur[w]) \/ cur[w] \in busy

\* What keepalive knows of the entry it visits.
Visiting ==
  /\ kpc \in {"check", "close", "offline"} => kcur \in Clients
  /\ kpc \in {"close", "offline"} => status[kcur] = "ONLINE"

\* What keepalive knows of the time.
Timing ==
  /\ know <= clock
  /\ \A c \in Clients : last[c] <= clock
  /\ kpc = "check" => last[kcur] <= know \/ kcur \in spoke
  /\ kpc \in {"close", "offline"} => clock - last[kcur] >= K \/ kcur \in spoke

LifeInv ==
  /\ TypeOK /\ Budget /\ HandledIsClient
  /\ OwnersMatch /\ AcceptedFirst /\ HeldOpen /\ Visiting /\ Timing
  /\ RegistrationIsOwn
  /\ MessagesReachSubscribers
  /\ EndedFirst /\ OnlyKeepaliveKills

LEMMA LifeInit == Init => LifeInv
<1> SUFFICES ASSUME Init PROVE LifeInv
  OBVIOUS
<1> USE LowestFdType, TokensType, NameAssumption, TimeAssumption
<1>1. TypeOK
  BY DEF Init, TypeOK, NoReg
<1>2. Budget /\ HandledIsClient
  BY DEF Init, Budget, HandledIsClient, Handling, NoReg
<1>3. OwnersMatch /\ AcceptedFirst /\ HeldOpen
  BY DEF Init, OwnersMatch, AcceptedFirst, HeldOpen, Open, NoReg
<1>4. Visiting /\ Timing
  BY DEF Init, Visiting, Timing
<1>5. /\ RegistrationIsOwn /\ MessagesReachSubscribers
      /\ EndedFirst /\ OnlyKeepaliveKills
  BY DEF Init, RegistrationIsOwn, MessagesReachSubscribers, EndedFirst,
     OnlyKeepaliveKills, NoReg
<1> QED BY <1>1, <1>2, <1>3, <1>4, <1>5 DEF LifeInv

-----------------------------------------------------------------------------
\* Steps of the signal handler, of workers that end and of main.
LEMMA ShutdownStep ==
  ASSUME LifeInv,
         \/ \E t \in Workers \cup {Keepalive} : SigDeliver(t)
         \/ SigStep \/ MainStep
         \/ \E w \in Workers : Quit(w)
  PROVE  LifeInv'
<1> USE DEF LifeInv, Others, clientVars, epollVars, keepVars, histVars, sigVars
<1>1. /\ UNCHANGED <<clock, clientVars, epollVars, cur, keepVars, histVars>>
  BY DEF SigDeliver, SigStep, SigWrite, SigReturn, MainStep, Release, Exit,
     Quit, SeeQuit, ReadQuit
<1>2. /\ pc' \in [Workers -> Places]
      /\ \A w \in Workers : pc'[w] \in Handling => pc'[w] = pc[w]
      /\ phase' \in {"released", "gone"} => \A w \in Workers : pc'[w] = "ended"
      /\ phase' \in {"up", "released", "gone"}
  <2>1. \/ UNCHANGED pc
        \/ \E w \in Workers \cup {Keepalive, None}, l \in {"quit", "ended"} :
             /\ pc' = [pc EXCEPT ![w] = l]
             /\ l = "ended" \/ pc[w] = "wait"
    BY DEF SigDeliver, SigStep, SigWrite, SigReturn, MainStep, Release, Exit,
       Quit, SeeQuit, ReadQuit, TypeOK
  <2>2. \/ Alive /\ UNCHANGED phase
        \/ /\ phase' \in {"released", "gone"}
           /\ UNCHANGED pc
           /\ \A w \in Workers : pc[w] = "ended"
    BY DEF SigDeliver, SigStep, SigWrite, SigReturn, MainStep, Release, Exit,
       Quit, SeeQuit, ReadQuit, Runs, Joined, EndedFirst
  <2> QED BY <2>1, <2>2, NameAssumption
          DEF TypeOK, EndedFirst, Alive, Places, Handling
<1>3. /\ counter' \in 0..Tokens
      /\ sig' \in [on : Workers \cup {Keepalive, None}, left : 0..Tokens,
                   hit : BOOLEAN]
      /\ counter' + sig'.left <= Tokens
  <2>1. /\ counter \in 0..Tokens /\ sig.left \in 0..Tokens
        /\ counter + sig.left <= Tokens
        /\ sig \in [on : Workers \cup {Keepalive, None}, left : 0..Tokens,
                    hit : BOOLEAN]
    BY DEF TypeOK, Budget
  <2>2. CASE \E t \in Workers \cup {Keepalive} : SigDeliver(t)
    <3>1. PICK t \in Workers \cup {Keepalive}, h \in BOOLEAN :
            sig' = [sig EXCEPT !.on = t, !.hit = h] /\ UNCHANGED counter
      BY <2>2 DEF SigDeliver
    <3> QED BY <2>1, <3>1
  <2>3. CASE SigWrite
    BY <2>1, <2>3, TokensType DEF SigWrite
  <2>4. CASE SigReturn
    BY <2>1, <2>4 DEF SigReturn
  <2>5. CASE MainStep \/ \E w \in Workers : Quit(w)
    <3>1. UNCHANGED sig /\ (UNCHANGED counter \/ counter' = 0)
      BY <2>5 DEF MainStep, Release, Exit, Quit, SeeQuit, ReadQuit
    <3> QED BY <2>1, <3>1, TokensType
  <2> QED BY <2>2, <2>3, <2>4, <2>5 DEF SigStep
<1>4. TypeOK' /\ Budget' /\ EndedFirst' /\ OnlyKeepaliveKills'
  BY <1>1, <1>2, <1>3
  DEF TypeOK, Places, Budget, EndedFirst, OnlyKeepaliveKills
<1>5. HandledIsClient'
  BY <1>1, <1>2 DEF HandledIsClient, TypeOK
<1>6. OwnersMatch' /\ AcceptedFirst' /\ HeldOpen' /\ Visiting' /\ Timing'
  BY <1>1 DEF OwnersMatch, AcceptedFirst, HeldOpen, Visiting, Timing, Open
<1>7. RegistrationIsOwn' /\ MessagesReachSubscribers'
  BY <1>1 DEF RegistrationIsOwn, MessagesReachSubscribers, Closed
<1> QED BY <1>4, <1>5, <1>6, <1>7

LEMMA TickStep == ASSUME LifeInv, Tick PROVE LifeInv'
<1> USE DEF LifeInv, clientVars, epollVars, keepVars, histVars, sigVars
<1>1. /\ Alive /\ clock < MaxClock /\ clock' = clock + 1
      /\ UNCHANGED <<clientVars, epollVars, pc, cur, keepVars, sigVars, phase,
                     histVars>>
  BY DEF Tick
<1>2. clock \in Nat /\ MaxClock \in Nat /\ K \in Nat
  BY TimeAssumption DEF TypeOK
<1>3. TypeOK'
  BY <1>1, <1>2 DEF TypeOK
<1>4. Timing'
  <2>1. know \in Nat /\ \A c \in Clients : last[c] \in Nat
    BY <1>2 DEF TypeOK
  <2>2. kpc \in {"check", "close", "offline"} => kcur \in Clients
    BY DEF Visiting
  <2> QED BY <1>1, <1>2, <2>1, <2>2 DEF Timing
<1>5. /\ Budget' /\ HandledIsClient' /\ OwnersMatch' /\ AcceptedFirst'
      /\ HeldOpen' /\ Visiting' /\ RegistrationIsOwn'
      /\ MessagesReachSubscribers' /\ EndedFirst' /\ OnlyKeepaliveKills'
  BY <1>1 DEF Budget, HandledIsClient, OwnersMatch, AcceptedFirst, HeldOpen,
     Visiting, RegistrationIsOwn, MessagesReachSubscribers, EndedFirst,
     OnlyKeepaliveKills, Open, Closed
<1> QED BY <1>3, <1>4, <1>5

LEMMA AcceptStep ==
  ASSUME LifeInv, NEW w \in Workers, NEW c \in Clients, Accept(w, c)
  PROVE  LifeInv'
<1> USE DEF LifeInv, clientVars, epollVars, keepVars, histVars, sigVars
<1>1. PICK f \in Fds :
        /\ owner[f] = None
        /\ fd' = [fd EXCEPT ![c] = f]
        /\ owner' = [owner EXCEPT ![f] = c]
        /\ reg' = [reg EXCEPT ![f] = [client |-> c, ev |-> "in"]]
  BY DEF Accept
<1>2. /\ Alive /\ pc[w] = "wait" /\ status[c] = "new"
      /\ status' = [status EXCEPT ![c] = "ONLINE"]
      /\ last' = [last EXCEPT ![c] = clock]
      /\ UNCHANGED <<clock, ctx, reply, tracked, subs, pc, cur, keepVars,
                     sigVars, phase, histVars>>
  BY DEF Accept, Runs
<1>3. /\ c # kcur /\ c \notin tracked \cup subs \cup received
      /\ \A v \in Workers : cur[v] # c
      /\ \A g \in Fds : reg[g].client # c /\ owner[g] # c
  BY <1>2, NameAssumption DEF AcceptedFirst, OwnersMatch, Open
<1>4. TypeOK'
  <2>1. reg' \in [Fds -> [client : Clients \cup {None}, ev : {"in", "out", "off"}]]
    BY <1>1 DEF TypeOK
  <2> QED BY <1>1, <1>2, <2>1 DEF TypeOK
<1>5. Budget' /\ EndedFirst' /\ OnlyKeepaliveKills'
  BY <1>2 DEF Budget, EndedFirst, OnlyKeepaliveKills, Alive
<1>6. HandledIsClient'
  BY <1>1, <1>2 DEF HandledIsClient, TypeOK
<1>7. /\ \A d \in Clients : d # c => status'[d] = status[d] /\ fd'[d] = fd[d]
      /\ \A g \in Fds : g # f => owner'[g] = owner[g] /\ reg'[g] = reg[g]
      /\ status'[c] = "ONLINE" /\ fd'[c] = f
      /\ owner'[f] = c /\ reg'[f].client = c
  BY <1>1, <1>2 DEF TypeOK
<1>8. OwnersMatch'
  <2>1. ASSUME NEW d \in Clients, Open(d)'
        PROVE  fd'[d] \in Fds /\ owner'[fd'[d]] = d
    BY <1>1, <1>2, <1>3, <1>7, <2>1, NameAssumption DEF OwnersMatch, Open
  <2>2. ASSUME NEW g \in Fds, owner'[g] # None
        PROVE  Open(owner[g])' /\ fd'[owner'[g]] = g
    BY <1>1, <1>2, <1>3, <1>7, <2>2, NameAssumption
    DEF OwnersMatch, Open, TypeOK
  <2> QED BY <2>1, <2>2 DEF OwnersMatch
<1>9. AcceptedFirst'
  BY <1>2, <1>3, <1>7 DEF AcceptedFirst
<1>10. HeldOpen'
  BY <1>2, <1>3, <1>7 DEF HeldOpen, Open, TypeOK
<1>11. Visiting'
  BY <1>2, <1>3, <1>7 DEF Visiting
<1>12. Timing'
  <2>1. clock \in Nat
    BY DEF TypeOK
  <2> QED BY <1>2, <1>3, <2>1 DEF Timing, Visiting, TypeOK
<1>13. RegistrationIsOwn'
  BY <1>1, <1>2, <1>7 DEF RegistrationIsOwn
<1>14. MessagesReachSubscribers'
  <2>1. \A d \in Clients : d \in Closed => d \in Closed' /\ d # c
    BY <1>2, <1>3, <1>7 DEF Closed
  <2>2. Closed \subseteq Clients
    BY DEF Closed, Visiting
  <2> QED BY <1>2, <1>3, <1>7, <2>1, <2>2
          DEF MessagesReachSubscribers, AcceptedFirst, TypeOK
<1> QED BY <1>4, <1>5, <1>6, <1>8, <1>9, <1>10, <1>11, <1>12, <1>13, <1>14

LEMMA EpollStep ==
  ASSUME LifeInv, NEW w \in Workers, NEW f \in Fds, EpollWait(w, f)
  PROVE  LifeInv'
<1> USE DEF LifeInv, clientVars, epollVars, keepVars, histVars, sigVars
<1>1. /\ Alive /\ pc[w] = "wait" /\ reg[f].ev # "off"
      /\ reg' = [reg EXCEPT ![f].ev = "off"]
      /\ pc' = [pc EXCEPT ![w] = "run"]
      /\ cur' = [cur EXCEPT ![w] = reg[f].client]
      /\ UNCHANGED <<clock, clientVars, owner, keepVars, sigVars, phase,
                     histVars>>
  BY DEF EpollWait, Runs
<1>2. /\ \A g \in Fds : reg'[g].client = reg[g].client
      /\ \A g \in Fds : reg'[g].ev = IF g = f THEN "off" ELSE reg[g].ev
      /\ \A v \in Workers : v # w => cur'[v] = cur[v] /\ pc'[v] = pc[v]
      /\ cur'[w] = reg[f].client /\ pc'[w] = "run"
  BY <1>1 DEF TypeOK
<1>3. reg[f].client \in Clients
  BY <1>1 DEF HandledIsClient
<1>4. TypeOK'
  BY <1>1, <1>3 DEF TypeOK
<1>5. Budget' /\ OwnersMatch' /\ Visiting' /\ Timing'
  BY <1>1 DEF Budget, OwnersMatch, Visiting, Timing, Open
<1>6. EndedFirst' /\ OnlyKeepaliveKills'
  BY <1>1 DEF EndedFirst, OnlyKeepaliveKills, Alive
<1>7. HandledIsClient' /\ AcceptedFirst'
  BY <1>1, <1>2, <1>3 DEF HandledIsClient, AcceptedFirst
<1>8. HeldOpen'
  <2>1. reg[f].client \in busy \/ Open(reg[f].client)
    BY <1>3, NameAssumption DEF RegistrationIsOwn, OwnersMatch
  <2> QED BY <1>1, <1>2, <2>1 DEF HeldOpen, Open
<1>9. RegistrationIsOwn'
  BY <1>1, <1>2 DEF RegistrationIsOwn
<1>10. MessagesReachSubscribers'
  BY <1>1 DEF MessagesReachSubscribers, Closed
<1> QED BY <1>4, <1>5, <1>6, <1>7, <1>8, <1>9, <1>10

-----------------------------------------------------------------------------
\* mod_epoll for a client that is open or was closed under its handler.
LEMMA RegSet ==
  ASSUME LifeInv, NEW c \in Clients, NEW ev \in {"in", "out"},
         Open(c) \/ c \in busy, reg' = ModEpoll(fd[c], ev, c),
         UNCHANGED <<owner, busy>>
  PROVE  /\ reg' \in [Fds -> [client : Clients \cup {None},
                              ev : {"in", "out", "off"}]]
         /\ \A f \in Fds : reg'[f].client \in {reg[f].client, c}
         /\ \A f \in Fds : reg'[f].ev # "off" => reg'[f].client \in Clients
         /\ RegistrationIsOwn'
<1>1. CASE reg' = reg
  BY <1>1 DEF LifeInv, TypeOK, HandledIsClient, RegistrationIsOwn
<1>2. CASE /\ owner[fd[c]] # None
           /\ reg' = [reg EXCEPT ![fd[c]] = [client |-> c, ev |-> ev]]
  <2>1. Open(c) => owner[fd[c]] = c
    BY DEF LifeInv, OwnersMatch
  <2>2. \A f \in Fds : \/ reg'[f] = reg[f]
                       \/ f = fd[c] /\ reg'[f] = [client |-> c, ev |-> ev]
    BY <1>2 DEF LifeInv, TypeOK
  <2>3. reg' \in [Fds -> [client : Clients \cup {None},
                          ev : {"in", "out", "off"}]]
    <3> DEFINE r == [client |-> c, ev |-> ev]
    <3>1. r \in [client : Clients \cup {None}, ev : {"in", "out", "off"}]
      OBVIOUS
    <3> HIDE DEF r
    <3>2. reg' = [reg EXCEPT ![fd[c]] = r]
      BY <1>2 DEF r
    <3> QED BY <3>1, <3>2 DEF LifeInv, TypeOK
  <2>4. RegistrationIsOwn'
    BY <2>1, <2>2 DEF LifeInv, RegistrationIsOwn
  <2> QED BY <2>2, <2>3, <2>4 DEF LifeInv, HandledIsClient
<1> QED BY <1>1, <1>2 DEF ModEpoll

\* What a handler does, whichever it is.
LEMMA HandleShape ==
  ASSUME LifeInv, NEW w \in Workers, Handle(w)
  PROVE  /\ pc[w] \in Handling /\ Alive
         /\ \/ /\ pc' = [pc EXCEPT ![w] = "wait"]
               /\ cur' = [cur EXCEPT ![w] = None]
               /\ UNCHANGED phase
            \/ /\ \E l \in {"rearm_in", "rearm_out", "spin"} :
                    pc' = [pc EXCEPT ![w] = l]
               /\ UNCHANGED <<cur, phase>>
            \/ /\ phase' = "crashed" /\ owner[fd[cur[w]]] = None
               /\ UNCHANGED <<pc, cur>>
         /\ \/ UNCHANGED reg
            \/ \E ev \in {"in", "out"} :
                 reg' = ModEpoll(fd[cur[w]], ev, cur[w])
         /\ \/ UNCHANGED <<last, spoke>>
            \/ \E S \in SUBSET Clients : Refresh(S)
         /\ tracked' \in {tracked, tracked \cup {cur[w]}}
         /\ subs' \in {subs, subs \cup {cur[w]}}
         /\ \/ UNCHANGED received
            \/ /\ UNCHANGED subs
               /\ \A d \in received' :
                    \/ d \in received
                    \/ d # None /\ \E s \in subs : d = owner[fd[s]]
         /\ \/ UNCHANGED ctx
            \/ \E h \in {"request", "reply"} :
                 ctx' = [ctx EXCEPT ![cur[w]] = h]
         /\ \/ UNCHANGED reply
            \/ \E k \in Kinds \cup {"none"} :
                 reply' = [reply EXCEPT ![cur[w]] = k]
         /\ UNCHANGED <<clock, status, fd, owner, keepVars, sigVars, busy>>
<1> USE DEF clientVars, epollVars, keepVars, histVars, sigVars, Handling
<1>0. pc[w] \in Handling => cur[w] \in Clients
  BY DEF LifeInv, HandledIsClient
<1>1. CASE \E kind \in Kinds : RequestHandler(w, kind)
  <2>1. {cur[w]} \in SUBSET Clients
    BY <1>0, <1>1 DEF RequestHandler, Running
  <2> QED BY <1>1, <2>1 DEF RequestHandler, Running, Runs, ToRearm
<1>2. CASE RequestNothing(w)
  BY <1>2 DEF RequestNothing, Running, Runs, ToRearm
<1>3. CASE RequestBadFd(w)
  BY <1>3 DEF RequestBadFd, Running, Runs, Return
<1>4. CASE ReplyHandler(w)
  <2>1. PICK S \in SUBSET Clients : Refresh(S)
    <3>1. cur[w] \in Clients /\ Targets \subseteq Clients
      BY <1>0, <1>4 DEF ReplyHandler, Running, Targets, LifeInv, TypeOK
    <3> QED BY <1>4, <3>1 DEF ReplyHandler
  <2>2. /\ UNCHANGED subs
        /\ \A d \in received' :
             \/ d \in received
             \/ d # None /\ \E s \in subs : d = owner[fd[s]]
    BY <1>4 DEF ReplyHandler, Targets
  <2> QED BY <1>4, <2>1, <2>2
          DEF ReplyHandler, Running, Runs, ToRearm
<1>5. CASE Rearm(w)
  BY <1>5 DEF Rearm, Runs, Return, AwaitRequest
<1> QED BY <1>1, <1>2, <1>3, <1>4, <1>5 DEF Handle

LEMMA HandleStep ==
  ASSUME LifeInv, NEW w \in Workers, Handle(w) PROVE LifeInv'
<1> USE DEF keepVars, sigVars
<1>0. /\ TypeOK /\ Budget /\ HandledIsClient /\ OwnersMatch /\ AcceptedFirst
      /\ HeldOpen /\ Visiting /\ Timing /\ RegistrationIsOwn
      /\ MessagesReachSubscribers /\ EndedFirst /\ OnlyKeepaliveKills
  BY DEF LifeInv
<1>1. PICK c \in Clients : c = cur[w]
  BY <1>0, HandleShape DEF HandledIsClient
<1>2. /\ pc[w] \in Handling /\ Alive
      /\ UNCHANGED <<clock, status, fd, owner, keepVars, sigVars, busy>>
      /\ tracked' \in {tracked, tracked \cup {c}}
      /\ subs' \in {subs, subs \cup {c}}
  BY <1>1, HandleShape
<1>3. Open(c) \/ c \in busy
  BY <1>0, <1>1, NameAssumption DEF HeldOpen
<1>4. /\ reg' \in [Fds -> [client : Clients \cup {None},
                           ev : {"in", "out", "off"}]]
      /\ \A f \in Fds : reg'[f].client \in {reg[f].client, c}
      /\ \A f \in Fds : reg'[f].ev # "off" => reg'[f].client \in Clients
      /\ RegistrationIsOwn'
  <2>1. CASE UNCHANGED reg
    BY <1>0, <1>2, <2>1 DEF TypeOK, HandledIsClient, RegistrationIsOwn
  <2>2. CASE \E ev \in {"in", "out"} : reg' = ModEpoll(fd[c], ev, c)
    BY <1>2, <1>3, <2>2, RegSet
  <2> QED BY <1>1, <2>1, <2>2, HandleShape
<1>5. /\ cur' \in [Workers -> Clients \cup {None}]
      /\ pc' \in [Workers -> Places]
      /\ phase' = phase \/ (phase' = "crashed" /\ owner[fd[c]] = None)
      /\ \A v \in Workers : cur'[v] \in {cur[v], None}
      /\ \A v \in Workers :
           pc'[v] \in Handling => cur'[v] = cur[v] /\ pc[v] \in Handling
  <2>1. /\ pc \in [Workers -> Places] /\ pc[w] \in Handling
        /\ cur \in [Workers -> Clients \cup {None}]
    BY <1>0, <1>2 DEF TypeOK, Places
  <2>2. CASE /\ pc' = [pc EXCEPT ![w] = "wait"]
             /\ cur' = [cur EXCEPT ![w] = None]
             /\ UNCHANGED phase
    <3>1. /\ pc' \in [Workers -> Places]
          /\ cur' \in [Workers -> Clients \cup {None}]
      BY <2>1, <2>2 DEF Places
    <3>2. \A v \in Workers : /\ v # w => pc'[v] = pc[v] /\ cur'[v] = cur[v]
                             /\ v = w => pc'[v] = "wait" /\ cur'[v] = None
      BY <2>1, <2>2
    <3> QED BY <2>2, <3>1, <3>2 DEF Handling
  <2>3. CASE /\ \E l \in {"rearm_in", "rearm_out", "spin"} :
                  pc' = [pc EXCEPT ![w] = l]
             /\ UNCHANGED <<cur, phase>>
    <3>1. pc' \in [Workers -> Places]
      BY <2>1, <2>3 DEF Places
    <3>2. \A v \in Workers : v # w => pc'[v] = pc[v]
      BY <2>1, <2>3
    <3> QED BY <2>1, <2>3, <3>1, <3>2
  <2>4. CASE /\ phase' = "crashed" /\ owner[fd[c]] = None
             /\ UNCHANGED <<pc, cur>>
    BY <2>1, <2>4
  <2> QED BY <1>1, <2>2, <2>3, <2>4, HandleShape
<1>6. /\ ctx' \in [Clients -> {"request", "reply"}]
      /\ reply' \in [Clients -> Kinds \cup {"none"}]
  BY <1>0, HandleShape DEF TypeOK
<1>7. last' \in [Clients -> 0..MaxClock] /\ Timing'
  <2>1. CASE UNCHANGED <<last, spoke>>
    BY <1>0, <1>2, <2>1 DEF TypeOK, Timing
  <2>2. ASSUME NEW S \in SUBSET Clients, Refresh(S)
        PROVE  last' \in [Clients -> 0..MaxClock] /\ Timing'
    <3>1. last' \in [Clients -> 0..MaxClock]
      BY <1>0, <2>2 DEF Refresh, TypeOK
    <3>2. /\ \A d \in Clients : last'[d] = IF d \in S THEN clock ELSE last[d]
          /\ spoke' = IF kcur \in S THEN {kcur} ELSE spoke
      BY <2>2 DEF Refresh
    <3>3. clock \in Nat
      BY <1>0 DEF TypeOK
    <3> QED BY <1>0, <1>2, <3>1, <3>2, <3>3 DEF Timing, Visiting
  <2> QED BY <2>1, <2>2, HandleShape
<1>8. TypeOK'
  BY <1>0, <1>2, <1>4, <1>5, <1>6, <1>7 DEF TypeOK, Places
<1>9. Budget' /\ OwnersMatch' /\ Visiting'
  BY <1>0, <1>2 DEF Budget, OwnersMatch, Open, Visiting
<1>10. HandledIsClient'
  BY <1>0, <1>4, <1>5 DEF HandledIsClient
<1>11. HeldOpen'
  BY <1>0, <1>2, <1>5 DEF HeldOpen, Open
<1>12. status[c] # "new"
  BY <1>0, <1>1 DEF AcceptedFirst
<1>13. ASSUME NEW d \in received', d \notin received
       PROVE  \E s \in subs : d = owner[fd[s]] /\ d \in Clients /\ fd[s] \in Fds
  <2>1. PICK s \in subs : d = owner[fd[s]] /\ d # None
    BY <1>13, HandleShape
  <2>2. s \in Clients /\ status[s] # "new"
    BY <1>0, <2>1 DEF AcceptedFirst, TypeOK
  <2>3. fd[s] \in Fds
    BY <1>0, <2>2 DEF AcceptedFirst
  <2> QED BY <1>0, <2>1, <2>3 DEF TypeOK
<1>14. AcceptedFirst'
  <2>1. \A d \in received' : d \in Clients /\ status[d] # "new"
    <3> TAKE d \in received'
    <3>1. CASE d \in received
      BY <1>0, <3>1 DEF AcceptedFirst
    <3>2. CASE d \notin received
      <4>1. PICK s \in subs :
              d = owner[fd[s]] /\ d \in Clients /\ fd[s] \in Fds
        BY <1>13, <3>2
      <4>2. Open(d)
        BY <1>0, <4>1, NameAssumption DEF OwnersMatch
      <4> QED BY <4>1, <4>2 DEF Open
    <3> QED BY <3>1, <3>2
  <2> QED BY <1>0, <1>2, <1>4, <1>5, <1>12, <2>1, NameAssumption
          DEF AcceptedFirst
<1>15. MessagesReachSubscribers'
  <2>1. Closed' = Closed /\ subs \subseteq subs' /\ UNCHANGED fd
    BY <1>2 DEF Closed
  <2>2. ASSUME NEW d \in received'
        PROVE  d \in subs \/ \E s \in subs \cap Closed : fd[s] = fd[d]
    <3>1. CASE d \in received
      BY <1>0, <3>1 DEF MessagesReachSubscribers
    <3>2. CASE d \notin received
      <4>1. PICK s \in subs : d = owner[fd[s]] /\ d \in Clients /\ fd[s] \in Fds
        BY <1>13, <3>2
      <4>a. s \in Clients /\ status[s] # "new"
        BY <1>0, <4>1 DEF AcceptedFirst, TypeOK
      <4>b. fd[d] = fd[s]
        BY <1>0, <4>1, NameAssumption DEF OwnersMatch
      <4>2. s \in Clients /\ status[s] # "new" /\ fd[d] = fd[s]
        BY <4>a, <4>b
      <4>3. Open(s) => s = d
        BY <1>0, <4>1, <4>2 DEF OwnersMatch
      <4>4. Open(s) \/ s \in Closed
        BY <1>0, <4>2 DEF Open, Closed, TypeOK
      <4> QED BY <4>1, <4>2, <4>3, <4>4
    <3> QED BY <3>1, <3>2
  <2> QED BY <2>1, <2>2 DEF MessagesReachSubscribers
<1>16. EndedFirst'
  <2>1. phase = "up"
    BY <1>0, <1>2 DEF Alive, EndedFirst, Handling
  <2> QED BY <1>5, <2>1 DEF EndedFirst
<1>17. OnlyKeepaliveKills'
  <2>1. owner[fd[c]] = None => c \in busy
    BY <1>0, <1>3, NameAssumption DEF OwnersMatch
  <2> QED BY <1>2, <1>5, <2>1 DEF OnlyKeepaliveKills, Alive
<1> QED BY <1>4, <1>7, <1>8, <1>9, <1>10, <1>11, <1>14, <1>15, <1>16, <1>17
        DEF LifeInv

-----------------------------------------------------------------------------
\* What is common to the steps of the keepalive thread.
LEMMA KeepQuiet ==
  ASSUME LifeInv, KeepOnly, UNCHANGED <<status, epollVars, busy>>,
         Alive, UNCHANGED phase,
         counter' \in {0, counter}, kval' \in 0..Tokens,
         kpc' \in {"read", "next", "check", "close", "ended"},
         kpc # "offline",
         kcur' \in tracked \cup {kcur, None}, know' \in 0..MaxClock,
         Visiting', Timing'
  PROVE  LifeInv'
<1> USE DEF LifeInv, KeepOnly, epollVars
<1>1. TypeOK' /\ Budget'
  BY TokensType DEF TypeOK, Budget
<1>2. /\ HandledIsClient' /\ EndedFirst' /\ RegistrationIsOwn'
      /\ OnlyKeepaliveKills'
  BY DEF HandledIsClient, EndedFirst, RegistrationIsOwn, OnlyKeepaliveKills,
     Alive
<1>3. \A c \in Clients : Open(c)' <=> Open(c)
  BY DEF Open
<1>4. OwnersMatch' /\ HeldOpen'
  BY <1>3 DEF OwnersMatch, HeldOpen, TypeOK
<1>5. AcceptedFirst'
  BY NameAssumption DEF AcceptedFirst
<1>6. MessagesReachSubscribers'
  BY DEF MessagesReachSubscribers, Closed
<1> QED BY <1>1, <1>2, <1>4, <1>5, <1>6

LEMMA ModuloSmall ==
  ASSUME NEW a \in Nat, NEW b \in Nat, a < b PROVE a % b = a
  OBVIOUS

LEMMA KeepWalks ==
  ASSUME LifeInv, KRead \/ KNext \/ KCheck \/ KFreed PROVE LifeInv'
<1> USE DEF keepVars
<1>0. /\ TypeOK /\ Visiting /\ Timing /\ tracked \subseteq Clients
      /\ Tokens \in Nat /\ clock \in 0..MaxClock /\ MaxClock \in Nat
      /\ K \in Nat /\ Word \in Nat /\ MaxClock < Word
  BY TokensType, TimeAssumption DEF LifeInv, TypeOK
<1>1. CASE KRead
  <2>1. /\ Alive /\ kpc = "read" /\ kpc' \in {"ended", "next"}
        /\ counter' \in {0, counter} /\ kval' \in 0..Tokens
        /\ UNCHANGED <<status, epollVars, kcur, know, phase, busy, spoke>>
        /\ KeepOnly
    BY <1>0, <1>1 DEF KRead, Runs, TypeOK
  <2>2. Visiting' /\ Timing'
    BY <1>0, <2>1 DEF Visiting, Timing, KeepOnly
  <2> QED BY <1>0, <2>1, <2>2, KeepQuiet DEF TypeOK
<1>2. CASE KNext
  <2>1. /\ Alive /\ kpc = "next"
        /\ UNCHANGED <<status, epollVars, kval, counter, phase, busy>>
        /\ KeepOnly
    BY <1>2 DEF KNext, Walking, Runs
  <2>2. CASE WalkEnds
    BY <1>0, <2>1, <2>2, KeepQuiet
    DEF WalkEnds, Visiting, Timing, KeepOnly, TypeOK
  <2>3. CASE \E c \in Behind(kcur) :
               kcur' = c /\ know' = clock /\ spoke' = {} /\ kpc' = "check"
    <3>1. kcur' \in tracked /\ know' = clock /\ kpc' = "check"
      BY <2>3 DEF Behind
    <3>2. Visiting' /\ Timing'
      BY <1>0, <2>1, <3>1 DEF Visiting, Timing, KeepOnly
    <3> QED BY <1>0, <2>1, <3>1, <3>2, KeepQuiet DEF TypeOK
  <2> QED BY <1>2, <2>2, <2>3 DEF KNext
<1>3. CASE KCheck
  <2>1. /\ Alive /\ kpc = "check"
        /\ UNCHANGED <<status, epollVars, kval, counter, phase, busy>>
        /\ KeepOnly
    BY <1>3 DEF KCheck, Walking, Runs
  <2>2. CASE WalkEnds
    BY <1>0, <2>1, <2>2, KeepQuiet
    DEF WalkEnds, Visiting, Timing, KeepOnly, TypeOK
  <2>3. CASE /\ status[kcur] = "ONLINE" /\ Silent(kcur)
             /\ kpc' = "close" /\ UNCHANGED <<kcur, know, spoke>>
    <3>1. /\ kcur \in Clients /\ know \in 0..MaxClock
          /\ last[kcur] \in 0..MaxClock /\ know <= clock
      BY <1>0, <2>1 DEF Visiting, Timing, TypeOK
    <3>2. last[kcur] <= know => clock - last[kcur] >= K
      <4> SUFFICES ASSUME last[kcur] <= know PROVE clock - last[kcur] >= K
        OBVIOUS
      <4>1. know - last[kcur] \in Nat /\ know - last[kcur] < Word
        BY <1>0, <3>1
      <4>2. know - last[kcur] >= K
        BY <1>0, <2>3, <4>1, ModuloSmall DEF Silent
      <4> QED BY <1>0, <3>1, <4>2
    <3>3. Visiting' /\ Timing'
      BY <1>0, <2>1, <2>3, <3>1, <3>2 DEF Visiting, Timing, KeepOnly
    <3> QED BY <1>0, <2>1, <2>3, <3>1, <3>3, KeepQuiet DEF TypeOK
  <2> QED BY <1>3, <2>2, <2>3 DEF KCheck
<1>4. CASE KFreed
  <2>1. /\ phase = "released" /\ phase' = "crashed" /\ KeepOnly
        /\ kpc \in {"next", "check", "close", "offline"}
        /\ UNCHANGED <<status, epollVars, keepVars, counter, busy, spoke>>
    BY <1>4 DEF KFreed
  <2> USE DEF LifeInv, KeepOnly, epollVars
  <2>2. /\ TypeOK' /\ Budget' /\ HandledIsClient' /\ EndedFirst'
        /\ OnlyKeepaliveKills'
    BY <2>1 DEF TypeOK, Budget, HandledIsClient, EndedFirst,
       OnlyKeepaliveKills
  <2>3. OwnersMatch' /\ AcceptedFirst' /\ HeldOpen' /\ Visiting' /\ Timing'
    BY <2>1 DEF OwnersMatch, AcceptedFirst, HeldOpen, Visiting, Timing, Open
  <2>4. RegistrationIsOwn' /\ MessagesReachSubscribers'
    BY <2>1 DEF RegistrationIsOwn, MessagesReachSubscribers, Closed
  <2> QED BY <2>2, <2>3, <2>4
<1> QED BY <1>1, <1>2, <1>3, <1>4

LEMMA KeepCloses == ASSUME LifeInv, KClose PROVE LifeInv'
<1> USE DEF LifeInv, KeepOnly
<1>1. /\ phase = "up" /\ kpc = "close" /\ kpc' = "offline"
      /\ owner' = [owner EXCEPT ![fd[kcur]] = None]
      /\ reg' = [reg EXCEPT ![fd[kcur]] = NoReg]
      /\ busy' = IF \E w \in Workers : cur[w] = kcur
                 THEN busy \cup {kcur} ELSE busy
      /\ UNCHANGED <<status, kcur, know, kval, counter, lost, phase, spoke>>
      /\ KeepOnly
  BY DEF KClose, Walking
<1>2. /\ kcur \in Clients /\ status[kcur] = "ONLINE" /\ Open(kcur)
      /\ fd[kcur] \in Fds /\ owner[fd[kcur]] = kcur
  BY <1>1 DEF Visiting, Open, OwnersMatch
<1>3. \A f \in Fds : /\ owner'[f] = IF f = fd[kcur] THEN None ELSE owner[f]
                     /\ reg'[f] = IF f = fd[kcur] THEN NoReg ELSE reg[f]
  BY <1>1 DEF TypeOK
<1>4. NoReg.client = None /\ NoReg.ev = "off"
  BY DEF NoReg
<1>5. TypeOK'
  <2>1. NoReg \in [client : Clients \cup {None}, ev : {"in", "out", "off"}]
    BY DEF NoReg
  <2> QED BY <1>1, <2>1 DEF TypeOK
<1>6. /\ Budget' /\ Visiting' /\ Timing' /\ EndedFirst'
      /\ OnlyKeepaliveKills'
  BY <1>1 DEF Budget, Visiting, Timing, EndedFirst, OnlyKeepaliveKills
<1>7. HandledIsClient' /\ AcceptedFirst'
  BY <1>1, <1>2, <1>3, <1>4, NameAssumption DEF HandledIsClient, AcceptedFirst
<1>8. \A c : Open(c)' <=> Open(c) /\ c # kcur
  BY <1>1 DEF Open
<1>9. OwnersMatch'
  BY <1>1, <1>2, <1>3, <1>8 DEF OwnersMatch
<1>10. HeldOpen'
  BY <1>1, <1>8 DEF HeldOpen, TypeOK
<1>11. RegistrationIsOwn'
  BY <1>1, <1>3, <1>4 DEF RegistrationIsOwn
<1>12. MessagesReachSubscribers'
  BY <1>1 DEF MessagesReachSubscribers, Closed
<1> QED BY <1>5, <1>6, <1>7, <1>9, <1>10, <1>11, <1>12

LEMMA KeepOfflines == ASSUME LifeInv, KOffline PROVE LifeInv'
<1> USE DEF LifeInv, KeepOnly, epollVars
<1>1. /\ phase = "up" /\ kpc = "offline" /\ kpc' = "next"
      /\ status' = [status EXCEPT ![kcur] = "OFFLINE"]
      /\ UNCHANGED <<epollVars, kcur, know, kval, counter, lost, phase, busy,
                     spoke>>
      /\ KeepOnly
  BY DEF KOffline, Walking, GoOffline
<1>2. kcur \in Clients /\ status[kcur] = "ONLINE"
  BY <1>1 DEF Visiting
<1>3. /\ TypeOK' /\ Budget' /\ HandledIsClient' /\ EndedFirst'
      /\ OnlyKeepaliveKills'
  BY <1>1 DEF TypeOK, Budget, HandledIsClient, EndedFirst, OnlyKeepaliveKills
<1>4. \A c \in Clients :
        status'[c] = IF c = kcur THEN "OFFLINE" ELSE status[c]
  BY <1>1 DEF TypeOK
<1>5. \A c \in Clients : Open(c)' <=> Open(c)
  BY <1>1, <1>4 DEF Open
<1>6. OwnersMatch' /\ HeldOpen'
  BY <1>1, <1>5 DEF OwnersMatch, HeldOpen, TypeOK
<1>7. AcceptedFirst' /\ Visiting' /\ Timing' /\ RegistrationIsOwn'
  BY <1>1, <1>2, <1>4
  DEF AcceptedFirst, Visiting, Timing, RegistrationIsOwn
<1>8. MessagesReachSubscribers'
  <2>1. Closed' = Closed
    BY <1>1, <1>2, <1>4 DEF Closed
  <2> QED BY <1>1, <2>1 DEF MessagesReachSubscribers
<1> QED BY <1>3, <1>6, <1>7, <1>8

LEMMA LifeNext == LifeInv /\ [Next]_vars => LifeInv'
<1> SUFFICES ASSUME LifeInv, [Next]_vars PROVE LifeInv'
  OBVIOUS
<1>1. CASE Next
  BY <1>1, ShutdownStep, TickStep, AcceptStep, EpollStep, HandleStep,
     KeepWalks, KeepCloses, KeepOfflines DEF Next, KeepStep
<1>2. CASE UNCHANGED vars
  <2> USE <1>2 DEF vars, clientVars, epollVars, keepVars, sigVars, histVars,
                   LifeInv
  <2>1. /\ TypeOK' /\ Budget' /\ HandledIsClient' /\ EndedFirst'
        /\ OnlyKeepaliveKills'
    BY DEF TypeOK, Budget, HandledIsClient, EndedFirst, OnlyKeepaliveKills
  <2>2. OwnersMatch' /\ AcceptedFirst' /\ HeldOpen' /\ Visiting' /\ Timing'
    BY DEF OwnersMatch, AcceptedFirst, HeldOpen, Visiting, Timing, Open
  <2>3. RegistrationIsOwn' /\ MessagesReachSubscribers'
    BY DEF RegistrationIsOwn, MessagesReachSubscribers, Closed
  <2> QED BY <2>1, <2>2, <2>3
<1> QED BY <1>1, <1>2

LEMMA LifeHolds == Spec => []LifeInv
  BY LifeInit, LifeNext, PTL DEF Spec

-----------------------------------------------------------------------------
(* Every field of a Client, every registration and every thread keeps its  *)
(* type; in particular the eventfd never holds more than the tokens        *)
(* sigint_handler writes.                                                  *)
THEOREM LifecycleTypeCorrect == Spec => []TypeOK
<1>1. LifeInv => TypeOK
  BY DEF LifeInv
<1> QED BY <1>1, LifeHolds, PTL

(* However often accept() gives out a number again, the one stored in an   *)
(* ONLINE Client is that client's own socket, so check_client_status never *)
(* closes somebody else's.                                                 *)
THEOREM OnlineOwnsFdHolds == Spec => []OnlineOwnsFd
<1>1. LifeInv => OnlineOwnsFd
  BY DEF LifeInv, OwnersMatch, OnlineOwnsFd, Open, Closed
<1> QED BY <1>1, LifeHolds, PTL

(* A registration leads to a Client that does not own the descriptor only  *)
(* if keepalive closed that Client while a worker ran its handler.         *)
THEOREM RegistrationIsOwnHolds == Spec => []RegistrationIsOwn
<1>1. LifeInv => RegistrationIsOwn
  BY DEF LifeInv
<1> QED BY <1>1, LifeHolds, PTL

(* publish_message sends to a client that did not subscribe only through   *)
(* the descriptor number of a subscriber keepalive closed.                 *)
THEOREM MessagesReachSubscribersHolds == Spec => []MessagesReachSubscribers
<1>1. LifeInv => MessagesReachSubscribers
  BY DEF LifeInv
<1> QED BY <1>1, LifeHolds, PTL

(* The process crashes only when a handler reads from a number keepalive   *)
(* closed under it, or when keepalive, the one thread start_server does    *)
(* not join, is in a walk as the tables are released and all others ended. *)
THEOREM OnlyKeepaliveKillsHolds == Spec => []OnlyKeepaliveKills
<1>1. LifeInv => OnlyKeepaliveKills
  BY DEF LifeInv
<1> QED BY <1>1, LifeHolds, PTL

(* check_client_status closes no client that was active within the         *)
(* keepalive period, except one that became active after it read the time. *)
THEOREM NoHastyCloseHolds == Spec => NoHastyClose
<1> DEFINE Hasty == \A c \in Clients :
                      status[c] = "ONLINE" /\ status'[c] = "OFFLINE" =>
                        clock - last[c] >= K \/ c \in spoke
<1>1. LifeInv /\ [Next]_vars => [Hasty]_vars
  <2> SUFFICES ASSUME LifeInv, Next, NEW c \in Clients,
                      status[c] = "ONLINE", status'[c] = "OFFLINE"
               PROVE  clock - last[c] >= K \/ c \in spoke
    OBVIOUS
  <2>1. CASE KOffline
    <3>1. kpc = "offline" /\ kcur = c
      BY <2>1 DEF KOffline, GoOffline, LifeInv, TypeOK
    <3> QED BY <3>1 DEF LifeInv, Timing
  <2>2. CASE UNCHANGED status
    BY <2>2
  <2>3. CASE \E w \in Workers, d \in Clients : Accept(w, d)
    BY <2>3 DEF Accept, LifeInv, TypeOK
  <2>4. KOffline \/ UNCHANGED status \/ \E w \in Workers, d \in Clients :
                                          Accept(w, d)
    BY DEF Next, Tick, EpollWait, Handle, RequestHandler, RequestNothing,
       RequestBadFd, ReplyHandler, Rearm, Quit, SeeQuit, ReadQuit, KeepStep, KRead,
       KNext, KCheck, KClose, KFreed, SigDeliver, SigStep, SigWrite,
       SigReturn, MainStep, Release, Exit, Others, clientVars
  <2> QED BY <2>1, <2>2, <2>3, <2>4
<1> QED BY <1>1, LifeHolds, PTL DEF Spec, NoHastyClose
=============================================================================
