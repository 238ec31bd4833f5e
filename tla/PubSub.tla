------------------------------- MODULE PubSub -------------------------------
(***************************************************************************)
(* What the broker promises its clients, with no threads, registrations,   *)
(* topic objects or reply slots: each connection has one request in work   *)
(* at a time; a message is distributed while its PUBLISH is in work, at    *)
(* most once for each subscription its topic had; the answer ends the      *)
(* request, and after a SUBACK one retained message may follow.  The       *)
(* module BrokerRefinement shows that Broker implements this.              *)
(***************************************************************************)
EXTENDS Naturals, Sequences, FiniteSets

CONSTANTS
  Conns,        \* client connections
  Requests,     \* what clients send
  NoAnswer,     \* the answer to a request that gets none
  Answer(_),    \* the opcode and return code a request is answered with
  Unanswerable(_), \* requests after which a connection is not served again
  Junk          \* what is sent for a retained message that was freed

VARIABLES
  sent,         \* the requests each client sent
  got,          \* how many of them the broker took
  out,          \* the frames put on each connection
  stage         \* what the broker does for each connection

vars == <<sent, got, out, stage>>

Init ==
  /\ sent = [c \in Conns |-> <<>>]
  /\ got = [c \in Conns |-> 0]
  /\ out = [c \in Conns |-> <<>>]
  /\ stage = [c \in Conns |-> "ready"]

Current(c) == sent[c][got[c]]

Taken(c, op, t) ==
  {n \in 1..got[c] : sent[c][n].op = op /\ sent[c][n].topic = t}

Emits(c, op, rc, re) ==
  \E s \in {"whole", "pieces", "cut", "none"} :
    out' = [out EXCEPT ![c] = Append(@, [op |-> op, rc |-> rc, re |-> re,
                                         sent |-> s])]

Send(c, r) ==
  /\ sent' = [sent EXCEPT ![c] = Append(@, r)]
  /\ UNCHANGED <<got, out, stage>>

Take(c) ==
  /\ stage[c] = "ready"
  /\ got[c] < Len(sent[c])
  /\ got' = [got EXCEPT ![c] = @ + 1]
  /\ stage' = [stage EXCEPT ![c] = IF Unanswerable(sent[c][got[c] + 1])
                                   THEN "mute" ELSE "working"]
  /\ UNCHANGED <<sent, out>>

\* The message c is publishing, on its way to s.
Copies(c, s) ==
  {i \in DOMAIN out[s] : out[s][i].op = "PUBLISH" /\ out[s][i].re = <<c, got[c]>>}

\* It goes to one more of the subscriptions of s.
Offers(c, s) ==
  /\ stage[c] = "working"
  /\ Current(c).op = "PUBLISH"
  /\ Cardinality(Copies(c, s))
       < Cardinality(Taken(s, "SUBSCRIBE", Current(c).topic))
  /\ Emits(s, "PUBLISH", 0, <<c, got[c]>>)

Distribute(c, s) == Offers(c, s) /\ UNCHANGED <<sent, got, stage>>

Finish(c) ==
  LET a == Answer(Current(c))
  IN /\ stage[c] = "working"
     /\ IF a = NoAnswer THEN UNCHANGED out
        ELSE Emits(c, a[1], a[2], <<c, got[c]>>)
     /\ \E next \in {"ready"} \cup
                    (IF Current(c).op = "SUBSCRIBE" THEN {"replay"} ELSE {}) :
          stage' = [stage EXCEPT ![c] = next]
     /\ UNCHANGED <<sent, got>>

Retained(t) ==
  {m \in UNION {{d} \X Taken(d, "PUBLISH", t) : d \in Conns} :
     sent[m[1]][m[2]].retain}

Replay(c) ==
  /\ stage[c] = "replay"
  /\ \E m \in Retained(Current(c).topic) \cup {Junk} :
       Emits(c, "RETAINED", 0, m)
  /\ stage' = [stage EXCEPT ![c] = "ready"]
  /\ UNCHANGED <<sent, got>>

\* The process ends, perhaps right after a send.
Fail ==
  /\ \A c \in Conns : stage[c] # "down"
  /\ UNCHANGED out \/ \E c, s \in Conns : Offers(c, s)
  /\ stage' = [c \in Conns |-> "down"]
  /\ UNCHANGED <<sent, got>>

Next ==
  \/ \E c \in Conns :
       \/ \E r \in Requests : Send(c, r)
       \/ Take(c)
       \/ \E s \in Conns : Distribute(c, s)
       \/ Finish(c)
       \/ Replay(c)
  \/ Fail

Spec == Init /\ [][Next]_vars
=============================================================================
