------------------------------ MODULE MCBroker ------------------------------
(* Instances of Broker: two connections, two threads, one topic and one     *)
(* identifier, with the requests each run is about.                        *)
EXTENDS BrokerRefinement, TLC
CONSTANTS c1, c2, w1, w2, t1, id1, MCKinds

Pub(q, r) == [op |-> "PUBLISH", topic |-> t1, qos |-> q, retain |-> r]
Sub == [op |-> "SUBSCRIBE", topic |-> t1]

Connect(i, clean) == [op |-> "CONNECT", id |-> i, clean |-> clean]
Refused == [op |-> "SUBSCRIBE", topic |-> EmptyTopic]
Unnamed ==
  [op |-> "PUBLISH", topic |-> EmptyTopic, qos |-> 1, retain |-> FALSE]
Short(op) == [op |-> op]

PubSubSends == [c \in Conns |-> {Sub, Pub(1, TRUE), Pub(0, FALSE)}]

SessionSends ==
  [c \in Conns |-> {Connect(id1, TRUE), Connect(id1, FALSE)}
                   \cup (IF c = c1 THEN {Short("ACK")} ELSE {})]

LiveSends ==
  [c \in Conns |-> IF c = c1 THEN {Pub(1, TRUE), Unnamed, Short("OTHER")}
                   ELSE {Short("PINGREQ"), Connect(EmptyId, TRUE), Refused}]

MCSends == CASE MCKinds = "pubsub"  -> PubSubSends
             [] MCKinds = "session" -> SessionSends
             [] MCKinds = "live"    -> LiveSends
MCRequests == UNION {MCSends[c] : c \in Conns}

Symmetry == Permutations({c1, c2}) \cup Permutations({w1, w2})
WorkerSymmetry == Permutations({w1, w2})
=============================================================================
