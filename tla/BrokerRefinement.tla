-------------------------- MODULE BrokerRefinement --------------------------
(***************************************************************************)
(* The event loop implements the publish/subscribe service of PubSub.      *)
(***************************************************************************)
EXTENDS Broker

\* A worker is in the middle of the handler of c, at one of the labels.
Inside(c, labels) == \E w \in Workers : pc[w] \in labels /\ cur[w] = c

\* A request is in work from the moment it is read until its answer is sent,
\* across the two events and the two handlers this takes.
Stage(c) ==
  IF \E w \in Workers : pc[w] = "dead" THEN "down"
  ELSE IF LastUnanswerable(c) THEN "mute"
  ELSE IF Inside(c, {"suback_retained"}) THEN "replay"
  ELSE IF \/ ctx[c] = "reply"
          \/ Inside(c, {"connect_add", "sub_create", "sub_find", "sub_insert",
                        "sub_link", "sub_retained"})
       THEN "working" ELSE "ready"

Service == INSTANCE PubSub WITH
  NoAnswer <- <<>>,
  Unanswerable <- GivenUp,
  Junk <- Wild,
  sent <- [c \in Conns |-> [n \in DOMAIN log[c] |-> log[c][n].req]],
  got <- rd,
  out <- outbox,
  stage <- [c \in Conns |-> Stage(c)]

(* Threads, one-shot events and the reply slot cannot be told from a       *)
(* service that has one request per connection in work at a time: nothing  *)
(* is answered twice, early or out of order, and a message goes out only   *)
(* while its PUBLISH is in work, once per subscription made before.        *)
ImplementsService == Service!Spec
=============================================================================
