---------------------------- MODULE PriorityQueue ----------------------------
(***************************************************************************)
(* What the live-message buffer promises (module docstring of              *)
(* bilibili/message_buffer.py), with no lanes, no counter, no event and no *)
(* consumer task: a set of at most Capacity messages, offered in arrival   *)
(* order.  The most important message is delivered first, the oldest one   *)
(* among equals.  A full queue gives up its least important message for a  *)
(* more important one, again the oldest among equals, and otherwise turns  *)
(* the new message away.  MessageBuffer implements this.                   *)
(***************************************************************************)
EXTENDS Integers, FiniteSets

CONSTANTS Capacity, Classes   \* smaller class = more important

VARIABLES
  held,       \* the messages in the queue
  arrived,    \* messages offered since the queue was opened
  delivered,  \* messages delivered since the queue was opened
  open        \* between start() and stop()

qvars == <<held, arrived, delivered, open>>

Message == [priority : Classes, enqueued_at : Nat]

Oldest(S) == CHOOSE m \in S : \A n \in S : m.enqueued_at <= n.enqueued_at

Best(S) ==
  Oldest({m \in S : \A n \in S : m.priority <= n.priority})

Worst(S) ==
  Oldest({m \in S : \A n \in S : m.priority >= n.priority})

QInit ==
  /\ held = {}
  /\ arrived = 0
  /\ delivered = 0
  /\ open = FALSE

Open ==
  /\ ~open
  /\ held' = {}
  /\ arrived' = 0
  /\ delivered' = 0
  /\ open' = TRUE

Offer(c) ==
  LET m == [priority |-> c, enqueued_at |-> arrived + 1] IN
  /\ open
  /\ arrived' = arrived + 1
  /\ \/ /\ Cardinality(held) < Capacity
        /\ held' = held \cup {m}
     \/ /\ Cardinality(held) = Capacity
        /\ Worst(held).priority > c
        /\ held' = (held \ {Worst(held)}) \cup {m}
     \/ /\ Cardinality(held) = Capacity
        /\ Worst(held).priority <= c
        /\ held' = held
  /\ UNCHANGED <<delivered, open>>

Deliver ==
  /\ open
  /\ held # {}
  /\ held' = held \ {Best(held)}
  /\ delivered' = delivered + 1
  /\ UNCHANGED <<arrived, open>>

Close ==
  /\ open
  /\ open' = FALSE
  /\ UNCHANGED <<held, arrived, delivered>>

Clear ==
  /\ ~open
  /\ held' = {}
  /\ UNCHANGED <<arrived, delivered, open>>

QNext ==
  \/ Open
  \/ \E c \in Classes : Offer(c)
  \/ Deliver
  \/ Close
  \/ Clear

QSpec == QInit /\ [][QNext]_qvars

=============================================================================
