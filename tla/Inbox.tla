-------------------------------- MODULE Inbox --------------------------------
(***************************************************************************)
(* What an inbox promises to those who send to a node, with no queue, lock *)
(* or thread in sight: one channel per sender.  Messages of one sender are *)
(* delivered in the order of its put() calls, each at most once; messages  *)
(* of different senders in any order.  A WAIT sender is never refused      *)
(* while the inbox is open.  The delivery of the owner's STOP is the last; *)
(* closing discards what was accepted after it.                            *)
(*                                                                         *)
(* A sender numbers its put() calls 1, 2, ...; a message is its number.    *)
(***************************************************************************)
EXTENDS Integers

CONSTANTS
  Callers,  (* the threads that send to the node       *)
  Owner,    (* the one whose message is STOP           *)
  Lossy     (* the senders that use QUEUE_POLICY::DROP *)

VARIABLES
  chan,      \* per sender, the messages accepted and not delivered
  offered,   \* per sender, how many messages it has offered
  delivered, \* per sender, the messages delivered
  open       \* FALSE once the node has left its loop for good

ivars == <<chan, offered, delivered, open>>

Init ==
  /\ chan = [s \in Callers |-> {}]
  /\ offered = [s \in Callers |-> 0]
  /\ delivered = [s \in Callers |-> {}]
  /\ open = TRUE

Stopping == delivered[Owner] # {}

Accept(s) ==
  /\ offered' = [offered EXCEPT ![s] = @ + 1]
  /\ chan' = [chan EXCEPT ![s] = @ \cup {offered[s] + 1}]
  /\ UNCHANGED <<delivered, open>>

Refuse(s) ==
  /\ s \in Lossy \/ ~open
  /\ offered' = [offered EXCEPT ![s] = @ + 1]
  /\ UNCHANGED <<chan, delivered, open>>

(* The oldest message of s that is left, younger than all it had delivered. *)
Deliver(s) ==
  /\ open /\ ~Stopping
  /\ \E m \in chan[s] :
       /\ \A k \in chan[s] : m <= k
       /\ \A k \in delivered[s] : k < m
       /\ chan' = [chan EXCEPT ![s] = @ \ {m}]
       /\ delivered' = [delivered EXCEPT ![s] = @ \cup {m}]
  /\ UNCHANGED <<offered, open>>

Close ==
  /\ open /\ Stopping
  /\ open' = FALSE
  /\ chan' = [s \in Callers |-> {}]
  /\ UNCHANGED <<offered, delivered>>

Next ==
  \/ \E s \in Callers : Accept(s) \/ Refuse(s) \/ Deliver(s)
  \/ Close

Spec == Init /\ [][Next]_ivars

=============================================================================
