------------------------------ MODULE Pipeline ------------------------------
(***************************************************************************)
(* A graph of nodes: the program feeds messages to the first one, every    *)
(* node handles one message at a time and puts one message to each of its  *)
(* targets in turn (BaseSource, BaseFilter and BaseSplitter::              *)
(* process_usr_msg), and the destructor of NodeFactory stops the nodes one *)
(* after the other when the program returns from main().                   *)
(*                                                                         *)
(* Every node is a BaseNode; its inbox, its one condition variable and the *)
(* end of its thread are those of BaseNode.tla, one component per node     *)
(* here.  The program's part starts when all nodes have been created,      *)
(* started and wired, which the program does before it feeds anything.     *)
(***************************************************************************)
EXTENDS Integers, Sequences, FiniteSets

CONSTANTS
  Nodes,    (* the nodes, registered in NodeFactory::nodes               *)
  Main,     (* the program's main thread                                 *)
  Source,   (* the node the program puts its messages to                 *)
  Targets,  (* the targets of each node, in the order they were added    *)
  Limit,    (* put() finds an inbox full when in.size() > Limit (10)     *)
  Policies, (* the assignments of a QUEUE_POLICY to nodes considered     *)
  MaxFeed   (* bound of the model: how many messages the program sends   *)

Threads == Nodes \cup {Main}

ASSUME PipelineAssumption ==
  /\ IsFiniteSet(Nodes) /\ Main \notin Nodes /\ Source \in Nodes
  /\ Targets \in [Nodes -> Seq(Nodes)]
  /\ Limit \in Nat /\ MaxFeed \in Nat
  /\ Policies \subseteq [Nodes -> {"WAIT", "DROP"}]

VARIABLES
  pol,     \* the policy each node was constructed with; the program uses WAIT
  in,      \* the inbox of each node
  running, \* v_running of each node
  asleep,  \* per node, the threads asleep on its condition variable
  node,    \* where each node's thread stands
  todo,    \* per node, the targets still to be sent the message in hand
  at,      \* where each thread stands in the put() it has called
  call,    \* that put(): to whom, and the message
  main,    \* where the program stands
  fed,     \* how many messages the program has sent
  victim,  \* the nodes ~NodeFactory() has not joined yet, and the one it is stopping
  got      \* history: the messages each node has taken

vars == <<pol, in, running, asleep, node, todo, at, call, main, fed, victim, got>>

Data(uid, from) == [cmd |-> "DATA", uid |-> uid, from |-> from]
STOP == [cmd |-> "STOP", uid |-> 0, from |-> Main]
NoCall == [to |-> Main, msg |-> STOP]
Nobody == Main

Full(n) == Len(in[n]) > Limit
(* Mutants of PolicyOf: everyone, or only the program and its STOP, uses DROP. *)
PolicyForgotten(t) == "DROP"
PolicyOfStopDropped(t) == IF t = Main THEN "DROP" ELSE pol[t]
PolicyOf(t) == IF t = Main THEN "WAIT" ELSE pol[t]
InHand(n) == got[n][Len(got[n])]

Init ==
  /\ pol \in Policies
  /\ in = [n \in Nodes |-> <<>>]
  /\ running = [n \in Nodes |-> TRUE]
  /\ asleep = [n \in Nodes |-> {}]
  /\ node = [n \in Nodes |-> "pulling"]
  /\ todo = [n \in Nodes |-> <<>>]
  /\ at = [t \in Threads |-> "idle"]
  /\ call = [t \in Threads |-> NoCall]
  /\ main = "feeding"
  /\ fed = 0
  /\ victim = [left |-> Nodes, now |-> Nobody]
  /\ got = [n \in Nodes |-> <<>>]

-----------------------------------------------------------------------------
(* put() of BaseNode, called by thread t on node n. *)

(* The unlocked test of v_running: a put() to a node that does not run returns at once. *)
Call(t, n, msg) ==
  IF running[n]
  THEN /\ at' = [at EXCEPT ![t] = "locking"]
       /\ call' = [call EXCEPT ![t] = [to |-> n, msg |-> msg]]
  ELSE UNCHANGED <<at, call>>

Return(t) ==
  /\ at' = [at EXCEPT ![t] = "idle"]
  /\ call' = [call EXCEPT ![t] = NoCall]

(* A mutant of NotifyOne: the notify is forgotten. *)
NotifyNobody(n) == UNCHANGED asleep

NotifyOne(n) ==
  IF asleep[n] = {} THEN UNCHANGED asleep
  ELSE \E t \in asleep[n] : asleep' = [asleep EXCEPT ![n] = @ \ {t}]

(* A mutant of Enqueue: push_front. *)
EnqueueFirst(n, msg) == in' = [in EXCEPT ![n] = <<msg>> \o @]
Enqueue(n, msg) == in' = [in EXCEPT ![n] = Append(@, msg)]

(* The critical section of put(), on entry and after each wake-up. *)
Put(t) ==
  LET n == call[t].to IN
  /\ at[t] # "idle"
  /\ t \notin asleep[n]
  /\ \/ /\ ~Full(n)
        /\ Enqueue(n, call[t].msg)
        /\ NotifyOne(n)
        /\ Return(t)
     \/ /\ Full(n) /\ PolicyOf(t) = "WAIT"
        /\ asleep' = [asleep EXCEPT ![n] = @ \cup {t}]
        /\ at' = [at EXCEPT ![t] = "blocked"]
        /\ UNCHANGED <<in, call>>
     \/ /\ Full(n) /\ PolicyOf(t) = "DROP"
        /\ Return(t)
        /\ UNCHANGED <<in, asleep>>
  /\ UNCHANGED <<pol, running, node, todo, main, fed, victim, got>>

-----------------------------------------------------------------------------
(* The thread of node n. *)

(* A mutant of ToSend: STOP is handled like any other message. *)
ToSendAlways(n, msg) == Targets[n]

(* process_usr_msg() sends a data message to every target; STOP never gets there. *)
ToSend(n, msg) == IF msg = STOP THEN <<>> ELSE Targets[n]

(* pull_msg() of main_loop(). *)
Pull(n) ==
  /\ node[n] = "pulling"
  /\ n \notin asleep[n]
  /\ \/ /\ in[n] # <<>>
        /\ in' = [in EXCEPT ![n] = Tail(@)]
        /\ got' = [got EXCEPT ![n] = Append(@, Head(in[n]))]
        /\ node' = [node EXCEPT ![n] = "handling"]
        /\ todo' = [todo EXCEPT ![n] = ToSend(n, Head(in[n]))]
        /\ NotifyOne(n)
     \/ /\ in[n] = <<>>
        /\ asleep' = [asleep EXCEPT ![n] = @ \cup {n}]
        /\ UNCHANGED <<in, got, node, todo>>
  /\ UNCHANGED <<pol, running, at, call, main, fed, victim>>

(* What goes on: the splitter's copy, or the filter's new message, to which  *)
(* init_attached_data() gives the uid of the one in hand.  put() stamps it  *)
(* with the sender.                                                         *)
Result(n) == Data(InHand(n).uid, n)

(* process_usr_msg(): put() the message, or the result made of it, to the next target. *)
Send(n) ==
  /\ node[n] = "handling" /\ at[n] = "idle"
  /\ todo[n] # <<>>
  /\ Call(n, Head(todo[n]), Result(n))
  /\ todo' = [todo EXCEPT ![n] = Tail(@)]
  /\ UNCHANGED <<pol, in, running, asleep, node, main, fed, victim, got>>

Handled(n) ==
  /\ node[n] = "handling" /\ at[n] = "idle"
  /\ todo[n] = <<>>
  /\ node' = [node EXCEPT ![n] = IF InHand(n) = STOP THEN "clearing" ELSE "pulling"]
  /\ UNCHANGED <<pol, in, running, asleep, todo, at, call, main, fed, victim, got>>

(* in.clear() after the loop, which notifies nobody. *)
Clear(n) ==
  /\ node[n] = "clearing"
  /\ node' = [node EXCEPT ![n] = "exiting"]
  /\ in' = [in EXCEPT ![n] = <<>>]
  /\ UNCHANGED <<pol, running, asleep, todo, at, call, main, fed, victim, got>>

Exit(n) ==
  /\ node[n] = "exiting"
  /\ node' = [node EXCEPT ![n] = "dead"]
  /\ running' = [running EXCEPT ![n] = FALSE]
  /\ UNCHANGED <<pol, in, asleep, todo, at, call, main, fed, victim, got>>

-----------------------------------------------------------------------------
(* The program. *)

Feed ==
  /\ main = "feeding" /\ at[Main] = "idle"
  /\ fed < MaxFeed
  /\ fed' = fed + 1
  /\ Call(Main, Source, Data(fed + 1, Main))
  /\ UNCHANGED <<pol, in, running, asleep, node, todo, main, victim, got>>

(* main() returns; the static NodeFactory is destroyed. *)
Quit ==
  /\ main = "feeding" /\ at[Main] = "idle"
  /\ main' = "stopping"
  /\ UNCHANGED <<pol, in, running, asleep, node, todo, at, call, fed, victim, got>>

(* stop() of the next node in the order of the uids, which are random. *)
StopNode(n) ==
  /\ main = "stopping" /\ victim.now = Nobody
  /\ n \in victim.left
  /\ running[n]
  /\ Call(Main, n, STOP)
  /\ victim' = [victim EXCEPT !.now = n]
  /\ UNCHANGED <<pol, in, running, asleep, node, todo, main, fed, got>>

(* STOP is in the inbox and the thread has ended: own_thread.join() returns. *)
Join(n) ==
  /\ victim.now = n /\ at[Main] = "idle"
  /\ node[n] = "dead"
  /\ victim' = [left |-> victim.left \ {n}, now |-> Nobody]
  /\ main' = IF victim.left = {n} THEN "done" ELSE main
  /\ UNCHANGED <<pol, in, running, asleep, node, todo, at, call, fed, got>>

-----------------------------------------------------------------------------
Next ==
  \/ \E t \in Threads : Put(t)
  \/ \E n \in Nodes :
       Pull(n) \/ Send(n) \/ Handled(n) \/ Clear(n) \/ Exit(n) \/ StopNode(n) \/ Join(n)
  \/ Feed \/ Quit

Spec == Init /\ [][Next]_vars

(* Every thread that can go on goes on at last; the program feeds and quits when it likes. *)
Fairness ==
  /\ \A t \in Threads : WF_vars(Put(t))
  /\ \A n \in Nodes :
       /\ WF_vars(Pull(n)) /\ WF_vars(Send(n)) /\ WF_vars(Handled(n))
       /\ WF_vars(Clear(n)) /\ WF_vars(Exit(n)) /\ WF_vars(Join(n))
  /\ WF_vars(\E n \in Nodes : StopNode(n))

FairSpec == Spec /\ Fairness

-----------------------------------------------------------------------------
(* Correctness. *)

Message == {STOP} \cup {Data(u, t) : u \in 1 .. MaxFeed, t \in Threads}

(* The type invariant. *)
TypeOK ==
  /\ pol \in Policies
  /\ in \in [Nodes -> Seq(Message)]
  /\ running \in [Nodes -> BOOLEAN]
  /\ asleep \in [Nodes -> SUBSET Threads]
  /\ node \in [Nodes -> {"pulling", "handling", "clearing", "exiting", "dead"}]
  /\ todo \in [Nodes -> Seq(Nodes)]
  /\ at \in [Threads -> {"idle", "locking", "blocked"}]
  /\ call \in [Threads -> [to : Threads, msg : Message]]
  /\ main \in {"feeding", "stopping", "done"}
  /\ fed \in 0 .. MaxFeed
  /\ victim \in [left : SUBSET Nodes, now : Threads]
  /\ got \in [Nodes -> Seq(Message)]

Edges == {e \in Nodes \X Nodes : \E i \in DOMAIN Targets[e[1]] : Targets[e[1]][i] = e[2]}
InLoop(n) == node[n] \in {"pulling", "handling"}

(* What has been put to b and not been lost, oldest first, and what a is    *)
(* putting to it.                                                           *)
Arrived(b) == got[b] \o in[b]
InFlight(a, b) == IF call[a].to = b THEN <<call[a].msg>> ELSE <<>>

Delivered(a, b) == {i \in DOMAIN Arrived(b) : Arrived(b)[i].from = a}

(* What a has taken and already passed on to b. *)
Passed(a, b) ==
  {i \in DOMAIN got[a] :
     /\ got[a][i] # STOP
     /\ i = Len(got[a]) => \A j \in DOMAIN todo[a] : todo[a][j] # b}

(* "All channels of all input pipes are FIFO" (base_sync_join.hpp:65), on   *)
(* which BaseSyncJoin relies: along every edge of the graph, whatever the   *)
(* policies, blocked puts and drops, messages stay in the order in which    *)
(* the source made them and none is there twice.                            *)
EdgeFifo ==
  \A e \in Edges :
    LET s == Arrived(e[2]) \o InFlight(e[1], e[2]) IN
    \A i, j \in DOMAIN s :
      i < j /\ s[i].from = e[1] /\ s[j].from = e[1] => s[i].uid < s[j].uid

(* "WAIT - is used to speed down sender and avoid data loss"                *)
(* (command_node.h:40): a node constructed with WAIT has delivered to each  *)
(* target that is in its loop every message it has passed on, also while    *)
(* other nodes are being stopped.                                           *)
WaitLosesNothing ==
  \A e \in Edges :
    pol[e[1]] = "WAIT" /\ InLoop(e[2]) =>
      Cardinality(Delivered(e[1], e[2])) + Len(InFlight(e[1], e[2])) = Cardinality(Passed(e[1], e[2]))

AllPol(p) == pol = [n \in Nodes |-> p]
Has(n, u) == \E i \in DOMAIN got[n] : got[n][i] # STOP /\ got[n][i].uid = u

(* A running WAIT pipeline neither deadlocks nor loses anything: every      *)
(* message the program feeds comes out at every node, however the inboxes   *)
(* fill up on the way, unless the program quits first.                      *)
EverythingArrives ==
  \A u \in 1 .. MaxFeed :
    (AllPol("WAIT") /\ fed = u) ~> ((\A n \in Nodes : Has(n, u)) \/ main # "feeding")

(* "it is more stable to stop all nodes before they are destructed"         *)
(* (node_factory.hpp:66): with DROP nodes, the default, the destructor of   *)
(* NodeFactory joins all nodes in any order, whatever is still in flight.   *)
DropShutdown == (AllPol("DROP") /\ main = "stopping") ~> main = "done"

(* Stopping sender before receiver is always safe, for every mix of WAIT    *)
(* and DROP: no node is left asleep at an inbox that nobody empties any     *)
(* more (base_node.hpp:106, node_factory.hpp:68).                           *)
SendersFirst ==
  \A e \in Edges : victim.now = e[2] \/ e[2] \notin victim.left => e[1] \notin victim.left
OrderedShutdown == []SendersFirst => (main = "stopping" ~> main = "done")

(* "the NodeFactory destructor send MSG_CMD::STOP to all nodes and joins    *)
(* their processes with main()" (tutorial/01_core.cpp:128).                 *)
ShutdownCompletes == main = "stopping" ~> main = "done"

=============================================================================
