------------------------------ MODULE BaseNode ------------------------------
(***************************************************************************)
(* One node of the pipeline, src/core/base_node.hpp: a bounded inbox `in`  *)
(* guarded by one mutex and ONE condition variable that senders and the    *)
(* node's own thread share, and the life cycle start() / main_loop() /     *)
(* stop().                                                                 *)
(*                                                                         *)
(* Atomicity.  Every critical section of the code is entered, left or      *)
(* suspended (event.wait) with the mutex free, so a critical section is    *)
(* one step here.  What the code does outside the mutex is a step of its   *)
(* own: the read of v_running in put(), the call of the handler, the       *)
(* in.clear() of main_loop() and the writes of v_running in run().         *)
(***************************************************************************)
EXTENDS Integers, Sequences, FiniteSets

CONSTANTS
  Producers, (* threads of other nodes and of the program that call put()   *)
  Main,      (* the thread that created the node: it calls start and stop   *)
  Self,      (* the node's own thread, which may put() to itself            *)
  Limit,     (* put() finds the inbox full when in.size() > Limit (10)      *)
  Pol,       (* the QUEUE_POLICY each caller of put() uses                  *)
  MaxMsgs    (* bound of the model: how often each caller may call put()    *)

Senders == Producers \cup {Main}
Callers == Senders \cup {Self}

ASSUME NodeAssumption ==
  /\ IsFiniteSet(Producers)
  /\ Main \notin Producers /\ Self \notin Producers /\ Main # Self
  /\ Limit \in Nat
  /\ MaxMsgs \in [Callers -> Nat]
  /\ Pol \in [Callers -> {"WAIT", "DROP"}]
  /\ MaxMsgs[Main] = 1    \* the owner sends nothing but the one STOP
  /\ Pol[Main] = "WAIT"   \* stop() sends STOP with QUEUE_POLICY::WAIT

VARIABLES
  in,        \* the inbox: a sequence of messages
  v_running, \* set and cleared by run(), read without the mutex
  waiting,   \* the threads asleep in event.wait()
  pc,        \* where each caller of put() stands
  sent,      \* how many times each caller has called put()
  node,      \* where the node's own thread stands
  main,      \* where the owner stands in start() ... stop() ... ~BaseNode()
  taken      \* history: the messages pull_msg() has returned, in order

vars == <<in, v_running, waiting, pc, sent, node, main, taken>>

(* A message is told apart by its sender and by its number there; the only *)
(* command main_loop() itself acts on, STOP, is the one the owner sends.   *)
Message == [from : Callers, n : Nat]
MessageOfUnstamped(t) == [from |-> 0, n |-> sent[t]]
MessageOf(t) == [from |-> t, n |-> sent[t]]
IsStop(m) == m.from = Main

PutStates == {"idle", "locking", "blocked"}
NodeStates ==
  {"unborn", "starting", "pulling", "sleeping", "handling", "clearing", "exiting", "dead"}
MainStates == {"new", "starting", "running", "stopping", "stopped", "destroyed"}

Full == Len(in) > Limit

-----------------------------------------------------------------------------
Init ==
  /\ in = <<>>
  /\ v_running = FALSE
  /\ waiting = {}
  /\ pc = [t \in Callers |-> "idle"]
  /\ sent = [t \in Callers |-> 0]
  /\ node = "unborn"
  /\ main = "new"
  /\ taken = <<>>

(* A mutant of NotifyOne: the notify is forgotten everywhere. *)
NotifyNobody == UNCHANGED waiting

(* event.notify_one(): any one sleeper, sender or node, is woken. *)
NotifyOne ==
  IF waiting = {} THEN UNCHANGED waiting
                  ELSE \E t \in waiting : waiting' = waiting \ {t}

-----------------------------------------------------------------------------
(* put(), called by a producer, by stop() or by the node's own handler.     *)

(* When a caller may enter put(): nobody has the pointer before create()    *)
(* has returned from start(); the owner sends STOP; the node's thread sends *)
(* to itself only from the handler of an ordinary message.                  *)
MayCall(t) ==
  CASE t \in Producers -> main \notin {"new", "starting"} /\ sent[t] < MaxMsgs[t]
    [] t = Main        -> main = "stopping" /\ sent[t] < MaxMsgs[t]
    [] t = Self        -> /\ node = "handling" /\ ~IsStop(taken[Len(taken)])
                          /\ sent[t] < MaxMsgs[t]

(* The unlocked test of v_running: a node that does not run swallows the message. *)
Offer(t) ==
  /\ pc[t] = "idle"
  /\ MayCall(t)
  /\ sent' = [sent EXCEPT ![t] = @ + 1]
  /\ pc' = [pc EXCEPT ![t] = IF v_running THEN "locking" ELSE "idle"]
  /\ UNCHANGED <<in, v_running, waiting, node, main, taken>>

(* Mutants of Push: no notify_one(); the message at the wrong end of the inbox. *)
PushSilently(t) ==
  /\ in' = Append(in, MessageOf(t))
  /\ UNCHANGED waiting
  /\ pc' = [pc EXCEPT ![t] = "idle"]

PushFront(t) ==
  /\ in' = <<MessageOf(t)>> \o in
  /\ NotifyOne
  /\ pc' = [pc EXCEPT ![t] = "idle"]

Push(t) ==
  /\ in' = Append(in, MessageOf(t))
  /\ NotifyOne
  /\ pc' = [pc EXCEPT ![t] = "idle"]

Block(t) ==
  /\ waiting' = waiting \cup {t}
  /\ pc' = [pc EXCEPT ![t] = "blocked"]
  /\ UNCHANGED in

Drop(t) ==
  /\ pc' = [pc EXCEPT ![t] = "idle"]
  /\ UNCHANGED <<in, waiting>>

(* A mutant of Put: a caller that wakes does not test in.size() again. *)
PutNoRecheck(t) ==
  /\ pc[t] \in {"locking", "blocked"}
  /\ t \notin waiting
  /\ \/ (~Full \/ pc[t] = "blocked") /\ Push(t)
     \/ Full /\ pc[t] = "locking" /\ Pol[t] = "WAIT" /\ Block(t)
     \/ Full /\ Pol[t] = "DROP" /\ Drop(t)
  /\ UNCHANGED <<v_running, sent, node, main, taken>>

(* The critical section of put(), on entry and each time event.wait() has   *)
(* taken the mutex back and tests its predicate.                            *)
Put(t) ==
  /\ pc[t] \in {"locking", "blocked"}
  /\ t \notin waiting
  /\ \/ ~Full /\ Push(t)
     \/ Full /\ Pol[t] = "WAIT" /\ Block(t)
     \/ Full /\ Pol[t] = "DROP" /\ Drop(t)
  /\ UNCHANGED <<v_running, sent, node, main, taken>>

-----------------------------------------------------------------------------
(* The node's own thread: run(), main_loop() and pull_msg(). *)

Begin ==
  /\ node = "starting"
  /\ node' = "pulling"
  /\ v_running' = TRUE
  /\ UNCHANGED <<in, waiting, pc, sent, main, taken>>

(* A mutant of Take: pull_msg() makes room and notifies nobody. *)
TakeSilently ==
  /\ in # <<>>
  /\ taken' = Append(taken, Head(in))
  /\ in' = Tail(in)
  /\ node' = "handling"
  /\ UNCHANGED waiting

Take ==
  /\ in # <<>>
  /\ taken' = Append(taken, Head(in))
  /\ in' = Tail(in)
  /\ NotifyOne
  /\ node' = "handling"

Sleep ==
  /\ in = <<>>
  /\ waiting' = waiting \cup {Self}
  /\ node' = "sleeping"
  /\ UNCHANGED <<in, taken>>

(* The critical section of pull_msg(true), on entry and after each wake-up. *)
Pull ==
  /\ node \in {"pulling", "sleeping"}
  /\ Self \notin waiting
  /\ Take \/ Sleep
  /\ UNCHANGED <<v_running, pc, sent, main>>

(* process_usr_msg() returns (after apply() for a USER command); STOP leaves the loop. *)
Handle ==
  /\ node = "handling"
  /\ pc[Self] = "idle"
  /\ node' = IF IsStop(taken[Len(taken)]) THEN "clearing" ELSE "pulling"
  /\ UNCHANGED <<in, v_running, waiting, pc, sent, main, taken>>

(* in.clear(), after the loop: without the mutex and without a notify.  A   *)
(* push_back that overlaps it is either wiped by it or survives it, as one  *)
(* that comes before or after this step.                                    *)
Clear ==
  /\ node = "clearing"
  /\ node' = "exiting"
  /\ in' = <<>>
  /\ UNCHANGED <<v_running, waiting, pc, sent, main, taken>>

Exit ==
  /\ node = "exiting"
  /\ node' = "dead"
  /\ v_running' = FALSE
  /\ UNCHANGED <<in, waiting, pc, sent, main, taken>>

-----------------------------------------------------------------------------
(* The owner: start() spawns the thread and polls v_running. *)

Start ==
  /\ main = "new"
  /\ main' = "starting"
  /\ node' = "starting"
  /\ UNCHANGED <<in, v_running, waiting, pc, sent, taken>>

Started ==
  /\ main = "starting"
  /\ v_running
  /\ main' = "running"
  /\ UNCHANGED <<in, v_running, waiting, pc, sent, node, taken>>

(* stop() on a running node goes on to put(STOP), which is Offer(Main) and Put(Main). *)
Stop ==
  /\ main = "running"
  /\ v_running
  /\ main' = "stopping"
  /\ UNCHANGED <<in, v_running, waiting, pc, sent, node, taken>>

Join ==
  /\ main = "stopping"
  /\ sent[Main] = 1 /\ pc[Main] = "idle"
  /\ node = "dead"
  /\ main' = "stopped"
  /\ UNCHANGED <<in, v_running, waiting, pc, sent, node, taken>>

(* ~BaseNode() calls stop() again; it returns at once when v_running is false. *)
Destroy ==
  /\ main = "stopped"
  /\ ~v_running
  /\ main' = "destroyed"
  /\ UNCHANGED <<in, v_running, waiting, pc, sent, node, taken>>

-----------------------------------------------------------------------------
(* std::condition_variable may wake a sleeper that nobody notified. *)
SpuriousWake(t) ==
  /\ t \in waiting
  /\ waiting' = waiting \ {t}
  /\ UNCHANGED <<in, v_running, pc, sent, node, main, taken>>

Next ==
  \/ \E t \in Callers : Offer(t) \/ Put(t) \/ SpuriousWake(t)
  \/ Begin \/ Pull \/ Handle \/ Clear \/ Exit
  \/ Start \/ Started \/ Stop \/ Join \/ Destroy

Spec == Init /\ [][Next]_vars

(* Scheduling: a thread that can take its next step outside event.wait()    *)
(* takes it at last, and handlers return.  Nobody is obliged to call put()  *)
(* or stop(), and no spurious wake-up is owed.                              *)
Fairness ==
  /\ WF_vars(Offer(Main))
  /\ \A t \in Callers : WF_vars(Put(t))
  /\ WF_vars(Begin) /\ WF_vars(Pull) /\ WF_vars(Handle) /\ WF_vars(Clear) /\ WF_vars(Exit)
  /\ WF_vars(Started) /\ WF_vars(Join)

FairSpec == Spec /\ Fairness

-----------------------------------------------------------------------------
(* Correctness. *)

(* The type invariant. *)
TypeOK ==
  /\ in \in Seq(Message)
  /\ v_running \in BOOLEAN
  /\ waiting \subseteq Callers
  /\ pc \in [Callers -> PutStates]
  /\ sent \in [Callers -> Nat]
  /\ node \in NodeStates
  /\ main \in MainStates
  /\ taken \in Seq(Message)

(* However senders block, wake and barge in, the inbox never holds more     *)
(* than Limit + 1 messages: put() appends only after testing in.size() in   *)
(* the critical section that appends (base_node.hpp:103-119).               *)
QueueBounded == Len(in) <= Limit + 1

SenderAsleep == \E t \in Callers : pc[t] = "blocked" /\ t \in waiting
SenderAwake  == \E t \in Callers : pc[t] = "blocked" /\ t \notin waiting
NodeAsleep   == node = "sleeping" /\ Self \in waiting

(* No wake-up is lost although put() and pull_msg() share one condition     *)
(* variable and notify_one() may pick the wrong kind of sleeper             *)
(* (base_node.hpp:107, 120, 184, 190): while the node sleeps, a message in  *)
(* the inbox or a sender asleep in put() implies a sender that has been     *)
(* woken and will push and notify in its turn.                              *)
NoLostWakeup ==
  NodeAsleep /\ (in # <<>> \/ SenderAsleep) => SenderAwake

(* What keeps wake-ups from being lost, when the senders are fewer than two *)
(* inboxes full (base_node.hpp:103-120, 181-192): senders can only be       *)
(* asleep while the messages in the inbox and the senders already woken     *)
(* together still make a full inbox, and once the node sleeps too, enough   *)
(* senders are awake that the inbox cannot fill up around it.               *)
AsleepSenders == {t \in Senders : pc[t] = "blocked" /\ t \in waiting}
WokenSenders  == {t \in Senders : pc[t] = "blocked" /\ t \notin waiting}
AwakeSenders  == Senders \ waiting
InLoop == node \notin {"clearing", "exiting", "dead"}

WakeupInv ==
  /\ InLoop /\ ~NodeAsleep /\ AsleepSenders # {} =>
       Cardinality(WokenSenders) + Len(in) >= Limit + 1
  /\ NodeAsleep /\ (AsleepSenders # {} \/ in # <<>>) =>
       /\ Cardinality(WokenSenders) >= Limit + 1
       /\ Cardinality(AwakeSenders) >= Limit + 1 + Len(in)

(* The inbox keeps the promises of Inbox.tla: FIFO per sender, no           *)
(* duplicate, no loss for WAIT senders before the node has closed, nothing  *)
(* handled after STOP (base_node.hpp:86-124, 152-170, 181-192).             *)
From(t, s) == {s[i].n : i \in {j \in 1 .. Len(s) : s[j].from = t}}

Abstract == INSTANCE Inbox WITH
  Owner     <- Main,
  Lossy     <- {t \in Callers : Pol[t] = "DROP"},
  chan      <- [t \in Callers |-> From(t, in)],
  offered   <- [t \in Callers |-> IF pc[t] = "idle" THEN sent[t] ELSE sent[t] - 1],
  delivered <- [t \in Callers |-> From(t, taken)],
  open      <- node \notin {"exiting", "dead"}

InboxSpec == Abstract!Spec

(* stop() returns: STOP enters even a full inbox, the node works through    *)
(* what came before it and its thread is joined (base_node.hpp:77-84).      *)
StopReturns == (main = "stopping") ~> (main = "stopped")

(* A WAIT sender that blocks in put() gets through while the node is not    *)
(* being stopped (base_node.hpp:104-107).                                   *)
BlockedSenderReturns ==
  \A t \in Producers :
    (pc[t] = "blocked") ~> (pc[t] = "idle" \/ main # "running")

=============================================================================
