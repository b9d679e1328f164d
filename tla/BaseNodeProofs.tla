--------------------------- MODULE BaseNodeProofs ---------------------------
(* Proofs about BaseNode for every set of producers, every Limit and every  *)
(* bound on the calls of put().                                             *)
EXTENDS BaseNode, FiniteSetTheorems, TLAPS

(* A queue stays a queue of messages. *)
LEMMA AppendInSeq ==
  ASSUME NEW S, NEW s \in Seq(S), NEW e \in S
  PROVE  Append(s, e) \in Seq(S)
  OBVIOUS

(* The initial state is well typed. *)
LEMMA InitTypeOK == Init => TypeOK
<1> SUFFICES ASSUME Init PROVE TypeOK
  OBVIOUS
<1>1. in \in Seq(Message) /\ taken \in Seq(Message)
  BY DEF Init
<1>2. pc \in [Callers -> PutStates] /\ sent \in [Callers -> Nat]
  BY DEF Init, PutStates
<1>3. QED
  BY <1>1, <1>2 DEF Init, TypeOK, NodeStates, MainStates

(* In every reachable state the variables have their types; in particular   *)
(* put() and pull_msg() never touch the inbox with a thread in a state the  *)
(* code does not have (base_node.hpp:68-203).                               *)
THEOREM TypeCorrect == Spec => []TypeOK
<1> USE NodeAssumption DEF TypeOK, Callers, Senders
<1>1. Init => TypeOK
  BY InitTypeOK
<1>2. TypeOK /\ [Next]_vars => TypeOK'
  <2> SUFFICES ASSUME TypeOK, [Next]_vars PROVE TypeOK'
    OBVIOUS
  <2> USE DEF PutStates, NodeStates, MainStates
  <2>1. ASSUME NEW t \in Callers, Offer(t) PROVE TypeOK'
    BY <2>1 DEF Offer
  <2>2. ASSUME NEW t \in Callers, Put(t) PROVE TypeOK'
    <3>1. MessageOf(t) \in Message
      BY DEF MessageOf, Message
    <3>2. waiting' \subseteq Callers
      BY <2>2 DEF Put, Push, Block, Drop, NotifyOne
    <3>3. in' \in Seq(Message)
      <4>1. in' = in \/ in' = Append(in, MessageOf(t))
        BY <2>2 DEF Put, Push, Block, Drop
      <4>2. Append(in, MessageOf(t)) \in Seq(Message)
        BY <3>1, AppendInSeq
      <4>3. QED
        BY <4>1, <4>2
    <3>4. pc' \in [Callers -> PutStates]
      BY <2>2 DEF Put, Push, Block, Drop
    <3>5. UNCHANGED <<v_running, sent, node, main, taken>>
      BY <2>2 DEF Put
    <3>6. QED
      BY <3>2, <3>3, <3>4, <3>5
  <2>3. ASSUME NEW t \in Callers, SpuriousWake(t) PROVE TypeOK'
    BY <2>3 DEF SpuriousWake
  <2>4. CASE Begin
    BY <2>4 DEF Begin
  <2>5. CASE Pull
    <3>1. CASE Take
      <4>1. Head(in) \in Message /\ Tail(in) \in Seq(Message)
        BY <3>1 DEF Take
      <4>2. waiting' \subseteq Callers
        BY <3>1 DEF Take, NotifyOne
      <4>3. QED
        BY <2>5, <3>1, <4>1, <4>2 DEF Pull, Take
    <3>2. CASE Sleep
      BY <2>5, <3>2 DEF Pull, Sleep
    <3>3. QED
      BY <2>5, <3>1, <3>2 DEF Pull
  <2>6. CASE Handle
    BY <2>6 DEF Handle
  <2>7. CASE Clear
    BY <2>7 DEF Clear
  <2>8. CASE Exit
    BY <2>8 DEF Exit
  <2>9. CASE Start \/ Started \/ Stop \/ Join \/ Destroy
    BY <2>9 DEF Start, Started, Stop, Join, Destroy
  <2>10. CASE UNCHANGED vars
    BY <2>10 DEF vars
  <2>11. QED
    BY <2>1, <2>2, <2>3, <2>4, <2>5, <2>6, <2>7, <2>8, <2>9, <2>10 DEF Next
<1>3. QED
  BY <1>1, <1>2, PTL DEF Spec

(* The inbox never holds more than Limit + 1 messages, whoever sends and    *)
(* however the condition variable wakes (base_node.hpp:103-119).            *)
THEOREM InboxBound == Spec => []QueueBounded
<1>1. Init => QueueBounded
  BY NodeAssumption DEF Init, QueueBounded
<1>2. TypeOK /\ QueueBounded /\ [Next]_vars => QueueBounded'
  <2> SUFFICES ASSUME TypeOK, QueueBounded, [Next]_vars PROVE QueueBounded'
    OBVIOUS
  <2> USE NodeAssumption DEF TypeOK, QueueBounded
  <2>1. ASSUME NEW t \in Callers, Put(t) PROVE QueueBounded'
    BY <2>1 DEF Put, Push, Block, Drop, Full
  <2>2. CASE Pull
    BY <2>2 DEF Pull, Take, Sleep
  <2>3. CASE Clear
    BY <2>3 DEF Clear
  <2>4. CASE UNCHANGED in
    BY <2>4
  <2>5. QED
    BY <2>1, <2>2, <2>3, <2>4
    DEF Next, vars, Offer, SpuriousWake, Begin, Handle, Exit, Start, Started, Stop, Join, Destroy
<1>3. QED
  BY <1>1, <1>2, TypeCorrect, PTL DEF Spec

-----------------------------------------------------------------------------
(* No wake-up is lost.  WakeupInv is the heart of the argument; it is       *)
(* inductive together with the facts on who can be asleep.                  *)

(* A sender sleeps only inside put(), the node only inside pull_msg(). *)
Sleepers ==
  /\ \A t \in Senders : t \in waiting => pc[t] = "blocked"
  /\ Self \in waiting => node = "sleeping"
  /\ pc[Self] # "blocked"
  /\ main = "new" => node = "unborn"

WakeInv == TypeOK /\ QueueBounded /\ Sleepers /\ WakeupInv

(* The node does not wait for itself, and the senders are fewer than two full inboxes. *)
FewSenders == Pol[Self] = "DROP" /\ Cardinality(Senders) + 1 <= 2 * (Limit + 1)

(* Removing, adding and exchanging one element of a finite set. *)
LEMMA CardRemove ==
  ASSUME NEW S, IsFiniteSet(S), NEW x
  PROVE  /\ IsFiniteSet(S \ {x}) /\ Cardinality(S) \in Nat /\ Cardinality(S \ {x}) \in Nat
         /\ Cardinality(S \ {x}) >= Cardinality(S) - 1
<1>1. IsFiniteSet(S \ {x})
  BY FS_RemoveElement
<1>2. Cardinality(S) \in Nat /\ Cardinality(S \ {x}) \in Nat
  BY <1>1, FS_CardinalityType
<1>3. Cardinality(S \ {x}) = IF x \in S THEN Cardinality(S) - 1 ELSE Cardinality(S)
  BY FS_RemoveElement
<1>4. QED
  BY <1>1, <1>2, <1>3

(* One more element. *)
LEMMA CardAdd ==
  ASSUME NEW S, IsFiniteSet(S), NEW x, x \notin S
  PROVE  /\ IsFiniteSet(S \cup {x}) /\ Cardinality(S) \in Nat
         /\ Cardinality(S \cup {x}) = Cardinality(S) + 1
  BY FS_AddElement, FS_CardinalityType

(* One element for another. *)
LEMMA CardSwap ==
  ASSUME NEW S, IsFiniteSet(S), NEW x, NEW y, y \notin S
  PROVE  /\ IsFiniteSet((S \ {x}) \cup {y}) /\ Cardinality(S) \in Nat
         /\ Cardinality((S \ {x}) \cup {y}) \in Nat
         /\ Cardinality((S \ {x}) \cup {y}) >= Cardinality(S)
<1>1. /\ IsFiniteSet(S \ {x}) /\ Cardinality(S) \in Nat /\ Cardinality(S \ {x}) \in Nat
      /\ Cardinality(S \ {x}) >= Cardinality(S) - 1
  BY CardRemove
<1>2. /\ IsFiniteSet((S \ {x}) \cup {y})
      /\ Cardinality((S \ {x}) \cup {y}) = Cardinality(S \ {x}) + 1
  BY <1>1, CardAdd
<1>3. QED
  BY <1>1, <1>2

(* The three sets of senders are finite, and no woken sender is asleep. *)
LEMMA SenderSets ==
  /\ IsFiniteSet(Senders) /\ IsFiniteSet(WokenSenders) /\ IsFiniteSet(AwakeSenders)
  /\ Cardinality(Senders) \in Nat
  /\ Cardinality(WokenSenders) \in Nat /\ Cardinality(AwakeSenders) \in Nat
  /\ Cardinality(WokenSenders) <= Cardinality(AwakeSenders)
  /\ Cardinality(AwakeSenders) <= Cardinality(Senders)
<1>1. IsFiniteSet(Senders)
  BY NodeAssumption, FS_AddElement DEF Senders
<1>2. WokenSenders \subseteq AwakeSenders /\ AwakeSenders \subseteq Senders
  BY DEF WokenSenders, AwakeSenders
<1>3. IsFiniteSet(AwakeSenders) /\ Cardinality(AwakeSenders) <= Cardinality(Senders)
  BY <1>1, <1>2, FS_Subset
<1>4. IsFiniteSet(WokenSenders) /\ Cardinality(WokenSenders) <= Cardinality(AwakeSenders)
  BY <1>2, <1>3, FS_Subset
<1>5. QED
  BY <1>1, <1>3, <1>4, FS_CardinalityType

(* A non-zero count of woken senders names one. *)
LEMMA SomeWoken ==
  ASSUME Cardinality(WokenSenders) >= Limit + 1
  PROVE  SenderAwake
<1>1. Cardinality({}) = 0
  BY FS_EmptySet
<1>2. WokenSenders # {}
  BY <1>1, NodeAssumption
<1>3. QED
  BY <1>2 DEF WokenSenders, SenderAwake, Callers

(* A sender that leaves the wait set joins the woken and the awake ones. *)
LEMMA WakeSender ==
  ASSUME WakeInv, NEW u \in AsleepSenders, waiting' = waiting \ {u}, pc' = pc
  PROVE  /\ Cardinality(WokenSenders') = Cardinality(WokenSenders) + 1
         /\ Cardinality(AwakeSenders') = Cardinality(AwakeSenders) + 1
<1>1. /\ WokenSenders' = WokenSenders \cup {u} /\ u \notin WokenSenders
      /\ AwakeSenders' = AwakeSenders \cup {u} /\ u \notin AwakeSenders
  BY DEF WokenSenders, AwakeSenders, AsleepSenders, WakeInv, TypeOK, Callers
<1>2. QED
  BY <1>1, SenderSets, CardAdd

(* put(), inside its critical section. *)
LEMMA PutKeepsWakeups ==
  ASSUME FewSenders, WakeInv, NEW t \in Callers, Put(t)
  PROVE  WakeupInv'
<1> USE DEF InLoop, NodeAsleep
<1>1. /\ Len(in) \in Nat /\ Limit \in Nat /\ Len(in) <= Limit + 1
      /\ waiting \subseteq Callers /\ pc \in [Callers -> PutStates] /\ in \in Seq(Message)
      /\ UNCHANGED node /\ t \notin waiting
  BY NodeAssumption DEF WakeInv, TypeOK, QueueBounded, Put
<1>2. ASSUME Full PROVE ~NodeAsleep
  <2>1. in # <<>> /\ Len(in) = Limit + 1
    BY <1>1, <1>2 DEF Full
  <2>2. Cardinality(AwakeSenders) < 2 * (Limit + 1)
    BY <1>1, SenderSets DEF FewSenders
  <2>3. QED
    BY <1>1, <2>1, <2>2, SenderSets DEF WakeInv, WakeupInv
<1>3. CASE Full /\ Pol[t] = "WAIT" /\ Block(t)
  <2>1. t \in Senders
    BY <1>3 DEF FewSenders, Callers
  <2>2. ~NodeAsleep'
    BY <1>1, <1>2, <1>3, <2>1, NodeAssumption DEF Block, Senders
  <2>3. Cardinality(WokenSenders') \in Nat
    <3>1. WokenSenders' \subseteq Senders
      BY DEF WokenSenders
    <3>2. QED
      BY <3>1, SenderSets, FS_Subset, FS_CardinalityType
  <2>4. Len(in') >= Limit + 1
    BY <1>1, <1>3 DEF Block, Full
  <2>5. QED
    BY <1>1, <2>2, <2>3, <2>4 DEF WakeupInv
<1>4. CASE Full /\ Drop(t)
  <2>1. ~NodeAsleep'
    BY <1>2, <1>4, <1>1 DEF Drop
  <2>2. Cardinality(WokenSenders') \in Nat
    <3>1. WokenSenders' \subseteq Senders
      BY DEF WokenSenders
    <3>2. QED
      BY <3>1, SenderSets, FS_Subset, FS_CardinalityType
  <2>3. Len(in') >= Limit + 1
    BY <1>1, <1>4 DEF Drop, Full
  <2>4. QED
    BY <1>1, <2>1, <2>2, <2>3 DEF WakeupInv
<1>5. CASE Push(t)
  <2>1. Len(in') = Len(in) + 1 /\ in' # <<>>
    BY <1>1, <1>5 DEF Push
  <2>2. pc' = [pc EXCEPT ![t] = "idle"]
    BY <1>5 DEF Push
  <2>3. CASE waiting = {}
    <3>1. waiting' = {}
      BY <1>5, <2>3 DEF Push, NotifyOne
    <3>2. QED
      BY <3>1 DEF WakeupInv, AsleepSenders
  <2>4. ASSUME Self \in waiting, waiting' = waiting \ {Self} PROVE WakeupInv'
    <3>1. NodeAsleep /\ ~NodeAsleep'
      BY <2>4 DEF Sleepers, WakeInv
    <3>2. AsleepSenders' = AsleepSenders /\ WokenSenders' = WokenSenders \ {t}
      BY <1>1, <2>2, <2>4, NodeAssumption DEF AsleepSenders, WokenSenders, Senders, Callers
    <3>3. Cardinality(WokenSenders') \in Nat /\ Cardinality(WokenSenders') >= Cardinality(WokenSenders) - 1
      BY <3>2, SenderSets, CardRemove
    <3>4. AsleepSenders # {} => Cardinality(WokenSenders) >= Limit + 1
      BY <3>1 DEF WakeInv, WakeupInv
    <3>5. QED
      BY <1>1, <2>1, <3>1, <3>2, <3>3, <3>4, SenderSets DEF WakeupInv
  <2>5. ASSUME NEW u \in waiting, u # Self, waiting' = waiting \ {u} PROVE WakeupInv'
    <3>1. u \in AsleepSenders /\ u # t
      BY <1>1, <2>5 DEF AsleepSenders, WakeInv, Sleepers, Callers
    <3>2. /\ WokenSenders' = (WokenSenders \ {t}) \cup {u} /\ u \notin WokenSenders
          /\ AwakeSenders' = AwakeSenders \cup {u} /\ u \notin AwakeSenders
      BY <1>1, <2>2, <2>5, <3>1 DEF AsleepSenders, WokenSenders, AwakeSenders, Senders, Callers
    <3>3. /\ Cardinality(WokenSenders') \in Nat
          /\ Cardinality(WokenSenders') >= Cardinality(WokenSenders)
          /\ Cardinality(AwakeSenders') = Cardinality(AwakeSenders) + 1
      BY <3>2, SenderSets, CardSwap, CardAdd
    <3>4. NodeAsleep' <=> NodeAsleep
      BY <1>1, <2>5
    <3>5. CASE NodeAsleep
      <4>1. /\ Cardinality(WokenSenders) >= Limit + 1
            /\ Cardinality(AwakeSenders) >= Limit + 1 + Len(in)
        BY <3>1, <3>5 DEF WakeInv, WakeupInv
      <4>2. QED
        BY <1>1, <2>1, <3>3, <3>4, <3>5, <4>1, SenderSets DEF WakeupInv
    <3>6. CASE ~NodeAsleep
      <4>1. InLoop => Cardinality(WokenSenders) + Len(in) >= Limit + 1
        BY <3>1, <3>6 DEF WakeInv, WakeupInv
      <4>2. QED
        BY <1>1, <2>1, <3>3, <3>4, <3>6, <4>1, SenderSets DEF WakeupInv
    <3>7. QED
      BY <3>5, <3>6
  <2>6. QED
    BY <1>5, <2>3, <2>4, <2>5 DEF Push, NotifyOne
<1>6. QED
  BY <1>3, <1>4, <1>5 DEF Put

(* pull_msg(), inside its critical section. *)
LEMMA PullKeepsWakeups ==
  ASSUME WakeInv, Pull
  PROVE  WakeupInv'
<1> USE DEF InLoop, NodeAsleep
<1>1. /\ Len(in) \in Nat /\ Limit \in Nat /\ in \in Seq(Message)
      /\ waiting \subseteq Callers /\ Self \notin waiting
      /\ node \in {"pulling", "sleeping"} /\ UNCHANGED pc
  BY NodeAssumption DEF WakeInv, TypeOK, Pull
<1>2. AsleepSenders # {} => Cardinality(WokenSenders) + Len(in) >= Limit + 1
  BY <1>1 DEF WakeInv, WakeupInv
<1>3. CASE Take
  <2>1. ~NodeAsleep' /\ Len(in') = Len(in) - 1 /\ Len(in') \in Nat
    BY <1>1, <1>3 DEF Take
  <2>2. CASE waiting = {}
    <3>1. waiting' = {}
      BY <1>3, <2>2 DEF Take, NotifyOne
    <3>2. QED
      BY <2>1, <3>1 DEF WakeupInv, AsleepSenders
  <2>3. ASSUME NEW u \in waiting, waiting' = waiting \ {u} PROVE WakeupInv'
    <3>1. u \in AsleepSenders
      BY <1>1, <2>3 DEF AsleepSenders, WakeInv, Sleepers, Callers
    <3>2. Cardinality(WokenSenders') = Cardinality(WokenSenders) + 1
      BY <1>1, <2>3, <3>1, WakeSender
    <3>3. QED
      BY <1>1, <1>2, <2>1, <3>1, <3>2, SenderSets DEF WakeupInv
  <2>4. QED
    BY <1>3, <2>2, <2>3 DEF Take, NotifyOne
<1>4. CASE Sleep
  <2>1. /\ AsleepSenders' = AsleepSenders /\ WokenSenders' = WokenSenders
        /\ AwakeSenders' = AwakeSenders
    BY <1>1, <1>4, NodeAssumption DEF Sleep, AsleepSenders, WokenSenders, AwakeSenders, Senders
  <2>2. NodeAsleep' /\ in' = <<>> /\ in = <<>> /\ Len(in) = 0
    BY <1>4 DEF Sleep
  <2>3. QED
    BY <1>1, <1>2, <2>1, <2>2, SenderSets DEF WakeupInv
<1>5. QED
  BY <1>3, <1>4 DEF Pull

(* A wake-up nobody asked for. *)
LEMMA SpuriousKeepsWakeups ==
  ASSUME WakeInv, NEW t \in Callers, SpuriousWake(t)
  PROVE  WakeupInv'
<1> USE DEF InLoop, NodeAsleep
<1>1. /\ Len(in) \in Nat /\ Limit \in Nat /\ waiting \subseteq Callers
      /\ t \in waiting /\ waiting' = waiting \ {t}
      /\ UNCHANGED <<in, pc, node>>
  BY NodeAssumption DEF WakeInv, TypeOK, SpuriousWake
<1>2. CASE t = Self
  <2>1. NodeAsleep /\ ~NodeAsleep'
    BY <1>1, <1>2 DEF Sleepers, WakeInv
  <2>2. AsleepSenders' = AsleepSenders /\ WokenSenders' = WokenSenders
    BY <1>1, <1>2, NodeAssumption DEF AsleepSenders, WokenSenders, Senders
  <2>3. QED
    BY <1>1, <2>1, <2>2, SenderSets DEF WakeupInv, WakeInv
<1>3. CASE t # Self
  <2>1. t \in AsleepSenders
    BY <1>1, <1>3 DEF AsleepSenders, WakeInv, Sleepers, Callers
  <2>2. /\ Cardinality(WokenSenders') = Cardinality(WokenSenders) + 1
        /\ Cardinality(AwakeSenders') = Cardinality(AwakeSenders) + 1
    BY <1>1, <2>1, WakeSender
  <2>3. NodeAsleep' <=> NodeAsleep
    BY <1>1, <1>3
  <2>4. QED
    BY <1>1, <2>1, <2>2, <2>3, SenderSets DEF WakeupInv, WakeInv
<1>4. QED
  BY <1>2, <1>3

(* Every other step leaves the senders where they are. *)
LEMMA RestKeepsWakeups ==
  ASSUME WakeInv,
         \/ \E t \in Callers : Offer(t)
         \/ Begin \/ Handle \/ Clear \/ Exit
         \/ Start \/ Started \/ Stop \/ Join \/ Destroy
         \/ UNCHANGED vars
  PROVE  WakeupInv'
<1>1. waiting' = waiting
  BY DEF Offer, Begin, Handle, Clear, Exit, Start, Started, Stop, Join, Destroy, vars
<1>2. \A t \in Callers : pc'[t] = "blocked" <=> pc[t] = "blocked"
  BY DEF Offer, Begin, Handle, Clear, Exit, Start, Started, Stop, Join, Destroy, vars,
         WakeInv, TypeOK
<1>3. /\ AsleepSenders' = AsleepSenders /\ WokenSenders' = WokenSenders
      /\ AwakeSenders' = AwakeSenders
  BY <1>1, <1>2 DEF AsleepSenders, WokenSenders, AwakeSenders, Callers
<1>4. NodeAsleep' <=> NodeAsleep
  BY <1>1 DEF Offer, Begin, Handle, Clear, Exit, Start, Started, Stop, Join, Destroy, vars,
              NodeAsleep, WakeInv, Sleepers
<1>5. InLoop' => InLoop /\ in' = in
  BY DEF Offer, Begin, Handle, Clear, Exit, Start, Started, Stop, Join, Destroy, vars,
         InLoop, WakeInv, Sleepers
<1>6. NodeAsleep => InLoop
  BY DEF NodeAsleep, InLoop
<1>7. NodeAsleep' => InLoop'
  BY DEF NodeAsleep, InLoop
<1>8. QED
  BY <1>3, <1>4, <1>5, <1>6, <1>7 DEF WakeupInv, WakeInv

(* The rest of WakeInv is kept by every step. *)
LEMMA SleepersStep ==
  ASSUME FewSenders, WakeInv, [Next]_vars
  PROVE  Sleepers'
<1> USE NodeAssumption DEF WakeInv, TypeOK, Sleepers, Callers, Senders
<1>1. ASSUME NEW t \in Callers, Offer(t) PROVE Sleepers'
  BY <1>1 DEF Offer
<1>2. ASSUME NEW t \in Callers, Put(t) PROVE Sleepers'
  <2>1. CASE Push(t)
    BY <1>2, <2>1 DEF Put, Push, NotifyOne
  <2>2. CASE Pol[t] = "WAIT" /\ Block(t)
    BY <1>2, <2>2 DEF Put, Block, FewSenders
  <2>3. CASE Drop(t)
    BY <1>2, <2>3 DEF Put, Drop
  <2>4. QED
    BY <1>2, <2>1, <2>2, <2>3 DEF Put
<1>3. ASSUME NEW t \in Callers, SpuriousWake(t) PROVE Sleepers'
  BY <1>3 DEF SpuriousWake
<1>4. CASE Pull
  BY <1>4 DEF Pull, Take, Sleep, NotifyOne
<1>5. CASE Begin \/ Handle \/ Clear \/ Exit
  BY <1>5 DEF Begin, Handle, Clear, Exit
<1>6. CASE Start \/ Started \/ Stop \/ Join \/ Destroy
  BY <1>6 DEF Start, Started, Stop, Join, Destroy
<1>7. CASE UNCHANGED vars
  BY <1>7 DEF vars
<1>8. QED
  BY <1>1, <1>2, <1>3, <1>4, <1>5, <1>6, <1>7 DEF Next

(* WakeInv is an invariant. *)
LEMMA WakeInvStep ==
  ASSUME FewSenders
  PROVE  Spec => []WakeInv
<1>1. Init => WakeInv
  <2> SUFFICES ASSUME Init PROVE WakeInv
    OBVIOUS
  <2>1. AsleepSenders = {} /\ ~NodeAsleep
    BY DEF Init, AsleepSenders, NodeAsleep
  <2>2. Sleepers
    BY NodeAssumption DEF Init, Sleepers, Callers
  <2>3. WakeupInv
    BY <2>1 DEF WakeupInv
  <2>4. TypeOK /\ QueueBounded
    BY InitTypeOK, NodeAssumption DEF Init, QueueBounded
  <2>5. QED
    BY <2>2, <2>3, <2>4 DEF WakeInv
<1>2. WakeInv /\ TypeOK' /\ QueueBounded' /\ [Next]_vars => WakeInv'
  <2> SUFFICES ASSUME WakeInv, TypeOK', QueueBounded', [Next]_vars PROVE WakeInv'
    OBVIOUS
  <2>1. Sleepers'
    BY SleepersStep
  <2>2. WakeupInv'
    BY PutKeepsWakeups, PullKeepsWakeups, SpuriousKeepsWakeups, RestKeepsWakeups DEF Next
  <2>3. QED
    BY <2>1, <2>2 DEF WakeInv
<1>3. QED
  BY <1>1, <1>2, TypeCorrect, InboxBound, PTL DEF Spec

(* With fewer senders than two full inboxes hold, and a node that never     *)
(* waits for itself, no wake-up is lost although producers and the consumer *)
(* share one condition variable: while the node sleeps, whatever there is   *)
(* to do has a woken sender that will do it (base_node.hpp:103-120,         *)
(* 181-192).  With Limit = 10 that is up to 21 sending threads.             *)
THEOREM NoWakeupIsLost ==
  ASSUME FewSenders
  PROVE  Spec => []NoLostWakeup
<1>1. WakeInv => NoLostWakeup
  <2> SUFFICES ASSUME WakeInv, NodeAsleep, in # <<>> \/ SenderAsleep PROVE SenderAwake
    BY DEF NoLostWakeup
  <2>1. SenderAsleep => AsleepSenders # {}
    BY DEF SenderAsleep, AsleepSenders, WakeInv, Sleepers, Callers
  <2>2. Cardinality(WokenSenders) >= Limit + 1
    BY <2>1 DEF WakeInv, WakeupInv
  <2>3. QED
    BY <2>2, SomeWoken
<1>2. QED
  BY <1>1, WakeInvStep, PTL

(* Under the same assumption senders sleep only while a full inbox, or the  *)
(* senders already woken to fill it, stand before them: none sleeps at an   *)
(* inbox with room that nobody is about to take (base_node.hpp:107, 190).   *)
THEOREM EnoughWoken ==
  ASSUME FewSenders
  PROVE  Spec => []WakeupInv
<1>1. WakeInv => WakeupInv
  BY DEF WakeInv
<1>2. QED
  BY <1>1, WakeInvStep, PTL

-----------------------------------------------------------------------------
(* BaseNode implements Inbox: the node's queue, mutex and condition         *)
(* variable keep the promises of the abstract inbox, for every set of       *)
(* producers, every Limit, every policy of the producers and every bound.   *)

Offered == [t \in Callers |-> IF pc[t] = "idle" THEN sent[t] ELSE sent[t] - 1]

(* Along the inbox, and from the messages taken to those still in it, the   *)
(* numbers of each sender increase, and none has not been offered yet.      *)
OrderInv ==
  /\ \A i, j \in 1 .. Len(in) : i < j /\ in[i].from = in[j].from => in[i].n < in[j].n
  /\ \A i \in 1 .. Len(taken), j \in 1 .. Len(in) :
       taken[i].from = in[j].from => taken[i].n < in[j].n
  /\ \A i \in 1 .. Len(in) : in[i].n <= Offered[in[i].from]
  /\ \A i \in 1 .. Len(taken) : taken[i].n <= Offered[taken[i].from]

(* STOP is the last message the loop takes; v_running is true from the      *)
(* first step of the node's thread to its last.                             *)
LifeInv ==
  /\ v_running <=> node \notin {"unborn", "starting", "dead"}
  /\ main = "new" => node = "unborn"
  /\ main \notin {"new", "starting"} => node \notin {"unborn", "starting"}
  /\ node \in {"unborn", "starting", "pulling", "sleeping"} =>
       \A i \in 1 .. Len(taken) : ~IsStop(taken[i])
  /\ node = "handling" => taken # <<>>
  /\ node = "handling" => \A i \in 1 .. Len(taken) - 1 : ~IsStop(taken[i])
  /\ node = "clearing" => \E i \in 1 .. Len(taken) : IsStop(taken[i])

FifoInv == TypeOK /\ OrderInv /\ LifeInv

-----------------------------------------------------------------------------
(* What Append and Tail do to the messages of one sender. *)

(* One more message at the end. *)
LEMMA FromAppend ==
  ASSUME NEW s \in Seq(Message), NEW m \in Message, NEW t
  PROVE  From(t, Append(s, m)) =
           IF t = m.from THEN From(t, s) \cup {m.n} ELSE From(t, s)
<1> DEFINE a == Append(s, m)
<1>1. /\ Len(a) = Len(s) + 1 /\ Len(s) \in Nat
      /\ a[Len(s) + 1] = m
      /\ \A i \in 1 .. Len(s) : a[i] = s[i]
  OBVIOUS
<1>2. 1 .. Len(a) = (1 .. Len(s)) \cup {Len(s) + 1}
  BY <1>1
<1> HIDE DEF a
<1>3. {j \in 1 .. Len(a) : a[j].from = t} =
        {j \in 1 .. Len(s) : s[j].from = t} \cup (IF t = m.from THEN {Len(s) + 1} ELSE {})
  BY <1>1, <1>2
<1>4. From(t, a) =
        IF t = m.from THEN From(t, s) \cup {m.n} ELSE From(t, s)
  BY <1>1, <1>3 DEF From
<1>5. QED
  BY <1>4 DEF a

(* One message less at the front, in a sequence ordered per sender. *)
LEMMA FromTail ==
  ASSUME NEW s \in Seq(Message), s # <<>>,
         \A i, j \in 1 .. Len(s) : i < j /\ s[i].from = s[j].from => s[i].n < s[j].n,
         NEW t
  PROVE  From(t, Tail(s)) =
           IF t = Head(s).from THEN From(t, s) \ {Head(s).n} ELSE From(t, s)
<1> DEFINE r == Tail(s)
<1>1. /\ Len(r) = Len(s) - 1 /\ Len(s) \in Nat \ {0}
      /\ Head(s) = s[1]
      /\ \A i \in 1 .. Len(r) : r[i] = s[i + 1]
      /\ \A i \in 1 .. Len(s) : s[i] \in Message
  OBVIOUS
<1> HIDE DEF r
<1>2. ASSUME NEW x PROVE x \in From(t, r) <=> \E i \in 2 .. Len(s) : s[i].from = t /\ s[i].n = x
  <2>1. ASSUME x \in From(t, r) PROVE \E i \in 2 .. Len(s) : s[i].from = t /\ s[i].n = x
    <3>1. PICK i \in 1 .. Len(r) : r[i].from = t /\ r[i].n = x
      BY <2>1 DEF From
    <3>2. i + 1 \in 2 .. Len(s) /\ r[i] = s[i + 1]
      BY <1>1, <3>1
    <3>3. QED
      BY <3>1, <3>2
  <2>2. ASSUME NEW i \in 2 .. Len(s), s[i].from = t, s[i].n = x PROVE x \in From(t, r)
    <3>1. i - 1 \in 1 .. Len(r) /\ r[i - 1] = s[i]
      BY <1>1, <2>2
    <3>2. QED
      BY <2>2, <3>1 DEF From
  <2>3. QED
    BY <2>1, <2>2
<1>3. ASSUME NEW x
      PROVE  x \in From(t, s) <=>
               \/ s[1].from = t /\ s[1].n = x
               \/ \E i \in 2 .. Len(s) : s[i].from = t /\ s[i].n = x
  <2>1. 1 .. Len(s) = {1} \cup (2 .. Len(s))
    BY <1>1
  <2>2. QED
    BY <2>1 DEF From
<1>4. \A i \in 2 .. Len(s) : s[1].from = s[i].from => s[1].n < s[i].n
  BY <1>1
<1>5. ASSUME t = s[1].from PROVE From(t, r) = From(t, s) \ {s[1].n}
  <2>1. \A i \in 2 .. Len(s) : s[i].from = t => s[i].n # s[1].n
    BY <1>1, <1>4, <1>5 DEF Message
  <2>2. QED
    BY <1>2, <1>3, <2>1
<1>6. ASSUME t # s[1].from PROVE From(t, r) = From(t, s)
  BY <1>2, <1>3, <1>6
<1>7. QED
  BY <1>1, <1>5, <1>6 DEF r

-----------------------------------------------------------------------------
(* The invariant behind the refinement. *)

(* Every step keeps the life cycle. *)
LEMMA LifeStep ==
  ASSUME TypeOK, LifeInv, [Next]_vars
  PROVE  LifeInv'
<1> USE DEF LifeInv
<1>1. ASSUME NEW t \in Callers, Offer(t) \/ Put(t) \/ SpuriousWake(t) PROVE LifeInv'
  <2>1. UNCHANGED <<v_running, node, main, taken>>
    BY <1>1 DEF Offer, Put, SpuriousWake
  <2>2. QED
    BY <2>1
<1>2. CASE Pull
  <2>1. CASE Take
    <3>1. /\ Len(taken') = Len(taken) + 1 /\ Len(taken) \in Nat
          /\ \A i \in 1 .. Len(taken) : taken'[i] = taken[i]
      BY <2>1 DEF Take, TypeOK
    <3>2. node' = "handling" /\ UNCHANGED <<v_running, main>>
      BY <1>2, <2>1 DEF Pull, Take
    <3>3. \A i \in 1 .. Len(taken) : ~IsStop(taken[i])
      BY <1>2 DEF Pull
    <3>4. \A i \in 1 .. Len(taken') - 1 : ~IsStop(taken'[i])
      BY <3>1, <3>3
    <3>5. QED
      BY <1>2, <3>1, <3>2, <3>4 DEF Pull
  <2>2. CASE Sleep
    BY <1>2, <2>2 DEF Pull, Sleep
  <2>3. QED
    BY <1>2, <2>1, <2>2 DEF Pull
<1>3. CASE Handle
  <2>1. Len(taken) \in Nat \ {0} /\ taken' = taken
    BY <1>3 DEF Handle, TypeOK
  <2>2. 1 .. Len(taken) = (1 .. Len(taken) - 1) \cup {Len(taken)}
    BY <2>1
  <2>3. node = "handling" /\ UNCHANGED <<v_running, main>>
    BY <1>3 DEF Handle
  <2>4. CASE IsStop(taken[Len(taken)])
    <3>1. node' = "clearing"
      BY <1>3, <2>4 DEF Handle
    <3>2. QED
      BY <2>1, <2>2, <2>3, <2>4, <3>1
  <2>5. CASE ~IsStop(taken[Len(taken)])
    <3>1. node' = "pulling"
      BY <1>3, <2>5 DEF Handle
    <3>2. QED
      BY <2>1, <2>2, <2>3, <2>5, <3>1
  <2>6. QED
    BY <2>4, <2>5
<1>4. CASE Begin \/ Clear \/ Exit
  BY <1>4 DEF Begin, Clear, Exit
<1>5. CASE Start \/ Started \/ Stop \/ Join \/ Destroy
  BY <1>5 DEF Start, Started, Stop, Join, Destroy
<1>6. CASE UNCHANGED vars
  BY <1>6 DEF vars
<1>7. QED
  BY <1>1, <1>2, <1>3, <1>4, <1>5, <1>6 DEF Next

(* Every step keeps the order. *)
LEMMA OrderStep ==
  ASSUME TypeOK, OrderInv, [Next]_vars
  PROVE  OrderInv'
<1>1. /\ in \in Seq(Message) /\ taken \in Seq(Message)
      /\ Len(in) \in Nat /\ Len(taken) \in Nat
      /\ pc \in [Callers -> PutStates] /\ sent \in [Callers -> Nat]
      /\ \A i \in 1 .. Len(in) : in[i].from \in Callers /\ in[i].n \in Nat
      /\ \A i \in 1 .. Len(taken) : taken[i].from \in Callers /\ taken[i].n \in Nat
      /\ \A t \in Callers : Offered[t] \in Int
  <2>1. /\ in \in Seq(Message) /\ taken \in Seq(Message)
        /\ pc \in [Callers -> PutStates] /\ sent \in [Callers -> Nat]
    BY DEF TypeOK
  <2>2. \A m \in Message : m.from \in Callers /\ m.n \in Nat
    BY DEF Message
  <2>3. /\ Len(in) \in Nat /\ Len(taken) \in Nat
        /\ \A i \in 1 .. Len(in) : in[i] \in Message
        /\ \A i \in 1 .. Len(taken) : taken[i] \in Message
    BY <2>1
  <2>4. \A t \in Callers : Offered[t] \in Int
    BY <2>1 DEF Offered
  <2>5. QED
    BY <2>1, <2>2, <2>3, <2>4
<1>2. ASSUME NEW t \in Callers, Put(t), Push(t) PROVE OrderInv'
  <2>1. /\ Len(in') = Len(in) + 1
        /\ \A i \in 1 .. Len(in) : in'[i] = in[i]
        /\ in'[Len(in) + 1] = MessageOf(t)
        /\ taken' = taken
    BY <1>1, <1>2 DEF Put, Push
  <2>2. MessageOf(t).from = t /\ MessageOf(t).n = Offered[t] + 1
    BY <1>1, <1>2 DEF MessageOf, Offered, Put
  <2>3. /\ Offered'[t] = Offered[t] + 1
        /\ \A u \in Callers \ {t} : Offered'[u] = Offered[u]
    BY <1>1, <1>2 DEF Put, Push, Offered
  <2>4. \A u \in Callers : Offered'[u] >= Offered[u] /\ Offered'[u] \in Int
    BY <1>1, <2>3
  <2>5. \A i \in 1 .. Len(in) : in[i].n <= Offered[in[i].from]
    BY DEF OrderInv
  <2>6. \A i, j \in 1 .. Len(in') : i < j /\ in'[i].from = in'[j].from => in'[i].n < in'[j].n
    <3> SUFFICES ASSUME NEW i \in 1 .. Len(in'), NEW j \in 1 .. Len(in'), i < j,
                        in'[i].from = in'[j].from
                 PROVE  in'[i].n < in'[j].n
      OBVIOUS
    <3>1. i \in 1 .. Len(in) /\ in'[i] = in[i]
      <4>1. Len(in) \in Nat /\ Len(in') = Len(in) + 1
        BY <1>1, <2>1
      <4>2. i \in 1 .. Len(in)
        BY <4>1
      <4>3. QED
        BY <2>1, <4>2
    <3>2. CASE j \in 1 .. Len(in)
      BY <2>1, <3>1, <3>2 DEF OrderInv
    <3>3. CASE j = Len(in) + 1
      <4>1. in'[j] = MessageOf(t)
        BY <2>1, <3>3
      <4>2. in[i].from = t /\ in[i].n <= Offered[t]
        BY <2>2, <2>5, <3>1, <4>1
      <4>3. in[i].n \in Nat /\ Offered[t] \in Int
        BY <1>1, <3>1
      <4>4. in'[j].n = Offered[t] + 1 /\ in'[i].n = in[i].n
        BY <2>2, <3>1, <4>1
      <4>5. QED
        BY <4>2, <4>3, <4>4
    <3>4. j \in 1 .. Len(in) \/ j = Len(in) + 1
      <4>1. Len(in) \in Nat /\ Len(in') = Len(in) + 1
        BY <1>1, <2>1
      <4>2. QED
        BY <4>1
    <3>5. QED
      BY <3>2, <3>3, <3>4
  <2>7. \A i \in 1 .. Len(taken'), j \in 1 .. Len(in') :
          taken'[i].from = in'[j].from => taken'[i].n < in'[j].n
    <3> SUFFICES ASSUME NEW i \in 1 .. Len(taken), NEW j \in 1 .. Len(in'),
                        taken[i].from = in'[j].from
                 PROVE  taken[i].n < in'[j].n
      BY <2>1
    <3>1. CASE j \in 1 .. Len(in)
      BY <2>1, <3>1 DEF OrderInv
    <3>2. CASE j = Len(in) + 1
      <4>1. in'[j] = MessageOf(t) /\ taken[i].n <= Offered[taken[i].from]
        BY <2>1, <3>2 DEF OrderInv
      <4>2. taken[i].from = t /\ in'[j].n = Offered[t] + 1
        BY <2>2, <4>1
      <4>3. taken[i].n \in Nat /\ Offered[t] \in Int
        BY <1>1
      <4>4. QED
        BY <4>1, <4>2, <4>3
    <3>3. QED
      BY <1>1, <2>1, <3>1, <3>2
  <2>8. \A i \in 1 .. Len(in') : in'[i].n <= Offered'[in'[i].from]
    <3> SUFFICES ASSUME NEW i \in 1 .. Len(in') PROVE in'[i].n <= Offered'[in'[i].from]
      OBVIOUS
    <3>1. CASE i \in 1 .. Len(in)
      <4>1. in'[i] = in[i] /\ in[i].n <= Offered[in[i].from]
        BY <2>1, <2>5, <3>1
      <4>2. /\ in[i].from \in Callers /\ in[i].n \in Nat
            /\ Offered[in[i].from] \in Int
            /\ Offered'[in[i].from] \in Int /\ Offered'[in[i].from] >= Offered[in[i].from]
        BY <1>1, <2>4, <3>1
      <4>3. QED
        BY <4>1, <4>2
    <3>2. CASE i = Len(in) + 1
      <4>1. in'[i].from = t /\ in'[i].n = Offered[t] + 1
        BY <2>1, <2>2, <3>2
      <4>2. QED
        BY <1>1, <2>3, <4>1
    <3>3. QED
      BY <1>1, <2>1, <3>1, <3>2
  <2>9. \A i \in 1 .. Len(taken') : taken'[i].n <= Offered'[taken'[i].from]
    BY <1>1, <2>1, <2>4 DEF OrderInv
  <2>10. QED
    BY <2>6, <2>7, <2>8, <2>9 DEF OrderInv
<1>3. ASSUME in' = in, taken' = taken, \A t \in Callers : Offered'[t] \in Int /\ Offered'[t] >= Offered[t]
      PROVE  OrderInv'
  <2> SUFFICES ASSUME NEW t \in Callers, NEW x \in Nat, x <= Offered[t]
               PROVE  x <= Offered'[t]
    BY <1>1, <1>3 DEF OrderInv
  <2>1. QED
    BY <1>1, <1>3
<1>4. ASSUME NEW t \in Callers, Offer(t) PROVE OrderInv'
  BY <1>1, <1>3, <1>4 DEF Offer, Offered, PutStates
<1>5. ASSUME NEW t \in Callers, Put(t), Block(t) \/ Drop(t) PROVE OrderInv'
  BY <1>1, <1>3, <1>5 DEF Put, Block, Drop, Offered, PutStates
<1>6. CASE Pull /\ Take
  <2>1. /\ Len(in') = Len(in) - 1 /\ Len(in) \in Nat \ {0}
        /\ \A i \in 1 .. Len(in') : in'[i] = in[i + 1]
        /\ Len(taken') = Len(taken) + 1
        /\ \A i \in 1 .. Len(taken) : taken'[i] = taken[i]
        /\ taken'[Len(taken) + 1] = in[1]
    BY <1>1, <1>6 DEF Take
  <2>2. \A t \in Callers : Offered'[t] = Offered[t]
    BY <1>6 DEF Pull, Offered
  <2>3. \A i, j \in 1 .. Len(in') : i < j /\ in'[i].from = in'[j].from => in'[i].n < in'[j].n
    <3> SUFFICES ASSUME NEW i \in 1 .. Len(in'), NEW j \in 1 .. Len(in'), i < j,
                        in'[i].from = in'[j].from
                 PROVE  in'[i].n < in'[j].n
      OBVIOUS
    <3>1. /\ i + 1 \in 1 .. Len(in) /\ j + 1 \in 1 .. Len(in) /\ i + 1 < j + 1
          /\ in'[i] = in[i + 1] /\ in'[j] = in[j + 1]
      BY <2>1
    <3>2. QED
      BY <3>1 DEF OrderInv
  <2>4. \A i \in 1 .. Len(taken'), j \in 1 .. Len(in') :
          taken'[i].from = in'[j].from => taken'[i].n < in'[j].n
    <3> SUFFICES ASSUME NEW i \in 1 .. Len(taken'), NEW j \in 1 .. Len(in'),
                        taken'[i].from = in'[j].from
                 PROVE  taken'[i].n < in'[j].n
      OBVIOUS
    <3>1. j + 1 \in 1 .. Len(in) /\ in'[j] = in[j + 1] /\ 1 \in 1 .. Len(in) /\ 1 < j + 1
      BY <2>1
    <3>2. CASE i \in 1 .. Len(taken)
      BY <2>1, <3>1, <3>2 DEF OrderInv
    <3>3. CASE i = Len(taken) + 1
      BY <2>1, <3>1, <3>3 DEF OrderInv
    <3>4. QED
      BY <1>1, <2>1, <3>2, <3>3
  <2>5. \A i \in 1 .. Len(in') : in'[i].n <= Offered'[in'[i].from]
    BY <1>1, <2>1, <2>2 DEF OrderInv
  <2>6. \A i \in 1 .. Len(taken') : taken'[i].n <= Offered'[taken'[i].from]
    <3> SUFFICES ASSUME NEW i \in 1 .. Len(taken')
                 PROVE  taken'[i].n <= Offered'[taken'[i].from]
      OBVIOUS
    <3>1. CASE i \in 1 .. Len(taken)
      BY <1>1, <2>1, <2>2, <3>1 DEF OrderInv
    <3>2. CASE i = Len(taken) + 1
      BY <1>1, <2>1, <2>2, <3>2 DEF OrderInv
    <3>3. QED
      BY <1>1, <2>1, <3>1, <3>2
  <2>7. QED
    BY <2>3, <2>4, <2>5, <2>6 DEF OrderInv
<1>7. CASE Clear
  <2>1. /\ in' = <<>> /\ taken' = taken /\ \A t \in Callers : Offered'[t] = Offered[t]
    BY <1>7 DEF Clear, Offered
  <2>2. 1 .. Len(in') = {}
    BY <2>1
  <2>3. QED
    BY <1>1, <2>1, <2>2 DEF OrderInv
<1>8. CASE \/ \E t \in Callers : SpuriousWake(t)
           \/ Pull /\ Sleep
           \/ Begin \/ Handle \/ Exit
           \/ Start \/ Started \/ Stop \/ Join \/ Destroy
           \/ UNCHANGED vars
  <2>1. in' = in /\ taken' = taken /\ pc' = pc /\ sent' = sent
    BY <1>8 DEF SpuriousWake, Pull, Sleep, Begin, Handle, Exit, Start, Started, Stop, Join,
                Destroy, vars
  <2>2. \A t \in Callers : Offered'[t] = Offered[t]
    BY <2>1 DEF Offered
  <2>3. QED
    BY <1>1, <1>3, <2>1, <2>2
<1>9. QED
  BY <1>2, <1>4, <1>5, <1>6, <1>7, <1>8 DEF Next, Put, Pull

(* The invariant holds in every behaviour. *)
LEMMA FifoInvariant == Spec => []FifoInv
<1>1. Init => FifoInv
  <2> SUFFICES ASSUME Init PROVE FifoInv
    OBVIOUS
  <2>1. 1 .. Len(in) = {} /\ 1 .. Len(taken) = {}
    BY DEF Init
  <2>2. OrderInv
    BY <2>1 DEF OrderInv
  <2>3. LifeInv
    BY <2>1 DEF Init, LifeInv
  <2>4. QED
    BY <2>2, <2>3, InitTypeOK DEF FifoInv
<1>2. FifoInv /\ TypeOK' /\ [Next]_vars => FifoInv'
  BY LifeStep, OrderStep DEF FifoInv
<1>3. QED
  BY <1>1, <1>2, TypeCorrect, PTL DEF Spec

-----------------------------------------------------------------------------
(* The refinement, step by step. *)

(* The initial state maps to the initial state. *)
LEMMA MapInit == Init => Abstract!Init
<1> SUFFICES ASSUME Init PROVE Abstract!Init
  OBVIOUS
<1>1. \A t : From(t, <<>>) = {}
  <2>1. 1 .. Len(<<>>) = {}
    OBVIOUS
  <2>2. QED
    BY <2>1 DEF From
<1>2. QED
  BY <1>1 DEF Init, Abstract!Init

(* Entering put() maps to a refusal, by a node that does not run, or to nothing. *)
LEMMA MapOffer ==
  ASSUME FifoInv, NEW t \in Callers, Offer(t)
  PROVE  Abstract!Refuse(t) \/ UNCHANGED Abstract!ivars
<1> DEFINE off == [u \in Callers |-> IF pc[u] = "idle" THEN sent[u] ELSE sent[u] - 1]
<1>1. /\ pc \in [Callers -> PutStates] /\ sent \in [Callers -> Nat] /\ pc[t] = "idle"
      /\ UNCHANGED <<in, taken, node>>
      /\ sent' = [sent EXCEPT ![t] = @ + 1]
      /\ pc' = [pc EXCEPT ![t] = IF v_running THEN "locking" ELSE "idle"]
  BY DEF FifoInv, TypeOK, Offer
<1>2. CASE v_running
  <2>1. off' = off
    BY <1>1, <1>2
  <2>2. QED
    BY <1>1, <2>1 DEF Abstract!ivars
<1>3. CASE ~v_running
  <2>1. off' = [off EXCEPT ![t] = @ + 1]
    BY <1>1, <1>3
  <2>2. node = "dead"
    BY <1>3 DEF FifoInv, LifeInv, TypeOK, NodeStates, Offer, MayCall, Callers, Senders
  <2>3. QED
    BY <1>1, <2>1, <2>2 DEF Abstract!Refuse
<1>4. QED
  BY <1>2, <1>3

(* Offered counts a put() when it returns. *)
LEMMA OfferedGrows ==
  ASSUME TypeOK, NEW t \in Callers, pc[t] # "idle",
         pc' = [pc EXCEPT ![t] = "idle"], sent' = sent
  PROVE  Offered' = [Offered EXCEPT ![t] = @ + 1]
<1>1. /\ sent \in [Callers -> Nat]
      /\ \A u \in Callers : pc'[u] = IF u = t THEN "idle" ELSE pc[u]
  BY DEF TypeOK
<1>2. Offered'[t] = Offered[t] + 1
  BY <1>1 DEF Offered
<1>3. \A u \in Callers \ {t} : Offered'[u] = Offered[u]
  BY <1>1 DEF Offered
<1>4. QED
  BY <1>2, <1>3 DEF Offered

(* The critical section of put() maps to acceptance, refusal or nothing. *)
LEMMA MapPut ==
  ASSUME FifoInv, NEW t \in Callers, Put(t)
  PROVE  Abstract!Accept(t) \/ Abstract!Refuse(t) \/ UNCHANGED Abstract!ivars
<1> DEFINE off == [u \in Callers |-> IF pc[u] = "idle" THEN sent[u] ELSE sent[u] - 1]
<1>1. /\ in \in Seq(Message) /\ pc \in [Callers -> PutStates] /\ sent \in [Callers -> Nat]
      /\ pc[t] # "idle" /\ off[t] = sent[t] - 1
      /\ UNCHANGED <<taken, node, sent>>
      /\ TypeOK
  BY DEF FifoInv, TypeOK, Put
<1>2. CASE Push(t)
  <2>1. off' = [off EXCEPT ![t] = @ + 1]
    BY <1>1, <1>2, OfferedGrows DEF Push, Offered
  <2>2. MessageOf(t) \in Message /\ MessageOf(t).from = t /\ MessageOf(t).n = off[t] + 1
    BY <1>1 DEF MessageOf, Message
  <2>3. \A u \in Callers :
          From(u, in') = IF u = t THEN From(u, in) \cup {off[t] + 1} ELSE From(u, in)
    BY <1>1, <1>2, <2>2, FromAppend DEF Push
  <2>4. [u \in Callers |-> From(u, in)]'
          = [[u \in Callers |-> From(u, in)] EXCEPT ![t] = @ \cup {off[t] + 1}]
    BY <2>3
  <2>5. QED
    BY <1>1, <2>1, <2>4 DEF Abstract!Accept
<1>3. CASE Block(t)
  <2>1. off' = off /\ in' = in
    BY <1>1, <1>3 DEF Block
  <2>2. QED
    BY <1>1, <2>1 DEF Abstract!ivars
<1>4. CASE Pol[t] = "DROP" /\ Drop(t)
  <2>1. off' = [off EXCEPT ![t] = @ + 1] /\ in' = in
    BY <1>1, <1>4, OfferedGrows DEF Drop, Offered
  <2>2. QED
    BY <1>1, <1>4, <2>1 DEF Abstract!Refuse
<1>5. QED
  BY <1>2, <1>3, <1>4 DEF Put

(* Taking a message maps to a delivery. *)
LEMMA MapTake ==
  ASSUME FifoInv, Pull, Take
  PROVE  \E t \in Callers : Abstract!Deliver(t)
<1> DEFINE h == Head(in)
<1>1. /\ in \in Seq(Message) /\ taken \in Seq(Message) /\ in # <<>> /\ in' = Tail(in)
      /\ taken' = Append(taken, h) /\ UNCHANGED <<pc, sent>>
      /\ node \in {"pulling", "sleeping"} /\ node' = "handling"
  BY DEF FifoInv, TypeOK, Pull, Take
<1>2. h \in Message /\ h = in[1] /\ 1 \in 1 .. Len(in) /\ Len(in) \in Nat
  BY <1>1
<1>3. h.from \in Callers /\ h.n \in Nat
  BY <1>2 DEF Message
<1> HIDE DEF h
<1>4. h.n \in From(h.from, in)
  BY <1>2 DEF From
<1>5. \A k \in From(h.from, in) : h.n <= k
  <2> SUFFICES ASSUME NEW i \in 1 .. Len(in), in[i].from = h.from PROVE h.n <= in[i].n
    BY DEF From
  <2>1. CASE i = 1
    BY <1>2, <1>3, <2>1
  <2>2. CASE i # 1
    <3>1. 1 < i /\ in[1].from = in[i].from
      BY <1>2, <2>2
    <3>2. in[1].n < in[i].n
      BY <1>2, <3>1 DEF FifoInv, OrderInv
    <3>3. in[i] \in Message
      BY <1>1
    <3>4. QED
      BY <1>2, <1>3, <3>2, <3>3 DEF Message
  <2>3. QED
    BY <2>1, <2>2
<1>6. \A k \in From(h.from, taken) : k < h.n
  BY <1>2 DEF From, FifoInv, OrderInv
<1>7. [t \in Callers |-> From(t, in)]'
        = [[t \in Callers |-> From(t, in)] EXCEPT ![h.from] = @ \ {h.n}]
  <2>1. \A t \in Callers : From(t, in') = IF t = h.from THEN From(t, in) \ {h.n} ELSE From(t, in)
    BY <1>1, FromTail DEF FifoInv, OrderInv, h
  <2>2. QED
    BY <2>1
<1>8. [t \in Callers |-> From(t, taken)]'
        = [[t \in Callers |-> From(t, taken)] EXCEPT ![h.from] = @ \cup {h.n}]
  <2>1. \A t \in Callers :
          From(t, taken') = IF t = h.from THEN From(t, taken) \cup {h.n} ELSE From(t, taken)
    <3>1. \A t : From(t, Append(taken, h)) =
                  IF t = h.from THEN From(t, taken) \cup {h.n} ELSE From(t, taken)
      BY <1>1, <1>2, FromAppend
    <3>2. QED
      BY <1>1, <3>1
  <2>2. QED
    BY <2>1
<1>9. From(Main, taken) = {}
  BY <1>1 DEF FifoInv, LifeInv, From, IsStop
<1>10. Abstract!Deliver(h.from)
  BY <1>1, <1>3, <1>4, <1>5, <1>6, <1>7, <1>8, <1>9
  DEF Abstract!Deliver, Abstract!Stopping, Callers, Senders
<1>11. QED
  BY <1>3, <1>10

(* Leaving the loop maps to closing. *)
LEMMA MapClear ==
  ASSUME FifoInv, Clear
  PROVE  Abstract!Close
<1>1. \A t : From(t, <<>>) = {}
  <2>1. 1 .. Len(<<>>) = {}
    OBVIOUS
  <2>2. QED
    BY <2>1 DEF From
<1>2. From(Main, taken) # {}
  BY DEF Clear, FifoInv, LifeInv, From, IsStop
<1>3. QED
  BY <1>1, <1>2 DEF Clear, Abstract!Close, Abstract!Stopping, Callers, Senders

(* The other steps map to nothing. *)
LEMMA MapRest ==
  ASSUME FifoInv,
         \/ \E t \in Callers : SpuriousWake(t)
         \/ Pull /\ Sleep
         \/ Begin \/ Handle \/ Exit
         \/ Start \/ Started \/ Stop \/ Join \/ Destroy
         \/ UNCHANGED vars
  PROVE  UNCHANGED Abstract!ivars
<1>1. in' = in /\ taken' = taken /\ pc' = pc /\ sent' = sent
  BY DEF SpuriousWake, Pull, Sleep, Begin, Handle, Exit, Start, Started, Stop, Join, Destroy, vars
<1>2. (node \notin {"exiting", "dead"})' = (node \notin {"exiting", "dead"})
  BY DEF SpuriousWake, Pull, Sleep, Begin, Handle, Exit, Start, Started, Stop, Join, Destroy,
         vars, FifoInv, LifeInv
<1>3. QED
  BY <1>1, <1>2 DEF Abstract!ivars

(* The node's inbox implements the abstract one: messages of a sender are   *)
(* handled in the order of its put() calls and at most once, a WAIT sender  *)
(* loses none while the node has not left its loop, and nothing is handled  *)
(* after STOP (base_node.hpp:86-124, 152-170, 181-192).                     *)
THEOREM NodeImplementsInbox == Spec => InboxSpec
<1>1. FifoInv /\ [Next]_vars => [Abstract!Next]_Abstract!ivars
  <2> SUFFICES ASSUME FifoInv, [Next]_vars PROVE [Abstract!Next]_Abstract!ivars
    OBVIOUS
  <2>1. ASSUME NEW t \in Callers, Offer(t) PROVE [Abstract!Next]_Abstract!ivars
    BY <2>1, MapOffer DEF Abstract!Next
  <2>2. ASSUME NEW t \in Callers, Put(t) PROVE [Abstract!Next]_Abstract!ivars
    BY <2>2, MapPut DEF Abstract!Next
  <2>3. CASE Pull /\ Take
    BY <2>3, MapTake DEF Abstract!Next
  <2>4. CASE Clear
    BY <2>4, MapClear DEF Abstract!Next
  <2>5. CASE \/ \E t \in Callers : SpuriousWake(t)
             \/ Pull /\ Sleep
             \/ Begin \/ Handle \/ Exit
             \/ Start \/ Started \/ Stop \/ Join \/ Destroy
             \/ UNCHANGED vars
    BY <2>5, MapRest
  <2>6. QED
    BY <2>1, <2>2, <2>3, <2>4, <2>5 DEF Next, Pull
<1>2. QED
  BY <1>1, MapInit, FifoInvariant, PTL DEF Spec, InboxSpec, Abstract!Spec

=============================================================================
