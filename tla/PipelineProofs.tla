--------------------------- MODULE PipelineProofs ---------------------------
(***************************************************************************)
(* Theorems about Pipeline, for every graph of nodes, every limit and every*)
(* number of messages.                                                     *)
(***************************************************************************)
EXTENDS Pipeline, SequenceTheorems, FiniteSetTheorems, TLAPS

-----------------------------------------------------------------------------
(* Sequences: what has arrived at a node is what it took and what waits. *)

(* An enqueued message is the last one that has arrived. *)
LEMMA EnqueueLast ==
  ASSUME NEW S, NEW g \in Seq(S), NEW s \in Seq(S), NEW m \in S
  PROVE  g \o Append(s, m) = Append(g \o s, m)
<1> DEFINE l == g \o Append(s, m)
           r == Append(g \o s, m)
<1>1. l \in Seq(S) /\ r \in Seq(S) /\ Len(l) = Len(r)
  OBVIOUS
<1>2. ASSUME NEW i \in 1 .. Len(l) PROVE l[i] = r[i]
  BY <1>1
<1> QED
  BY <1>1, <1>2, SeqEqual

(* Taking a message does not change what has arrived. *)
LEMMA TakeFirst ==
  ASSUME NEW S, NEW g \in Seq(S), NEW s \in Seq(S), s # <<>>
  PROVE  Append(g, Head(s)) \o Tail(s) = g \o s
<1> DEFINE l == Append(g, Head(s)) \o Tail(s)
           r == g \o s
<1>1. l \in Seq(S) /\ r \in Seq(S) /\ Len(l) = Len(r)
  OBVIOUS
<1>2. ASSUME NEW i \in 1 .. Len(l) PROVE l[i] = r[i]
  BY <1>1
<1> QED
  BY <1>1, <1>2, SeqEqual

LEMMA Concatenated ==
  ASSUME NEW S, NEW g \in Seq(S), NEW s \in Seq(S)
  PROVE  /\ g \o s \in Seq(S) /\ Len(g \o s) \in Nat /\ Len(g) \in Nat
         /\ Len(g) <= Len(g \o s)
         /\ \A i \in 1 .. Len(g \o s) : (g \o s)[i] \in S
         /\ \A i \in 1 .. Len(g) : g[i] = (g \o s)[i]
         /\ g \o <<>> = g
  OBVIOUS

LEMMA Appended ==
  ASSUME NEW S, NEW s \in Seq(S), NEW m \in S
  PROVE  /\ Append(s, m) \in Seq(S)
         /\ Len(s) \in Nat
         /\ Len(Append(s, m)) = Len(s) + 1
         /\ Append(s, m)[Len(s) + 1] = m
         /\ \A i \in 1 .. Len(s) : Append(s, m)[i] = s[i]
  OBVIOUS

LEMMA LastAppended ==
  ASSUME NEW S, NEW s \in Seq(S), NEW m \in S
  PROVE  Append(s, m) # <<>> /\ Append(s, m)[Len(Append(s, m))] = m
  OBVIOUS

LEMMA HeadAndTail ==
  ASSUME NEW S, NEW s \in Seq(S), s # <<>>
  PROVE  /\ Head(s) \in S /\ Head(s) = s[1] /\ Tail(s) \in Seq(S)
         /\ Len(s) \in Nat /\ Len(s) > 0 /\ Len(Tail(s)) = Len(s) - 1
         /\ \A i \in 1 .. Len(s) - 1 : Tail(s)[i] = s[i + 1]
  OBVIOUS

-----------------------------------------------------------------------------
(* Types. *)

(* Where a put() that has been called goes; between stop() and join() the   *)
(* program has called nothing.                                              *)
CallTo ==
  /\ \A t \in Threads : at[t] # "idle" => call[t].to \in Nodes
  /\ \A t \in Threads : at[t] = "idle" => call[t] = NoCall
  /\ main = "stopping" /\ victim.now = Nobody => at[Main] = "idle"

(* What a node has in hand while it handles it; STOP is not sent on.        *)
HandInv ==
  \A n \in Nodes :
    /\ node[n] = "handling" => got[n] # <<>>
    /\ todo[n] # <<>> => node[n] = "handling" /\ InHand(n) # STOP

TypeInv == TypeOK /\ CallTo /\ HandInv

LEMMA MessageTypes ==
  /\ STOP \in Message
  /\ NoCall \in [to : Threads, msg : Message]
  /\ \A u \in 1 .. MaxFeed, t \in Threads : Data(u, t) \in Message /\ Data(u, t) # STOP
  /\ \A m \in Message : m.from \in Threads
  /\ \A m \in Message : m # STOP => m.uid \in 1 .. MaxFeed /\ m = Data(m.uid, m.from)
<1>1. STOP \in Message /\ Main \in Threads
  BY DEF Message, Threads
<1>2. NoCall \in [to : Threads, msg : Message]
  BY <1>1 DEF NoCall
<1>3. \A u \in 1 .. MaxFeed, t \in Threads : Data(u, t) \in Message
  BY DEF Message
<1>4. \A u, t : Data(u, t).cmd = "DATA" /\ Data(u, t).uid = u /\ Data(u, t).from = t
  BY DEF Data
<1>5. STOP.cmd = "STOP" /\ STOP.from = Main
  BY DEF STOP
<1>6. \A u, t : Data(u, t) # STOP
  BY <1>4, <1>5
<1>7. ASSUME NEW m \in Message
      PROVE  m.from \in Threads /\ (m # STOP => m.uid \in 1 .. MaxFeed /\ m = Data(m.uid, m.from))
  <2>1. CASE m = STOP
    BY <1>1, <1>5, <2>1
  <2>2. CASE m # STOP
    <3>1. PICK u \in 1 .. MaxFeed, t \in Threads : m = Data(u, t)
      BY <2>2 DEF Message
    <3> QED
      BY <1>4, <3>1
  <2> QED
    BY <2>1, <2>2
<1> QED
  BY <1>1, <1>2, <1>3, <1>6, <1>7

LEMMA InitTypes == Init => TypeInv
<1> SUFFICES ASSUME Init PROVE TypeInv
  OBVIOUS
<1>1. in \in [Nodes -> Seq(Message)] /\ got \in [Nodes -> Seq(Message)] /\ todo \in [Nodes -> Seq(Nodes)]
  BY DEF Init
<1>2. call \in [Threads -> [to : Threads, msg : Message]]
  BY MessageTypes DEF Init
<1>3. fed \in 0 .. MaxFeed
  BY PipelineAssumption DEF Init
<1>4. victim \in [left : SUBSET Nodes, now : Threads]
  BY DEF Init, Nobody, Threads
<1>5. CallTo /\ HandInv
  BY DEF Init, CallTo, HandInv
<1> QED
  BY <1>1, <1>2, <1>3, <1>4, <1>5 DEF Init, TypeInv, TypeOK

(* Calling put() on a node. *)
LEMMA CallTypes ==
  ASSUME TypeInv, NEW t \in Threads, NEW n \in Nodes, NEW m \in Message, Call(t, n, m)
  PROVE  /\ at' \in [Threads -> {"idle", "locking", "blocked"}]
         /\ call' \in [Threads -> [to : Threads, msg : Message]]
         /\ \A u \in Threads \ {t} : at'[u] = at[u] /\ call'[u] = call[u]
         /\ \/ running[n] /\ at'[t] = "locking" /\ call'[t] = [to |-> n, msg |-> m]
            \/ ~running[n] /\ at'[t] = at[t] /\ call'[t] = call[t]
<1>1. [to |-> n, msg |-> m] \in [to : Threads, msg : Message]
  BY DEF Threads
<1>2. at \in [Threads -> {"idle", "locking", "blocked"}] /\ call \in [Threads -> [to : Threads, msg : Message]]
  BY DEF TypeInv, TypeOK
<1>3. CASE running[n]
  <2>1. at' = [at EXCEPT ![t] = "locking"] /\ call' = [call EXCEPT ![t] = [to |-> n, msg |-> m]]
    BY <1>3 DEF Call
  <2> QED
    BY <1>1, <1>2, <1>3, <2>1
<1>4. CASE ~running[n]
  BY <1>2, <1>4 DEF Call
<1> QED
  BY <1>3, <1>4

LEMMA ReturnTypes ==
  ASSUME TypeInv, NEW t \in Threads, Return(t)
  PROVE  /\ at' \in [Threads -> {"idle", "locking", "blocked"}]
         /\ call' \in [Threads -> [to : Threads, msg : Message]]
         /\ \A u \in Threads \ {t} : at'[u] = at[u] /\ call'[u] = call[u]
         /\ at'[t] = "idle" /\ call'[t] = NoCall
BY MessageTypes DEF TypeInv, TypeOK, Return

LEMMA NotifyTypes ==
  ASSUME TypeInv, NEW n \in Nodes, NotifyOne(n)
  PROVE  asleep' \in [Nodes -> SUBSET Threads]
<1>1. asleep \in [Nodes -> SUBSET Threads]
  BY DEF TypeInv, TypeOK
<1>2. CASE asleep[n] = {}
  BY <1>1, <1>2 DEF NotifyOne
<1>3. CASE asleep[n] # {}
  <2>1. PICK t \in asleep[n] : asleep' = [asleep EXCEPT ![n] = @ \ {t}]
    BY <1>3 DEF NotifyOne
  <2> QED
    BY <1>1, <2>1
<1> QED
  BY <1>2, <1>3

(* put(): either the message is enqueued and the call is over, or nothing   *)
(* happens to the inbox.                                                    *)
LEMMA PutEffect ==
  ASSUME TypeInv, NEW t \in Threads, Put(t)
  PROVE  /\ at[t] # "idle" /\ call[t].to \in Nodes /\ call[t].msg \in Message
         /\ \A u \in Threads \ {t} : at'[u] = at[u] /\ call'[u] = call[u]
         /\ \/ /\ at'[t] = "idle" /\ call'[t] = NoCall
               /\ in' = [in EXCEPT ![call[t].to] = Append(@, call[t].msg)]
            \/ /\ at'[t] = "idle" /\ call'[t] = NoCall /\ in' = in
               /\ PolicyOf(t) = "DROP"
            \/ at'[t] = "blocked" /\ call'[t] = call[t] /\ in' = in
         /\ TypeInv'
<1> DEFINE n == call[t].to
<1>1. at[t] # "idle" /\ n \in Nodes /\ call[t].msg \in Message
  BY DEF Put, TypeInv, TypeOK, CallTo, HandInv, InHand
<1>2. UNCHANGED <<pol, running, node, todo, main, fed, victim, got>>
  BY DEF Put
<1>3. Main \in Threads
  BY DEF Threads
<1>4. CASE ~Full(n) /\ Enqueue(n, call[t].msg) /\ NotifyOne(n) /\ Return(t)
  <2>1. in' = [in EXCEPT ![n] = Append(@, call[t].msg)] /\ in' \in [Nodes -> Seq(Message)]
    BY <1>1, <1>4 DEF Enqueue, TypeInv, TypeOK
  <2>2. asleep' \in [Nodes -> SUBSET Threads]
    BY <1>1, <1>4, NotifyTypes
  <2> HIDE DEF n
  <2> QED
    BY <1>1, <1>2, <1>3, <1>4, <2>1, <2>2, ReturnTypes DEF TypeInv, TypeOK, CallTo, HandInv, InHand, n
<1>5. CASE /\ Full(n) /\ PolicyOf(t) = "WAIT"
           /\ asleep' = [asleep EXCEPT ![n] = @ \cup {t}]
           /\ at' = [at EXCEPT ![t] = "blocked"]
           /\ UNCHANGED <<in, call>>
  <2>1. asleep' \in [Nodes -> SUBSET Threads]
    BY <1>1, <1>5 DEF TypeInv, TypeOK
  <2>2. /\ at' \in [Threads -> {"idle", "locking", "blocked"}] /\ at'[t] = "blocked"
        /\ \A u \in Threads \ {t} : at'[u] = at[u] /\ call'[u] = call[u]
    BY <1>5 DEF TypeInv, TypeOK
  <2> HIDE DEF n
  <2> QED
    BY <1>1, <1>2, <1>3, <1>5, <2>1, <2>2 DEF TypeInv, TypeOK, CallTo, HandInv, InHand, n
<1>6. CASE Full(n) /\ PolicyOf(t) = "DROP" /\ Return(t) /\ UNCHANGED <<in, asleep>>
  BY <1>1, <1>2, <1>3, <1>6, ReturnTypes DEF TypeInv, TypeOK, CallTo, HandInv, InHand
<1> QED
  BY <1>1, <1>4, <1>5, <1>6 DEF Put

(* pull_msg(): either the first message is taken or nothing happens to the  *)
(* inbox.                                                                   *)
LEMMA PullEffect ==
  ASSUME TypeInv, NEW n \in Nodes, Pull(n)
  PROVE  /\ node[n] = "pulling" /\ UNCHANGED <<pol, running, at, call, main, fed, victim>>
         /\ \/ /\ in[n] # <<>>
               /\ in' = [in EXCEPT ![n] = Tail(@)]
               /\ got' = [got EXCEPT ![n] = Append(@, Head(in[n]))]
               /\ node' = [node EXCEPT ![n] = "handling"]
               /\ todo' = [todo EXCEPT ![n] = ToSend(n, Head(in[n]))]
            \/ UNCHANGED <<in, got, node, todo>>
         /\ TypeInv'
<1>1. CASE in[n] = <<>> /\ asleep' = [asleep EXCEPT ![n] = @ \cup {n}] /\ UNCHANGED <<in, got, node, todo>>
  BY <1>1 DEF Pull, TypeInv, TypeOK, CallTo, HandInv, InHand, Threads
<1>2. CASE /\ in[n] # <<>>
           /\ in' = [in EXCEPT ![n] = Tail(@)]
           /\ got' = [got EXCEPT ![n] = Append(@, Head(in[n]))]
           /\ node' = [node EXCEPT ![n] = "handling"]
           /\ todo' = [todo EXCEPT ![n] = ToSend(n, Head(in[n]))]
           /\ NotifyOne(n)
  <2>1. in[n] \in Seq(Message) /\ Head(in[n]) \in Message /\ Tail(in[n]) \in Seq(Message)
    BY <1>2 DEF TypeInv, TypeOK
  <2>2. in' \in [Nodes -> Seq(Message)] /\ got' \in [Nodes -> Seq(Message)]
    BY <1>2, <2>1 DEF TypeInv, TypeOK
  <2>3. ToSend(n, Head(in[n])) \in Seq(Nodes)
    BY PipelineAssumption DEF ToSend
  <2>4. todo' \in [Nodes -> Seq(Nodes)]
    BY <1>2, <2>3 DEF TypeInv, TypeOK
  <2>5. asleep' \in [Nodes -> SUBSET Threads]
    BY <1>2, NotifyTypes
  <2>6. UNCHANGED <<pol, running, at, call, main, fed, victim>>
    BY DEF Pull
  <2>7. got'[n] # <<>> /\ got'[n][Len(got'[n])] = Head(in[n]) /\ \A m \in Nodes \ {n} : got'[m] = got[m]
    <3>1. got \in [Nodes -> Seq(Message)]
      BY DEF TypeInv, TypeOK
    <3>2. got[n] \in Seq(Message) /\ got'[n] = Append(got[n], Head(in[n]))
      BY <1>2, <3>1
    <3>3. got'[n] # <<>> /\ got'[n][Len(got'[n])] = Head(in[n])
      BY <2>1, <3>2, LastAppended
    <3>4. \A m \in Nodes \ {n} : got'[m] = got[m]
      BY <1>2, <3>1
    <3> QED BY <3>3, <3>4
  <2>8. HandInv'
    BY <1>2, <2>7 DEF HandInv, TypeInv, TypeOK, InHand, ToSend
  <2> QED
    <3>1. node' \in [Nodes -> {"pulling", "handling", "clearing", "exiting", "dead"}]
      BY <1>2 DEF TypeInv, TypeOK
    <3>2. node[n] = "pulling" /\ CallTo'
      BY <2>6 DEF Pull, TypeInv, CallTo
    <3> QED BY <1>2, <2>2, <2>4, <2>5, <2>6, <2>8, <3>1, <3>2 DEF TypeInv, TypeOK
<1> QED
  BY <1>1, <1>2 DEF Pull

(* The types of the queues, of the places of the threads and of the         *)
(* program, one step for each action.                                       *)
LEMMA TypeStep == TypeInv /\ [Next]_vars => TypeInv'
<1> SUFFICES ASSUME TypeInv, [Next]_vars PROVE TypeInv'
  OBVIOUS
<1>12. CallTo
  BY DEF TypeInv
<1> USE DEF TypeInv, TypeOK, CallTo, HandInv, InHand
<1>0. Main \in Threads /\ Nodes \subseteq Threads /\ Main \notin Nodes
  BY PipelineAssumption DEF Threads
<1>1. ASSUME NEW t \in Threads, Put(t) PROVE TypeInv'
  BY <1>1, PutEffect
<1>2. ASSUME NEW n \in Nodes, Pull(n) PROVE TypeInv'
  BY <1>2, PullEffect
<1>3. ASSUME NEW n \in Nodes, Send(n) PROVE TypeInv'
  <2>1. todo[n] \in Seq(Nodes) /\ todo[n] # <<>>
    BY <1>3 DEF Send
  <2>2. Head(todo[n]) \in Nodes /\ Tail(todo[n]) \in Seq(Nodes)
    BY <2>1
  <2>3. UNCHANGED <<pol, in, running, asleep, node, main, fed, victim, got>> /\ at[n] = "idle"
        /\ todo' = [todo EXCEPT ![n] = Tail(@)]
    BY <1>3 DEF Send
  <2>4. node[n] = "handling" /\ InHand(n) # STOP /\ InHand(n) \in Message
    BY <1>3, <2>1 DEF Send
  <2>5. Result(n) \in Message
    BY <1>0, <2>4, MessageTypes DEF Result
  <2>6. Call(n, Head(todo[n]), Result(n))
    BY <1>3 DEF Send
  <2>7. /\ at' \in [Threads -> {"idle", "locking", "blocked"}]
        /\ call' \in [Threads -> [to : Threads, msg : Message]]
        /\ \A u \in Threads \ {n} : at'[u] = at[u] /\ call'[u] = call[u]
        /\ \/ at'[n] = "locking" /\ call'[n] = [to |-> Head(todo[n]), msg |-> Result(n)]
           \/ at'[n] = at[n] /\ call'[n] = call[n]
    <3> HIDE DEF TypeInv
    <3> QED BY <1>0, <2>2, <2>5, <2>6, CallTypes
  <2>8. CallTo'
    <3> HIDE DEF TypeInv, TypeOK, HandInv, InHand
    <3> QED BY <1>12, <1>0, <2>2, <2>3, <2>7
  <2> QED
    BY <2>2, <2>3, <2>4, <2>7, <2>8
<1>4. ASSUME NEW n \in Nodes, Handled(n) PROVE TypeInv'
  BY <1>4 DEF Handled
<1>5. ASSUME NEW n \in Nodes, Clear(n) PROVE TypeInv'
  BY <1>5 DEF Clear
<1>6. ASSUME NEW n \in Nodes, Exit(n) PROVE TypeInv'
  BY <1>6 DEF Exit
<1>7. ASSUME NEW n \in Nodes, StopNode(n) PROVE TypeInv'
  <2>1. Call(Main, n, STOP) /\ STOP \in Message
    BY <1>7, MessageTypes DEF StopNode
  <2>2. UNCHANGED <<pol, in, running, asleep, node, todo, main, fed, got>> /\ running[n]
        /\ victim' = [victim EXCEPT !.now = n]
    BY <1>7 DEF StopNode
  <2>3. /\ at' \in [Threads -> {"idle", "locking", "blocked"}]
        /\ call' \in [Threads -> [to : Threads, msg : Message]]
        /\ \A u \in Threads \ {Main} : at'[u] = at[u] /\ call'[u] = call[u]
        /\ at'[Main] = "locking" /\ call'[Main] = [to |-> n, msg |-> STOP]
    <3> HIDE DEF TypeInv
    <3> QED BY <1>0, <2>1, <2>2, CallTypes
  <2>4. CallTo'
    <3> HIDE DEF TypeInv, TypeOK, HandInv, InHand
    <3> QED BY <1>12, <1>0, <2>2, <2>3 DEF Nobody
  <2> QED
    BY <1>0, <2>2, <2>3, <2>4
<1>8. ASSUME NEW n \in Nodes, Join(n) PROVE TypeInv'
  BY <1>0, <1>8 DEF Join, Nobody
<1>9. CASE Feed
  <2>1. fed + 1 \in 1 .. MaxFeed /\ Source \in Nodes
    BY <1>9, PipelineAssumption DEF Feed
  <2>2. Data(fed + 1, Main) \in Message
    BY <1>0, <2>1, MessageTypes
  <2>3. Call(Main, Source, Data(fed + 1, Main))
    BY <1>9 DEF Feed
  <2>4. UNCHANGED <<pol, in, running, asleep, node, todo, main, victim, got>>
        /\ main = "feeding" /\ fed' = fed + 1
    BY <1>9 DEF Feed
  <2>5. /\ at' \in [Threads -> {"idle", "locking", "blocked"}]
        /\ call' \in [Threads -> [to : Threads, msg : Message]]
        /\ \A u \in Threads \ {Main} : at'[u] = at[u] /\ call'[u] = call[u]
        /\ \/ at'[Main] = "locking" /\ call'[Main] = [to |-> Source, msg |-> Data(fed + 1, Main)]
           \/ at'[Main] = at[Main] /\ call'[Main] = call[Main]
    <3> HIDE DEF TypeInv
    <3> QED BY <1>0, <2>1, <2>2, <2>3, <2>4, CallTypes
  <2>6. CallTo'
    <3> HIDE DEF TypeInv, TypeOK, HandInv, InHand
    <3> QED BY <1>12, <1>0, <2>1, <2>4, <2>5
  <2> QED
    BY <2>1, <2>4, <2>5, <2>6
<1>10. CASE Quit
  BY <1>10 DEF Quit
<1>11. CASE UNCHANGED vars
  BY <1>11 DEF vars
<1> QED
  BY <1>1, <1>2, <1>3, <1>4, <1>5, <1>6, <1>7, <1>8, <1>9, <1>10, <1>11 DEF Next

(* The variables keep their types; in particular a put() always goes to a   *)
(* node and a node never handles a message it has not got.                  *)
THEOREM PipelineTypeCorrect == Spec => []TypeOK
<1>1. TypeInv => TypeOK
  BY DEF TypeInv
<1> QED
  BY InitTypes, TypeStep, <1>1, PTL DEF Spec

-----------------------------------------------------------------------------
(* The order along an edge. *)

(* No target was added twice to a node.                                     *)
TargetsOnce ==
  \A n \in Nodes : \A i, j \in 1 .. Len(Targets[n]) : Targets[n][i] = Targets[n][j] => i = j

(* A node that sends anything on gets its messages from one place: the      *)
(* program or one other node.  A node that does not, where the branches of  *)
(* a graph meet, may get them from many.                                    *)
OneFeeder ==
  \A b \in Nodes : Targets[b] # <<>> =>
    /\ \A a, c \in Nodes : <<a, b>> \in Edges /\ <<c, b>> \in Edges => a = c
    /\ b = Source => \A a \in Nodes : <<a, b>> \notin Edges

(* What is left to do is a part of the targets, and a put() in progress is  *)
(* that of the message in hand, to a target that is not left.               *)
TodoInv ==
  \A a \in Nodes :
    /\ \A i \in 1 .. Len(todo[a]) : <<a, todo[a][i]>> \in Edges
    /\ \A i, j \in 1 .. Len(todo[a]) : todo[a][i] = todo[a][j] => i = j
    /\ at[a] # "idle" =>
         /\ node[a] = "handling" /\ InHand(a) # STOP /\ call[a].msg = Result(a)
         /\ <<a, call[a].to>> \in Edges
         /\ \A i \in 1 .. Len(todo[a]) : todo[a][i] # call[a].to

(* The program puts STOP, or the last message it has made to the source.    *)
FeedInv ==
  at[Main] # "idle" =>
    \/ call[Main].msg = STOP
    \/ call[Main].msg = Data(fed, Main) /\ call[Main].to = Source

(* Whatever has arrived was made by the program or taken and passed on by a *)
(* node that has the receiver among its targets.                            *)
Sent(m, b) ==
  IF m.from = Main THEN b = Source /\ m.uid <= fed
  ELSE <<m.from, b>> \in Edges /\ \E k \in Passed(m.from, b) : got[m.from][k].uid = m.uid

SentInv ==
  \A b \in Nodes, m \in Message :
    m # STOP /\ (\E i \in 1 .. Len(Arrived(b)) : Arrived(b)[i] = m) => Sent(m, b)

(* The data messages of one sender arrive with growing uids, and the one it *)
(* is just putting is newer.                                                *)
OrderInv ==
  \A b \in Nodes :
    /\ \A i, j \in 1 .. Len(Arrived(b)) :
         /\ i < j /\ Arrived(b)[i].from = Arrived(b)[j].from
         /\ Arrived(b)[i] # STOP /\ Arrived(b)[j] # STOP
         => Arrived(b)[i].uid < Arrived(b)[j].uid
    /\ \A t \in Threads : call[t].to = b /\ call[t].msg # STOP =>
         \A i \in 1 .. Len(Arrived(b)) :
           Arrived(b)[i] # STOP /\ Arrived(b)[i].from = t => Arrived(b)[i].uid < call[t].msg.uid

FlowInv == TypeInv /\ TodoInv /\ FeedInv /\ SentInv /\ OrderInv

(* What has arrived at a node is a sequence that begins with what it took.  *)
LEMMA ArrivedTypes ==
  ASSUME TypeInv, NEW b \in Nodes
  PROVE  /\ got[b] \in Seq(Message) /\ Len(got[b]) \in Nat
         /\ Arrived(b) \in Seq(Message) /\ Len(Arrived(b)) \in Nat /\ Len(got[b]) <= Len(Arrived(b))
         /\ \A i \in 1 .. Len(Arrived(b)) : Arrived(b)[i] \in Message
         /\ \A i \in 1 .. Len(got[b]) : got[b][i] = Arrived(b)[i]
<1>1. got[b] \in Seq(Message) /\ in[b] \in Seq(Message)
  BY DEF TypeInv, TypeOK
<1>2. PICK g \in Seq(Message), s \in Seq(Message) : g = got[b] /\ s = in[b]
  BY <1>1
<1>3. Arrived(b) = g \o s
  BY <1>2 DEF Arrived
<1>4. /\ g \o s \in Seq(Message) /\ Len(g \o s) \in Nat /\ Len(g) \in Nat
      /\ Len(g) <= Len(g \o s)
      /\ \A i \in 1 .. Len(g \o s) : (g \o s)[i] \in Message
      /\ \A i \in 1 .. Len(g) : g[i] = (g \o s)[i]
  BY Concatenated
<1> DEFINE r == g \o s
<1> HIDE DEF r
<1> QED
  BY <1>2, <1>3, <1>4 DEF r

(* A put() that is not refused makes its message the last that has arrived. *)
Enqueued(t, n, m) ==
  /\ at[t] # "idle" /\ call[t] = [to |-> n, msg |-> m]
  /\ Arrived(n)' = Append(Arrived(n), m)
  /\ \A b \in Nodes \ {n} : Arrived(b)' = Arrived(b)
  /\ \A u \in Threads : call'[u] = IF u = t THEN NoCall ELSE call[u]
  /\ UNCHANGED <<got, todo, fed>>

(* A put() has been called. *)
Called(t, n, m) ==
  /\ at[t] = "idle" /\ call'[t] = [to |-> n, msg |-> m]
  /\ \A u \in Threads \ {t} : call'[u] = call[u]
  /\ \A b \in Nodes : Arrived(b)' = Arrived(b)

(* Nothing is put on its way; a node that ends forgets what it has not      *)
(* taken.                                                                   *)
Quiet ==
  /\ \A b \in Nodes : Arrived(b)' \in {Arrived(b), got[b]}
  /\ \A t \in Threads : call'[t] \in {call[t], NoCall}

(* A put() that has not come so far; only a lossy one gives up.             *)
Held(t) ==
  /\ UNCHANGED <<in, got, todo, node, pol>>
  /\ call'[t] = call[t] \/ (call'[t] = NoCall /\ PolicyOf(t) = "DROP")
  /\ \A u \in Threads \ {t} : call'[u] = call[u]

LEMMA PutCases ==
  ASSUME TypeInv, NEW t \in Threads, Put(t)
  PROVE  Held(t) \/ \E n \in Nodes, m \in Message : Enqueued(t, n, m)
<1>1. call \in [Threads -> [to : Threads, msg : Message]] /\ at[t] # "idle"
  BY DEF TypeInv, TypeOK, Put
<1>2. UNCHANGED <<got, todo, fed, node, pol>>
  BY DEF Put
<1>3. PICK n \in Nodes, m \in Message : n = call[t].to /\ m = call[t].msg /\ call[t] = [to |-> n, msg |-> m]
  BY <1>1, PutEffect
<1>4. \A u \in Threads \ {t} : call'[u] = call[u]
  BY PutEffect
<1>5. CASE /\ at'[t] = "idle" /\ call'[t] = NoCall /\ in' = in
           /\ PolicyOf(t) = "DROP"
  BY <1>2, <1>4, <1>5 DEF Held
<1>6. CASE at'[t] = "blocked" /\ call'[t] = call[t] /\ in' = in
  BY <1>2, <1>4, <1>6 DEF Held
<1>7. CASE /\ at'[t] = "idle" /\ call'[t] = NoCall
           /\ in' = [in EXCEPT ![call[t].to] = Append(@, call[t].msg)]
  <2>1. call'[t] = NoCall /\ in' = [in EXCEPT ![n] = Append(@, m)]
    BY <1>3, <1>7
  <2>2. in \in [Nodes -> Seq(Message)] /\ got \in [Nodes -> Seq(Message)]
    BY DEF TypeInv, TypeOK
  <2>3. in'[n] = Append(in[n], m) /\ \A b \in Nodes \ {n} : in'[b] = in[b]
    BY <2>1, <2>2
  <2>4. Arrived(n)' = Append(Arrived(n), m)
    BY <1>2, <2>2, <2>3, EnqueueLast DEF Arrived
  <2>5. Enqueued(t, n, m)
    BY <1>1, <1>2, <1>3, <1>4, <2>1, <2>3, <2>4 DEF Enqueued, Arrived
  <2> QED
    BY <2>5
<1> QED
  BY <1>5, <1>6, <1>7, PutEffect

LEMMA HeldQuiet ==
  ASSUME NEW t \in Threads, Held(t)
  PROVE  Quiet
BY DEF Held, Quiet, Arrived

LEMMA PullArrives ==
  ASSUME TypeInv, NEW n \in Nodes, Pull(n)
  PROVE  \A b \in Nodes : Arrived(b)' = Arrived(b)
<1>1. CASE UNCHANGED <<in, got>>
  BY <1>1 DEF Arrived
<1>2. CASE /\ in[n] # <<>>
           /\ in' = [in EXCEPT ![n] = Tail(@)]
           /\ got' = [got EXCEPT ![n] = Append(@, Head(in[n]))]
  <2>1. in \in [Nodes -> Seq(Message)] /\ got \in [Nodes -> Seq(Message)]
    BY DEF TypeInv, TypeOK
  <2>2. in'[n] = Tail(in[n]) /\ got'[n] = Append(got[n], Head(in[n]))
    BY <1>2, <2>1
  <2>3. \A b \in Nodes \ {n} : in'[b] = in[b] /\ got'[b] = got[b]
    BY <1>2, <2>1
  <2>4. Arrived(n)' = Arrived(n)
    BY <1>2, <2>1, <2>2, TakeFirst DEF Arrived
  <2> QED
    BY <2>3, <2>4 DEF Arrived
<1> QED
  BY <1>1, <1>2, PullEffect

(* Each step enqueues a message, calls a put() or does neither.             *)
LEMMA StepCases ==
  ASSUME TypeInv, [Next]_vars
  PROVE  \/ Quiet
         \/ \E t \in Threads, n \in Nodes, m \in Message : Enqueued(t, n, m)
         \/ \E t \in Nodes : Send(t) /\ Called(t, Head(todo[t]), Result(t))
         \/ Feed /\ Called(Main, Source, Data(fed + 1, Main))
         \/ \E n \in Nodes : StopNode(n) /\ Called(Main, n, STOP)
<1>0. Main \in Threads /\ Nodes \subseteq Threads /\ Source \in Nodes
  BY PipelineAssumption DEF Threads
<1>1. UNCHANGED <<in, got, call>> => Quiet
  BY DEF Quiet, Arrived
<1>2. ASSUME NEW t \in Threads, NEW n, NEW m, Call(t, n, m), at[t] = "idle", UNCHANGED <<in, got>>
      PROVE  Called(t, n, m) \/ UNCHANGED <<in, got, call>>
  <2>1. call \in [Threads -> [to : Threads, msg : Message]]
    BY DEF TypeInv, TypeOK
  <2> QED
    BY <1>2, <2>1 DEF Call, Called, Arrived
<1>3. ASSUME NEW t \in Threads, Put(t)
      PROVE  Quiet \/ \E n \in Nodes, m \in Message : Enqueued(t, n, m)
  BY <1>3, PutCases, HeldQuiet
<1>4. ASSUME NEW n \in Nodes, Pull(n) PROVE Quiet
  BY <1>4, PullEffect, PullArrives DEF Quiet
<1>5. ASSUME NEW n \in Nodes, Send(n)
      PROVE  Quiet \/ Called(n, Head(todo[n]), Result(n))
  BY <1>0, <1>1, <1>2, <1>5 DEF Send
<1>6. ASSUME NEW n \in Nodes, Handled(n) \/ Exit(n) \/ Join(n) PROVE Quiet
  BY <1>1, <1>6 DEF Handled, Exit, Join
<1>7. ASSUME NEW n \in Nodes, Clear(n) PROVE Quiet
  <2>1. in' = [in EXCEPT ![n] = <<>>] /\ UNCHANGED <<got, call>>
    BY <1>7 DEF Clear
  <2>2. in \in [Nodes -> Seq(Message)] /\ got \in [Nodes -> Seq(Message)]
    BY DEF TypeInv, TypeOK
  <2>3. in'[n] = <<>> /\ \A b \in Nodes \ {n} : in'[b] = in[b]
    BY <2>1, <2>2
  <2>4. Arrived(n)' = got[n]
    BY <2>1, <2>2, <2>3, Concatenated DEF Arrived
  <2> QED
    BY <2>1, <2>3, <2>4 DEF Quiet, Arrived
<1>8. ASSUME NEW n \in Nodes, StopNode(n)
      PROVE  Quiet \/ Called(Main, n, STOP)
  <2>1. at[Main] = "idle"
    BY <1>8 DEF StopNode, TypeInv, CallTo
  <2> QED
    BY <1>0, <1>1, <1>2, <1>8, <2>1 DEF StopNode
<1>9. CASE Feed
  BY <1>0, <1>1, <1>2, <1>9 DEF Feed
<1>10. CASE Quit \/ UNCHANGED vars
  BY <1>1, <1>10 DEF Quit, vars
<1> QED
  BY <1>3, <1>4, <1>5, <1>6, <1>7, <1>8, <1>9, <1>10 DEF Next

-----------------------------------------------------------------------------
(* A list of different targets without its head. *)
LEMMA OneLess ==
  ASSUME NEW S, NEW s \in Seq(S), s # <<>>, NEW n, NEW E,
         \A i \in 1 .. Len(s) : <<n, s[i]>> \in E,
         \A i, j \in 1 .. Len(s) : s[i] = s[j] => i = j
  PROVE  /\ <<n, Head(s)>> \in E
         /\ \A i \in 1 .. Len(Tail(s)) : <<n, Tail(s)[i]>> \in E /\ Tail(s)[i] # Head(s)
         /\ \A i, j \in 1 .. Len(Tail(s)) : Tail(s)[i] = Tail(s)[j] => i = j
<1>1. /\ Head(s) = s[1] /\ Len(s) \in Nat /\ Len(s) > 0 /\ Len(Tail(s)) = Len(s) - 1
      /\ \A i \in 1 .. Len(s) - 1 : Tail(s)[i] = s[i + 1]
  OBVIOUS
<1>2. 1 \in 1 .. Len(s) /\ \A i \in 1 .. Len(Tail(s)) : i + 1 \in 1 .. Len(s) /\ i + 1 # 1
  BY <1>1
<1> DEFINE t == Tail(s)
<1> HIDE DEF t
<1>3. /\ \A i \in 1 .. Len(t) : t[i] = s[i + 1] /\ i \in Nat
  BY <1>1 DEF t
<1>4. ASSUME NEW i \in 1 .. Len(t), NEW j \in 1 .. Len(t), t[i] = t[j]
      PROVE  i = j
  <2>1. i + 1 = j + 1
    BY <1>2, <1>3, <1>4 DEF t
  <2> QED BY <1>3, <2>1
<1>5. ASSUME NEW i \in 1 .. Len(t)
      PROVE  <<n, t[i]>> \in E /\ t[i] # s[1]
  BY <1>2, <1>3 DEF t
<1> QED
  BY <1>1, <1>2, <1>4, <1>5 DEF t

LEMMA TargetsLeft ==
  ASSUME NEW n \in Nodes
  PROVE  /\ Targets[n] \in Seq(Nodes)
         /\ \A i \in 1 .. Len(Targets[n]) : <<n, Targets[n][i]>> \in Edges
BY PipelineAssumption DEF Edges

(* What is left to be done of the targets. *)
LEMMA TodoStep ==
  ASSUME TargetsOnce, TypeInv, TodoInv, [Next]_vars
  PROVE  TodoInv'
<1>0. Main \in Threads /\ Nodes \subseteq Threads /\ Main \notin Nodes
  BY PipelineAssumption DEF Threads
<1>1. UNCHANGED <<node, got, todo, at, call>> => TodoInv'
  BY DEF TodoInv, InHand, Result
<1>2. ASSUME NEW t \in Threads, Put(t) PROVE TodoInv'
  <2>1. UNCHANGED <<node, got, todo>>
    BY <1>2 DEF Put
  <2>2. \A u \in Threads : at'[u] # "idle" => at[u] # "idle" /\ call'[u] = call[u]
    BY <1>2, PutEffect
  <2> QED
    BY <1>0, <2>1, <2>2 DEF TodoInv, InHand, Result
<1>3. ASSUME NEW n \in Nodes, Pull(n) PROVE TodoInv'
  <2>1. CASE UNCHANGED <<in, got, node, todo>>
    BY <1>1, <1>3, <2>1, PullEffect
  <2>2. CASE /\ in[n] # <<>>
             /\ got' = [got EXCEPT ![n] = Append(@, Head(in[n]))]
             /\ node' = [node EXCEPT ![n] = "handling"]
             /\ todo' = [todo EXCEPT ![n] = ToSend(n, Head(in[n]))]
    <3>1. node[n] = "pulling" /\ UNCHANGED <<at, call>>
      BY <1>3, PullEffect
    <3>2. at[n] = "idle"
      BY <3>1 DEF TodoInv
    <3>3. todo'[n] = <<>> \/ todo'[n] = Targets[n]
      BY <2>2 DEF ToSend, TypeInv, TypeOK
    <3>4. \A a \in Nodes \ {n} : todo'[a] = todo[a] /\ got'[a] = got[a] /\ node'[a] = node[a]
      BY <2>2 DEF TypeInv, TypeOK
    <3>5. /\ \A i \in 1 .. Len(todo'[n]) : <<n, todo'[n][i]>> \in Edges
          /\ \A i, j \in 1 .. Len(todo'[n]) : todo'[n][i] = todo'[n][j] => i = j
      <4>1. CASE todo'[n] = <<>>
        BY <4>1
      <4>2. CASE todo'[n] = Targets[n]
        BY <4>2, TargetsLeft DEF TargetsOnce
      <4> QED BY <3>3, <4>1, <4>2
    <3> QED
      BY <3>1, <3>2, <3>4, <3>5 DEF TodoInv, InHand, Result
  <2> QED
    BY <1>3, <2>1, <2>2, PullEffect
<1>4. ASSUME NEW n \in Nodes, Send(n) PROVE TodoInv'
  <2>1. UNCHANGED <<node, got>> /\ node[n] = "handling" /\ at[n] = "idle"
    BY <1>4 DEF Send
  <2>2. todo[n] \in Seq(Nodes) /\ todo[n] # <<>> /\ todo \in [Nodes -> Seq(Nodes)]
    BY <1>4 DEF Send, TypeInv, TypeOK
  <2>3. todo'[n] = Tail(todo[n]) /\ \A a \in Nodes \ {n} : todo'[a] = todo[a]
    BY <1>4, <2>2 DEF Send
  <2>4. /\ Head(todo[n]) = todo[n][1] /\ Len(todo[n]) \in Nat /\ Len(todo[n]) > 0
        /\ Len(todo'[n]) = Len(todo[n]) - 1
        /\ \A i \in 1 .. Len(todo[n]) - 1 : todo'[n][i] = todo[n][i + 1]
    BY <2>2, <2>3, HeadAndTail
  <2>5. InHand(n) # STOP
    BY <2>2 DEF TypeInv, HandInv
  <2>6. /\ \A i \in 1 .. Len(todo[n]) : <<n, todo[n][i]>> \in Edges
        /\ \A i, j \in 1 .. Len(todo[n]) : todo[n][i] = todo[n][j] => i = j
    BY DEF TodoInv
  <2>7. /\ \A i \in 1 .. Len(todo'[n]) : <<n, todo'[n][i]>> \in Edges /\ todo'[n][i] # Head(todo[n])
        /\ \A i, j \in 1 .. Len(todo'[n]) : todo'[n][i] = todo'[n][j] => i = j
        /\ <<n, Head(todo[n])>> \in Edges
    BY <2>2, <2>3, <2>6, OneLess
  <2>9. /\ \A u \in Threads \ {n} : at'[u] = at[u] /\ call'[u] = call[u]
        /\ \/ call'[n] = [to |-> Head(todo[n]), msg |-> Result(n)]
           \/ at'[n] = "idle"
    <3>1. Call(n, Head(todo[n]), Result(n))
      BY <1>4 DEF Send
    <3>2. at \in [Threads -> {"idle", "locking", "blocked"}] /\ call \in [Threads -> [to : Threads, msg : Message]]
      BY DEF TypeInv, TypeOK
    <3> QED
      BY <1>0, <2>1, <3>1, <3>2 DEF Call
  <2>10. InHand(n)' = InHand(n) /\ Result(n)' = Result(n) /\ node'[n] = "handling"
    BY <2>1 DEF InHand, Result
  <2>11. ASSUME NEW a \in Nodes, a # n
         PROVE  /\ InHand(a)' = InHand(a) /\ Result(a)' = Result(a) /\ todo'[a] = todo[a]
                /\ node'[a] = node[a] /\ at'[a] = at[a] /\ call'[a] = call[a]
    BY <1>0, <2>1, <2>3, <2>9, <2>11 DEF InHand, Result
  <2>12. ASSUME NEW a \in Nodes
         PROVE  (/\ \A i \in 1 .. Len(todo[a]) : <<a, todo[a][i]>> \in Edges
                 /\ \A i, j \in 1 .. Len(todo[a]) : todo[a][i] = todo[a][j] => i = j
                 /\ at[a] # "idle" =>
                      /\ node[a] = "handling" /\ InHand(a) # STOP /\ call[a].msg = Result(a)
                      /\ <<a, call[a].to>> \in Edges
                      /\ \A i \in 1 .. Len(todo[a]) : todo[a][i] # call[a].to)'
    <3>1. CASE a = n
      BY <2>5, <2>7, <2>9, <2>10, <3>1
    <3>2. CASE a # n
      BY <2>11, <3>2 DEF TodoInv
    <3> QED BY <3>1, <3>2
  <2> QED
    BY <2>12 DEF TodoInv
<1>5. ASSUME NEW n \in Nodes, Handled(n) \/ Clear(n) \/ Exit(n) PROVE TodoInv'
  <2>1. at[n] = "idle" /\ UNCHANGED <<got, todo, at, call>> /\ \A a \in Nodes \ {n} : node'[a] = node[a]
    BY <1>5 DEF Handled, Clear, Exit, TodoInv, TypeInv, TypeOK
  <2> QED
    BY <2>1 DEF TodoInv, InHand, Result
<1>6. ASSUME NEW n \in Nodes, StopNode(n) PROVE TodoInv'
  <2>1. UNCHANGED <<node, got, todo>> /\ \A a \in Nodes : at'[a] = at[a] /\ call'[a] = call[a]
    BY <1>0, <1>6 DEF StopNode, Call, TypeInv, TypeOK
  <2> QED
    BY <2>1 DEF TodoInv, InHand, Result
<1>7. CASE Feed
  <2>1. UNCHANGED <<node, got, todo>> /\ \A a \in Nodes : at'[a] = at[a] /\ call'[a] = call[a]
    BY <1>0, <1>7 DEF Feed, Call, TypeInv, TypeOK
  <2> QED
    BY <2>1 DEF TodoInv, InHand, Result
<1>8. ASSUME NEW n \in Nodes, Join(n) PROVE TodoInv'
  BY <1>1, <1>8 DEF Join
<1>9. CASE Quit \/ UNCHANGED vars
  BY <1>1, <1>9 DEF Quit, vars
<1> QED
  BY <1>2, <1>3, <1>4, <1>5, <1>6, <1>7, <1>8, <1>9 DEF Next

(* What the program is putting. *)
LEMMA FeedStep == TypeInv /\ FeedInv /\ [Next]_vars => FeedInv'
<1> SUFFICES ASSUME TypeInv, FeedInv, [Next]_vars PROVE FeedInv'
  OBVIOUS
<1>0. Main \in Threads /\ Main \notin Nodes
  BY PipelineAssumption DEF Threads
<1>1. at[Main] \in {"idle", "locking", "blocked"} /\ at \in [Threads -> {"idle", "locking", "blocked"}]
      /\ call \in [Threads -> [to : Threads, msg : Message]]
  BY <1>0 DEF TypeInv, TypeOK
<1>2. UNCHANGED <<at, call, fed>> => FeedInv'
  BY DEF FeedInv, Data, STOP
<1>3. ASSUME NEW t \in Threads, Put(t) PROVE FeedInv'
  <2>1. fed' = fed /\ (at'[Main] # "idle" => at[Main] # "idle" /\ call'[Main] = call[Main])
    BY <1>0, <1>3, PutEffect DEF Put
  <2> QED
    BY <2>1 DEF FeedInv, Data, STOP
<1>4. ASSUME NEW n \in Nodes, Send(n) PROVE FeedInv'
  <2>1. fed' = fed /\ at'[Main] = at[Main] /\ call'[Main] = call[Main]
    BY <1>0, <1>1, <1>4 DEF Send, Call
  <2> QED
    BY <2>1 DEF FeedInv, Data, STOP
<1>5. ASSUME NEW n \in Nodes, StopNode(n) PROVE FeedInv'
  BY <1>0, <1>1, <1>5 DEF StopNode, Call, FeedInv, Data, STOP
<1>6. CASE Feed
  BY <1>0, <1>1, <1>6 DEF Feed, Call, FeedInv, Data, STOP
<1>7. ASSUME NEW n \in Nodes, Pull(n) \/ Handled(n) \/ Clear(n) \/ Exit(n) \/ Join(n) PROVE FeedInv'
  BY <1>2, <1>7 DEF Pull, Handled, Clear, Exit, Join
<1>8. CASE Quit \/ UNCHANGED vars
  BY <1>2, <1>8 DEF Quit, vars
<1> QED
  BY <1>3, <1>4, <1>5, <1>6, <1>7, <1>8 DEF Next

(* What has been passed on stays passed on. *)
LEMMA PassedGrows ==
  ASSUME TypeInv, [Next]_vars, NEW a \in Nodes, NEW b \in Nodes, NEW k \in Passed(a, b)
  PROVE  k \in Passed(a, b)' /\ got'[a][k] = got[a][k]
<1>1. got \in [Nodes -> Seq(Message)] /\ todo \in [Nodes -> Seq(Nodes)] /\ got[a] \in Seq(Message)
  BY DEF TypeInv, TypeOK
<1>2. UNCHANGED <<got, todo>> => k \in Passed(a, b)' /\ got'[a][k] = got[a][k]
  BY DEF Passed
<1>3. ASSUME NEW n \in Nodes, Pull(n) PROVE k \in Passed(a, b)' /\ got'[a][k] = got[a][k]
  <2>1. CASE UNCHANGED <<in, got, node, todo>>
    BY <1>2, <2>1
  <2>2. CASE /\ in[n] # <<>>
             /\ got' = [got EXCEPT ![n] = Append(@, Head(in[n]))]
             /\ todo' = [todo EXCEPT ![n] = ToSend(n, Head(in[n]))]
    <3>1. CASE a = n
      <4>1. PICK g \in Seq(Message), m \in Message : g = got[a] /\ m = Head(in[n])
        BY <1>1, <2>2 DEF TypeInv, TypeOK
      <4>2. got'[a] = Append(g, m)
        BY <1>1, <2>2, <3>1, <4>1
      <4>3. k \in DOMAIN g /\ g[k] # STOP
        BY <4>1 DEF Passed
      <4>4. k \in DOMAIN Append(g, m) /\ Append(g, m)[k] = g[k] /\ k # Len(Append(g, m))
        BY <4>3
      <4> QED
        BY <4>1, <4>2, <4>3, <4>4 DEF Passed
    <3>2. CASE a # n
      <4>1. got'[a] = got[a] /\ todo'[a] = todo[a]
        BY <1>1, <2>2, <3>2
      <4> QED BY <4>1 DEF Passed
    <3> QED BY <3>1, <3>2
  <2> QED
    BY <1>3, <2>1, <2>2, PullEffect
<1>4. ASSUME NEW n \in Nodes, Send(n) PROVE k \in Passed(a, b)' /\ got'[a][k] = got[a][k]
  <2>1. todo[n] \in Seq(Nodes) /\ todo[n] # <<>> /\ got' = got /\ todo' = [todo EXCEPT ![n] = Tail(@)]
    BY <1>1, <1>4 DEF Send
  <2>2. \A j \in DOMAIN todo'[a] : \E i \in DOMAIN todo[a] : todo'[a][j] = todo[a][i]
    <3>1. CASE a = n
      <4>1. PICK s \in Seq(Nodes) : s = todo[a] /\ s # <<>>
        BY <2>1, <3>1
      <4>2. todo'[a] = Tail(s)
        BY <1>1, <2>1, <3>1, <4>1
      <4>3. \A j \in DOMAIN Tail(s) : j + 1 \in DOMAIN s /\ Tail(s)[j] = s[j + 1]
        BY <4>1
      <4> QED BY <4>1, <4>2, <4>3
    <3>2. CASE a # n
      <4>1. todo'[a] = todo[a]
        BY <1>1, <2>1, <3>2
      <4> QED BY <4>1
    <3> QED BY <3>1, <3>2
  <2>3. k \in DOMAIN got[a] /\ got[a][k] # STOP
        /\ (k = Len(got[a]) => \A j \in DOMAIN todo[a] : todo[a][j] # b)
    BY DEF Passed
  <2>4. k = Len(got[a]) => \A j \in DOMAIN todo'[a] : todo'[a][j] # b
    BY <2>2, <2>3
  <2> QED
    BY <2>1, <2>3, <2>4 DEF Passed
<1>5. ASSUME NEW t \in Threads, Put(t) PROVE k \in Passed(a, b)' /\ got'[a][k] = got[a][k]
  BY <1>2, <1>5 DEF Put
<1>6. ASSUME NEW n \in Nodes, Handled(n) \/ Clear(n) \/ Exit(n) \/ StopNode(n) \/ Join(n)
      PROVE k \in Passed(a, b)' /\ got'[a][k] = got[a][k]
  BY <1>2, <1>6 DEF Handled, Clear, Exit, StopNode, Join
<1>7. CASE Feed \/ Quit \/ UNCHANGED vars
  BY <1>2, <1>7 DEF Feed, Quit, vars
<1> QED
  BY <1>3, <1>4, <1>5, <1>6, <1>7 DEF Next

LEMMA FedGrows ==
  ASSUME TypeInv, [Next]_vars
  PROVE  fed \in Nat /\ fed' \in Nat /\ fed <= fed'
<1>1. fed \in Nat
  BY PipelineAssumption DEF TypeInv, TypeOK
<1>2. fed' = fed \/ Feed
  BY DEF Next, vars, Put, Pull, Send, Handled, Clear, Exit, StopNode, Join, Quit
<1>3. Feed => fed' = fed + 1
  BY DEF Feed
<1> QED
  BY <1>1, <1>2, <1>3

LEMMA SentStays ==
  ASSUME TypeInv, [Next]_vars, NEW m \in Message, m # STOP, NEW b \in Nodes, Sent(m, b)
  PROVE  Sent(m, b)'
<1>1. m.uid \in Nat /\ m.from \in Threads
  BY MessageTypes, PipelineAssumption
<1>2. CASE m.from = Main
  BY <1>1, <1>2, FedGrows DEF Sent
<1>3. CASE m.from # Main
  <2>1. m.from \in Nodes /\ <<m.from, b>> \in Edges
    BY <1>1, <1>3 DEF Threads, Sent
  <2>2. PICK k \in Passed(m.from, b) : got[m.from][k].uid = m.uid
    BY <1>3 DEF Sent
  <2>3. k \in Passed(m.from, b)' /\ got'[m.from][k] = got[m.from][k]
    BY <2>1, PassedGrows
  <2> QED
    BY <1>3, <2>1, <2>2, <2>3 DEF Sent
<1> QED
  BY <1>2, <1>3

(* The message of a put() in progress counts as sent. *)
LEMMA CallSent ==
  ASSUME TypeInv, TodoInv, FeedInv, NEW t \in Threads, NEW n \in Nodes, NEW m \in Message,
         at[t] # "idle", call[t] = [to |-> n, msg |-> m], m # STOP
  PROVE  m.from = t /\ Sent(m, n)
<1>1. CASE t = Main
  <2>1. m = Data(fed, Main) /\ n = Source
    BY <1>1 DEF FeedInv
  <2>2. m.from = Main /\ m.uid = fed /\ fed \in Nat
    BY <2>1, PipelineAssumption DEF Data, TypeInv, TypeOK
  <2> QED
    BY <1>1, <2>1, <2>2 DEF Sent
<1>2. CASE t # Main
  <2>1. t \in Nodes
    BY <1>2 DEF Threads
  <2>2. /\ node[t] = "handling" /\ InHand(t) # STOP /\ m = Result(t) /\ <<t, n>> \in Edges
        /\ \A i \in 1 .. Len(todo[t]) : todo[t][i] # n
    BY <2>1 DEF TodoInv
  <2>3. m.from = t /\ m.uid = got[t][Len(got[t])].uid
    BY <2>2 DEF Result, Data, InHand
  <2>4. got[t] # <<>> /\ got[t] \in Seq(Message) /\ todo[t] \in Seq(Nodes)
    BY <2>1, <2>2 DEF TypeInv, TypeOK, HandInv
  <2>5. Len(got[t]) \in Passed(t, n)
    <3>1. Len(got[t]) \in DOMAIN got[t]
      BY <2>4
    <3>2. DOMAIN todo[t] = 1 .. Len(todo[t])
      BY <2>4
    <3> QED BY <2>2, <3>1, <3>2 DEF Passed, InHand
  <2> QED
    BY <1>2, <2>2, <2>3, <2>5 DEF Sent
<1> QED
  BY <1>1, <1>2

LEMMA SentStep ==
  ASSUME TypeInv, TodoInv, FeedInv, SentInv, [Next]_vars
  PROVE  SentInv'
<1>1. ASSUME NEW b \in Nodes, NEW m \in Message, m # STOP,
             \E i \in 1 .. Len(Arrived(b)') : Arrived(b)'[i] = m
      PROVE  Sent(m, b)'
  <2>1. CASE \E i \in 1 .. Len(Arrived(b)) : Arrived(b)[i] = m
    <3>1. Sent(m, b)
      BY <1>1, <2>1 DEF SentInv
    <3> QED
      BY <1>1, <3>1, SentStays
  <2>2. Arrived(b)' = Arrived(b) => Sent(m, b)'
    BY <1>1, <2>1
  <2>3. CASE Quiet
    <3>1. CASE Arrived(b)' = got[b]
      <4>1. \E i \in 1 .. Len(Arrived(b)) : Arrived(b)[i] = m
        BY <1>1, <3>1, ArrivedTypes
      <4> QED BY <2>1, <4>1
    <3> QED BY <2>2, <2>3, <3>1 DEF Quiet
  <2>4. ASSUME NEW t \in Threads, NEW n \in Nodes, NEW d \in Message, Enqueued(t, n, d)
        PROVE  Sent(m, b)'
    <3>1. CASE b = n /\ m = d
      <4>1. at[t] # "idle" /\ call[t] = [to |-> n, msg |-> d]
        BY <2>4 DEF Enqueued
      <4>2. Sent(d, n)
        BY <1>1, <3>1, <4>1, CallSent
      <4> QED
        BY <1>1, <3>1, <4>2, SentStays
    <3>2. CASE b = n /\ m # d
      <4>1. PICK s \in Seq(Message) : s = Arrived(b)
        BY ArrivedTypes
      <4>2. Arrived(b)' = Append(s, d)
        BY <2>4, <3>2, <4>1 DEF Enqueued
      <4>3. PICK i \in 1 .. Len(Append(s, d)) : Append(s, d)[i] = m
        BY <1>1, <4>2
      <4>4. i \in 1 .. Len(s) /\ s[i] = m
        BY <3>2, <4>3
      <4>5. \E j \in 1 .. Len(Arrived(b)) : Arrived(b)[j] = m
        BY <4>1, <4>4
      <4> QED BY <2>1, <4>5
    <3>3. CASE b # n
      BY <2>2, <2>4, <3>3 DEF Enqueued
    <3> QED BY <3>1, <3>2, <3>3
  <2> QED
    BY <2>2, <2>3, <2>4, StepCases DEF Called
<1> QED
  BY <1>1 DEF SentInv, STOP

-----------------------------------------------------------------------------
(* A node with targets has taken data messages with growing uids.           *)
LEMMA TakenGrows ==
  ASSUME OneFeeder, TypeInv, SentInv, OrderInv, NEW a \in Nodes, Targets[a] # <<>>,
         NEW i \in 1 .. Len(got[a]), NEW j \in 1 .. Len(got[a]), i < j,
         got[a][i] # STOP, got[a][j] # STOP
  PROVE  got[a][i].uid < got[a][j].uid
<1>1. /\ i \in 1 .. Len(Arrived(a)) /\ j \in 1 .. Len(Arrived(a))
      /\ got[a][i] = Arrived(a)[i] /\ got[a][j] = Arrived(a)[j]
      /\ got[a][i] \in Message /\ got[a][j] \in Message
  BY ArrivedTypes
<1>2. Sent(got[a][i], a) /\ Sent(got[a][j], a)
  BY <1>1 DEF SentInv
<1>3. got[a][i].from \in Threads /\ got[a][j].from \in Threads
  BY <1>1, MessageTypes
<1>4. got[a][i].from = got[a][j].from
  BY <1>2, <1>3 DEF Sent, OneFeeder, Threads
<1> QED
  BY <1>1, <1>4 DEF OrderInv

LEMMA HasTargets ==
  ASSUME NEW a \in Nodes, NEW b \in Nodes, <<a, b>> \in Edges
  PROVE  Targets[a] # <<>>
BY PipelineAssumption DEF Edges

(* Whatever a node has put to a target before is older than what it puts    *)
(* there next.                                                              *)
LEMMA NextIsNewer ==
  ASSUME OneFeeder, TypeInv, TodoInv, SentInv, OrderInv, NEW a \in Nodes, Send(a), NEW m \in Message,
         m # STOP, m.from = a,
         \E i \in 1 .. Len(Arrived(Head(todo[a]))) : Arrived(Head(todo[a]))[i] = m
  PROVE  m.uid < Result(a).uid
<1>1. todo[a] # <<>> /\ todo[a] \in Seq(Nodes) /\ InHand(a) # STOP /\ got[a] # <<>> /\ got[a] \in Seq(Message)
  BY DEF Send, TypeInv, TypeOK, HandInv
<1>2. PICK b \in Nodes : b = Head(todo[a]) /\ (\E j \in DOMAIN todo[a] : todo[a][j] = b)
  BY <1>1
<1>3. a # Main /\ Sent(m, b)
  BY <1>2, PipelineAssumption DEF SentInv
<1>4. PICK k \in Passed(a, b) : got[a][k].uid = m.uid
  BY <1>3 DEF Sent
<1>5. <<a, b>> \in Edges
  BY <1>3 DEF Sent
<1>6. k \in DOMAIN got[a] /\ got[a][k] # STOP /\ k # Len(got[a])
  BY <1>2, <1>4 DEF Passed
<1>7. Len(got[a]) \in 1 .. Len(got[a]) /\ k \in 1 .. Len(got[a]) /\ k < Len(got[a])
  BY <1>1, <1>6
<1>8. got[a][k].uid < got[a][Len(got[a])].uid
  BY <1>1, <1>5, <1>6, <1>7, HasTargets, TakenGrows DEF InHand
<1> QED
  BY <1>4, <1>8 DEF Result, Data, InHand

LEMMA OrderStep ==
  ASSUME OneFeeder, TypeInv, TodoInv, FeedInv, SentInv, OrderInv, [Next]_vars
  PROVE  OrderInv'
<1>0. Main \in Threads /\ Nodes \subseteq Threads /\ Main \notin Nodes /\ Source \in Nodes
  BY PipelineAssumption DEF Threads
<1>1. NoCall.to \notin Nodes
  BY <1>0 DEF NoCall
<1>2. ASSUME NEW s, NEW b \in Nodes, s = Arrived(b)
      PROVE  /\ s \in Seq(Message)
             /\ \A i, j \in 1 .. Len(s) : i < j /\ s[i].from = s[j].from /\ s[i] # STOP /\ s[j] # STOP
                                          => s[i].uid < s[j].uid
             /\ \A u \in Threads : call[u].to = b /\ call[u].msg # STOP =>
                  \A i \in 1 .. Len(s) : s[i] # STOP /\ s[i].from = u => s[i].uid < call[u].msg.uid
  BY <1>2, ArrivedTypes DEF OrderInv
<1>3. ASSUME Quiet PROVE OrderInv'
  <2>1. ASSUME NEW b \in Nodes
        PROVE  /\ \A i \in 1 .. Len(Arrived(b)') : i \in 1 .. Len(Arrived(b)) /\ Arrived(b)'[i] = Arrived(b)[i]
    BY <1>3, ArrivedTypes DEF Quiet
  <2>2. \A u \in Threads : call'[u].to \in Nodes => call'[u] = call[u]
    BY <1>1, <1>3 DEF Quiet
  <2>3. ASSUME NEW b \in Nodes, NEW i \in 1 .. Len(Arrived(b)'), NEW j \in 1 .. Len(Arrived(b)'),
               i < j, Arrived(b)'[i].from = Arrived(b)'[j].from, Arrived(b)'[i] # STOP, Arrived(b)'[j] # STOP
        PROVE  Arrived(b)'[i].uid < Arrived(b)'[j].uid
    BY <2>1, <2>3 DEF OrderInv
  <2>4. ASSUME NEW b \in Nodes, NEW u \in Threads, call'[u].to = b, call'[u].msg # STOP,
               NEW i \in 1 .. Len(Arrived(b)'), Arrived(b)'[i] # STOP, Arrived(b)'[i].from = u
        PROVE  Arrived(b)'[i].uid < call'[u].msg.uid
    BY <2>1, <2>2, <2>4 DEF OrderInv
  <2> QED
    BY <2>3, <2>4 DEF OrderInv, STOP
<1>4. ASSUME NEW t \in Threads, NEW n \in Nodes, NEW m \in Message, Enqueued(t, n, m)
      PROVE  OrderInv'
  <2>1. PICK s \in Seq(Message) : s = Arrived(n)
    BY ArrivedTypes
  <2>2. Arrived(n)' = Append(s, m) /\ \A b \in Nodes \ {n} : Arrived(b)' = Arrived(b)
    BY <1>4, <2>1 DEF Enqueued
  <2>3. m # STOP => m.from = t
    BY <1>4, CallSent DEF Enqueued
  <2>4. \A u \in Threads : call'[u].to \in Nodes => call'[u] = call[u] /\ u # t
    BY <1>1, <1>4 DEF Enqueued
  <2>5. call[t].to = n /\ call[t].msg = m
    BY <1>4 DEF Enqueued
  <2>6. ASSUME NEW i \in 1 .. Len(Append(s, m))
        PROVE  \/ i \in 1 .. Len(s) /\ Append(s, m)[i] = s[i]
               \/ i = Len(s) + 1 /\ Append(s, m)[i] = m
    <3>1. Len(s) \in Nat /\ i \in 1 .. Len(s) + 1
      OBVIOUS
    <3>2. CASE i \in 1 .. Len(s)
      BY <3>2, Appended
    <3>3. CASE i = Len(s) + 1
      BY <3>3, Appended
    <3> QED BY <3>1, <3>2, <3>3
  <2>7. ASSUME NEW b \in Nodes, NEW i \in 1 .. Len(Arrived(b)'), NEW j \in 1 .. Len(Arrived(b)'),
               i < j, Arrived(b)'[i].from = Arrived(b)'[j].from, Arrived(b)'[i] # STOP, Arrived(b)'[j] # STOP
        PROVE  Arrived(b)'[i].uid < Arrived(b)'[j].uid
    <3>1. CASE b # n
      BY <2>2, <2>7, <3>1 DEF OrderInv
    <3>2. CASE b = n
      <4>1. i \in 1 .. Len(s) /\ Append(s, m)[i] = s[i]
        BY <2>1, <2>2, <2>6, <2>7, <3>2
      <4>2. CASE j \in 1 .. Len(s) /\ Append(s, m)[j] = s[j]
        BY <1>2, <2>1, <2>2, <2>7, <3>2, <4>1, <4>2
      <4>3. CASE j = Len(s) + 1 /\ Append(s, m)[j] = m
        <5>1. m # STOP /\ s[i] # STOP /\ s[i].from = t
          BY <2>2, <2>3, <2>7, <3>2, <4>1, <4>3
        <5>2. s[i].uid < m.uid
          BY <1>2, <2>1, <2>5, <4>1, <5>1
        <5> QED BY <2>2, <3>2, <4>1, <4>3, <5>2
      <4> QED BY <2>2, <2>6, <3>2, <4>2, <4>3
    <3> QED BY <3>1, <3>2
  <2>8. ASSUME NEW b \in Nodes, NEW u \in Threads, call'[u].to = b, call'[u].msg # STOP,
               NEW i \in 1 .. Len(Arrived(b)'), Arrived(b)'[i] # STOP, Arrived(b)'[i].from = u
        PROVE  Arrived(b)'[i].uid < call'[u].msg.uid
    <3>0. call'[u] = call[u] /\ u # t
      BY <2>4, <2>8
    <3>1. CASE b # n
      BY <2>2, <2>8, <3>0, <3>1 DEF OrderInv
    <3>2. CASE b = n
      <4>1. i \in 1 .. Len(s) /\ Append(s, m)[i] = s[i]
        BY <2>2, <2>3, <2>6, <2>8, <3>0, <3>2
      <4> QED
        BY <1>2, <2>1, <2>2, <2>8, <3>0, <3>2, <4>1
    <3> QED BY <3>1, <3>2
  <2> QED
    BY <2>7, <2>8 DEF OrderInv, STOP
<1>5. ASSUME NEW t \in Threads, NEW n \in Nodes, NEW d, Called(t, n, d),
             d # STOP => \A m \in Message :
               m # STOP /\ m.from = t /\ (\E i \in 1 .. Len(Arrived(n)) : Arrived(n)[i] = m) => m.uid < d.uid
      PROVE  OrderInv'
  <2>1. \A b \in Nodes : Arrived(b)' = Arrived(b)
    BY <1>5 DEF Called
  <2>2. call'[t].to = n /\ call'[t].msg = d /\ \A u \in Threads \ {t} : call'[u] = call[u]
    BY <1>5 DEF Called
  <2>3. ASSUME NEW b \in Nodes, NEW u \in Threads, call'[u].to = b, call'[u].msg # STOP,
               NEW i \in 1 .. Len(Arrived(b)), Arrived(b)[i] # STOP, Arrived(b)[i].from = u
        PROVE  Arrived(b)[i].uid < call'[u].msg.uid
    <3>1. CASE u = t
      BY <1>5, <2>2, <2>3, <3>1, ArrivedTypes
    <3>2. CASE u # t
      BY <2>2, <2>3, <3>2 DEF OrderInv
    <3> QED BY <3>1, <3>2
  <2> QED
    BY <2>1, <2>3 DEF OrderInv, STOP
<1>6. ASSUME NEW a \in Nodes, Send(a), Called(a, Head(todo[a]), Result(a))
      PROVE  OrderInv'
  <2>1. Head(todo[a]) \in Nodes
    BY <1>6 DEF Send, TypeInv, TypeOK
  <2>2. \A m \in Message :
          m # STOP /\ m.from = a
          /\ (\E i \in 1 .. Len(Arrived(Head(todo[a]))) : Arrived(Head(todo[a]))[i] = m) => m.uid < Result(a).uid
    BY <1>6, NextIsNewer
  <2> QED
    BY <1>0, <1>5, <1>6, <2>1, <2>2
<1>7. ASSUME Called(Main, Source, Data(fed + 1, Main)) PROVE OrderInv'
  <2>1. \A m \in Message :
          m # STOP /\ m.from = Main
          /\ (\E i \in 1 .. Len(Arrived(Source)) : Arrived(Source)[i] = m) => m.uid <= fed /\ m.uid \in Nat
    <3>1. ASSUME NEW m \in Message, m # STOP, m.from = Main,
                 \E i \in 1 .. Len(Arrived(Source)) : Arrived(Source)[i] = m
          PROVE  m.uid <= fed /\ m.uid \in Nat
      <4>1. Sent(m, Source)
        BY <1>0, <3>1 DEF SentInv
      <4> QED
        BY <3>1, <4>1, MessageTypes, PipelineAssumption DEF Sent
    <3> QED BY <3>1
  <2>2. fed \in Nat /\ Data(fed + 1, Main).uid = fed + 1
    BY PipelineAssumption DEF TypeInv, TypeOK, Data
  <2>3. \A m \in Message :
          m # STOP /\ m.from = Main
          /\ (\E i \in 1 .. Len(Arrived(Source)) : Arrived(Source)[i] = m) => m.uid < Data(fed + 1, Main).uid
    BY <2>1, <2>2
  <2> QED
    BY <1>0, <1>5, <1>7, <2>3
<1>8. ASSUME NEW n \in Nodes, Called(Main, n, STOP) PROVE OrderInv'
  BY <1>0, <1>5, <1>8
<1> QED
  BY <1>3, <1>4, <1>6, <1>7, <1>8, StepCases

LEMMA InitFlow == Init => FlowInv
<1> SUFFICES ASSUME Init PROVE FlowInv
  OBVIOUS
<1>1. TypeInv
  BY InitTypes
<1>2. TodoInv /\ FeedInv
  BY PipelineAssumption DEF Init, TodoInv, FeedInv, Threads
<1>3. \A b \in Nodes : Arrived(b) = <<>>
  BY DEF Init, Arrived
<1>4. SentInv /\ OrderInv
  BY <1>3 DEF SentInv, OrderInv
<1> QED
  BY <1>1, <1>2, <1>4 DEF FlowInv

LEMMA FlowStep ==
  ASSUME TargetsOnce, OneFeeder
  PROVE  FlowInv /\ [Next]_vars => FlowInv'
BY TypeStep, TodoStep, FeedStep, SentStep, OrderStep DEF FlowInv

(* On an edge, order among what has arrived and what is on its way.         *)
LEMMA FlowFifo == FlowInv => EdgeFifo
<1> SUFFICES ASSUME FlowInv PROVE EdgeFifo
  OBVIOUS
<1>1. ASSUME NEW a \in Nodes, NEW b \in Nodes, <<a, b>> \in Edges,
             NEW r, r = Arrived(b) \o InFlight(a, b),
             NEW i \in DOMAIN r, NEW j \in DOMAIN r, i < j, r[i].from = a, r[j].from = a
      PROVE  r[i].uid < r[j].uid
  <2>1. a \in Threads /\ a # Main /\ b # Main /\ TypeInv /\ OrderInv /\ TodoInv
    BY PipelineAssumption DEF Threads, FlowInv
  <2>2. PICK s \in Seq(Message) : s = Arrived(b)
    BY <2>1, ArrivedTypes
  <2>3. \A k \in 1 .. Len(s) : s[k] \in Message /\ (s[k].from = a => s[k] # STOP)
    BY <2>1, <2>2 DEF STOP
  <2>4. \A k, l \in 1 .. Len(s) : k < l /\ s[k].from = a /\ s[l].from = a => s[k].uid < s[l].uid
    BY <2>1, <2>2, <2>3 DEF OrderInv
  <2>5. CASE call[a].to = b
    <3>1. PICK m \in Message : m = call[a].msg /\ InFlight(a, b) = <<m>>
      BY <2>1, <2>5 DEF InFlight, TypeInv, TypeOK
    <3>2. at[a] # "idle"
      BY <2>1, <2>5 DEF TypeInv, CallTo, NoCall
    <3>3. m = Result(a)
      BY <2>1, <3>1, <3>2 DEF TodoInv
    <3>4. m # STOP
      <4>1. m.cmd = "DATA" /\ STOP.cmd = "STOP"
        BY <3>3 DEF Result, Data, STOP
      <4> QED BY <4>1
    <3>5. \A k \in 1 .. Len(s) : s[k].from = a => s[k].uid < m.uid
      BY <2>1, <2>2, <2>3, <2>5, <3>1, <3>4 DEF OrderInv
    <3>6. r = Append(s, m)
      BY <1>1, <2>2, <3>1
    <3>7. /\ DOMAIN r = 1 .. Len(s) + 1 /\ Len(s) \in Nat /\ r[Len(s) + 1] = m
          /\ \A k \in 1 .. Len(s) : r[k] = s[k]
      BY <3>6
    <3>8. i \in 1 .. Len(s)
      BY <1>1, <3>7
    <3>9. CASE j \in 1 .. Len(s)
      BY <1>1, <2>4, <3>7, <3>8, <3>9
    <3>10. CASE j = Len(s) + 1
      BY <1>1, <3>5, <3>7, <3>8, <3>10
    <3> QED
      BY <3>7, <3>9, <3>10
  <2>6. CASE call[a].to # b
    <3>1. r = s
      BY <1>1, <2>2, <2>6 DEF InFlight
    <3>2. i \in 1 .. Len(s) /\ j \in 1 .. Len(s)
      BY <2>2, <3>1
    <3> QED
      BY <1>1, <2>4, <3>1, <3>2
  <2> QED
    BY <2>5, <2>6
<1>2. ASSUME NEW e \in Edges
      PROVE  LET s == Arrived(e[2]) \o InFlight(e[1], e[2]) IN
             \A i, j \in DOMAIN s :
               i < j /\ s[i].from = e[1] /\ s[j].from = e[1] => s[i].uid < s[j].uid
  <2>1. PICK a \in Nodes, b \in Nodes : e = <<a, b>> /\ a = e[1] /\ b = e[2]
    BY DEF Edges
  <2> DEFINE r == Arrived(b) \o InFlight(a, b)
  <2>2. \A i, j \in DOMAIN r : i < j /\ r[i].from = a /\ r[j].from = a => r[i].uid < r[j].uid
    <3> HIDE DEF r
    <3>1. r = Arrived(b) \o InFlight(a, b)
      BY DEF r
    <3> QED BY <1>1, <2>1, <3>1
  <2> QED
    BY <2>1, <2>2
<1> QED
  BY <1>2 DEF EdgeFifo

(* Along every edge messages stay in the order in which they were made, and *)
(* none is there twice: for every graph in which a node that sends on has   *)
(* one feeder, every mix of policies and whatever the inboxes hold          *)
(* (base_sync_join.hpp:65, base_node.hpp:140-176).                          *)
THEOREM EdgesAreFifo ==
  ASSUME TargetsOnce, OneFeeder
  PROVE  Spec => []EdgeFifo
<1>1. FlowInv /\ [Next]_vars => FlowInv'
  BY FlowStep
<1> QED
  BY InitFlow, <1>1, FlowFifo, PTL DEF Spec

-----------------------------------------------------------------------------
(* Nothing is lost. *)

(* A node in its loop runs, hence a put() to it is not refused.             *)
RunInv == \A n \in Nodes : InLoop(n) => running[n]

CountInv ==
  \A a, b \in Nodes :
    <<a, b>> \in Edges /\ pol[a] = "WAIT" /\ InLoop(b) =>
      Cardinality(Delivered(a, b)) + Len(InFlight(a, b)) = Cardinality(Passed(a, b))

LossInv == TypeInv /\ TodoInv /\ FeedInv /\ RunInv /\ CountInv

LEMMA RunStep == TypeInv /\ RunInv /\ [Next]_vars => RunInv'
<1> SUFFICES ASSUME TypeInv, RunInv, [Next]_vars PROVE RunInv'
  OBVIOUS
<1>1. running \in [Nodes -> BOOLEAN]
      /\ node \in [Nodes -> {"pulling", "handling", "clearing", "exiting", "dead"}]
  BY DEF TypeInv, TypeOK
<1>2. UNCHANGED <<node, running>> => RunInv'
  BY DEF RunInv, InLoop
<1>3. ASSUME NEW n \in Nodes, Pull(n) \/ Handled(n) \/ Clear(n) \/ Exit(n) PROVE RunInv'
  BY <1>1, <1>3 DEF Pull, Handled, Clear, Exit, RunInv, InLoop
<1>4. ASSUME NEW n \in Nodes, Send(n) \/ StopNode(n) \/ Join(n) PROVE RunInv'
  BY <1>2, <1>4 DEF Send, StopNode, Join
<1>5. ASSUME NEW t \in Threads, Put(t) PROVE RunInv'
  BY <1>2, <1>5 DEF Put
<1>6. CASE Feed \/ Quit \/ UNCHANGED vars
  BY <1>2, <1>6 DEF Feed, Quit, vars
<1> QED
  BY <1>3, <1>4, <1>5, <1>6 DEF Next

(* No node comes back to its loop, and policies are for good.               *)
LEMMA LoopLeft ==
  ASSUME TypeInv, [Next]_vars, NEW n \in Nodes, InLoop(n)'
  PROVE  InLoop(n) /\ pol' = pol
<1>1. node \in [Nodes -> {"pulling", "handling", "clearing", "exiting", "dead"}]
  BY DEF TypeInv, TypeOK
<1>2. pol' = pol
  BY DEF Next, vars, Put, Pull, Send, Handled, Clear, Exit, StopNode, Join, Feed, Quit
<1>3. node' = node => InLoop(n)
  BY DEF InLoop
<1>4. ASSUME NEW k \in Nodes, Pull(k) \/ Handled(k) \/ Clear(k) \/ Exit(k) PROVE InLoop(n)
  BY <1>1, <1>4 DEF Pull, Handled, Clear, Exit, InLoop
<1>5. node' = node \/ \E k \in Nodes : Pull(k) \/ Handled(k) \/ Clear(k) \/ Exit(k)
  BY DEF Next, vars, Put, Send, StopNode, Join, Feed, Quit
<1> QED
  BY <1>2, <1>3, <1>4, <1>5

LEMMA FiniteCounts ==
  ASSUME TypeInv, NEW a \in Nodes, NEW b \in Nodes
  PROVE  /\ IsFiniteSet(Delivered(a, b)) /\ Delivered(a, b) \subseteq 1 .. Len(Arrived(b))
         /\ IsFiniteSet(Passed(a, b)) /\ Passed(a, b) \subseteq 1 .. Len(got[a])
<1>1. Delivered(a, b) \subseteq 1 .. Len(Arrived(b)) /\ Len(Arrived(b)) \in Nat
  BY ArrivedTypes DEF Delivered
<1>2. Passed(a, b) \subseteq 1 .. Len(got[a]) /\ Len(got[a]) \in Nat
  BY ArrivedTypes DEF Passed
<1>3. IsFiniteSet(1 .. Len(Arrived(b))) /\ IsFiniteSet(1 .. Len(got[a]))
  BY <1>1, <1>2, FS_Interval
<1> QED
  BY <1>1, <1>2, <1>3, FS_Subset

(* A message from a to b that is enqueued is on its way no longer and has   *)
(* been delivered instead; one from another sender is not counted.          *)
LEMMA EnqueueCounts ==
  ASSUME TypeInv, TodoInv, FeedInv, NEW a \in Nodes, NEW b \in Nodes,
         NEW t \in Threads, NEW n \in Nodes, NEW m \in Message, Enqueued(t, n, m)
  PROVE  Cardinality(Delivered(a, b))' + Len(InFlight(a, b))'
           = Cardinality(Delivered(a, b)) + Len(InFlight(a, b))
<1>0. a \in Threads /\ a # Main /\ NoCall.to = Main /\ b # Main
  BY PipelineAssumption DEF Threads, NoCall
<1>1. at[t] # "idle" /\ call[t] = [to |-> n, msg |-> m] /\ call'[a] = IF a = t THEN NoCall ELSE call[a]
  BY <1>0 DEF Enqueued
<1>2. CASE b # n
  <2>1. Arrived(b)' = Arrived(b)
    BY <1>2 DEF Enqueued
  <2>2. InFlight(a, b)' = InFlight(a, b)
    BY <1>0, <1>1, <1>2 DEF InFlight
  <2> QED
    BY <2>1, <2>2 DEF Delivered
<1>3. CASE b = n
  <2>1. PICK s \in Seq(Message) : s = Arrived(b)
    BY ArrivedTypes
  <2>2. Arrived(b)' = Append(s, m)
    BY <1>3, <2>1 DEF Enqueued
  <2>3. /\ DOMAIN Append(s, m) = 1 .. Len(s) + 1 /\ DOMAIN s = 1 .. Len(s) /\ Len(s) \in Nat
        /\ Append(s, m)[Len(s) + 1] = m /\ \A i \in 1 .. Len(s) : Append(s, m)[i] = s[i]
    OBVIOUS
  <2>4. Delivered(a, b) = {i \in 1 .. Len(s) : s[i].from = a}
    BY <2>1, <2>3 DEF Delivered
  <2>5. Delivered(a, b)' = {i \in 1 .. Len(s) + 1 : Append(s, m)[i].from = a}
    BY <2>2, <2>3 DEF Delivered
  <2>6. CASE t = a
    <3>1. m.from = a
      <4>1. call[a].msg = m /\ at[a] # "idle"
        BY <1>1, <2>6
      <4>2. m = Result(a)
        BY <4>1 DEF TodoInv
      <4> QED BY <4>2 DEF Result, Data
    <3>2. Delivered(a, b)' = Delivered(a, b) \cup {Len(s) + 1}
      BY <2>3, <2>4, <2>5, <3>1
    <3>3. Len(s) + 1 \notin Delivered(a, b)
      BY <2>3, <2>4
    <3>4. Cardinality(Delivered(a, b)') = Cardinality(Delivered(a, b)) + 1 /\ Cardinality(Delivered(a, b)) \in Nat
      BY <3>2, <3>3, FiniteCounts, FS_AddElement, FS_CardinalityType
    <3>5. InFlight(a, b) = <<m>> /\ InFlight(a, b)' = <<>>
      BY <1>0, <1>1, <1>3, <2>6 DEF InFlight
    <3>6. Len(InFlight(a, b)) = 1 /\ Len(InFlight(a, b)') = 0
      BY <3>5
    <3> QED
      BY <3>4, <3>6
  <2>7. CASE t # a
    <3>1. m.from # a
      <4>1. CASE t = Main
        BY <1>0, <1>1, <4>1 DEF FeedInv, Data, STOP
      <4>2. CASE t # Main
        <5>1. t \in Nodes
          BY <4>2 DEF Threads
        <5>2. call[t].msg = m
          BY <1>1
        <5>3. m = Result(t)
          BY <1>1, <5>1, <5>2 DEF TodoInv
        <5> QED BY <2>7, <5>3 DEF Result, Data
      <4> QED BY <4>1, <4>2
    <3>2. Delivered(a, b)' = Delivered(a, b)
      BY <2>3, <2>4, <2>5, <3>1
    <3>3. InFlight(a, b)' = InFlight(a, b)
      BY <1>1, <2>7 DEF InFlight
    <3> QED
      BY <3>2, <3>3
  <2> QED
    BY <2>6, <2>7
<1> QED
  BY <1>2, <1>3

(* A message that is put to b counts as passed on and is on its way.        *)
LEMMA SendCounts ==
  ASSUME TypeInv, TodoInv, NEW a \in Nodes, NEW b \in Nodes, Send(a), running[b]
  PROVE  /\ Cardinality(Passed(a, b))' = Cardinality(Passed(a, b)) + (IF b = Head(todo[a]) THEN 1 ELSE 0)
         /\ Len(InFlight(a, b))' = Len(InFlight(a, b)) + (IF b = Head(todo[a]) THEN 1 ELSE 0)
         /\ Delivered(a, b)' = Delivered(a, b)
<1>0. a \in Threads /\ a # Main /\ b # Main
  BY PipelineAssumption DEF Threads
<1>1. /\ got' = got /\ in' = in /\ at[a] = "idle" /\ Call(a, Head(todo[a]), Result(a))
      /\ todo[a] # <<>> /\ todo' = [todo EXCEPT ![a] = Tail(@)]
  BY DEF Send
<1>2. call[a] = NoCall /\ call \in [Threads -> [to : Threads, msg : Message]]
  BY <1>0, <1>1 DEF TypeInv, TypeOK, CallTo
<1>3. InHand(a) # STOP /\ got[a] # <<>> /\ got[a] \in Seq(Message)
  BY <1>1 DEF TypeInv, TypeOK, HandInv
<1>4. PICK s \in Seq(Nodes) : s = todo[a] /\ s # <<>>
  BY <1>1 DEF TypeInv, TypeOK
<1>5. todo'[a] = Tail(s)
  BY <1>1, <1>4 DEF TypeInv, TypeOK
<1>6. \A i, j \in 1 .. Len(s) : s[i] = s[j] => i = j
  BY <1>4 DEF TodoInv
<1>7. /\ DOMAIN s = 1 .. Len(s) /\ DOMAIN Tail(s) = 1 .. Len(s) - 1 /\ Len(s) \in Nat /\ Len(s) > 0
      /\ Head(s) = s[1] /\ \A i \in 1 .. Len(s) - 1 : Tail(s)[i] = s[i + 1]
  BY <1>4
<1>8. (\A i \in DOMAIN s : s[i] # b) <=> b # Head(s) /\ (\A i \in DOMAIN Tail(s) : Tail(s)[i] # b)
  <2>1. ASSUME \A i \in DOMAIN s : s[i] # b
        PROVE  b # Head(s) /\ (\A i \in DOMAIN Tail(s) : Tail(s)[i] # b)
    BY <1>7, <2>1
  <2>2. ASSUME b # Head(s), \A i \in DOMAIN Tail(s) : Tail(s)[i] # b, NEW i \in DOMAIN s
        PROVE  s[i] # b
    <3>1. CASE i = 1
      BY <1>7, <2>2, <3>1
    <3>2. CASE i # 1
      <4>1. i - 1 \in 1 .. Len(s) - 1 /\ i = (i - 1) + 1
        BY <1>7, <3>2
      <4>2. Tail(s)[i - 1] = s[i]
        BY <1>7, <4>1
      <4> QED BY <1>7, <2>2, <4>1, <4>2
    <3> QED BY <3>1, <3>2
  <2> QED BY <2>1, <2>2
<1>9. b = Head(s) => \A i \in DOMAIN Tail(s) : Tail(s)[i] # b
  <2>1. ASSUME NEW i \in 1 .. Len(s) - 1 PROVE Tail(s)[i] # Head(s)
    <3>1. i + 1 \in 1 .. Len(s) /\ 1 \in 1 .. Len(s) /\ i + 1 # 1
      BY <1>7
    <3> QED BY <1>6, <1>7, <3>1
  <2> QED BY <1>7, <2>1
<1>10. Delivered(a, b)' = Delivered(a, b)
  BY <1>1 DEF Delivered, Arrived
<1> DEFINE l == Len(got[a])
<1>11. l \in Nat /\ l > 0 /\ DOMAIN got[a] = 1 .. l
  BY <1>3
<1>12. Passed(a, b) = {i \in 1 .. l : got[a][i] # STOP /\ (i = l => \A j \in DOMAIN s : s[j] # b)}
  BY <1>4, <1>11 DEF Passed
<1>13. Passed(a, b)' = {i \in 1 .. l : got[a][i] # STOP /\ (i = l => \A j \in DOMAIN Tail(s) : Tail(s)[j] # b)}
  BY <1>1, <1>5, <1>11 DEF Passed
<1>14. got[a][l] # STOP
  BY <1>3 DEF InHand
<1> HIDE DEF l
<1>15. CASE b = Head(s)
  <2>1. Passed(a, b)' = Passed(a, b) \cup {l} /\ l \notin Passed(a, b)
    BY <1>8, <1>9, <1>11, <1>12, <1>13, <1>14, <1>15
  <2>2. Cardinality(Passed(a, b)') = Cardinality(Passed(a, b)) + 1
    BY <2>1, FiniteCounts, FS_AddElement
  <2>3. call'[a] = [to |-> b, msg |-> Result(a)]
    BY <1>0, <1>1, <1>2, <1>4, <1>15 DEF Call
  <2>4. InFlight(a, b) = <<>> /\ InFlight(a, b)' = <<Result(a)'>>
    <3>1. Result(a)' = Result(a)
      BY <1>1 DEF Result, InHand
    <3> QED BY <1>0, <1>2, <2>3, <3>1 DEF InFlight, NoCall
  <2>5. Len(InFlight(a, b)) = 0 /\ Len(InFlight(a, b)') = 1
    BY <2>4
  <2>6. Head(todo[a]) = b
    BY <1>4, <1>15
  <2> QED
    BY <1>10, <2>2, <2>5, <2>6
<1>16. CASE b # Head(s)
  <2>1. Passed(a, b)' = Passed(a, b)
    BY <1>8, <1>12, <1>13, <1>16
  <2>2. call'[a] = call[a] \/ call'[a].to # b
    BY <1>0, <1>1, <1>2, <1>4, <1>16 DEF Call
  <2>3. InFlight(a, b) = <<>> /\ InFlight(a, b)' = <<>>
    BY <1>0, <1>2, <2>2 DEF InFlight, NoCall
  <2>4. Len(InFlight(a, b)) = 0 /\ Len(InFlight(a, b)') = 0
    BY <2>3
  <2>5. Cardinality(Passed(a, b)) \in Nat
    BY FiniteCounts, FS_CardinalityType
  <2> QED
    BY <1>4, <1>10, <1>16, <2>1, <2>4, <2>5
<1> QED
  BY <1>15, <1>16

(* Taking a message passes nothing on. *)
LEMMA PullCounts ==
  ASSUME TypeInv, NEW a \in Nodes, NEW b \in Nodes, <<a, b>> \in Edges, NEW n \in Nodes, Pull(n)
  PROVE  Passed(a, b)' = Passed(a, b)
<1>1. got \in [Nodes -> Seq(Message)] /\ todo \in [Nodes -> Seq(Nodes)]
  BY DEF TypeInv, TypeOK
<1>2. CASE UNCHANGED <<in, got, node, todo>>
  BY <1>2 DEF Passed
<1>3. CASE /\ in[n] # <<>>
           /\ got' = [got EXCEPT ![n] = Append(@, Head(in[n]))]
           /\ todo' = [todo EXCEPT ![n] = ToSend(n, Head(in[n]))]
  <2>1. CASE a # n
    <3>1. got'[a] = got[a] /\ todo'[a] = todo[a]
      BY <1>1, <1>3, <2>1
    <3> QED BY <3>1 DEF Passed
  <2>2. CASE a = n
    <3>1. PICK g \in Seq(Message), m \in Message : g = got[a] /\ m = Head(in[n])
      BY <1>1, <1>3 DEF TypeInv, TypeOK
    <3>2. got'[a] = Append(g, m) /\ todo'[a] = ToSend(a, m)
      BY <1>1, <1>3, <2>2, <3>1
    <3>3. todo[a] = <<>>
      BY <2>2, PullEffect DEF TypeInv, HandInv
    <3>4. /\ DOMAIN g = 1 .. Len(g) /\ Len(g) \in Nat /\ Len(Append(g, m)) = Len(g) + 1
          /\ DOMAIN Append(g, m) = 1 .. Len(g) + 1 /\ Append(g, m)[Len(g) + 1] = m
          /\ \A i \in 1 .. Len(g) : Append(g, m)[i] = g[i]
      OBVIOUS
    <3>5. Passed(a, b) = {i \in 1 .. Len(g) : g[i] # STOP}
      <4>1. DOMAIN todo[a] = {}
        BY <3>3
      <4> QED BY <3>1, <3>4, <4>1 DEF Passed
    <3>6. m # STOP => \E j \in DOMAIN todo'[a] : todo'[a][j] = b
      BY <3>2 DEF ToSend, Edges
    <3>7. Passed(a, b)' = {i \in 1 .. Len(g) + 1 :
                             /\ Append(g, m)[i] # STOP
                             /\ i = Len(g) + 1 => \A j \in DOMAIN todo'[a] : todo'[a][j] # b}
      BY <3>2, <3>4 DEF Passed, STOP
    <3>8. ASSUME NEW i PROVE i \in Passed(a, b)' <=> i \in Passed(a, b)
      BY <3>4, <3>5, <3>6, <3>7
    <3> QED BY <3>8
  <2> QED BY <2>1, <2>2
<1> QED
  BY <1>2, <1>3, PullEffect

LEMMA CountStep ==
  ASSUME TypeInv, TodoInv, FeedInv, RunInv, CountInv, [Next]_vars
  PROVE  CountInv'
<1> SUFFICES ASSUME NEW a \in Nodes, NEW b \in Nodes, <<a, b>> \in Edges, pol'[a] = "WAIT", InLoop(b)'
             PROVE  Cardinality(Delivered(a, b))' + Len(InFlight(a, b))' = Cardinality(Passed(a, b))'
  BY DEF CountInv, Edges
<1>0. a \in Threads /\ a # Main /\ b # Main
  BY PipelineAssumption DEF Threads
<1>1. Cardinality(Delivered(a, b)) + Len(InFlight(a, b)) = Cardinality(Passed(a, b)) /\ pol[a] = "WAIT"
  BY LoopLeft DEF CountInv
<1>2. running[b]
  BY LoopLeft DEF RunInv
<1>3. /\ Cardinality(Delivered(a, b)) \in Nat /\ Cardinality(Passed(a, b)) \in Nat
      /\ Len(InFlight(a, b)) \in Nat
  <2>1. InFlight(a, b) = <<>> \/ \E m : InFlight(a, b) = <<m>>
    BY DEF InFlight
  <2> QED
    BY <2>1, FiniteCounts, FS_CardinalityType
<1> DEFINE Goal == Cardinality(Delivered(a, b))' + Len(InFlight(a, b))' = Cardinality(Passed(a, b))'
<1>4. Arrived(b)' = Arrived(b) /\ call'[a] = call[a] /\ Passed(a, b)' = Passed(a, b) => Goal
  BY <1>1 DEF Delivered, InFlight
<1>5. UNCHANGED <<in, got, todo>> /\ call'[a] = call[a] => Goal
  BY <1>4 DEF Arrived, Passed, STOP
<1> HIDE DEF Goal
<1>6. ASSUME NEW t \in Threads, Put(t) PROVE Goal
  <2>1. CASE Held(t)
    <3>1. call'[a] = call[a]
      BY <1>0, <1>1, <2>1 DEF Held, PolicyOf
    <3> QED BY <1>5, <2>1, <3>1 DEF Held
  <2>2. ASSUME NEW n \in Nodes, NEW m \in Message, Enqueued(t, n, m) PROVE Goal
    <3>1. Passed(a, b)' = Passed(a, b)
      BY <2>2 DEF Enqueued, Passed, STOP
    <3> QED BY <1>1, <2>2, <3>1, EnqueueCounts DEF Goal
  <2> QED BY <1>6, <2>1, <2>2, PutCases
<1>7. ASSUME NEW n \in Nodes, Pull(n) PROVE Goal
  BY <1>0, <1>4, <1>7, PullArrives, PullCounts, PullEffect
<1>8. ASSUME NEW n \in Nodes, Send(n) PROVE Goal
  <2>1. CASE n = a
    BY <1>1, <1>2, <1>3, <1>8, <2>1, SendCounts DEF Goal
  <2>2. CASE n # a
    <3>1. UNCHANGED <<in, got>> /\ call'[a] = call[a] /\ todo'[a] = todo[a]
      BY <1>0, <1>8, <2>2 DEF Send, Call, TypeInv, TypeOK
    <3>2. Arrived(b)' = Arrived(b) /\ Passed(a, b)' = Passed(a, b)
      BY <3>1 DEF Arrived, Passed, STOP
    <3> QED BY <1>4, <3>1, <3>2
  <2> QED BY <2>1, <2>2
<1>9. ASSUME NEW n \in Nodes, Clear(n) PROVE Goal
  <2>1. n # b
    BY <1>9 DEF Clear, InLoop, TypeInv, TypeOK
  <2>2. Arrived(b)' = Arrived(b) /\ call' = call /\ Passed(a, b)' = Passed(a, b)
    BY <1>9, <2>1 DEF Clear, Arrived, Passed, STOP, TypeInv, TypeOK
  <2> QED BY <1>4, <2>2
<1>10. ASSUME NEW n \in Nodes, Handled(n) \/ Exit(n) \/ Join(n) PROVE Goal
  BY <1>5, <1>10 DEF Handled, Exit, Join
<1>11. ASSUME NEW n \in Nodes, StopNode(n) PROVE Goal
  <2>1. UNCHANGED <<in, got, todo>> /\ call'[a] = call[a]
    BY <1>0, <1>11 DEF StopNode, Call, TypeInv, TypeOK
  <2> QED BY <1>5, <2>1
<1>12. ASSUME Feed PROVE Goal
  <2>1. UNCHANGED <<in, got, todo>> /\ (call' = call \/ \E m : call' = [call EXCEPT ![Main] = m])
    BY <1>12 DEF Feed, Call
  <2>2. call'[a] = call[a]
    BY <1>0, <2>1 DEF TypeInv, TypeOK
  <2> QED BY <1>5, <2>1, <2>2
<1>13. ASSUME Quit \/ UNCHANGED vars PROVE Goal
  <2>1. UNCHANGED <<in, got, todo, call>>
    BY <1>13 DEF Quit, vars
  <2> QED BY <1>5, <2>1
<1> QED
  BY <1>6, <1>7, <1>8, <1>9, <1>10, <1>11, <1>12, <1>13 DEF Next, Goal

LEMMA InitLoss == Init => LossInv
<1> SUFFICES ASSUME Init PROVE LossInv
  OBVIOUS
<1>1. TypeInv /\ TodoInv /\ FeedInv
  BY InitFlow DEF FlowInv
<1>2. RunInv
  BY DEF Init, RunInv
<1>3. ASSUME NEW a \in Nodes, NEW b \in Nodes
      PROVE  Cardinality(Delivered(a, b)) + Len(InFlight(a, b)) = Cardinality(Passed(a, b))
  <2>1. Delivered(a, b) = {} /\ Passed(a, b) = {}
    BY <1>1, FiniteCounts DEF Init, Arrived
  <2>2. InFlight(a, b) = <<>>
    BY PipelineAssumption DEF Init, InFlight, NoCall, Threads
  <2> QED
    BY <2>1, <2>2, FS_EmptySet
<1> QED
  BY <1>1, <1>2, <1>3 DEF LossInv, CountInv

(* A lossless node loses nothing on the way to a target that is in its      *)
(* loop, in every graph in which no target was added twice, also while      *)
(* other nodes are being stopped (command_node.h:40, base_node.hpp:140).    *)
THEOREM WaitIsLossless ==
  ASSUME TargetsOnce
  PROVE  Spec => []WaitLosesNothing
<1>1. LossInv /\ [Next]_vars => LossInv'
  BY TypeStep, TodoStep, FeedStep, RunStep, CountStep DEF LossInv
<1>2. LossInv => WaitLosesNothing
  <2> SUFFICES ASSUME LossInv, NEW e \in Edges, pol[e[1]] = "WAIT", InLoop(e[2])
               PROVE  Cardinality(Delivered(e[1], e[2])) + Len(InFlight(e[1], e[2])) = Cardinality(Passed(e[1], e[2]))
    BY DEF WaitLosesNothing
  <2>1. PICK a \in Nodes, b \in Nodes : e = <<a, b>> /\ a = e[1] /\ b = e[2]
    BY DEF Edges
  <2> QED
    BY <2>1 DEF LossInv, CountInv
<1> QED
  BY InitLoss, <1>1, <1>2, PTL DEF Spec

=============================================================================
