--------------------------- MODULE SyncJoinProofs ---------------------------
(***************************************************************************)
(* What TLC checks of SyncJoin for three sources and three uids, proved    *)
(* for every finite set of sources and every set of uids.                  *)
(*                                                                         *)
(* A join looks for its uid from the front of each queue, so the proof     *)
(* starts with the least place a uid has in a queue; all that follows is   *)
(* said in terms of which uids a queue has (Has) and whether they increase. *)
(***************************************************************************)
EXTENDS SyncJoin, WellFoundedInduction, FiniteSetTheorems, SequenceTheorems, TLAPS

(* A set of natural numbers has a least element. *)
LEMMA LeastNat ==
  ASSUME NEW T \in SUBSET Nat, T # {}
  PROVE  \E n \in T : \A m \in T : n <= m
<1> DEFINE I == {1 .. n : n \in T}
           R == StrictSubsetOrdering(Nat)
<1>1. IsWellFoundedOn(R, FiniteSubsetsOf(Nat))
  BY FS_StrictSubsetOrderingWellFounded
<1>2. I \subseteq FiniteSubsetsOf(Nat) /\ I # {}
  <2>1. \A n \in T : 1 .. n \in SUBSET Nat /\ IsFiniteSet(1 .. n)
    BY FS_Interval
  <2>2. QED
    BY <2>1 DEF FiniteSubsetsOf
<1>3. \E x \in I : \A y \in I : ~ (<<y, x>> \in R)
  <2> HIDE DEF I, R
  <2> QED BY <1>1, <1>2, WFMin
<1>4. PICK n \in T : \A m \in T : <<1 .. m, 1 .. n>> \notin R
  BY <1>3
<1>5. ASSUME NEW m \in T, m < n PROVE FALSE
  <2>1. 1 .. m \subseteq 1 .. n /\ n \in 1 .. n /\ n \notin 1 .. m
    BY <1>5
  <2>2. 1 .. m \in SUBSET Nat /\ 1 .. n \in SUBSET Nat
    OBVIOUS
  <2>3. <<1 .. m, 1 .. n>> \in R
    BY <2>1, <2>2, Zenon DEF StrictSubsetOrdering
  <2>4. QED
    BY <2>3, <1>4
<1>6. QED
  BY <1>5

(* The search for a uid in a queue that holds it ends at its first place. *)
LEMMA FirstFound ==
  ASSUME NEW q \in Seq(Uids), NEW u, Has(q, u)
  PROVE  /\ FirstAt(q, u) \in DOMAIN q /\ q[FirstAt(q, u)] = u
         /\ \A j \in 1 .. FirstAt(q, u) - 1 : q[j] # u
<1> DEFINE T == {i \in DOMAIN q : q[i] = u}
<1>1. T \in SUBSET Nat /\ T # {}
  BY DEF Has
<1>2. PICK n \in T : \A m \in T : n <= m
  BY <1>1, LeastNat
<1>3. n \in DOMAIN q /\ q[n] = u /\ \A j \in 1 .. n - 1 : q[j] # u
  <2>1. \A j \in 1 .. n - 1 : j \in DOMAIN q /\ ~(n <= j)
    BY <1>1
  <2>2. QED BY <1>2, <2>1
<1>4. QED
  BY <1>3 DEF FirstAt

(* What stays in the queue: exactly the messages behind that place. *)
LEMMA AfterFirst ==
  ASSUME NEW q \in Seq(Uids), NEW u, Has(q, u)
  PROVE  /\ After(q, u) \in Seq(Uids)
         /\ Len(After(q, u)) = Len(q) - FirstAt(q, u)
         /\ \A i \in DOMAIN After(q, u) : /\ i + FirstAt(q, u) \in DOMAIN q
                                          /\ After(q, u)[i] = q[i + FirstAt(q, u)]
<1> DEFINE k == FirstAt(q, u)
<1>1. k \in 1 .. Len(q)
  BY FirstFound
<1> HIDE DEF k
<1>2. k + 1 \in Int /\ Len(q) \in Int /\ \A i \in k + 1 .. Len(q) : q[i] \in Uids
  BY <1>1
<1>3. /\ SubSeq(q, k + 1, Len(q)) \in Seq(Uids)
      /\ Len(SubSeq(q, k + 1, Len(q))) = IF k + 1 <= Len(q) THEN Len(q) - (k + 1) + 1 ELSE 0
      /\ \A i \in 1 .. Len(q) - (k + 1) + 1 : SubSeq(q, k + 1, Len(q))[i] = q[k + 1 + i - 1]
  BY <1>2, SubSeqProperties
<1>4. After(q, u) = SubSeq(q, k + 1, Len(q))
  BY DEF After, k
<1>5. Len(After(q, u)) = Len(q) - k
  BY <1>1, <1>3, <1>4
<1>6. \A i \in DOMAIN After(q, u) : /\ i + k \in DOMAIN q /\ After(q, u)[i] = q[i + k]
  BY <1>1, <1>3, <1>4, <1>5
<1>7. QED
  BY <1>3, <1>4, <1>5, <1>6 DEF k

(* What an appended message changes. *)
LEMMA Appended ==
  ASSUME NEW q \in Seq(Uids), NEW u \in Uids
  PROVE  /\ Append(q, u) \in Seq(Uids)
         /\ \A v : Has(Append(q, u), v) <=> Has(q, v) \/ v = u
         /\ Increasing(Append(q, u)) <=> Increasing(q) /\ \A v \in Uids : Has(q, v) => v < u
<1> DEFINE a == Append(q, u)
<1>1. /\ a \in Seq(Uids) /\ Len(a) = Len(q) + 1
      /\ \A i \in 1 .. Len(q) : a[i] = q[i]
      /\ a[Len(q) + 1] = u
  OBVIOUS
<1>2. DOMAIN a = 1 .. Len(q) + 1 /\ DOMAIN q = 1 .. Len(q) /\ Len(q) \in Nat
  BY <1>1
<1>3. \A i \in DOMAIN q : q[i] \in Uids /\ q[i] \in Nat
  <2>1. \A i \in DOMAIN q : q[i] \in Uids
    OBVIOUS
  <2>2. Uids \subseteq Nat
    BY JoinMessagesAssumption DEF JoinMessagesAssumption
  <2>3. QED
    BY <2>1, <2>2
<1>4. u \in Nat
  BY JoinMessagesAssumption DEF JoinMessagesAssumption
<1> HIDE DEF a
<1>5. \A v : Has(a, v) <=> Has(q, v) \/ v = u
  <2> SUFFICES ASSUME NEW v PROVE Has(a, v) <=> Has(q, v) \/ v = u
    OBVIOUS
  <2>1. ASSUME Has(a, v) PROVE Has(q, v) \/ v = u
    BY <1>1, <1>2, <2>1 DEF Has
  <2>2. ASSUME Has(q, v) \/ v = u PROVE Has(a, v)
    <3>1. Len(q) + 1 \in DOMAIN a /\ \A i \in DOMAIN q : i \in DOMAIN a
      BY <1>2
    <3>2. QED BY <1>1, <1>2, <2>2, <3>1 DEF Has
  <2>3. QED BY <2>1, <2>2
<1>6. ASSUME Increasing(a) PROVE Increasing(q) /\ \A v \in Uids : Has(q, v) => v < u
  <2>1. Increasing(q)
    BY <1>1, <1>2, <1>3, <1>6 DEF Increasing
  <2>2. \A i \in DOMAIN q : q[i] < u
    BY <1>1, <1>2, <1>3, <1>6 DEF Increasing
  <2>3. QED BY <2>1, <2>2 DEF Has
<1>7. ASSUME Increasing(q), \A v \in Uids : Has(q, v) => v < u PROVE Increasing(a)
  <2>1. \A i \in DOMAIN q : q[i] < u
    BY <1>3, <1>7 DEF Has
  <2>2. QED
    BY <1>1, <1>2, <1>3, <1>4, <1>7, <2>1 DEF Increasing
<1>8. QED
  BY <1>1, <1>5, <1>6, <1>7 DEF a

(* Nothing but u and what was before it leaves the queue; in an increasing  *)
(* queue the messages newer than u stay.                                    *)
LEMMA AfterHas ==
  ASSUME NEW q \in Seq(Uids), NEW u, Has(q, u)
  PROVE  /\ \A v : Has(q, v) /\ v # u /\ v \notin Before(q, u) => Has(After(q, u), v)
         /\ \A v : Has(After(q, u), v) => Has(q, v)
         /\ Increasing(q) => /\ Increasing(After(q, u))
                             /\ \A v \in Uids : Has(After(q, u), v) => v > u
                             /\ \A v \in Before(q, u) : v \in Uids /\ v < u
<1> DEFINE k == FirstAt(q, u)
           a == After(q, u)
<1>1. k \in 1 .. Len(q) /\ q[k] = u
  BY FirstFound
<1>2. /\ a \in Seq(Uids) /\ Len(a) = Len(q) - k /\ DOMAIN a = 1 .. Len(q) - k
      /\ \A i \in DOMAIN a : i + k \in DOMAIN q /\ a[i] = q[i + k]
  BY AfterFirst
<1>3. Before(q, u) = {q[i] : i \in 1 .. k - 1}
  BY DEF Before
<1>4. \A i \in DOMAIN q : q[i] \in Uids /\ q[i] \in Nat
  <2>1. \A i \in DOMAIN q : q[i] \in Uids
    OBVIOUS
  <2>2. Uids \subseteq Nat
    BY JoinMessagesAssumption DEF JoinMessagesAssumption
  <2>3. QED
    BY <2>1, <2>2
<1>5. DOMAIN q = 1 .. Len(q) /\ Len(q) \in Nat
  OBVIOUS
<1> HIDE DEF k, a
<1>6. ASSUME NEW v, Has(q, v), v # u, v \notin Before(q, u) PROVE Has(a, v)
  <2>1. PICK i \in DOMAIN q : q[i] = v
    BY <1>6 DEF Has
  <2>2. i > k
    BY <1>1, <1>3, <1>5, <1>6, <2>1
  <2>3. i - k \in DOMAIN a /\ (i - k) + k = i
    BY <1>1, <1>2, <1>5, <2>1, <2>2
  <2>4. QED BY <1>2, <2>1, <2>3 DEF Has
<1>7. ASSUME NEW v, Has(a, v) PROVE Has(q, v)
  BY <1>2, <1>7 DEF Has
<1>8. ASSUME Increasing(q)
      PROVE  /\ Increasing(a)
             /\ \A v \in Uids : Has(a, v) => v > u
             /\ \A v \in Before(q, u) : v \in Uids /\ v < u
  <2>1. Increasing(a)
    <3>1. \A i, j \in DOMAIN a : i < j => i + k < j + k
      BY <1>1, <1>2, <1>5
    <3>2. QED BY <1>2, <1>8, <3>1 DEF Increasing
  <2>2. \A i \in DOMAIN a : k < i + k /\ k \in DOMAIN q
    BY <1>1, <1>2, <1>5
  <2>3. \A v \in Uids : Has(a, v) => v > u
    BY <1>1, <1>2, <1>4, <1>8, <2>2 DEF Has, Increasing
  <2>4. \A i \in 1 .. k - 1 : i \in DOMAIN q /\ i < k
    BY <1>1, <1>5
  <2>5. \A v \in Before(q, u) : v \in Uids /\ v < u
    BY <1>1, <1>3, <1>4, <1>8, <2>2, <2>4, <1>5 DEF Increasing
  <2>6. QED BY <2>1, <2>3, <2>5
<1>9. QED
  BY <1>6, <1>7, <1>8 DEF a

-----------------------------------------------------------------------------
(* The invariant. *)

(* Who is counted is registered and still queued; no uid is complete. *)
NoneComplete == \A u \in Uids : msg_sets[u] # {} => msg_sets[u] # src_list

(* Queues hold what has arrived, from registered sources only. *)
QueuedArrived ==
  \A s \in Srcs :
    /\ \A u \in Uids : Has(queues[s], u) => Has(arrived[s], u)
    /\ \A u \in Uids : Has(arrived[s], u) => s \in src_list

IsJoined(u) == \E i \in DOMAIN joined : joined[i].uid = u

(* With FIFO channels: what has arrived is queued, or not newer than a      *)
(* joined message, and what has arrived everywhere is joined.               *)
Ordered ==
  /\ \A s \in Srcs : Increasing(queues[s])
  /\ \A s \in Srcs, u \in Uids :
       /\ Has(queues[s], u) => s \in msg_sets[u]
       /\ Has(queues[s], u) => \A v \in Uids : IsJoined(v) => v < u
       /\ IsJoined(u) => Has(arrived[s], u)
       /\ Has(arrived[s], u) =>
            Has(queues[s], u) \/ \E v \in Uids : IsJoined(v) /\ u <= v
  /\ \A u \in Uids : (\A s \in Srcs : Has(arrived[s], u)) => IsJoined(u)
  /\ \A i, j \in DOMAIN joined : i < j => joined[i].uid < joined[j].uid

OrderedInv == Fifo /\ AllRegistered => Ordered

IInv == TypeOK /\ SetsBacked /\ NoneComplete /\ QueuedArrived /\ OrderedInv

-----------------------------------------------------------------------------
(* Initially nothing is queued, counted or joined. *)
LEMMA InitBacked ==
  ASSUME Init
  PROVE  TypeOK /\ SetsBacked
<1>1. TypeOK
  <2>1. \A S : <<>> \in Seq(S)
    OBVIOUS
  <2>2. /\ queues \in [Srcs -> Seq(Uids)] /\ arrived \in [Srcs -> Seq(Uids)]
        /\ msg_sets \in [Uids -> SUBSET Srcs]
    BY <2>1 DEF Init
  <2>3. QED
    BY <2>1, <2>2 DEF Init, TypeOK
<1>2. SetsBacked
  BY DEF Init, SetsBacked
<1>3. QED
  BY <1>1, <1>2

LEMMA InitInv ==
  ASSUME Init, Srcs # {}
  PROVE  IInv
<1>1. \A s \in Srcs, u \in Uids : ~Has(queues[s], u) /\ ~Has(arrived[s], u) /\ msg_sets[u] = {}
  BY DEF Init, Has
<1>2. NoneComplete /\ QueuedArrived
  BY <1>1 DEF NoneComplete, QueuedArrived
<1>3. \A u : ~IsJoined(u)
  BY DEF Init, IsJoined
<1>4. (\A s \in Srcs : Increasing(queues[s]))
      /\ \A i, j \in DOMAIN joined : i < j => joined[i].uid < joined[j].uid
  BY DEF Init, Increasing
<1>5. Ordered
  BY <1>1, <1>3, <1>4 DEF Ordered
<1>6. QED
  BY InitBacked, <1>2, <1>5 DEF IInv, OrderedInv

(* The collected message: queued and counted once more. *)
LEMMA Collected ==
  ASSUME TypeOK, SetsBacked, NEW s \in src_list, NEW u \in Uids
  PROVE  /\ QueuesWith(s, u) \in [Srcs -> Seq(Uids)]
         /\ \A t \in Srcs : \A v :
              Has(QueuesWith(s, u)[t], v) <=> Has(queues[t], v) \/ (t = s /\ v = u)
         /\ \A t \in Srcs : t # s => QueuesWith(s, u)[t] = queues[t]
         /\ QueuesWith(s, u)[s] = Append(queues[s], u)
         /\ SetsWith(s, u) \in [Uids -> SUBSET Srcs]
         /\ \A t, v :
              v \in Uids => (t \in SetsWith(s, u)[v] <=> t \in msg_sets[v] \/ (t = s /\ v = u))
         /\ \A v \in Uids : \A t \in SetsWith(s, u)[v] :
              t \in src_list /\ Has(QueuesWith(s, u)[t], v)
<1> USE DEF TypeOK
<1>1. s \in Srcs /\ queues[s] \in Seq(Uids)
  OBVIOUS
<1>2. /\ Append(queues[s], u) \in Seq(Uids)
      /\ \A v : Has(Append(queues[s], u), v) <=> Has(queues[s], v) \/ v = u
  BY <1>1, Appended
<1>3. /\ QueuesWith(s, u) \in [Srcs -> Seq(Uids)]
      /\ \A t \in Srcs : t # s => QueuesWith(s, u)[t] = queues[t]
      /\ QueuesWith(s, u)[s] = Append(queues[s], u)
  BY <1>1, <1>2 DEF QueuesWith
<1>4. \A t \in Srcs : \A v : Has(QueuesWith(s, u)[t], v) <=> Has(queues[t], v) \/ (t = s /\ v = u)
  BY <1>2, <1>3
<1>5. /\ SetsWith(s, u) \in [Uids -> SUBSET Srcs]
      /\ \A t, v : v \in Uids => (t \in SetsWith(s, u)[v] <=> t \in msg_sets[v] \/ (t = s /\ v = u))
  BY <1>1 DEF SetsWith
<1>6. \A v \in Uids : \A t \in SetsWith(s, u)[v] : t \in src_list /\ Has(QueuesWith(s, u)[t], v)
  BY <1>4, <1>5 DEF SetsBacked
<1>7. QED
  BY <1>3, <1>4, <1>5, <1>6

(* A uid is complete only if every source is counted and has it queued. *)
LEMMA CompleteMeansAll ==
  ASSUME TypeOK, SetsBacked, NEW s \in src_list, NEW u \in Uids, Complete(SetsWith(s, u), u)
  PROVE  /\ SetsWith(s, u)[u] = src_list
         /\ \A t \in src_list : Has(QueuesWith(s, u)[t], u)
<1>1. SetsWith(s, u)[u] \in SUBSET src_list
  BY Collected
<1>2. IsFiniteSet(src_list)
  BY FS_Subset, JoinMessagesAssumption DEF JoinMessagesAssumption, TypeOK
<1>3. SetsWith(s, u)[u] = src_list
  BY <1>1, <1>2, FS_Subset DEF Complete
<1>4. QED
  BY <1>3, Collected

(* Types are kept: the search of a join finds the uid in every queue. *)
LEMMA TypeStep ==
  ASSUME TypeOK, SetsBacked, [Next]_vars
  PROVE  TypeOK'
<1> USE DEF TypeOK
<1>1. CASE \E s \in Srcs : Register(s)
  BY <1>1 DEF Register
<1>2. CASE SetTarget
  BY <1>2 DEF SetTarget
<1>3. ASSUME NEW s \in Srcs, NEW u \in Uids, Arrive(s, u)
      PROVE  TypeOK'
  <2> DEFINE qs == QueuesWith(s, u)
             ms == SetsWith(s, u)
  <2>1. s \in src_list /\ UNCHANGED <<src_list, next>>
    BY <1>3 DEF Arrive, Accepts
  <2>2. qs \in [Srcs -> Seq(Uids)] /\ ms \in [Uids -> SUBSET Srcs]
    BY <2>1, Collected
  <2>3. arrived' \in [Srcs -> Seq(Uids)]
    BY <1>3 DEF Arrive
  <2>4. CASE Complete(ms, u) /\ Join(u, qs, ms)
    <3>1. \A t \in src_list : Remaining(qs[t], u) \in Seq(Uids)
      <4>1. \A t \in src_list : qs[t] \in Seq(Uids) /\ Has(qs[t], u)
        BY <2>1, <2>2, <2>4, CompleteMeansAll
      <4> HIDE DEF qs
      <4>2. QED
        BY <4>1, AfterFirst DEF Remaining
    <3> HIDE DEF qs, ms
    <3>2. queues' \in [Srcs -> Seq(Uids)]
      BY <2>2, <2>4, <3>1 DEF Join
    <3>3. msg_sets' \in [Uids -> SUBSET Srcs]
      BY <2>2, <2>4 DEF Join
    <3>4. joined' \in Seq([uid : Uids, over : SUBSET Srcs])
      <4>1. [uid |-> u, over |-> src_list] \in [uid : Uids, over : SUBSET Srcs]
        OBVIOUS
      <4>2. QED BY <2>4, <4>1 DEF Join
    <3>5. out' \in Seq([uid : Uids \cup {Fresh}, of : Uids])
      <4> DEFINE R == [uid : Uids \cup {Fresh}, of : Uids]
      <4>1. out \in Seq(R) /\ \A uid \in {u, Fresh} : [uid |-> uid, of |-> u] \in R
        OBVIOUS
      <4>2. \/ out' = out
            \/ \E uid \in {u, Fresh} : out' = Append(out, [uid |-> uid, of |-> u])
        BY <2>4 DEF Join, Sent
      <4> HIDE DEF R
      <4>3. \E r \in R : out' = out \/ out' = Append(out, r)
        BY <4>1, <4>2
      <4>4. out' \in Seq(R)
        <5>1. \A r \in R : Append(out, r) \in Seq(R)
          BY <4>1, AppendProperties
        <5>2. QED
          BY <4>1, <4>3, <5>1
      <4>5. QED
        BY <4>4 DEF R
    <3>6. QED
      BY <2>1, <2>3, <3>2, <3>3, <3>4, <3>5
  <2>5. CASE ~Complete(ms, u) /\ Keep(qs, ms)
    BY <2>1, <2>2, <2>3, <2>5 DEF Keep
  <2>6. QED
    BY <1>3, <2>4, <2>5 DEF Arrive
<1>4. CASE UNCHANGED vars
  BY <1>4 DEF vars
<1>5. QED
  BY <1>1, <1>2, <1>3, <1>4 DEF Next

(* What a join leaves: the queues behind u, and the sets of the uids that   *)
(* have not been discarded.                                                 *)
LEMMA JoinLeaves ==
  ASSUME TypeOK, SetsBacked, NEW s \in src_list, NEW u \in Uids,
         Complete(SetsWith(s, u), u), Join(u, QueuesWith(s, u), SetsWith(s, u))
  PROVE  /\ \A t \in src_list : Has(QueuesWith(s, u)[t], u)
         /\ \A t \in src_list : queues'[t] = After(QueuesWith(s, u)[t], u)
         /\ \A t \in Srcs \ src_list : queues'[t] = QueuesWith(s, u)[t]
         /\ \A v \in Uids :
              /\ v = u \/ (\E t \in src_list : v \in Before(QueuesWith(s, u)[t], u)) => msg_sets'[v] = {}
              /\ v # u /\ (\A t \in src_list : v \notin Before(QueuesWith(s, u)[t], u))
                   => msg_sets'[v] = msg_sets[v]
<1> DEFINE qs == QueuesWith(s, u)
           ms == SetsWith(s, u)
<1>1. /\ queues' = [t \in Srcs |-> IF t \in src_list THEN Remaining(qs[t], u) ELSE qs[t]]
      /\ msg_sets' = [v \in Uids |-> IF v \in Discarded(qs, u) THEN {} ELSE ms[v]]
  BY DEF Join
<1>2. \A t \in src_list : Has(qs[t], u)
  BY CompleteMeansAll
<1>3. \A v \in Uids : v # u => ms[v] = msg_sets[v]
  BY DEF SetsWith, TypeOK
<1>4. src_list \subseteq Srcs
  BY DEF TypeOK
<1> HIDE DEF qs, ms
<1>5. \A v : v \in Discarded(qs, u) <=> v = u \/ \E t \in src_list : v \in Before(qs[t], u)
  BY DEF Discarded
<1>6. /\ \A t \in src_list : queues'[t] = After(qs[t], u)
      /\ \A t \in Srcs \ src_list : queues'[t] = qs[t]
  BY <1>1, <1>4 DEF Remaining
<1>7. \A v \in Uids :
        /\ v = u \/ (\E t \in src_list : v \in Before(qs[t], u)) => msg_sets'[v] = {}
        /\ v # u /\ (\A t \in src_list : v \notin Before(qs[t], u)) => msg_sets'[v] = msg_sets[v]
  BY <1>1, <1>3, <1>5
<1>8. QED
  BY <1>2, <1>6, <1>7 DEF qs

(* Who is counted stays queued. *)
LEMMA BackedStep ==
  ASSUME TypeOK, SetsBacked, [Next]_vars
  PROVE  SetsBacked'
<1> USE DEF TypeOK
<1>1. CASE \E s \in Srcs : Register(s)
  BY <1>1 DEF Register, SetsBacked
<1>2. CASE SetTarget
  BY <1>2 DEF SetTarget, SetsBacked
<1>3. ASSUME NEW s \in Srcs, NEW u \in Uids, Arrive(s, u)
      PROVE  SetsBacked'
  <2> DEFINE qs == QueuesWith(s, u)
             ms == SetsWith(s, u)
  <2>1. s \in src_list /\ UNCHANGED src_list
    BY <1>3 DEF Arrive, Accepts
  <2>2. /\ qs \in [Srcs -> Seq(Uids)] /\ ms \in [Uids -> SUBSET Srcs]
        /\ \A v \in Uids : \A t \in ms[v] : t \in src_list /\ Has(qs[t], v)
    BY <2>1, Collected
  <2>3. CASE Complete(ms, u) /\ Join(u, qs, ms)
    <3>1. /\ \A t \in src_list : Has(qs[t], u) /\ queues'[t] = After(qs[t], u)
          /\ \A v \in Uids :
               /\ v = u \/ (\E t \in src_list : v \in Before(qs[t], u)) => msg_sets'[v] = {}
               /\ v # u /\ (\A t \in src_list : v \notin Before(qs[t], u)) => msg_sets'[v] = msg_sets[v]
      BY <2>1, <2>3, JoinLeaves
    <3>2. \A v \in Uids : \A t \in msg_sets[v] : t \in ms[v]
      BY <2>1, Collected
    <3> HIDE DEF qs, ms
    <3>3. SUFFICES ASSUME NEW v \in Uids, NEW t \in msg_sets'[v]
                   PROVE  t \in src_list /\ Has(queues'[t], v)
      BY <2>1 DEF SetsBacked
    <3>4. v # u /\ t \in ms[v] /\ \A r \in src_list : v \notin Before(qs[r], u)
      BY <3>1, <3>2, <3>3
    <3>5. t \in src_list /\ Has(qs[t], v) /\ qs[t] \in Seq(Uids)
      BY <2>2, <3>4
    <3>6. Has(After(qs[t], u), v)
      BY <3>1, <3>4, <3>5, AfterHas
    <3>7. QED
      BY <3>1, <3>5, <3>6
  <2>4. CASE ~Complete(ms, u) /\ Keep(qs, ms)
    BY <2>1, <2>2, <2>4 DEF Keep, SetsBacked
  <2>5. QED
    BY <1>3, <2>3, <2>4 DEF Arrive
<1>4. CASE UNCHANGED vars
  BY <1>4 DEF vars, SetsBacked
<1>5. QED
  BY <1>1, <1>2, <1>3, <1>4 DEF Next

(* A uid that is complete is joined at once. *)
LEMMA NoneCompleteStep ==
  ASSUME TypeOK, SetsBacked, NoneComplete, [Next]_vars
  PROVE  NoneComplete'
<1> USE DEF TypeOK
<1>1. CASE \E s \in Srcs : Register(s)
  BY <1>1 DEF Register, NoneComplete, SetsBacked
<1>2. CASE SetTarget
  BY <1>2 DEF SetTarget, NoneComplete
<1>3. ASSUME NEW s \in Srcs, NEW u \in Uids, Arrive(s, u)
      PROVE  NoneComplete'
  <2> DEFINE qs == QueuesWith(s, u)
             ms == SetsWith(s, u)
  <2>1. s \in src_list /\ UNCHANGED src_list
    BY <1>3 DEF Arrive, Accepts
  <2>2. ms \in [Uids -> SUBSET Srcs] /\ \A v \in Uids : v # u => ms[v] = msg_sets[v]
    BY <2>1 DEF SetsWith
  <2>3. CASE Complete(ms, u) /\ Join(u, qs, ms)
    <3>1. \A v \in Uids : msg_sets'[v] = {} \/ msg_sets'[v] = msg_sets[v]
      BY <2>1, <2>3, JoinLeaves
    <3>2. QED
      BY <2>1, <3>1 DEF NoneComplete
  <2>4. CASE ~Complete(ms, u) /\ Keep(qs, ms)
    <3>1. ms[u] # src_list
      BY <2>4 DEF Complete
    <3>2. QED
      BY <2>1, <2>2, <2>4, <3>1 DEF Keep, NoneComplete
  <2>5. QED
    BY <1>3, <2>3, <2>4 DEF Arrive
<1>4. CASE UNCHANGED vars
  BY <1>4 DEF vars, NoneComplete
<1>5. QED
  BY <1>1, <1>2, <1>3, <1>4 DEF Next

(* What an arrival adds to the history. *)
LEMMA ArrivedAdds ==
  ASSUME TypeOK, NEW s \in Srcs, NEW u \in Uids, Arrive(s, u)
  PROVE  /\ \A t \in Srcs : \A v : Has(arrived'[t], v) <=> Has(arrived[t], v) \/ (t = s /\ v = u)
         /\ Fifo' => Fifo /\ \A v \in Uids : Has(arrived[s], v) => v < u
<1> USE DEF TypeOK
<1>1. /\ arrived'[s] = Append(arrived[s], u)
      /\ \A t \in Srcs : t # s => arrived'[t] = arrived[t]
  BY DEF Arrive
<1>2. arrived[s] \in Seq(Uids)
  OBVIOUS
<1>3. /\ \A v : Has(Append(arrived[s], u), v) <=> Has(arrived[s], v) \/ v = u
      /\ Increasing(Append(arrived[s], u))
           <=> Increasing(arrived[s]) /\ \A v \in Uids : Has(arrived[s], v) => v < u
  BY <1>2, Appended
<1>4. QED
  BY <1>1, <1>3 DEF Fifo

(* Queues hold what has arrived. *)
LEMMA QueuedArrivedStep ==
  ASSUME TypeOK, SetsBacked, QueuedArrived, [Next]_vars
  PROVE  QueuedArrived'
<1> USE DEF TypeOK
<1>1. CASE \E s \in Srcs : Register(s)
  BY <1>1 DEF Register, QueuedArrived
<1>2. CASE SetTarget
  BY <1>2 DEF SetTarget, QueuedArrived
<1>3. ASSUME NEW s \in Srcs, NEW u \in Uids, Arrive(s, u)
      PROVE  QueuedArrived'
  <2> DEFINE qs == QueuesWith(s, u)
             ms == SetsWith(s, u)
  <2>1. s \in src_list /\ UNCHANGED src_list
    BY <1>3 DEF Arrive, Accepts
  <2>2. \A t \in Srcs : \A v : Has(arrived'[t], v) <=> Has(arrived[t], v) \/ (t = s /\ v = u)
    BY <1>3, ArrivedAdds
  <2>3. /\ qs \in [Srcs -> Seq(Uids)] /\ ms \in [Uids -> SUBSET Srcs]
        /\ \A t \in Srcs : \A v : Has(qs[t], v) <=> Has(queues[t], v) \/ (t = s /\ v = u)
    BY <2>1, Collected
  <2>4. \A t \in Srcs : \A v \in Uids : Has(queues'[t], v) => Has(qs[t], v)
    <3>1. CASE Complete(ms, u) /\ Join(u, qs, ms)
      <4>1. /\ \A t \in src_list : Has(qs[t], u) /\ queues'[t] = After(qs[t], u)
            /\ \A t \in Srcs \ src_list : queues'[t] = qs[t]
        BY <2>1, <3>1, JoinLeaves
      <4> HIDE DEF qs, ms
      <4>2. QED
        BY <2>3, <4>1, AfterHas
    <3>2. CASE ~Complete(ms, u) /\ Keep(qs, ms)
      BY <3>2 DEF Keep
    <3>3. QED
      BY <1>3, <3>1, <3>2 DEF Arrive
  <2> HIDE DEF qs, ms
  <2>5. QED
    BY <2>1, <2>2, <2>3, <2>4 DEF QueuedArrived
<1>4. CASE UNCHANGED vars
  BY <1>4 DEF vars, QueuedArrived
<1>5. QED
  BY <1>1, <1>2, <1>3, <1>4 DEF Next

(* With FIFO channels, once the message is collected: all that Ordered says *)
(* holds of the collected queues and sets, except that u may be complete.   *)
LEMMA CollectedOrdered ==
  ASSUME IInv, NEW s \in src_list, NEW u \in Uids, Arrive(s, u), Fifo', AllRegistered
  PROVE  /\ \A v \in Uids : IsJoined(v) => v < u
         /\ \A t \in Srcs :
              /\ Increasing(QueuesWith(s, u)[t])
              /\ \A v \in Uids :
                   /\ Has(QueuesWith(s, u)[t], v) => t \in SetsWith(s, u)[v] /\ Has(arrived'[t], v)
                   /\ Has(QueuesWith(s, u)[t], v) => \A w \in Uids : IsJoined(w) => w < v
                   /\ IsJoined(v) => Has(arrived'[t], v)
                   /\ Has(arrived'[t], v) =>
                        Has(QueuesWith(s, u)[t], v) \/ \E w \in Uids : IsJoined(w) /\ v <= w
         /\ \A v \in Uids :
              (\A t \in Srcs : Has(arrived'[t], v)) =>
                 IsJoined(v) \/ (v = u /\ \A t \in Srcs : t \in SetsWith(s, u)[u])
<1> DEFINE qs == QueuesWith(s, u)
           ms == SetsWith(s, u)
<1>1. s \in Srcs
  BY DEF IInv, TypeOK
<1>2. /\ \A t \in Srcs : \A v : Has(arrived'[t], v) <=> Has(arrived[t], v) \/ (t = s /\ v = u)
      /\ Fifo /\ \A v \in Uids : Has(arrived[s], v) => v < u
  BY <1>1, ArrivedAdds DEF IInv
<1>3. /\ \A t \in Srcs : \A v : Has(qs[t], v) <=> Has(queues[t], v) \/ (t = s /\ v = u)
      /\ \A t \in Srcs : t # s => qs[t] = queues[t]
      /\ qs[s] = Append(queues[s], u)
      /\ \A t, v : v \in Uids => (t \in ms[v] <=> t \in msg_sets[v] \/ (t = s /\ v = u))
  BY Collected DEF IInv
<1>4. Ordered /\ QueuedArrived
  BY <1>2 DEF IInv, OrderedInv
<1>5. \A v \in Uids : IsJoined(v) => v < u
  BY <1>1, <1>2, <1>4 DEF Ordered
<1>6. \A t \in Srcs : Increasing(qs[t])
  <2>1. \A v \in Uids : Has(queues[s], v) => v < u
    BY <1>1, <1>2, <1>4 DEF QueuedArrived
  <2>2. queues[s] \in Seq(Uids) /\ Increasing(queues[s])
    BY <1>1, <1>4 DEF IInv, TypeOK, Ordered
  <2>3. Increasing(qs[s])
    BY <1>3, <2>1, <2>2, Appended
  <2>4. QED
    BY <1>3, <1>4, <2>3 DEF Ordered
<1> HIDE DEF qs, ms
<1>7. \A t \in Srcs, v \in Uids : Has(qs[t], v) => t \in ms[v] /\ Has(arrived'[t], v)
  BY <1>2, <1>3, <1>4 DEF Ordered, QueuedArrived
<1>8. \A t \in Srcs, v \in Uids : Has(qs[t], v) => \A w \in Uids : IsJoined(w) => w < v
  BY <1>3, <1>4, <1>5 DEF Ordered
<1>9. \A t \in Srcs, v \in Uids : IsJoined(v) => Has(arrived'[t], v)
  BY <1>2, <1>4 DEF Ordered
<1>10. \A t \in Srcs, v \in Uids :
         Has(arrived'[t], v) => Has(qs[t], v) \/ \E w \in Uids : IsJoined(w) /\ v <= w
  BY <1>2, <1>3, <1>4 DEF Ordered
<1>11. ASSUME NEW v \in Uids, \A t \in Srcs : Has(arrived'[t], v)
       PROVE  IsJoined(v) \/ (v = u /\ \A t \in Srcs : t \in ms[u])
  <2>1. CASE \A t \in Srcs : Has(arrived[t], v)
    BY <1>4, <2>1 DEF Ordered
  <2>2. CASE \E t \in Srcs : ~Has(arrived[t], v)
    <3>1. v = u
      BY <1>2, <1>11, <2>2
    <3>2. ASSUME NEW t \in Srcs PROVE t \in ms[u]
      <4>1. ~ \E w \in Uids : IsJoined(w) /\ u <= w
        <5>1. Uids \subseteq Nat
          BY JoinMessagesAssumption DEF JoinMessagesAssumption
        <5>2. QED
          BY <1>5, <5>1
      <4>2. Has(qs[t], u)
        BY <1>10, <1>11, <3>1, <4>1
      <4>3. QED
        BY <1>7, <4>2
    <3>3. QED
      BY <3>1, <3>2
  <2>3. QED
    BY <2>1, <2>2
<1>12. QED
  BY <1>5, <1>6, <1>7, <1>8, <1>9, <1>10, <1>11 DEF qs, ms

(* What a join appends to the history. *)
LEMMA JoinedAdds ==
  ASSUME TypeOK, NEW e, joined' = Append(joined, e)
  PROVE  /\ Len(joined) \in Nat
         /\ DOMAIN joined = 1 .. Len(joined) /\ DOMAIN joined' = 1 .. Len(joined) + 1
         /\ \A i \in DOMAIN joined : i \in DOMAIN joined' /\ joined'[i] = joined[i]
         /\ Len(joined) + 1 \in DOMAIN joined' /\ joined'[Len(joined) + 1] = e
<1> DEFINE R == [uid : Uids, over : SUBSET Srcs]
<1>1. joined \in Seq(R)
  BY DEF TypeOK
<1> HIDE DEF R
<1>2. /\ Len(joined) \in Nat /\ DOMAIN joined = 1 .. Len(joined)
      /\ DOMAIN joined' = 1 .. Len(joined) + 1
      /\ \A i \in 1 .. Len(joined) : joined'[i] = joined[i]
      /\ joined'[Len(joined) + 1] = e
  BY <1>1
<1>3. QED
  BY <1>2

LEMMA JoinedUids ==
  ASSUME TypeOK
  PROVE  \A i \in DOMAIN joined : joined[i].uid \in Uids
<1> DEFINE R == [uid : Uids, over : SUBSET Srcs]
<1>1. joined \in Seq(R)
  BY DEF TypeOK
<1>2. \A r \in R : r.uid \in Uids
  OBVIOUS
<1> HIDE DEF R
<1>3. \A i \in DOMAIN joined : joined[i] \in R
  BY <1>1
<1>4. QED
  BY <1>2, <1>3

(* The order survives every step as long as the channels are FIFO and no    *)
(* source is registered late.                                               *)
LEMMA OrderedStep ==
  ASSUME IInv, [Next]_vars, Srcs # {}
  PROVE  OrderedInv'
<1> SUFFICES ASSUME Fifo', AllRegistered' PROVE Ordered'
  BY DEF OrderedInv
<1> USE DEF IInv, TypeOK
<1>1. ASSUME UNCHANGED <<queues, arrived, joined>>, UNCHANGED msg_sets PROVE Ordered'
  <2>1. Fifo /\ AllRegistered
    BY <1>1 DEF Fifo, AllRegistered
  <2>2. Ordered
    BY <2>1 DEF OrderedInv
  <2>3. \A v : IsJoined(v)' <=> IsJoined(v)
    BY <1>1 DEF IsJoined
  <2>4. QED
    BY <1>1, <2>2, <2>3 DEF Ordered
<1>2. ASSUME NEW s \in Srcs, NEW u \in Uids, Arrive(s, u)
      PROVE  Ordered'
  <2> DEFINE qs == QueuesWith(s, u)
             ms == SetsWith(s, u)
  <2>1. s \in src_list /\ UNCHANGED src_list
    BY <1>2 DEF Arrive, Accepts
  <2>2. AllRegistered
    <3>1. joined' = joined \/ joined' = Append(joined, [uid |-> u, over |-> src_list])
      BY <1>2 DEF Arrive, Join, Keep
    <3>2. \A i \in DOMAIN joined : i \in DOMAIN joined' /\ joined'[i] = joined[i]
      BY <3>1, JoinedAdds
    <3>3. QED
      BY <3>2 DEF AllRegistered
  <2>3. /\ \A v \in Uids : IsJoined(v) => v < u
        /\ \A t \in Srcs :
             /\ Increasing(qs[t])
             /\ \A v \in Uids :
                  /\ Has(qs[t], v) => t \in ms[v] /\ Has(arrived'[t], v)
                  /\ Has(qs[t], v) => \A w \in Uids : IsJoined(w) => w < v
                  /\ IsJoined(v) => Has(arrived'[t], v)
                  /\ Has(arrived'[t], v) =>
                       Has(qs[t], v) \/ \E w \in Uids : IsJoined(w) /\ v <= w
        /\ \A v \in Uids :
             (\A t \in Srcs : Has(arrived'[t], v)) =>
                IsJoined(v) \/ (v = u /\ \A t \in Srcs : t \in ms[u])
    BY <1>2, <2>1, <2>2, CollectedOrdered
  <2>4. /\ qs \in [Srcs -> Seq(Uids)]
        /\ \A t, v : v \in Uids => (t \in ms[v] <=> t \in msg_sets[v] \/ (t = s /\ v = u))
        /\ \A v \in Uids : \A t \in ms[v] : t \in src_list
    BY <2>1, Collected
  <2>5. \A i, j \in DOMAIN joined : i < j => joined[i].uid < joined[j].uid
    <3>1. Fifo
      BY <1>2, ArrivedAdds
    <3>2. QED
      BY <2>2, <3>1 DEF OrderedInv, Ordered
  <2>6. Uids \subseteq Nat
    BY JoinMessagesAssumption DEF JoinMessagesAssumption
  <2>7. CASE ~Complete(ms, u) /\ Keep(qs, ms)
    <3>1. queues' = qs /\ msg_sets' = ms /\ joined' = joined
      BY <2>7 DEF Keep
    <3>2. ms[u] # src_list
      BY <2>7 DEF Complete
    <3> HIDE DEF qs, ms
    <3>3. \E t \in Srcs : t \notin ms[u]
      BY <2>4, <3>2
    <3>4. \A v : IsJoined(v)' <=> IsJoined(v)
      BY <3>1 DEF IsJoined
    <3>5. \A v \in Uids : (\A t \in Srcs : Has(arrived'[t], v)) => IsJoined(v)
      BY <2>3, <3>3
    <3>6. QED
      BY <2>3, <2>5, <3>1, <3>4, <3>5 DEF Ordered
  <2>8. CASE Complete(ms, u) /\ Join(u, qs, ms)
    <3>1. /\ \A t \in src_list : Has(qs[t], u) /\ queues'[t] = After(qs[t], u)
          /\ \A v \in Uids :
               v # u /\ (\A t \in src_list : v \notin Before(qs[t], u)) => msg_sets'[v] = msg_sets[v]
      BY <2>1, <2>8, JoinLeaves
    <3>2. joined' = Append(joined, [uid |-> u, over |-> src_list])
      BY <2>8 DEF Join
    <3> HIDE DEF qs, ms
    <3>3. /\ Len(joined) \in Nat
          /\ DOMAIN joined = 1 .. Len(joined) /\ DOMAIN joined' = 1 .. Len(joined) + 1
          /\ \A i \in DOMAIN joined : i \in DOMAIN joined' /\ joined'[i] = joined[i]
          /\ Len(joined) + 1 \in DOMAIN joined'
          /\ joined'[Len(joined) + 1] = [uid |-> u, over |-> src_list]
      BY <3>2, JoinedAdds
    <3>4. src_list = Srcs
      <4>1. joined'[Len(joined) + 1].over = Srcs
        BY <3>3, Zenon DEF AllRegistered
      <4>2. joined'[Len(joined) + 1].over = src_list
        BY <3>3
      <4>3. QED
        BY <2>1, <4>1, <4>2
    <3>5. \A v : IsJoined(v)' <=> IsJoined(v) \/ v = u
      <4>1. Len(joined) + 1 \in DOMAIN joined' /\ joined'[Len(joined) + 1].uid = u
        BY <3>3
      <4>2. \A i \in DOMAIN joined' : i \in DOMAIN joined \/ i = Len(joined) + 1
        BY <3>3
      <4>3. \A i \in DOMAIN joined : i \in DOMAIN joined' /\ joined'[i].uid = joined[i].uid
        BY <3>3
      <4>4. QED
        BY <4>1, <4>2, <4>3 DEF IsJoined
    <3>6. \A t \in Srcs :
            /\ \A v \in Uids : Has(qs[t], v) /\ v # u /\ v \notin Before(qs[t], u) => Has(queues'[t], v)
            /\ \A v \in Uids : Has(queues'[t], v) => Has(qs[t], v) /\ v > u
            /\ Increasing(queues'[t])
            /\ \A v \in Before(qs[t], u) : v \in Uids /\ v < u
      BY <2>3, <2>4, <3>1, <3>4, AfterHas
    <3>7. \A v \in Uids : v > u => msg_sets'[v] = msg_sets[v]
      BY <2>6, <3>1, <3>4, <3>6
    <3>8. \A t \in Srcs, v \in Uids : Has(queues'[t], v) => t \in msg_sets'[v]
      BY <2>3, <2>4, <2>6, <3>6, <3>7
    <3>9. \A t \in Srcs, v \in Uids :
            Has(queues'[t], v) => \A w \in Uids : IsJoined(w)' => w < v
      BY <2>3, <3>5, <3>6, <2>6
    <3>10. \A t \in Srcs, v \in Uids : IsJoined(v)' => Has(arrived'[t], v)
      BY <2>3, <3>1, <3>4, <3>5
    <3>11. \A t \in Srcs, v \in Uids :
             Has(arrived'[t], v) =>
               Has(queues'[t], v) \/ \E w \in Uids : IsJoined(w)' /\ v <= w
      <4> SUFFICES ASSUME NEW t \in Srcs, NEW v \in Uids, Has(arrived'[t], v)
                   PROVE  Has(queues'[t], v) \/ \E w \in Uids : IsJoined(w)' /\ v <= w
        OBVIOUS
      <4>1. CASE v <= u
        BY <3>5, <4>1
      <4>2. CASE ~(v <= u)
        <5>1. v # u /\ v \notin Before(qs[t], u)
          BY <2>6, <3>6, <4>2
        <5>2. Has(qs[t], v) \/ \E w \in Uids : IsJoined(w) /\ v <= w
          BY <2>3
        <5>3. QED
          BY <3>5, <3>6, <5>1, <5>2
      <4>3. QED
        BY <4>1, <4>2
    <3>12. \A v \in Uids : (\A t \in Srcs : Has(arrived'[t], v)) => IsJoined(v)'
      BY <2>3, <3>5
    <3>13. \A i, j \in DOMAIN joined' : i < j => joined'[i].uid < joined'[j].uid
      <4>1. \A i \in DOMAIN joined : joined'[i].uid = joined[i].uid /\ joined[i].uid < u
        BY <2>3, <3>3, JoinedUids DEF IsJoined
      <4>2. joined'[Len(joined) + 1].uid = u
        BY <3>3
      <4>3. \A i, j \in DOMAIN joined' :
              i < j => i \in DOMAIN joined /\ (j \in DOMAIN joined \/ j = Len(joined) + 1)
        BY <3>3
      <4>4. QED
        BY <2>5, <4>1, <4>2, <4>3
    <3>14. QED
      BY <3>6, <3>8, <3>9, <3>10, <3>11, <3>12, <3>13 DEF Ordered
  <2>9. QED
    BY <1>2, <2>7, <2>8 DEF Arrive
<1>3. CASE \E s \in Srcs : Register(s)
  BY <1>1, <1>3 DEF Register
<1>4. CASE SetTarget
  BY <1>1, <1>4 DEF SetTarget
<1>5. CASE UNCHANGED vars
  BY <1>1, <1>5 DEF vars
<1>6. QED
  BY <1>2, <1>3, <1>4, <1>5 DEF Next

-----------------------------------------------------------------------------
(* Every step keeps the invariant. *)
LEMMA IInvStep ==
  ASSUME IInv, [Next]_vars, Srcs # {}
  PROVE  IInv'
<1>1. TypeOK' /\ SetsBacked' /\ NoneComplete' /\ QueuedArrived'
  BY TypeStep, BackedStep, NoneCompleteStep, QueuedArrivedStep DEF IInv
<1>2. OrderedInv'
  BY OrderedStep
<1>3. QED
  BY <1>1, <1>2 DEF IInv

(* What the invariant says of the properties. *)
LEMMA IInvImplies ==
  ASSUME IInv
  PROVE  JoinsExactly /\ NothingStale
<1> USE DEF IInv
<1>1. ASSUME Fifo, AllRegistered PROVE Ordered
  BY <1>1 DEF OrderedInv
<1>2. \A i \in DOMAIN joined : joined[i].uid \in Uids
  BY JoinedUids
<1>3. ASSUME Fifo, AllRegistered, src_list = Srcs
      PROVE  {joined[i].uid : i \in DOMAIN joined} = {u \in Uids : \A s \in Srcs : Has(arrived[s], u)}
  <2>1. \A u \in Uids : IsJoined(u) <=> \A s \in Srcs : Has(arrived[s], u)
    BY <1>1, <1>3 DEF Ordered
  <2>2. QED
    BY <1>2, <2>1 DEF IsJoined
<1>4. JoinsExactly
  BY <1>1, <1>3 DEF JoinsExactly, Ordered
<1>5. NothingStale
  BY <1>1, <1>2 DEF NothingStale, Ordered, SetsBacked, IsJoined
<1>6. QED
  BY <1>4, <1>5

(* The types of the state, for any set of sources and uids. *)
THEOREM JoinTypeCorrect == Spec => []TypeOK
<1>1. (TypeOK /\ SetsBacked) /\ [Next]_vars => (TypeOK /\ SetsBacked)'
  BY TypeStep, BackedStep
<1>2. Init => TypeOK /\ SetsBacked
  BY InitBacked
<1>3. QED
  BY <1>1, <1>2, PTL DEF Spec

(* The search through a queue always ends at a message                      *)
(* (base_sync_join.hpp:106-110), whatever arrives in whatever order.        *)
THEOREM QueuesBackSets == Spec => []SetsBacked
<1>1. (TypeOK /\ SetsBacked) /\ [Next]_vars => (TypeOK /\ SetsBacked)'
  BY TypeStep, BackedStep
<1>2. Init => TypeOK /\ SetsBacked
  BY InitBacked
<1>3. QED
  BY <1>1, <1>2, PTL DEF Spec

(* FIFO channels are joined exactly: what has come from all sources, once   *)
(* and in order, and nothing else (base_sync_join.hpp:94-120).              *)
THEOREM JoinedExactly == Srcs # {} => (Spec => []JoinsExactly)
<1> SUFFICES ASSUME Srcs # {} PROVE Spec => []JoinsExactly
  OBVIOUS
<1>1. IInv /\ [Next]_vars => IInv'
  BY IInvStep
<1>2. Init => IInv
  BY InitInv
<1>3. IInv => JoinsExactly
  BY IInvImplies
<1>4. QED
  BY <1>1, <1>2, <1>3, PTL DEF Spec

(* FIFO channels leave nothing behind that can never be joined              *)
(* (base_sync_join.hpp:104-120).                                            *)
THEOREM NoneIsStale == Srcs # {} => (Spec => []NothingStale)
<1> SUFFICES ASSUME Srcs # {} PROVE Spec => []NothingStale
  OBVIOUS
<1>1. IInv /\ [Next]_vars => IInv'
  BY IInvStep
<1>2. Init => IInv
  BY InitInv
<1>3. IInv => NothingStale
  BY IInvImplies
<1>4. QED
  BY <1>1, <1>2, <1>3, PTL DEF Spec

=============================================================================
