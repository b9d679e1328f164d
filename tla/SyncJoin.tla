------------------------------ MODULE SyncJoin ------------------------------
(***************************************************************************)
(* BaseSyncJoin (src/core/base_sync_join.hpp): collects the messages of    *)
(* several sources and joins those of the same uid, one of each source.    *)
(*                                                                         *)
(* process_usr_msg() runs in the node's own thread only, so one message is *)
(* one step.  The order in which messages of different sources arrive is   *)
(* arbitrary; so is the order within one source, and a uid may come twice: *)
(* what the class expects of its channels is the predicate Fifo, which the *)
(* properties assume where the code does.  EdgeFifo of Pipeline.tla shows  *)
(* that the edges of a graph of nodes provide it.                          *)
(***************************************************************************)
EXTENDS JoinMessages

Fresh == -1   \* the uid a new message gets at random: that of no message in flight

VARIABLES
  src_list, \* the sources registered so far
  next,     \* TRUE once the target is set
  queues,   \* per source, the uids of its messages not yet joined or discarded
  msg_sets, \* per uid, the sources it has arrived from (none: no entry)
  arrived,  \* history: per source, the uids that have arrived
  joined,   \* history: the uids joined, and the sources they were joined over
  out       \* history: what next->put() was given, uid and the uid it was joined of

vars == <<src_list, next, queues, msg_sets, arrived, joined, out>>

Has(q, u) == \E i \in DOMAIN q : q[i] = u
FirstAt(q, u) == CHOOSE i \in DOMAIN q : q[i] = u /\ \A j \in 1 .. i - 1 : q[j] # u
Before(q, u) == {q[i] : i \in 1 .. FirstAt(q, u) - 1}
After(q, u) == SubSeq(q, FirstAt(q, u) + 1, Len(q))

Init ==
  /\ src_list = {}
  /\ next = FALSE
  /\ queues = [s \in Srcs |-> <<>>]
  /\ msg_sets = [u \in Uids |-> {}]
  /\ arrived = [s \in Srcs |-> <<>>]
  /\ joined = <<>>
  /\ out = <<>>

-----------------------------------------------------------------------------
(* reg_source_uid() and set_target(), called by the program at any time; it *)
(* registers each source once.                                              *)

Register(s) ==
  /\ s \notin src_list
  /\ src_list' = src_list \cup {s}
  /\ UNCHANGED <<next, queues, msg_sets, arrived, joined, out>>

SetTarget ==
  /\ ~next
  /\ next' = TRUE
  /\ UNCHANGED <<src_list, queues, msg_sets, arrived, joined, out>>

-----------------------------------------------------------------------------
(* process_usr_msg().  A message that finds no target, or whose sender is   *)
(* not registered, is forgotten at once and is no step here.                *)

Accepts(s) == next /\ s \in src_list

(* Queues and sets once the message has been collected. *)
QueuesWith(s, u) == [queues EXCEPT ![s] = Append(@, u)]

(* A mutant of SetsWith: the uid goes in where the sender should. *)
SetsWithUid(s, u) == [msg_sets EXCEPT ![u] = @ \cup {u}]
SetsWith(s, u) == [msg_sets EXCEPT ![u] = @ \cup {s}]

(* Mutants of Discarded: the older messages stay in msg_sets; msg_sets is cleared. *)
DiscardedNone(qs, u) == {u}
DiscardedAll(qs, u) == Uids

(* The uids that leave msg_sets when u is joined: u, and all that came before it. *)
Discarded(qs, u) == {u} \cup UNION {Before(qs[s], u) : s \in src_list}

(* A mutant of Remaining: only the joined message leaves its queue. *)
RemainingAll(q, u) == SubSeq(q, 1, FirstAt(q, u) - 1) \o After(q, u)

(* What stays in a queue when u is joined. *)
Remaining(q, u) == After(q, u)

(* The first func_join() may decline; its result gets the uid and the       *)
(* attached data and is then forgotten: what is sent is the result of a     *)
(* second call, which may be null (put() ignores it), may carry a uid set   *)
(* by the function itself, or the fresh one of a new message.               *)
Sent(u) ==
  \/ UNCHANGED out
  \/ \E uid \in {u, Fresh} : out' = Append(out, [uid |-> uid, of |-> u])

Join(u, qs, ms) ==
  /\ queues' = [s \in Srcs |-> IF s \in src_list THEN Remaining(qs[s], u) ELSE qs[s]]
  /\ msg_sets' = [v \in Uids |-> IF v \in Discarded(qs, u) THEN {} ELSE ms[v]]
  /\ joined' = Append(joined, [uid |-> u, over |-> src_list])
  /\ Sent(u)

Keep(qs, ms) ==
  /\ queues' = qs
  /\ msg_sets' = ms
  /\ UNCHANGED <<joined, out>>

(* msg_sets[uid].size() == src_list.size(), where both hold registered sources only. *)
Complete(ms, u) == Cardinality(ms[u]) = Cardinality(src_list)

Arrive(s, u) ==
  LET qs == QueuesWith(s, u)
      ms == SetsWith(s, u)
  IN
  /\ Accepts(s)
  /\ Len(arrived[s]) < MaxArrivals
  /\ arrived' = [arrived EXCEPT ![s] = Append(@, u)]
  /\ \/ Complete(ms, u) /\ Join(u, qs, ms)
     \/ ~Complete(ms, u) /\ Keep(qs, ms)
  /\ UNCHANGED <<src_list, next>>

Next ==
  \/ \E s \in Srcs : Register(s) \/ \E u \in Uids : Arrive(s, u)
  \/ SetTarget

Spec == Init /\ [][Next]_vars

-----------------------------------------------------------------------------
(* Correctness. *)

(* The type invariant. *)
TypeOK ==
  /\ src_list \in SUBSET Srcs
  /\ next \in BOOLEAN
  /\ queues \in [Srcs -> Seq(Uids)]
  /\ msg_sets \in [Uids -> SUBSET Srcs]
  /\ arrived \in [Srcs -> Seq(Uids)]
  /\ joined \in Seq([uid : Uids, over : SUBSET Srcs])
  /\ out \in Seq([uid : Uids \cup {Fresh}, of : Uids])

Increasing(q) == \A i, j \in DOMAIN q : i < j => q[i] < q[j]

(* "All channels of all input pipes are FIFO", and no source was registered *)
(* after others had already been joined without it.                         *)
Fifo == \A s \in Srcs : Increasing(arrived[s])
AllRegistered == \A i \in DOMAIN joined : joined[i].over = Srcs

(* The loop that looks for the joined uid in each queue has no end test     *)
(* (base_sync_join.hpp:107): it never runs off a queue, because a source    *)
(* counted in msg_sets still has the message in its queue.  This needs      *)
(* neither FIFO channels nor unique uids nor registration in time.          *)
SetsBacked ==
  \A u \in Uids : \A s \in msg_sets[u] : s \in src_list /\ Has(queues[s], u)

(* With FIFO channels exactly the messages that have arrived from every     *)
(* source have been joined, once each and in their order                    *)
(* (base_sync_join.hpp:94-117): what is thrown away as old could never have *)
(* been joined any more.                                                    *)
JoinsExactly ==
  Fifo /\ AllRegistered /\ src_list = Srcs =>
    /\ {joined[i].uid : i \in DOMAIN joined} = {u \in Uids : \A s \in Srcs : Has(arrived[s], u)}
    /\ \A i, j \in DOMAIN joined : i < j => joined[i].uid < joined[j].uid

(* With FIFO channels nothing old piles up: a queue holds only messages     *)
(* newer than the last one joined, each of them counted in msg_sets, and    *)
(* msg_sets no others (base_sync_join.hpp:104-120).                         *)
NothingStale ==
  Fifo /\ AllRegistered =>
    \A s \in Srcs, u \in Uids :
      /\ Has(queues[s], u) <=> s \in msg_sets[u]
      /\ Has(queues[s], u) => \A i \in DOMAIN joined : joined[i].uid < u

(* "UID of the messages does not change" and "at least msg UID will be kept *)
(* correct for the newly created out_msg" (base_sync_join.hpp:63, 130): a   *)
(* message made of the messages of one uid leaves the node with that uid.   *)
UidKept == \A i \in DOMAIN out : out[i].uid = out[i].of

=============================================================================
