----------------------------- MODULE AsyncSource -----------------------------
(***************************************************************************)
(* SerialPortSRC and UDPSource (src/sources/src_serial.hpp, src_udp.hpp):  *)
(* a node whose data come from a second thread, the one that runs the asio *)
(* service.  The asio thread stores what it reads in `blocks` under        *)
(* asio_async_mtx and sends the node an ACQUIRE; the node's loop moves all *)
(* blocks to the next node, under the same mutex, once per message.        *)
(*                                                                         *)
(* The node's inbox is what Inbox.tla promises: an ordered channel that    *)
(* takes Limit + 1 messages and never leaves the node asleep over one.     *)
(* Boost.Asio is modelled from its use: a pending read completes with data *)
(* or an error, with an error once the port is closed; run() returns when  *)
(* the service is stopped or has nothing left to do.                       *)
(***************************************************************************)
EXTENDS Integers, Sequences

CONSTANTS
  Kinds,    (* the classes considered: {"serial", "udp"} or one of them    *)
  Limit,    (* put() finds the inbox full when in.size() > Limit (10)      *)
  MaxReads, (* bound of the model: how many reads bring data               *)
  MaxPokes  (* bound of the model: how many messages come from other nodes *)

ASSUME AsyncSourceAssumption ==
  /\ Kinds \subseteq {"serial", "udp"}
  /\ Limit \in Nat /\ MaxReads \in Nat /\ MaxPokes \in Nat

VARIABLES
  kind,      \* which of the two classes this is
  in,        \* the node's inbox
  v_running, \* set and cleared by run()
  main,      \* where the owner stands in start() ... stop()
  node,      \* where the node's thread stands in main_loop()
  asio,      \* where the asio thread stands
  mtx,       \* who holds asio_async_mtx
  port,      \* the serial port or the socket: "none" is a null pointer
  io,        \* the io_service: is it stopped, has it a work object, a pending read
  event,     \* what the last read brought, for on_receive()
  blocks,    \* the reads stored and not yet sent on, by number
  reads,     \* how many reads have been stored
  pokes,     \* how many messages have come from other nodes
  next,      \* TRUE once set_target() has been called
  sent       \* history: the reads given to next->put()

vars == <<kind, in, v_running, main, node, asio, mtx, port, io, event,
          blocks, reads, pokes, next, sent>>

Full == Len(in) > Limit

Init ==
  /\ kind \in Kinds
  /\ in = <<>> /\ v_running = FALSE
  /\ main = "starting" /\ node = "starting"
  /\ asio = "unborn" /\ mtx = "free" /\ port = "none"
  /\ io = [stopped |-> FALSE, work |-> FALSE, pending |-> FALSE]
  /\ event = "none"
  /\ blocks = <<>> /\ reads = 0 /\ pokes = 0
  /\ next = FALSE /\ sent = <<>>

-----------------------------------------------------------------------------
(* The asio thread: io_service::run(), on_receive(), async_read_some(). *)

(* A mutant of PutAcquire: QUEUE_POLICY::WAIT, against the comment at line 154. *)
PutAcquireWait == v_running => ~Full /\ in' = Append(in, "ACQUIRE")

(* put(ACQUIRE, uid, DROP) on the node itself. *)
PutAcquire == in' = IF v_running /\ ~Full THEN Append(in, "ACQUIRE") ELSE in

(* A pending read completes; the handler on_receive() waits for the mutex. *)
Complete(ev) ==
  /\ asio = "waiting" /\ io.pending /\ ~io.stopped
  /\ io' = [io EXCEPT !.pending = FALSE]
  /\ event' = ev
  /\ asio' = "locking"
  /\ UNCHANGED <<kind, in, v_running, main, node, mtx, port, blocks, reads, pokes, next, sent>>

ReadData == port = "open" /\ reads < MaxReads /\ Complete("data")
ReadError == port = "open" /\ Complete("error")
ReadAborted == port # "open" /\ Complete("error")

LockReceive ==
  /\ asio = "locking" /\ mtx = "free"
  /\ mtx' = "asio"
  /\ asio' = "receiving"
  /\ UNCHANGED <<kind, in, v_running, main, node, port, io, event, blocks, reads, pokes, next, sent>>

(* A mutant of MayStore: the error code is not looked at. *)
MayStoreAnything == kind = "udp" \/ port = "open"

(* `port && port->is_open()`; UDPSource says `socket || ...`, which is always true. *)
MayStore == event = "data" /\ (kind = "udp" \/ port = "open")

Store ==
  /\ asio = "receiving"
  /\ MayStore
  /\ blocks' = Append(blocks, reads + 1)
  /\ reads' = reads + 1
  /\ asio' = "notifying"
  /\ UNCHANGED <<kind, in, v_running, main, node, mtx, port, io, event, pokes, next, sent>>

Notify ==
  /\ asio = "notifying"
  /\ PutAcquire
  /\ asio' = "unlocking"
  /\ UNCHANGED <<kind, v_running, main, node, mtx, port, io, event, blocks, reads, pokes, next, sent>>

UnlockReceive ==
  /\ asio = "unlocking" \/ (asio = "receiving" /\ ~MayStore)
  /\ mtx' = "free"
  /\ asio' = "checking"
  /\ UNCHANGED <<kind, in, v_running, main, node, port, io, event, blocks, reads, pokes, next, sent>>

(* async_read_some(), first half: the test of the port, without the mutex. *)
CheckPort ==
  /\ asio = "checking"
  /\ asio' = IF port = "open" THEN "arming" ELSE "waiting"
  /\ UNCHANGED <<kind, in, v_running, main, node, mtx, port, io, event, blocks, reads, pokes, next, sent>>

(* Second half: the call.  On a closed port the read completes with an      *)
(* error; a port that has been reset meanwhile is a null pointer: whatever  *)
(* the process does then, this thread is taken to do nothing more.          *)
ArmRead ==
  /\ asio = "arming"
  /\ IF port = "none"
     THEN asio' = "crashed" /\ UNCHANGED io
     ELSE asio' = "waiting" /\ io' = [io EXCEPT !.pending = TRUE]
  /\ UNCHANGED <<kind, in, v_running, main, node, mtx, port, event, blocks, reads, pokes, next, sent>>

(* run() returns. *)
EndRun ==
  /\ asio = "waiting"
  /\ io.stopped \/ (~io.work /\ ~io.pending)
  /\ asio' = "ended"
  /\ UNCHANGED <<kind, in, v_running, main, node, mtx, port, io, event, blocks, reads, pokes, next, sent>>

-----------------------------------------------------------------------------
(* The node's thread: run() and the overridden main_loop(). *)

Begin ==
  /\ node = "starting"
  /\ v_running' = TRUE
  /\ node' = "opening"
  /\ UNCHANGED <<kind, in, main, asio, mtx, port, io, event, blocks, reads, pokes, next, sent>>

(* The port or the socket is opened, a work object made, the asio thread started. *)
Open ==
  /\ node = "opening"
  /\ port' = "open"
  /\ io' = [io EXCEPT !.work = TRUE]
  /\ asio' = "waiting"
  /\ node' = "arming"
  /\ UNCHANGED <<kind, in, v_running, main, mtx, event, blocks, reads, pokes, next, sent>>

(* SerialPortSRC leaves main_loop() when it cannot open its port; UDPSource *)
(* reports the error and goes on with a socket that is not open.            *)
OpenFails ==
  /\ node = "opening"
  /\ \/ /\ kind = "serial"
        /\ node' = "exiting"
        /\ port' = "closed"
        /\ UNCHANGED <<io, asio>>
     \/ /\ kind = "udp"
        /\ node' = "pulling"
        /\ port' = "closed"
        /\ io' = [io EXCEPT !.work = TRUE]
        /\ asio' = "waiting"
  /\ UNCHANGED <<kind, in, v_running, main, mtx, event, blocks, reads, pokes, next, sent>>

(* The first async_read_some(), on the node's own thread. *)
FirstRead ==
  /\ node = "arming"
  /\ io' = [io EXCEPT !.pending = TRUE]
  /\ node' = "pulling"
  /\ UNCHANGED <<kind, in, v_running, main, asio, mtx, port, event, blocks, reads, pokes, next, sent>>

(* pull_msg(); a message that is not STOP makes one turn of the loop. *)
Pull ==
  /\ node = "pulling"
  /\ in # <<>>
  /\ in' = Tail(in)
  /\ node' = IF Head(in) = "STOP" THEN "closing" ELSE "locking"
  /\ UNCHANGED <<kind, v_running, main, asio, mtx, port, io, event, blocks, reads, pokes, next, sent>>

Lock ==
  /\ node \in {"locking", "closing"}
  /\ mtx = "free"
  /\ mtx' = "node"
  /\ node' = IF node = "locking" THEN "draining" ELSE "cancelling"
  /\ UNCHANGED <<kind, in, v_running, main, asio, port, io, event, blocks, reads, pokes, next, sent>>

(* A mutant of DrainOne: a block is taken from the wrong end. *)
DrainLast ==
  /\ sent' = IF next THEN Append(sent, blocks[Len(blocks)]) ELSE sent
  /\ blocks' = SubSeq(blocks, 1, Len(blocks) - 1)
  /\ UNCHANGED node

(* next->put(), with the DROP policy that both constructors set, never waits. *)
DrainOne ==
  /\ sent' = IF next THEN Append(sent, Head(blocks)) ELSE sent
  /\ blocks' = Tail(blocks)
  /\ UNCHANGED node

Drain ==
  /\ node = "draining"
  /\ blocks # <<>>
  /\ DrainOne
  /\ UNCHANGED <<kind, in, v_running, main, asio, mtx, port, io, event, reads, pokes, next>>

(* A mutant of Drained: one block per message, "if" in place of "while". *)
DrainedEarly ==
  /\ node = "draining"
  /\ mtx' = "free"
  /\ node' = "pulling"
  /\ UNCHANGED <<kind, in, v_running, main, asio, port, io, event, blocks, reads, pokes, next, sent>>

Drained ==
  /\ node = "draining"
  /\ blocks = <<>>
  /\ mtx' = "free"
  /\ node' = "pulling"
  /\ UNCHANGED <<kind, in, v_running, main, asio, port, io, event, blocks, reads, pokes, next, sent>>

(* cancel() and close(), then, for the serial port, reset(), and the unlock. *)
ClosePort ==
  /\ node = "cancelling"
  /\ port' = "closed"
  /\ node' = "resetting"
  /\ UNCHANGED <<kind, in, v_running, main, asio, mtx, io, event, blocks, reads, pokes, next, sent>>

ResetPort ==
  /\ node = "resetting"
  /\ port' = IF kind = "serial" THEN "none" ELSE port
  /\ mtx' = "free"
  /\ node' = "ending"
  /\ UNCHANGED <<kind, in, v_running, main, asio, io, event, blocks, reads, pokes, next, sent>>

(* A mutant of EndService: the work object is not deleted. *)
EndServiceAtWork ==
  /\ \/ node = "ending" /\ node' = "stopping" /\ UNCHANGED io
     \/ node = "stopping" /\ node' = "reviving" /\ io' = [io EXCEPT !.stopped = TRUE]
     \/ node = "reviving" /\ node' = "joining" /\ io' = [io EXCEPT !.stopped = FALSE]
  /\ UNCHANGED <<kind, in, v_running, main, asio, mtx, port, event, blocks, reads, pokes, next, sent>>

(* delete work, io_service.stop(), io_service.reset(). *)
EndService ==
  /\ \/ node = "ending" /\ node' = "stopping" /\ io' = [io EXCEPT !.work = FALSE]
     \/ node = "stopping" /\ node' = "reviving" /\ io' = [io EXCEPT !.stopped = TRUE]
     \/ node = "reviving" /\ node' = "joining" /\ io' = [io EXCEPT !.stopped = FALSE]
  /\ UNCHANGED <<kind, in, v_running, main, asio, mtx, port, event, blocks, reads, pokes, next, sent>>

JoinAsio ==
  /\ node = "joining"
  /\ asio = "ended"
  /\ node' = "exiting"
  /\ UNCHANGED <<kind, in, v_running, main, asio, mtx, port, io, event, blocks, reads, pokes, next, sent>>

Exit ==
  /\ node = "exiting"
  /\ v_running' = FALSE
  /\ node' = "dead"
  /\ UNCHANGED <<kind, in, main, asio, mtx, port, io, event, blocks, reads, pokes, next, sent>>

-----------------------------------------------------------------------------
(* The owner and the other nodes. *)

Started ==
  /\ main = "starting"
  /\ v_running
  /\ main' = "running"
  /\ UNCHANGED <<kind, in, v_running, node, asio, mtx, port, io, event, blocks, reads, pokes, next, sent>>

SetTarget ==
  /\ main = "running" /\ ~next
  /\ next' = TRUE
  /\ UNCHANGED <<kind, in, v_running, main, node, asio, mtx, port, io, event, blocks, reads, pokes, sent>>

(* Another node or the program puts a message; a put() that waits for room is not enabled. *)
Poke ==
  /\ main = "running" /\ pokes < MaxPokes
  /\ v_running /\ ~Full
  /\ in' = Append(in, "ACQUIRE")
  /\ pokes' = pokes + 1
  /\ UNCHANGED <<kind, v_running, main, node, asio, mtx, port, io, event, blocks, reads, next, sent>>

(* stop() of a node that has ended by itself returns without the join. *)
Stop ==
  /\ main = "running"
  /\ main' = IF v_running THEN "stopping" ELSE "unjoined"
  /\ UNCHANGED <<kind, in, v_running, node, asio, mtx, port, io, event, blocks, reads, pokes, next, sent>>

(* put(STOP, uid, WAIT): the unlocked test of v_running, then the wait for room. *)
OfferStop ==
  /\ main = "stopping"
  /\ main' = IF v_running THEN "putting" ELSE "joining"
  /\ UNCHANGED <<kind, in, v_running, node, asio, mtx, port, io, event, blocks, reads, pokes, next, sent>>

PutStop ==
  /\ main = "putting"
  /\ ~Full
  /\ in' = Append(in, "STOP")
  /\ main' = "joining"
  /\ UNCHANGED <<kind, v_running, node, asio, mtx, port, io, event, blocks, reads, pokes, next, sent>>

Join ==
  /\ main = "joining"
  /\ node = "dead"
  /\ main' = "stopped"
  /\ UNCHANGED <<kind, in, v_running, node, asio, mtx, port, io, event, blocks, reads, pokes, next, sent>>

-----------------------------------------------------------------------------
Receiving ==
  \/ LockReceive \/ Store \/ Notify \/ UnlockReceive \/ CheckPort \/ ArmRead \/ EndRun
  \/ ReadAborted
Looping ==
  \/ Begin \/ Open \/ OpenFails \/ FirstRead \/ Pull \/ Lock \/ Drain \/ Drained
  \/ ClosePort \/ ResetPort \/ EndService \/ JoinAsio \/ Exit
Stopping == Started \/ OfferStop \/ PutStop \/ Join
External == ReadData \/ ReadError \/ SetTarget \/ Poke \/ Stop

Next == Receiving \/ Looping \/ Stopping \/ External

Spec == Init /\ [][Next]_vars

(* The device need not deliver, nor anybody poke or stop; everything else   *)
(* goes on.  A port that fails again and again keeps taking the mutex, so   *)
(* the node's lock() needs a mutex that serves it at last.                  *)
Fairness == WF_vars(Receiving) /\ WF_vars(Looping) /\ SF_vars(Lock) /\ WF_vars(Stopping)

FairSpec == Spec /\ Fairness

-----------------------------------------------------------------------------
(* Correctness. *)

Message == {"ACQUIRE", "STOP"}
ReadNo == 1 .. MaxReads

QueueTypes ==
  /\ in \in Seq(Message)
  /\ blocks \in Seq(ReadNo)
  /\ sent \in Seq(ReadNo)

ControlTypes ==
  /\ kind \in Kinds
  /\ v_running \in BOOLEAN /\ next \in BOOLEAN
  /\ main \in {"starting", "running", "stopping", "putting", "unjoined", "joining", "stopped"}
  /\ node \in {"starting", "opening", "arming", "pulling", "locking", "draining", "closing",
               "cancelling", "resetting", "ending", "stopping", "reviving", "joining",
               "exiting", "dead"}
  /\ asio \in {"unborn", "waiting", "locking", "receiving", "notifying", "unlocking",
               "checking", "arming", "ended", "crashed"}
  /\ mtx \in {"free", "node", "asio"}
  /\ port \in {"none", "open", "closed"}
  /\ io \in [stopped : BOOLEAN, work : BOOLEAN, pending : BOOLEAN]
  /\ event \in {"none", "data", "error"}
  /\ reads \in 0 .. MaxReads /\ pokes \in 0 .. MaxPokes

(* The type invariant. *)
TypeOK == QueueTypes /\ ControlTypes

(* "if one ACQUIRE is occasionally dropped, during the next one all data    *)
(* will be pulled from the p_src->blocks anyway" (src_serial.hpp:158,       *)
(* src_udp.hpp:172): a node that has emptied its inbox and waits leaves no  *)
(* block behind, but the one the asio thread is about to announce.          *)
NothingStranded ==
  node = "pulling" /\ in = <<>> /\ asio # "notifying" => blocks = <<>>

(* The blocks given to the next node are the reads in their order, without  *)
(* a gap and without repetition, up to the blocks that still wait           *)
(* (src_serial.hpp:88-97, 148-150): the two threads never drop or swap one. *)
BlocksContiguous ==
  LET s == sent \o blocks IN
  /\ \A i \in 1 .. Len(s) - 1 : s[i + 1] = s[i] + 1
  /\ s # <<>> => s[Len(s)] = reads

(* A block does not wait for more data: it is sent on unless the node stops. *)
(* (src_serial.hpp:153-161; there is no dead-lock on asio_async_mtx).        *)
BlocksSentOn ==
  \A r \in 1 .. MaxReads :
    (reads = r) ~> ((\A i \in DOMAIN blocks : blocks[i] > r) \/ main \notin {"starting", "running"})

(* stop() returns: the asio thread is joined although stop() and reset() of *)
(* the service follow each other at once (src_serial.hpp:101-112).  This    *)
(* needs a port that could be opened, for otherwise nobody empties an inbox *)
(* that has no room for STOP, and that is not used after its reset.         *)
OpenFailed == node \in {"exiting", "dead"} /\ asio = "unborn"
StopReturns ==
  [](asio # "crashed" /\ ~OpenFailed) => (main = "stopping" ~> main = "stopped")

(* "needed to sync data access from additional asynchronous acquisition     *)
(* thread (asio)" (src_serial.hpp:196): the asio thread never uses the port *)
(* after the node has reset it.                                             *)
PortGuarded == asio # "crashed"

=============================================================================
