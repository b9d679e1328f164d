-------------------------- MODULE AsyncSourceProofs --------------------------
(***************************************************************************)
(* Theorems about AsyncSource.tla: for inboxes of every size, any number   *)
(* of reads and of messages from elsewhere, no block is stranded and none  *)
(* is lost, repeated or overtaken on its way from the asio thread to the   *)
(* next node.                                                              *)
(***************************************************************************)
EXTENDS AsyncSource, TLAPS

(* A read that brought data has not been counted yet, and there was room for it. *)
DataInHand == event = "data" /\ asio \in {"locking", "receiving"} => reads < MaxReads

(* Who holds asio_async_mtx. *)
MutexHeld ==
  /\ mtx = "node" <=> node \in {"draining", "cancelling", "resetting"}
  /\ mtx = "asio" <=> asio \in {"receiving", "notifying", "unlocking"}

(* The asio thread lives inside main_loop(), and has nothing to read before *)
(* the first async_read_some().                                             *)
AsioLife ==
  /\ node \in {"starting", "opening"} => asio = "unborn"
  /\ node \notin {"starting", "exiting", "dead"} => v_running = TRUE
  /\ node \in {"exiting", "dead"} => asio \in {"unborn", "ended"}
  /\ node \in {"starting", "opening", "arming"} =>
       blocks = <<>> /\ io.pending = FALSE /\ asio \in {"unborn", "waiting", "ended"}

(* The reads are numbered through, from the first one sent to the last one stored. *)
Numbered ==
  /\ ~next => sent = <<>>
  /\ \A i \in DOMAIN blocks : blocks[i] = reads - Len(blocks) + i
  /\ \A i \in DOMAIN sent : sent[i] = reads - Len(blocks) - Len(sent) + i

SourceInv == TypeOK /\ DataInHand /\ MutexHeld /\ AsioLife /\ NothingStranded

(* Queues stay queues. *)
LEMMA AppendInSeq ==
  ASSUME NEW S, NEW s \in Seq(S), NEW e \in S
  PROVE  Append(s, e) \in Seq(S)
  OBVIOUS

LEMMA TailInSeq ==
  ASSUME NEW S, NEW s \in Seq(S), s # <<>>
  PROVE  Tail(s) \in Seq(S) /\ Head(s) \in S
  OBVIOUS

(* The invariant holds at first. *)
LEMMA InitSource == Init => SourceInv /\ Numbered
<1> SUFFICES ASSUME Init PROVE SourceInv /\ Numbered
  OBVIOUS
<1>1. QueueTypes
  BY DEF Init, QueueTypes
<1>2. ControlTypes
  <2>1. v_running \in BOOLEAN /\ next \in BOOLEAN
    BY Zenon DEF Init
  <2>2. io \in [stopped : BOOLEAN, work : BOOLEAN, pending : BOOLEAN]
    BY Zenon DEF Init
  <2>3. QED
    BY <2>1, <2>2, AsyncSourceAssumption DEF Init, ControlTypes
<1>3. DataInHand /\ MutexHeld /\ AsioLife /\ NothingStranded
  BY DEF Init, DataInHand, MutexHeld, AsioLife, NothingStranded
<1>4. Numbered
  BY DEF Init, Numbered
<1>5. QED
  BY <1>1, <1>2, <1>3, <1>4 DEF SourceInv, TypeOK

(* Every step keeps the inbox, the blocks and what was sent sequences of their kinds. *)
LEMMA QueueStep == SourceInv /\ [Next]_vars => QueueTypes'
<1> SUFFICES ASSUME SourceInv, [Next]_vars PROVE QueueTypes'
  OBVIOUS
<1>a. QueueTypes
  BY DEF SourceInv, TypeOK
<1> USE <1>a DEF QueueTypes
<1>1. CASE ReadData
  BY <1>1 DEF ReadData, Complete
<1>2. CASE ReadError
  BY <1>2 DEF ReadError, Complete
<1>3. CASE ReadAborted
  BY <1>3 DEF ReadAborted, Complete
<1>4. CASE LockReceive
  BY <1>4 DEF LockReceive
<1>5. CASE Store
  <2>1. reads + 1 \in ReadNo
    BY <1>5, AsyncSourceAssumption
    DEF Store, MayStore, SourceInv, TypeOK, ControlTypes, DataInHand, ReadNo
  <2>2. QED
    BY <1>5, <2>1, AppendInSeq DEF Store
<1>6. CASE Notify
  <2>1. "ACQUIRE" \in Message
    BY DEF Message
  <2>2. QED
    BY <1>6, <2>1, AppendInSeq DEF Notify, PutAcquire
<1>7. CASE UnlockReceive
  BY <1>7 DEF UnlockReceive, MayStore
<1>8. CASE CheckPort
  BY <1>8 DEF CheckPort
<1>9. CASE ArmRead
  BY <1>9 DEF ArmRead
<1>10. CASE EndRun
  BY <1>10 DEF EndRun
<1>11. CASE Begin
  BY <1>11 DEF Begin
<1>12. CASE Open
  BY <1>12 DEF Open
<1>13. CASE OpenFails
  BY <1>13 DEF OpenFails
<1>14. CASE FirstRead
  BY <1>14 DEF FirstRead
<1>15. CASE Pull
  BY <1>15, TailInSeq DEF Pull
<1>16. CASE Lock
  BY <1>16 DEF Lock
<1>17. CASE Drain
  BY <1>17, TailInSeq, AppendInSeq DEF Drain, DrainOne
<1>18. CASE Drained
  BY <1>18 DEF Drained
<1>19. CASE ClosePort
  BY <1>19 DEF ClosePort
<1>20. CASE ResetPort
  BY <1>20 DEF ResetPort
<1>21. CASE EndService
  BY <1>21 DEF EndService
<1>22. CASE JoinAsio
  BY <1>22 DEF JoinAsio
<1>23. CASE Exit
  BY <1>23 DEF Exit
<1>24. CASE Started
  BY <1>24 DEF Started
<1>25. CASE SetTarget
  BY <1>25 DEF SetTarget
<1>26. CASE Poke
  <2>1. "ACQUIRE" \in Message
    BY DEF Message
  <2>2. QED
    BY <1>26, <2>1, AppendInSeq DEF Poke
<1>27. CASE Stop
  BY <1>27 DEF Stop
<1>28. CASE OfferStop
  BY <1>28 DEF OfferStop
<1>29. CASE PutStop
  <2>1. "STOP" \in Message
    BY DEF Message
  <2>2. QED
    BY <1>29, <2>1, AppendInSeq DEF PutStop
<1>30. CASE Join
  BY <1>30 DEF Join
<1>31. CASE UNCHANGED vars
  BY <1>31 DEF vars
<1>32. QED
  BY <1>1, <1>2, <1>3, <1>4, <1>5, <1>6, <1>7, <1>8, <1>9, <1>10, <1>11, <1>12, <1>13,
     <1>14, <1>15, <1>16, <1>17, <1>18, <1>19, <1>20, <1>21, <1>22, <1>23, <1>24, <1>25,
     <1>26, <1>27, <1>28, <1>29, <1>30, <1>31
     DEF Next, Receiving, Looping, Stopping, External

(* Every step keeps the control state in its range and the mutex, the life  *)
(* of the asio thread and the read in hand in order.                        *)
LEMMA ControlStep ==
  SourceInv /\ [Next]_vars => ControlTypes' /\ DataInHand' /\ MutexHeld' /\ AsioLife'
<1> SUFFICES ASSUME SourceInv, [Next]_vars
             PROVE  ControlTypes' /\ DataInHand' /\ MutexHeld' /\ AsioLife'
  OBVIOUS
<1>a. ControlTypes /\ DataInHand /\ MutexHeld /\ AsioLife
  BY DEF SourceInv, TypeOK
<1> USE <1>a, AsyncSourceAssumption DEF ControlTypes, DataInHand, MutexHeld, AsioLife
<1>1. CASE ReadData
  BY <1>1 DEF ReadData, Complete
<1>2. CASE ReadError
  BY <1>2 DEF ReadError, Complete
<1>3. CASE ReadAborted
  BY <1>3 DEF ReadAborted, Complete
<1>4. CASE LockReceive
  BY <1>4 DEF LockReceive
<1>5. CASE Store
  BY <1>5 DEF Store, MayStore
<1>6. CASE Notify
  BY <1>6 DEF Notify, PutAcquire
<1>7. CASE UnlockReceive
  BY <1>7 DEF UnlockReceive, MayStore
<1>8. CASE CheckPort
  BY <1>8 DEF CheckPort
<1>9. CASE ArmRead
  <2>1. io' \in [stopped : BOOLEAN, work : BOOLEAN, pending : BOOLEAN]
    BY <1>9, Zenon DEF ArmRead
  <2>2. QED
    BY <1>9, <2>1 DEF ArmRead
<1>10. CASE EndRun
  BY <1>10 DEF EndRun
<1>11. CASE Begin
  BY <1>11 DEF Begin
<1>12. CASE Open
  BY <1>12 DEF Open
<1>13. CASE OpenFails
  BY <1>13 DEF OpenFails
<1>14. CASE FirstRead
  BY <1>14 DEF FirstRead
<1>15. CASE Pull
  BY <1>15 DEF Pull
<1>16. CASE Lock
  BY <1>16 DEF Lock
<1>17. CASE Drain
  BY <1>17 DEF Drain, DrainOne
<1>18. CASE Drained
  BY <1>18 DEF Drained
<1>19. CASE ClosePort
  BY <1>19 DEF ClosePort
<1>20. CASE ResetPort
  BY <1>20 DEF ResetPort
<1>21. CASE EndService
  <2>1. io' \in [stopped : BOOLEAN, work : BOOLEAN, pending : BOOLEAN]
    BY <1>21, Zenon DEF EndService
  <2>2. QED
    BY <1>21, <2>1 DEF EndService
<1>22. CASE JoinAsio
  BY <1>22 DEF JoinAsio
<1>23. CASE Exit
  <2>1. v_running' \in BOOLEAN
    BY <1>23, Zenon DEF Exit
  <2>2. QED
    BY <1>23, <2>1 DEF Exit
<1>24. CASE Started
  BY <1>24 DEF Started
<1>25. CASE SetTarget
  BY <1>25 DEF SetTarget
<1>26. CASE Poke
  BY <1>26 DEF Poke
<1>27. CASE Stop
  BY <1>27 DEF Stop
<1>28. CASE OfferStop
  BY <1>28 DEF OfferStop
<1>29. CASE PutStop
  BY <1>29 DEF PutStop
<1>30. CASE Join
  BY <1>30 DEF Join
<1>31. CASE UNCHANGED vars
  BY <1>31 DEF vars
<1>32. QED
  BY <1>1, <1>2, <1>3, <1>4, <1>5, <1>6, <1>7, <1>8, <1>9, <1>10, <1>11, <1>12, <1>13,
     <1>14, <1>15, <1>16, <1>17, <1>18, <1>19, <1>20, <1>21, <1>22, <1>23, <1>24, <1>25,
     <1>26, <1>27, <1>28, <1>29, <1>30, <1>31
     DEF Next, Receiving, Looping, Stopping, External

(* No step strands a block: the node goes to wait with an empty inbox only  *)
(* after it has drained the blocks, and a block comes with an ACQUIRE or    *)
(* finds one in a full inbox.                                               *)
LEMMA StrandStep == SourceInv /\ [Next]_vars => NothingStranded'
<1> SUFFICES ASSUME SourceInv, [Next]_vars PROVE NothingStranded'
  OBVIOUS
<1>a. QueueTypes /\ ControlTypes /\ MutexHeld /\ AsioLife /\ NothingStranded
  BY DEF SourceInv, TypeOK
<1> USE <1>a DEF NothingStranded
<1>1. CASE Store \/ Notify
  <2>1. v_running = TRUE /\ (Notify => in' # <<>>)
    BY <1>1, AsyncSourceAssumption
    DEF Store, Notify, PutAcquire, Full, AsioLife, QueueTypes, ControlTypes
  <2>2. QED
    BY <1>1, <2>1 DEF Store, Notify
<1>2. CASE Pull \/ Lock \/ Drain \/ Drained \/ FirstRead \/ OpenFails \/ Begin \/ Open
  BY <1>2 DEF Pull, Lock, Drain, DrainOne, Drained, FirstRead, OpenFails, Begin, Open, AsioLife
<1>3. CASE ClosePort \/ ResetPort \/ EndService \/ JoinAsio \/ Exit
  BY <1>3 DEF ClosePort, ResetPort, EndService, JoinAsio, Exit
<1>4. CASE Poke \/ PutStop
  BY <1>4 DEF Poke, PutStop, QueueTypes
<1>5. CASE ReadData \/ ReadError \/ ReadAborted
  BY <1>5 DEF ReadData, ReadError, ReadAborted, Complete
<1>6. CASE LockReceive \/ UnlockReceive \/ CheckPort \/ ArmRead \/ EndRun
  BY <1>6 DEF LockReceive, UnlockReceive, CheckPort, ArmRead, EndRun
<1>7. CASE Started \/ SetTarget \/ Stop \/ OfferStop \/ Join
  BY <1>7 DEF Started, SetTarget, Stop, OfferStop, Join
<1>8. CASE UNCHANGED vars
  BY <1>8 DEF vars
<1>9. QED
  BY <1>1, <1>2, <1>3, <1>4, <1>5, <1>6, <1>7, <1>8
     DEF Next, Receiving, Looping, Stopping, External

(* Every step keeps the reads numbered through. *)
LEMMA NumberStep == SourceInv /\ Numbered /\ [Next]_vars => Numbered'
<1> SUFFICES ASSUME SourceInv, Numbered, [Next]_vars PROVE Numbered'
  OBVIOUS
<1>a. blocks \in Seq(Int) /\ sent \in Seq(Int) /\ reads \in Int /\ next \in BOOLEAN
  BY AsyncSourceAssumption DEF SourceInv, TypeOK, QueueTypes, ControlTypes, ReadNo
<1> USE <1>a DEF Numbered
<1>1. CASE Store
  BY <1>1 DEF Store
<1>2. CASE Drain
  <2>1. blocks # <<>> /\ blocks' = Tail(blocks) /\ reads' = reads /\ next' = next
    BY <1>2 DEF Drain, DrainOne
  <2>2. Len(blocks') = Len(blocks) - 1 /\ \A i \in DOMAIN blocks' : blocks'[i] = blocks[i + 1]
    BY <2>1
  <2>3. \A i \in DOMAIN blocks' : blocks'[i] = reads' - Len(blocks') + i
    BY <2>1, <2>2
  <2>4. CASE next
    <3>1. sent' = Append(sent, Head(blocks)) /\ Head(blocks) = reads - Len(blocks) + 1
      BY <1>2, <2>1, <2>4 DEF Drain, DrainOne
    <3>2. Len(sent') = Len(sent) + 1 /\ sent'[Len(sent) + 1] = Head(blocks)
          /\ \A i \in 1 .. Len(sent) : sent'[i] = sent[i]
      BY <3>1
    <3>3. \A i \in DOMAIN sent' : sent'[i] = reads' - Len(blocks') - Len(sent') + i
      <4> SUFFICES ASSUME NEW i \in DOMAIN sent'
                   PROVE  sent'[i] = reads - Len(blocks) + 1 - Len(sent) - 1 + i
        BY <2>1, <2>2, <3>2
      <4>0. i \in 1 .. Len(sent) + 1
        BY <3>1, <3>2
      <4>1. CASE i = Len(sent) + 1
        BY <3>1, <3>2, <4>1
      <4>2. CASE i \in 1 .. Len(sent)
        <5>1. sent'[i] = sent[i] /\ sent[i] = reads - Len(blocks) - Len(sent) + i
          BY <3>2, <4>2
        <5>2. QED
          BY <5>1, <4>2
      <4>3. QED
        BY <4>0, <4>1, <4>2
    <3>4. QED
      BY <2>1, <2>3, <2>4, <3>3
  <2>5. CASE ~next
    <3>1. sent = <<>> /\ sent' = sent
      BY <1>2, <2>5 DEF Drain, DrainOne
    <3>2. QED
      BY <2>1, <2>3, <3>1
  <2>6. QED
    BY <2>4, <2>5
<1>3. CASE SetTarget
  BY <1>3 DEF SetTarget
<1>4. CASE UNCHANGED <<blocks, sent, reads, next>>
  BY <1>4
<1>5. QED
  BY <1>1, <1>2, <1>3, <1>4
     DEF Next, Receiving, Looping, Stopping, External, vars,
         ReadData, ReadError, ReadAborted, LockReceive, Notify, UnlockReceive,
         CheckPort, ArmRead, EndRun, Begin, Open, OpenFails, FirstRead, Pull,
         Lock, Drained, ClosePort, ResetPort, EndService, JoinAsio, Exit,
         Started, Poke, Stop, OfferStop, PutStop, Join, Complete

(* Both invariants hold in every reachable state. *)
LEMMA SourceInvariant == Spec => [](SourceInv /\ Numbered)
<1>1. SourceInv /\ [Next]_vars => SourceInv'
  BY QueueStep, ControlStep, StrandStep DEF SourceInv, TypeOK
<1>2. QED
  BY <1>1, InitSource, NumberStep, PTL DEF Spec

(* The variables have their types (src_serial.hpp:51-176, src_udp.hpp:54-189). *)
THEOREM SourceTypeCorrect == Spec => []TypeOK
<1>1. SourceInv => TypeOK
  BY DEF SourceInv
<1>2. QED
  BY <1>1, SourceInvariant, PTL

(* A dropped ACQUIRE never strands data: whenever the node waits with an    *)
(* empty inbox, there is no block left that nobody announces                *)
(* (src_serial.hpp:152-161).                                                *)
THEOREM NoBlockStranded == Spec => []NothingStranded
<1>1. SourceInv => NothingStranded
  BY DEF SourceInv
<1>2. QED
  BY <1>1, SourceInvariant, PTL

(* The asio thread and the node's loop hand the reads to the next node in   *)
(* their order, none missing and none twice (src_serial.hpp:88-97, 150).    *)
THEOREM NoBlockLost == Spec => []BlocksContiguous
<1>1. SourceInv /\ Numbered => BlocksContiguous
  <2> SUFFICES ASSUME SourceInv, Numbered PROVE BlocksContiguous
    OBVIOUS
  <2>1. blocks \in Seq(Int) /\ sent \in Seq(Int) /\ reads \in Int
    BY AsyncSourceAssumption DEF SourceInv, TypeOK, QueueTypes, ControlTypes, ReadNo
  <2> DEFINE s == sent \o blocks
  <2>2. Len(s) = Len(sent) + Len(blocks) /\ s \in Seq(Int)
    BY <2>1
  <2>3. \A i \in 1 .. Len(s) : s[i] = reads - Len(s) + i
    <3> SUFFICES ASSUME NEW i \in 1 .. Len(s) PROVE s[i] = reads - Len(s) + i
      OBVIOUS
    <3>1. CASE i <= Len(sent)
      BY <2>1, <2>2, <3>1 DEF Numbered
    <3>2. CASE i > Len(sent)
      BY <2>1, <2>2, <3>2 DEF Numbered
    <3>3. QED
      BY <2>1, <2>2, <3>1, <3>2
  <2> HIDE DEF s
  <2>4. (\A i \in 1 .. Len(s) - 1 : s[i + 1] = s[i] + 1) /\ (s # <<>> => s[Len(s)] = reads)
    BY <2>1, <2>2, <2>3
  <2>5. QED
    BY <2>4 DEF BlocksContiguous, s
<1>2. QED
  BY <1>1, SourceInvariant, PTL

=============================================================================
