------------------------------ MODULE MidiPort ------------------------------
(***************************************************************************)
(* MidiPortSRC, src/sources/src_midi.hpp: a source whose messages come     *)
(* from the callback of RtMidi's thread, which knows nothing of the life   *)
(* of the node: it runs from openPort() in the constructor on, before the  *)
(* node has a uid or a target, and after stop().                           *)
(***************************************************************************)
EXTENDS Integers, Sequences

CONSTANTS MaxPorts,   \* bound: how many MIDI devices there are
          MaxEvents   \* bound: how many events they send

(* What MCDemos assumes of the constants. *)
MidiPortAssumption == MaxPorts \in Nat /\ MaxEvents \in Nat

VARIABLES node,       \* "none", "constructed", "started" or "stopped"
          opened,     \* the callback is set and the port nPort is open
          uid, next,  \* of the source: 0 and FALSE until they are set
          events,     \* how many events the device has sent
          put         \* history: what the target was given: [event, sent_from]

vars == <<node, opened, uid, next, events, put>>

Init == node = "none" /\ opened = FALSE /\ uid = 0 /\ next = FALSE /\ events = 0 /\ put = <<>>

(* The constructor.  The number of the port is compared with the unsigned   *)
(* nPorts - 1; errors are printed and leave a source that is silent.        *)
MidiPortSRC(nPort, nPorts) ==
  /\ node = "none" /\ node' = "constructed"
  /\ opened' = (nPorts > 0 /\ nPort # -1 /\ nPort <= nPorts - 1)
  /\ UNCHANGED <<uid, next, events, put>>

(* NodeFactory::create(): set_uid() and start() *)
create ==
  /\ node = "constructed" /\ node' = "started" /\ uid' = 1
  /\ UNCHANGED <<opened, next, events, put>>

set_target ==
  /\ node \in {"started", "stopped"} /\ ~next /\ next' = TRUE
  /\ UNCHANGED <<node, opened, uid, events, put>>

stop ==
  /\ node = "started" /\ node' = "stopped"
  /\ UNCHANGED <<opened, uid, next, events, put>>

(* Without a target the event is lost. *)
on_midi_event ==
  /\ opened /\ events < MaxEvents
  /\ events' = events + 1
  /\ put' = IF next THEN Append(put, [event |-> events + 1, sent_from |-> uid]) ELSE put
  /\ UNCHANGED <<node, opened, uid, next>>

Next ==
  \/ \E nPorts \in 0 .. MaxPorts : \E nPort \in -1 .. MaxPorts : MidiPortSRC(nPort, nPorts)
  \/ create \/ set_target \/ stop \/ on_midi_event

Spec == Init /\ [][Next]_vars

-----------------------------------------------------------------------------
(* Correctness. *)

TypeOK ==
  /\ node \in {"none", "constructed", "started", "stopped"} /\ opened \in BOOLEAN
  /\ uid \in 0 .. 1 /\ next \in BOOLEAN /\ events \in 0 .. MaxEvents /\ Len(put) <= events

(* From the moment it has a target the source passes on every event, in     *)
(* order and under its own uid, although the callback does not wait for     *)
(* the node to be ready.                                                    *)
EventsInOrder ==
  \A i \in 1 .. Len(put) :
    /\ put[i].event = events - Len(put) + i
    /\ put[i].sent_from = 1

=============================================================================
