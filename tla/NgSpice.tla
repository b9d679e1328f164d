------------------------------ MODULE NgSpice ------------------------------
(***************************************************************************)
(* NgSpiceSRC, src/executables/demo/ngspice: the callbacks that ngspice's  *)
(* thread makes while it simulates, and the packets they send to the next  *)
(* node.  The mutex is local_state_mtx, which also guards the inbox of the *)
(* source as a node.  A point is <<the simulation, its number in it>>.     *)
(***************************************************************************)
EXTENDS Integers, Sequences

CONSTANTS Slice,      \* slice_data, the points of a packet: 10 in main()
          MaxPoints,  \* bound: the points of a simulation
          MaxRuns     \* bound: how often simulate() is called

(* What MCDemos assumes of the constants. *)
NgSpiceAssumption == Slice \in Nat \ {0} /\ MaxPoints \in Nat /\ MaxRuns \in Nat

VARIABLES thread,     \* ngspice: "idle", "begun", "running" or "quit"
          is_loaded,
          vectors,    \* init_data.vectors: the names of how many simulations it holds
          produced,   \* history: how many points each simulation has made
          out_msg,    \* the points of the packet being filled
          packets,    \* history: what was put to the next node, and when: [run, upto, points]
          locked      \* local_state_mtx is never unlocked again

vars == <<thread, is_loaded, vectors, produced, out_msg, packets, locked>>

Runs == 1 .. MaxRuns

Init ==
  /\ thread = "idle" /\ is_loaded = TRUE
  /\ vectors = 0 /\ produced = [r \in Runs |-> 0] /\ out_msg = <<>> /\ packets = <<>>
  /\ locked = FALSE

run == vectors   \* initdata_cb() is called once per simulation

(* The next node has room or drops the packet; a new one is begun.  upto is *)
(* how many points the simulation has made by then.                         *)
send_out_message(points, upto) ==
  /\ ~locked
  /\ packets' = Append(packets, [run |-> run, upto |-> upto, points |-> points])
  /\ out_msg' = <<>>

(* bg_run: simulation_runs_cb(false) *)
simulate ==
  /\ thread = "idle" /\ vectors < MaxRuns
  /\ thread' = "begun" /\ is_loaded' = TRUE
  /\ UNCHANGED <<vectors, produced, out_msg, packets, locked>>

(* The names are appended to those of the simulations before. *)
initdata_cb ==
  /\ thread = "begun" /\ ~locked
  /\ thread' = "running" /\ vectors' = vectors + 1
  /\ UNCHANGED <<is_loaded, produced, out_msg, packets, locked>>

(* The status holds a word that ends with a percent sign and is no number:  *)
(* stof() throws between lock() and unlock() and the exception is           *)
(* swallowed.  With a number only perc_completed changes.                   *)
getstat_cb ==
  /\ thread = "running" /\ ~locked
  /\ locked' = TRUE
  /\ UNCHANGED <<thread, is_loaded, vectors, produced, out_msg, packets>>

data_cb ==
  LET number == produced[run] + 1
      points == Append(out_msg, <<run, number>>)
  IN  /\ thread = "running" /\ produced[run] < MaxPoints
      /\ produced' = [produced EXCEPT ![run] = number]
      /\ IF Len(points) >= Slice THEN send_out_message(points, number)
                                 ELSE out_msg' = points /\ UNCHANGED packets
      /\ UNCHANGED <<thread, is_loaded, vectors, locked>>

(* simulation_runs_cb(true): the rest is sent, be it empty (is_halted,      *)
(* which would forbid it, is set nowhere).                                  *)
simulation_runs_cb ==
  /\ thread = "running" /\ thread' = "idle"
  /\ send_out_message(out_msg, produced[run])
  /\ UNCHANGED <<is_loaded, vectors, produced, locked>>

(* The destructor: "quit", which makes exit_cb() called. *)
exit_cb ==
  /\ thread = "idle" /\ thread' = "quit" /\ is_loaded' = FALSE
  /\ UNCHANGED <<vectors, produced, out_msg, packets, locked>>

Next == simulate \/ initdata_cb \/ getstat_cb \/ data_cb \/ simulation_runs_cb \/ exit_cb

Spec == Init /\ [][Next]_vars

(* The console device of main(): dev_proc() asks every packet for the       *)
(* vector "time"; at() throws when the packet has no points.                *)
dev_proc(packet) == IF packet.points = <<>> THEN "throws" ELSE "printed"

-----------------------------------------------------------------------------
(* Correctness. *)

TypeOK ==
  /\ thread \in {"idle", "begun", "running", "quit"}
  /\ is_loaded \in BOOLEAN /\ locked \in BOOLEAN
  /\ vectors \in 0 .. MaxRuns /\ Len(out_msg) < Slice
  /\ produced \in [Runs -> 0 .. MaxPoints]

(* The points are those of simulation r that end with number n.             *)
EndWith(points, r, n) ==
  \A j \in 1 .. Len(points) : points[j] = <<r, n - Len(points) + j>>

(* Packet i is the last of its simulation. *)
Last(i) ==
  /\ \A j \in i + 1 .. Len(packets) : packets[j].run > packets[i].run
  /\ packets[i].run = run => thread # "running"

(* The number of the point before the first of packet i. *)
Before(i) == packets[i].upto - Len(packets[i].points)

(* Each point is in one packet, in the order of the simulations; when a     *)
(* simulation is over nothing of it is held back for the next.              *)
PointsInOrder ==
  /\ \A i \in 1 .. Len(packets) :
       /\ EndWith(packets[i].points, packets[i].run, packets[i].upto)
       /\ Last(i) => packets[i].upto = produced[packets[i].run]
       /\ IF i > 1 /\ packets[i - 1].run = packets[i].run
            THEN Before(i) = packets[i - 1].upto
            ELSE Before(i) = 0 /\ packets[i].run = IF i = 1 THEN 1 ELSE packets[i - 1].run + 1
  /\ thread = "running" =>
       /\ EndWith(out_msg, run, produced[run])
       /\ produced[run] - Len(out_msg) =
            IF packets # <<>> /\ packets[Len(packets)].run = run THEN packets[Len(packets)].upto ELSE 0
  /\ thread \in {"idle", "begun", "quit"} => out_msg = <<>>

(* A packet has Slice points, but the last of a simulation has what remains *)
(* of them.  The device of main() is thus stopped by the last packet, when  *)
(* the number of points is a multiple of Slice, and never before.           *)
RemainderLast ==
  \A i \in 1 .. Len(packets) :
    LET rest == produced[packets[i].run] % Slice
    IN  /\ Len(packets[i].points) = IF Last(i) THEN rest ELSE Slice
        /\ dev_proc(packets[i]) = "throws" <=> Last(i) /\ rest = 0

=============================================================================
