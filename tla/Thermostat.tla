----------------------------- MODULE Thermostat -----------------------------
(***************************************************************************)
(* The simulated thermostat of src/executables/demo/thermostat: a circle   *)
(* of three nodes, each a thread with its inbox,                           *)
(*                                                                         *)
(*   PeltierModelFilter -DROP-> SysMonitorFilter -WAIT-> PIDFilter         *)
(*          ^                                                |             *)
(*          +----------------------WAIT----------------------+             *)
(*                                                                         *)
(* and the calibration file that outlives the program.  The monitor steps  *)
(* the control value through 0 .. Steps (U_min .. U_max), waits at each    *)
(* for the temperature to settle and notes the pair.  What it shows on two *)
(* oscilloscopes (monitor_state()) is put with DROP and left out.          *)
(*                                                                         *)
(* A temperature is the control value at which it is settled, or Moving.   *)
(* The dispersion of loop_buffer is below its threshold when all its       *)
(* temperatures are the same settled one, so that the buffer is kept as    *)
(* the length of the run of equal temperatures at its end.                 *)
(***************************************************************************)
EXTENDS Integers, Sequences

CONSTANTS Steps,      \* (U_max - U_min) / (U_max - U_min)/20.0: 20
          BufSize,    \* loop_buffer_sz: 30
          Room,       \* places of an inbox before put() drops or waits: 11
          MaxKills    \* bound: how often the program is killed

(* What MCDemos assumes of the constants.  With the numbers of the code the *)
(* last conjunct is 30 > 2 * 11 + 3; with a smaller buffer PairsSound fails.*)
ThermostatAssumption ==
  /\ Steps \in Nat \ {0} /\ Room \in Nat /\ MaxKills \in Nat
  /\ BufSize \in Nat /\ BufSize > 2 * Room + 3

VARIABLES monIn,      \* inbox of the monitor: [T, E]
          pidIn,      \* inbox of the PID: control values
          modIn,      \* inbox of the model: control values
          monPut, pidPut,  \* the message its thread is in put(.., WAIT) with, if any
          E, T,       \* E_curr and Tin_prev of the model
          mode,       \* "Calibrate", "Saving" (inside save_calibration()), "Operate", "Aborted"
          val,        \* the control value the monitor asks for
          run,        \* loop_buffer: [T, len]
          measured,   \* the pairs <<T, E>>, sorted by interpolate() in the end
          file,       \* calibrate.dat: the pairs on the disk
          kills

vars == <<monIn, pidIn, modIn, monPut, pidPut, E, T, mode, val, run, measured, file, kills>>

Unset  == -1           \* E_curr is not initialised
Moving == -2           \* a temperature between two settled ones
Target == Steps + 2    \* a control value computed from the target temperature
None   == <<>>

NoRun  == [T |-> Unset, len |-> 0]

(* A mutant of read_calibration: that the file exists is enough. *)
read_calibrationEmpty(pairs) == TRUE

(* Whether the constructor reads a calibration from the file. *)
read_calibration(pairs) == pairs # {}

(* GSL aborts the program for less than two points or for temperatures that *)
(* do not strictly increase when they are sorted; otherwise the mode is m.  *)
interpolate(pairs, m) ==
  IF /\ \E p, q \in pairs : p # q
     /\ \A p, q \in pairs : p[1] = q[1] => p = q
  THEN m ELSE "Aborted"

Init ==
  /\ monIn = <<>> /\ pidIn = <<>> /\ modIn = <<>> /\ monPut = None /\ pidPut = None
  /\ E = Unset /\ T = Unset /\ val = 0 /\ run = NoRun
  /\ mode = "Calibrate" /\ measured = {}
  /\ file = {} /\ kills = 0

-----------------------------------------------------------------------------
(* PeltierModelFilter::main_loop() *)

(* PeltierModel::evaluate(): a temperature that is not settled at E moves,  *)
(* and then settles.                                                        *)
evaluate(temp, e) == IF temp = e THEN e ELSE IF temp = Moving THEN e ELSE Moving

(* A mutant of pull_msg: pull_msg(true), which waits. *)
pull_msgWait == modIn # <<>> /\ E' = Head(modIn) /\ modIn' = Tail(modIn)

(* pull_msg(false): the value is kept when there is no message. *)
pull_msg ==
  IF modIn = <<>> THEN UNCHANGED <<E, modIn>> ELSE E' = Head(modIn) /\ modIn' = Tail(modIn)

(* A mutant of put_state: the inbox takes everything. *)
put_stateFull(msg) == monIn' = Append(monIn, msg)

(* put(.., DROP): the message is lost when the inbox is full. *)
put_state(msg) == monIn' = IF Len(monIn) < Room THEN Append(monIn, msg) ELSE monIn

(* One turn of the loop, with or without a message from the PID. *)
Model ==
  /\ mode # "Aborted"
  /\ pull_msg
  /\ put_state([T |-> T, E |-> E'])
  /\ T' = evaluate(T, E')
  /\ UNCHANGED <<pidIn, monPut, pidPut, mode, val, run, measured, file, kills>>

-----------------------------------------------------------------------------
(* SysMonitorFilter *)

Pushed(temp) ==
  [T |-> temp, len |-> IF temp = Moving THEN 0
                       ELSE IF run.T # temp THEN 1
                       ELSE IF run.len < BufSize THEN run.len + 1 ELSE BufSize]

Stationary(temp) == Pushed(temp).len = BufSize

(* A mutant of Cleared: the buffer is not emptied. *)
ClearedNot(temp) == Pushed(temp)

(* loop_buffer.clear() *)
Cleared(temp) == [T |-> temp, len |-> 0]

(* process_usr_msg() in its calibration mode up to its put() or, after the  *)
(* last point, to where save_calibration() has truncated the file.          *)
Calibrate ==
  /\ mode = "Calibrate" /\ monPut = None /\ monIn # <<>>
  /\ monIn' = Tail(monIn)
  /\ LET msg == Head(monIn)
     IN  IF ~Stationary(msg.T)
           THEN /\ run' = Pushed(msg.T)
                /\ monPut' = <<val>>
                /\ UNCHANGED <<measured, val, mode, file>>
           ELSE /\ run' = Cleared(msg.T)
                /\ measured' = measured \cup {<<msg.T, msg.E>>}
                /\ val' = val + 1
                /\ IF val = Steps
                     THEN /\ mode' = interpolate(measured', "Saving")
                          /\ file' = IF mode' = "Saving" THEN {} ELSE file
                          /\ UNCHANGED monPut
                     ELSE monPut' = <<val + 1>> /\ UNCHANGED <<mode, file>>
  /\ UNCHANGED <<pidIn, modIn, pidPut, E, T, kills>>

(* The lines are shorter than the stream's buffer: the disk has all of them *)
(* or none until close().  The value above U_max is sent once.              *)
save_calibration ==
  /\ mode = "Saving"
  /\ file' = measured /\ mode' = "Operate" /\ monPut' = <<val>>
  /\ UNCHANGED <<monIn, pidIn, modIn, pidPut, E, T, val, run, measured, kills>>

Operate ==
  /\ mode = "Operate" /\ monPut = None /\ monIn # <<>>
  /\ monIn' = Tail(monIn) /\ monPut' = <<Target>>
  /\ UNCHANGED <<pidIn, modIn, pidPut, E, T, mode, val, run, measured, file, kills>>

(* PIDController->put(.., WAIT) gets its place. *)
MonitorPuts ==
  /\ monPut # None /\ Len(pidIn) < Room
  /\ pidIn' = pidIn \o monPut /\ monPut' = None
  /\ UNCHANGED <<monIn, modIn, pidPut, E, T, mode, val, run, measured, file, kills>>

Monitor == Calibrate \/ save_calibration \/ Operate \/ MonitorPuts

-----------------------------------------------------------------------------
(* PIDFilter: passes the value on while it calibrates; a correction of the  *)
(* target is a target here.                                                 *)

internal_filter ==
  /\ pidPut = None /\ pidIn # <<>> /\ mode # "Aborted"
  /\ pidPut' = <<Head(pidIn)>> /\ pidIn' = Tail(pidIn)
  /\ UNCHANGED <<monIn, modIn, monPut, E, T, mode, val, run, measured, file, kills>>

PidPuts ==
  /\ pidPut # None /\ Len(modIn) < Room /\ mode # "Aborted"
  /\ modIn' = modIn \o pidPut /\ pidPut' = None
  /\ UNCHANGED <<monIn, pidIn, monPut, E, T, mode, val, run, measured, file, kills>>

Pid == internal_filter \/ PidPuts

-----------------------------------------------------------------------------
(* The program is killed and started again; the file is what it was. *)
Kill ==
  /\ kills < MaxKills
  /\ kills' = kills + 1 /\ UNCHANGED file
  /\ monIn' = <<>> /\ pidIn' = <<>> /\ modIn' = <<>> /\ monPut' = None /\ pidPut' = None
  /\ E' = Unset /\ T' = Unset /\ val' = 0 /\ run' = NoRun
  /\ measured' = file
  /\ mode' = IF read_calibration(file) THEN interpolate(file, "Operate") ELSE "Calibrate"

Next == Model \/ Monitor \/ Pid \/ Kill

(* Each thread goes on while it can. *)
Fairness == WF_vars(Model) /\ WF_vars(Monitor) /\ WF_vars(Pid)

Spec == Init /\ [][Next]_vars /\ Fairness

-----------------------------------------------------------------------------
(* Correctness. *)

Values == {Unset} \cup 0 .. Steps + 2
Temps  == Values \cup {Moving}

TypeOK ==
  /\ monIn \in Seq([T : Temps, E : Values]) /\ pidIn \in Seq(Values) /\ modIn \in Seq(Values)
  /\ Len(monIn) <= Room /\ Len(pidIn) <= Room /\ Len(modIn) <= Room
  /\ E \in Values /\ T \in Temps /\ val \in 0 .. Steps + 1
  /\ mode \in {"Calibrate", "Saving", "Operate", "Aborted"}
  /\ run \in [T : Temps, len : 0 .. BufSize] /\ kills \in 0 .. MaxKills

(* The messages that are under way in the circle. *)
UnderWay == Len(monIn) + Len(modIn) + Len(pidPut) + Len(pidIn) + Len(monPut)

(* A pair of the calibration is a temperature and the control value at      *)
(* which it settled: the messages that were under way when the value was    *)
(* changed are too few to fill the buffer with the old temperature.  They   *)
(* never fill all three inboxes, as the model, where alone messages come to *)
(* be, takes a control value each time it makes a report, if there is one.  *)
PairsSound ==
  /\ UnderWay <= 2 * Room + 2
  /\ \A pair \in measured : pair[1] = pair[2] /\ pair[2] \in 0 .. Steps

(* The thermostat operates with a complete table, also after it was killed  *)
(* while it wrote the file, and GSL never refuses the table.                *)
Table == {<<e, e>> : e \in 0 .. Steps}
TableComplete ==
  /\ mode = "Operate" => measured = Table
  /\ mode # "Aborted"
  /\ file \in {{}, Table}

(* The threads, two of which wait for room in the next inbox of the circle  *)
(* while each needs the message of the one before, do not wait for each     *)
(* other for ever: the calibration comes to its end.                        *)
CalibrationEnds == <>[](mode = "Operate")

=============================================================================
