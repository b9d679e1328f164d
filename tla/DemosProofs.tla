------------------------------ MODULE DemosProofs ------------------------------
(***************************************************************************)
(* Theorems about the demonstration programs of MCDemos.                   *)
(***************************************************************************)
EXTENDS MCDemos, FiniteSets, FiniteSetTheorems, SequenceTheorems, WellFoundedInduction, TLAPS

-----------------------------------------------------------------------------
(* Sequences. *)

LEMMA Joined ==
  ASSUME NEW S, NEW a \in Seq(S), NEW b \in Seq(S)
  PROVE  /\ a \o b \in Seq(S) /\ Len(a \o b) = Len(a) + Len(b)
         /\ a \o <<>> = a /\ <<>> \o a = a
  OBVIOUS

LEMMA JoinedTwice ==
  ASSUME NEW S, NEW a \in Seq(S), NEW b \in Seq(S), NEW c \in Seq(S)
  PROVE  (a \o b) \o c = a \o (b \o c)
<1> DEFINE l == (a \o b) \o c
           r == a \o (b \o c)
<1>1. l \in Seq(S) /\ r \in Seq(S) /\ Len(l) = Len(r)
  OBVIOUS
<1>2. ASSUME NEW i \in 1 .. Len(l) PROVE l[i] = r[i]
  BY <1>1
<1> QED
  BY <1>1, <1>2, SeqEqual

LEMMA HeadFirst ==
  ASSUME NEW S, NEW a \in Seq(S), NEW b \in Seq(S), a # <<>>
  PROVE  /\ a \o b # <<>> /\ Head(a \o b) = Head(a) /\ Head(a) \in S
         /\ Tail(a) \in Seq(S) /\ Tail(a) \o b = Tail(a \o b)
         /\ <<Head(a)>> \o (Tail(a) \o b) = a \o b
<1>1. a \o b # <<>> /\ Head(a \o b) = Head(a) /\ Tail(a) \in Seq(S) /\ Head(a) \in S
  OBVIOUS
<1>2. Tail(a) \o b = Tail(a \o b)
  <2> DEFINE l == Tail(a) \o b
             r == Tail(a \o b)
  <2>1. l \in Seq(S) /\ r \in Seq(S) /\ Len(l) = Len(r)
    OBVIOUS
  <2>2. ASSUME NEW i \in 1 .. Len(l) PROVE l[i] = r[i]
    BY <2>1
  <2> QED
    BY <2>1, <2>2, SeqEqual
<1>3. <<Head(a)>> \o (Tail(a) \o b) = a \o b
  <2> DEFINE l == <<Head(a)>> \o (Tail(a) \o b)
             r == a \o b
  <2>1. l \in Seq(S) /\ r \in Seq(S) /\ Len(l) = Len(r)
    OBVIOUS
  <2>2. ASSUME NEW i \in 1 .. Len(l) PROVE l[i] = r[i]
    BY <2>1
  <2> QED
    BY <2>1, <2>2, SeqEqual
<1> QED
  BY <1>1, <1>2, <1>3

LEMMA Appended ==
  ASSUME NEW S, NEW s \in Seq(S), NEW m \in S
  PROVE  /\ Append(s, m) \in Seq(S) /\ s \o <<m>> = Append(s, m)
         /\ Len(s) \in Nat /\ Len(Append(s, m)) = Len(s) + 1
         /\ Append(s, m)[Len(s) + 1] = m
         /\ \A i \in 1 .. Len(s) : Append(s, m)[i] = s[i]
  OBVIOUS

LEMMA Taken ==
  ASSUME NEW S, NEW s \in Seq(S), s # <<>>
  PROVE  /\ Tail(s) \in Seq(S) /\ Head(s) \in S /\ Head(s) = s[1]
         /\ Len(s) \in Nat \ {0} /\ Len(Tail(s)) = Len(s) - 1
         /\ \A i \in 1 .. Len(s) - 1 : Tail(s)[i] = s[i + 1]
  OBVIOUS

-----------------------------------------------------------------------------
(* The thermostat. *)

Report == [T : Th!Temps, E : Th!Values]

(* The control values under way, those first that the model gets first. *)
Circle == modIn \o (pidPut \o (pidIn \o monPut))

ThermostatTypes ==
  /\ Th!TypeOK
  /\ monPut \in Seq(Th!Values) /\ Len(monPut) <= 1
  /\ pidPut \in Seq(Th!Values) /\ Len(pidPut) <= 1

(* Sequences with a bound on their length. *)
UpTo(n, S) == {s \in Seq(S) : Len(s) <= n}

(* The model has not got the control value yet: all it reports is settled at*)
(* the one before.  There is a value under way for every report in the loop *)
(* buffer.                                                                  *)
NotArrived ==
  /\ E = val - 1 /\ T = val - 1 /\ run.T = val - 1
  /\ \A i \in 1 .. Len(monIn) : monIn[i].T = val - 1
  /\ \E j \in 0 .. Len(Circle) :
       /\ \A i \in 1 .. Len(Circle) : Circle[i] = IF i <= j THEN val - 1 ELSE val
       /\ run.len <= Len(Circle) - j

(* It has: reports of the old temperature, of which there are too few to    *)
(* fill the loop buffer, are followed by those of a moving one and then by  *)
(* those of the new one.                                                    *)
HasArrived ==
  /\ E = val /\ T \in {Th!Moving, val}
  /\ \A i \in 1 .. Len(Circle) : Circle[i] = val
  /\ \A i \in 1 .. Len(monIn) :
       /\ monIn[i].T \in {val - 1, Th!Moving, val}
       /\ monIn[i].T = val => monIn[i].E = val /\ T = val /\ \A j \in i .. Len(monIn) : monIn[j].T = val
  /\ \E k \in 0 .. Len(monIn) :
       /\ \A i \in k + 1 .. Len(monIn) : monIn[i].T # val - 1
       /\ run.T = val - 1 => run.len + k <= 2 * ThermostatRoom + 3

CalibrationInv ==
  mode = "Calibrate" =>
    /\ val <= Steps /\ measured = {<<e, e>> : e \in 0 .. val - 1}
    /\ NotArrived \/ HasArrived

TableInv ==
  /\ mode # "Aborted" /\ file \in {{}, Th!Table}
  /\ mode # "Calibrate" => measured = Th!Table

(* What is under way does not fill the three inboxes and the two hands.  The*)
(* monitor takes its last report and puts nothing until it has saved.       *)
UnderWayInv ==
  /\ Th!UnderWay <= 2 * ThermostatRoom + 2
  /\ mode = "Saving" => monPut = <<>> /\ Th!UnderWay <= 2 * ThermostatRoom + 1

CalibratedInv == ThermostatTypes /\ UnderWayInv /\ CalibrationInv /\ TableInv

(* The last control value is the last point of the calibration.             *)
ValInv == mode = "Calibrate" => val <= Steps

ThermostatInv == CalibratedInv /\ ValInv

LEMMA CircleTyped ==
  ASSUME ThermostatTypes
  PROVE  Circle \in Seq(Th!Values) /\ Len(Circle) = Len(modIn) + Len(pidPut) + Len(pidIn) + Len(monPut)
<1>1. /\ modIn \in Seq(Th!Values) /\ pidPut \in Seq(Th!Values) /\ pidIn \in Seq(Th!Values) /\ monPut \in Seq(Th!Values)
  BY DEF ThermostatTypes, Th!TypeOK
<1> DEFINE V == Th!Values
<1> HIDE DEF V
<1>2. /\ modIn \in Seq(V) /\ pidPut \in Seq(V) /\ pidIn \in Seq(V) /\ monPut \in Seq(V)
  BY <1>1 DEF V
<1>3. /\ pidIn \o monPut \in Seq(V) /\ Len(pidIn \o monPut) = Len(pidIn) + Len(monPut)
  BY <1>2, Joined
<1>4. /\ pidPut \o (pidIn \o monPut) \in Seq(V)
      /\ Len(pidPut \o (pidIn \o monPut)) = Len(pidPut) + (Len(pidIn) + Len(monPut))
  BY <1>2, <1>3, Joined
<1>5. Circle \in Seq(V) /\ Len(Circle) = Len(modIn) + (Len(pidPut) + (Len(pidIn) + Len(monPut)))
  BY <1>2, <1>4, Joined DEF Circle
<1>6. Len(modIn) \in Nat /\ Len(pidPut) \in Nat /\ Len(pidIn) \in Nat /\ Len(monPut) \in Nat
  BY <1>2, LenProperties
<1> QED
  BY <1>5, <1>6 DEF V

(* Values go round: they are passed on without any change of their order.   *)
LEMMA CircleTurns ==
  ASSUME ThermostatTypes, Th!MonitorPuts \/ Th!Pid
  PROVE  Circle' = Circle
<1> DEFINE V == Th!Values
<1>1. /\ modIn \in Seq(V) /\ pidPut \in Seq(V) /\ pidIn \in Seq(V) /\ monPut \in Seq(V)
  BY DEF ThermostatTypes, Th!TypeOK
<1> HIDE DEF V
<1>2. CASE Th!MonitorPuts
  <2>1. modIn' = modIn /\ pidPut' = pidPut /\ pidIn' = pidIn \o monPut /\ monPut' = <<>>
    BY <1>2 DEF Th!MonitorPuts, Th!None
  <2>2. pidIn \o monPut \in Seq(V)
    BY <1>1, Joined
  <2>3. (pidIn \o monPut) \o <<>> = pidIn \o monPut
    BY <2>2, Joined
  <2> QED
    BY <2>1, <2>3 DEF Circle
<1>3. CASE Th!internal_filter
  <2>1. /\ modIn' = modIn /\ monPut' = monPut /\ pidPut = <<>> /\ pidIn # <<>>
        /\ pidPut' = <<Head(pidIn)>> /\ pidIn' = Tail(pidIn)
    BY <1>3 DEF Th!internal_filter, Th!None
  <2>2. <<Head(pidIn)>> \o (Tail(pidIn) \o monPut) = pidIn \o monPut
    BY <1>1, <2>1, HeadFirst
  <2>3. pidPut \o (pidIn \o monPut) = pidIn \o monPut
    <3>1. pidIn \o monPut \in Seq(V)
      BY <1>1, Joined
    <3> QED
      BY <3>1, <2>1, Joined
  <2> QED
    BY <2>1, <2>2, <2>3 DEF Circle
<1>4. CASE Th!PidPuts
  <2>1. /\ modIn' = modIn \o pidPut /\ pidPut' = <<>> /\ pidIn' = pidIn /\ monPut' = monPut
    BY <1>4 DEF Th!PidPuts, Th!None
  <2>2. pidIn \o monPut \in Seq(V)
    BY <1>1, Joined
  <2>3. (modIn \o pidPut) \o (pidIn \o monPut) = modIn \o (pidPut \o (pidIn \o monPut))
    <3> DEFINE rest == pidIn \o monPut
    <3>1. rest \in Seq(V)
      BY <2>2
    <3> HIDE DEF rest
    <3>2. (modIn \o pidPut) \o rest = modIn \o (pidPut \o rest)
      BY <1>1, <3>1, JoinedTwice
    <3> QED
      BY <3>2 DEF rest
  <2>4. <<>> \o (pidIn \o monPut) = pidIn \o monPut
    BY <2>2, Joined
  <2> QED
    BY <2>1, <2>3, <2>4 DEF Circle
<1> QED
  BY <1>2, <1>3, <1>4 DEF Th!Pid

(* The monitor adds to their end, the model takes from their front. *)
LEMMA CircleExtended ==
  ASSUME ThermostatTypes, NEW v \in Th!Values,
         monPut = <<>>, monPut' = <<v>>, UNCHANGED <<modIn, pidPut, pidIn>>
  PROVE  Circle' = Append(Circle, v)
<1> DEFINE V == Th!Values
<1>1. /\ modIn \in Seq(V) /\ pidPut \in Seq(V) /\ pidIn \in Seq(V) /\ v \in V /\ <<v>> \in Seq(V)
  BY DEF ThermostatTypes, Th!TypeOK
<1> HIDE DEF V
<1>2. pidIn \o <<>> = pidIn
  BY <1>1, Joined
<1>3. pidPut \o pidIn \in Seq(V) /\ modIn \o (pidPut \o pidIn) \in Seq(V)
  BY <1>1, Joined
<1>4. pidPut \o (pidIn \o <<v>>) = (pidPut \o pidIn) \o <<v>>
  BY <1>1, JoinedTwice
<1>5. modIn \o ((pidPut \o pidIn) \o <<v>>) = (modIn \o (pidPut \o pidIn)) \o <<v>>
  BY <1>1, <1>3, JoinedTwice
<1>6. (modIn \o (pidPut \o pidIn)) \o <<v>> = Append(modIn \o (pidPut \o pidIn), v)
  BY <1>1, <1>3, Appended
<1> QED
  BY <1>2, <1>4, <1>5, <1>6 DEF Circle

LEMMA CircleTaken ==
  ASSUME ThermostatTypes, modIn # <<>>, modIn' = Tail(modIn), UNCHANGED <<pidPut, pidIn, monPut>>
  PROVE  Circle # <<>> /\ Head(modIn) = Head(Circle) /\ Circle' = Tail(Circle)
<1> DEFINE V == Th!Values
<1>1. /\ modIn \in Seq(V) /\ pidPut \in Seq(V) /\ pidIn \in Seq(V) /\ monPut \in Seq(V)
  BY DEF ThermostatTypes, Th!TypeOK
<1> HIDE DEF V
<1>2. pidPut \o (pidIn \o monPut) \in Seq(V)
  <2>1. pidIn \o monPut \in Seq(V)
    BY <1>1, Joined
  <2> QED
    BY <1>1, <2>1, Joined
<1>3. /\ modIn \o (pidPut \o (pidIn \o monPut)) # <<>>
      /\ Head(modIn \o (pidPut \o (pidIn \o monPut))) = Head(modIn)
      /\ Tail(modIn) \o (pidPut \o (pidIn \o monPut)) = Tail(modIn \o (pidPut \o (pidIn \o monPut)))
  BY <1>1, <1>2, HeadFirst
<1>4. Circle' = Tail(modIn) \o (pidPut \o (pidIn \o monPut))
  BY DEF Circle
<1> QED
  BY <1>3, <1>4 DEF Circle

LEMMA UpToGrows ==
  ASSUME NEW S, NEW n \in Nat, NEW s \in UpTo(n, S)
  PROVE  /\ \A m \in S : Len(s) < n => Append(s, m) \in UpTo(n, S)
         /\ \A t \in UpTo(1, S) : Len(s) < n => s \o t \in UpTo(n, S)
         /\ s # <<>> => Head(s) \in S /\ Tail(s) \in UpTo(n, S)
<1> USE DEF UpTo
<1>1. s \in Seq(S) /\ Len(s) <= n /\ Len(s) \in Nat
  BY LenProperties
<1>2. ASSUME NEW m \in S, Len(s) < n PROVE Append(s, m) \in UpTo(n, S)
  BY <1>1, <1>2, Appended
<1>3. ASSUME NEW t \in UpTo(1, S), Len(s) < n PROVE s \o t \in UpTo(n, S)
  <2>1. t \in Seq(S) /\ Len(t) <= 1 /\ Len(t) \in Nat
    BY LenProperties
  <2>2. s \o t \in Seq(S) /\ Len(s \o t) = Len(s) + Len(t)
    BY <1>1, <2>1, Joined
  <2> QED
    BY <1>1, <1>3, <2>1, <2>2
<1>4. ASSUME s # <<>> PROVE Head(s) \in S /\ Tail(s) \in UpTo(n, S)
  BY <1>1, <1>4, Taken
<1> QED
  BY <1>2, <1>3, <1>4

LEMMA UpToSmall ==
  ASSUME NEW S, NEW n \in Nat
  PROVE  /\ <<>> \in UpTo(n, S)
         /\ \A m \in S : <<m>> \in UpTo(1, S)
<1>1. <<>> \in Seq(S) /\ Len(<<>>) = 0 /\ \A m \in S : <<m>> \in Seq(S) /\ Len(<<m>>) = 1
  OBVIOUS
<1> QED
  BY <1>1 DEF UpTo

ThermostatModes == {"Calibrate", "Saving", "Operate", "Aborted"}
LoopBuffers     == [T : Th!Temps, len : 0 .. BufSize]

LEMMA ThermostatTypesMean ==
  ThermostatTypes <=>
    /\ monIn \in UpTo(ThermostatRoom, Report)
    /\ pidIn \in UpTo(ThermostatRoom, Th!Values) /\ modIn \in UpTo(ThermostatRoom, Th!Values)
    /\ monPut \in UpTo(1, Th!Values) /\ pidPut \in UpTo(1, Th!Values)
    /\ E \in Th!Values /\ T \in Th!Temps /\ val \in 0 .. Steps + 1
    /\ mode \in ThermostatModes /\ run \in LoopBuffers /\ kills \in 0 .. MaxKills
BY DEF ThermostatTypes, Th!TypeOK, Report, UpTo, ThermostatModes, LoopBuffers

(* The types. *)
LEMMA ThermostatTypesHold ==
  ASSUME Th!ThermostatAssumption, ThermostatTypes, ValInv, Th!Next
  PROVE  ThermostatTypes'
<1> USE DEF Th!ThermostatAssumption
<1> DEFINE V   == Th!Values
           W   == Th!Temps
           In  == UpTo(ThermostatRoom, V)
           Out == UpTo(1, V)
           Rep == UpTo(ThermostatRoom, Report)
           Nums == 0 .. Steps + 1
           Kills == 0 .. MaxKills
<1>0. /\ monIn \in Rep /\ pidIn \in In /\ modIn \in In /\ monPut \in Out /\ pidPut \in Out
      /\ E \in V /\ T \in W /\ val \in Nums
      /\ mode \in ThermostatModes /\ run \in LoopBuffers /\ kills \in Kills
  BY ThermostatTypesMean
<1> DEFINE Goal == ThermostatTypes'
<1>g. ASSUME /\ monIn' \in Rep /\ pidIn' \in In /\ modIn' \in In /\ monPut' \in Out /\ pidPut' \in Out
             /\ E' \in V /\ T' \in W /\ val' \in Nums
             /\ mode' \in ThermostatModes /\ run' \in LoopBuffers /\ kills' \in Kills
      PROVE  Goal
  BY <1>g DEF ThermostatTypes, Th!TypeOK, Report, UpTo, ThermostatModes, LoopBuffers
<1>e. <<>> \in In /\ <<>> \in Out /\ <<>> \in Rep /\ \A v \in V : <<v>> \in Out
  BY UpToSmall
<1>f. /\ \A v \in Out : (Len(pidIn) < ThermostatRoom => pidIn \o v \in In)
                        /\ (Len(modIn) < ThermostatRoom => modIn \o v \in In)
      /\ \A m \in Report : Len(monIn) < ThermostatRoom => Append(monIn, m) \in Rep
      /\ monIn # <<>> => Head(monIn) \in Report /\ Tail(monIn) \in Rep
      /\ pidIn # <<>> => Head(pidIn) \in V /\ Tail(pidIn) \in In
      /\ modIn # <<>> => Head(modIn) \in V /\ Tail(modIn) \in In
  BY <1>0, UpToGrows
<1>u. /\ 0 .. Steps + 2 \subseteq V /\ V \subseteq W
      /\ Th!Unset \in V /\ Th!Moving \in W /\ Th!Target \in V
  BY DEF Th!Values, Th!Temps, Th!Target
<1>r. /\ \A t \in W, e \in V : [T |-> t, E |-> e] \in Report
      /\ \A m \in Report : m.T \in W
  BY DEF Report
<1>l. \A t \in W, n \in 0 .. BufSize : [T |-> t, len |-> n] \in LoopBuffers
  BY DEF LoopBuffers
<1> HIDE DEF Goal, V, W, In, Out, Rep, Nums, Kills
<1>1. ASSUME Th!Model PROVE Goal
  <2>1. E' \in V /\ modIn' \in In
    BY <1>0, <1>1, <1>f DEF Th!Model, Th!pull_msg
  <2>2. T' \in W
    BY <1>0, <1>1, <1>u, <2>1 DEF Th!Model, Th!evaluate
  <2>3. monIn' \in Rep
    BY <1>0, <1>1, <1>f, <1>r, <2>1 DEF Th!Model, Th!put_state
  <2> QED
    BY <1>0, <1>1, <1>g, <2>1, <2>2, <2>3 DEF Th!Model
<1>2. ASSUME Th!Calibrate PROVE Goal
  <2>1. /\ mode = "Calibrate" /\ monIn # <<>> /\ monIn' = Tail(monIn) /\ monPut = <<>>
        /\ UNCHANGED <<pidIn, modIn, pidPut, E, T, kills>>
    BY <1>2 DEF Th!Calibrate, Th!None
  <2> DEFINE t == Head(monIn).T
  <2>2. monIn' \in Rep /\ t \in W
    BY <1>f, <1>r, <2>1
  <2>3. val \in 0 .. Steps /\ val \in V
    BY <1>0, <1>u, <2>1 DEF ValInv, Nums
  <2> HIDE DEF t
  <2>4. CASE ~Th!Stationary(t)
    <3>1. run' = Th!Pushed(t) /\ monPut' = <<val>> /\ UNCHANGED <<measured, val, mode, file>>
      BY <1>2, <2>4 DEF Th!Calibrate, t
    <3>2. run' \in LoopBuffers
      <4>1. run.len \in 0 .. BufSize
        BY <1>0 DEF LoopBuffers
      <4> QED
        BY <1>l, <2>2, <3>1, <4>1 DEF Th!Pushed
    <3> QED
      BY <1>0, <1>e, <1>g, <2>1, <2>2, <2>3, <3>1, <3>2
  <2>5. CASE Th!Stationary(t)
    <3>1. run' = Th!Cleared(t) /\ val' = val + 1
      BY <1>2, <2>5 DEF Th!Calibrate, t
    <3>2. run' \in LoopBuffers
      BY <1>l, <2>2, <3>1 DEF Th!Cleared
    <3>3. val + 1 \in V /\ val' \in Nums
      BY <1>u, <2>3, <3>1 DEF Nums
    <3>4. monPut' \in Out /\ mode' \in ThermostatModes
      <4>1. \/ mode' = Th!interpolate(measured', "Saving") /\ monPut' = monPut
            \/ monPut' = <<val + 1>> /\ mode' = mode
        BY <1>2, <2>5 DEF Th!Calibrate, t
      <4>2. Th!interpolate(measured', "Saving") \in ThermostatModes
        BY DEF Th!interpolate, ThermostatModes
      <4> QED
        BY <1>0, <1>e, <3>3, <4>1, <4>2
    <3> QED
      BY <1>0, <1>g, <2>1, <2>2, <3>2, <3>3, <3>4
  <2> QED
    BY <2>4, <2>5
<1>3. ASSUME Th!save_calibration PROVE Goal
  <2>1. val \in V
    BY <1>0, <1>u DEF Nums
  <2> QED
    BY <1>0, <1>3, <1>e, <1>g, <2>1 DEF Th!save_calibration, ThermostatModes
<1>4. ASSUME Th!Operate PROVE Goal
  BY <1>0, <1>4, <1>e, <1>f, <1>g, <1>u DEF Th!Operate
<1>5. ASSUME Th!MonitorPuts PROVE Goal
  BY <1>0, <1>5, <1>e, <1>f, <1>g DEF Th!MonitorPuts, Th!None
<1>6. ASSUME Th!internal_filter PROVE Goal
  BY <1>0, <1>6, <1>e, <1>f, <1>g DEF Th!internal_filter
<1>7. ASSUME Th!PidPuts PROVE Goal
  BY <1>0, <1>7, <1>e, <1>f, <1>g DEF Th!PidPuts, Th!None
<1>8. ASSUME Th!Kill PROVE Goal
  <2>1. Th!NoRun \in LoopBuffers
    BY <1>l, <1>u DEF Th!NoRun
  <2>2. mode' \in ThermostatModes
    BY <1>8 DEF Th!Kill, Th!interpolate, ThermostatModes
  <2>3. 0 \in Nums /\ kills' \in Kills /\ Th!Unset \in W
    BY <1>0, <1>8, <1>u DEF Th!Kill, Nums, Kills
  <2> QED
    BY <1>0, <1>8, <1>e, <1>g, <1>u, <2>1, <2>2, <2>3 DEF Th!Kill, Th!None
<1> QED
  BY <1>1, <1>2, <1>3, <1>4, <1>5, <1>6, <1>7, <1>8 DEF Goal, Th!Next, Th!Monitor, Th!Pid

(* A report reaches the inbox of the monitor, or is lost. *)
LEMMA Reported ==
  ASSUME ThermostatTypes, Th!Model, E' \in Th!Values
  PROVE  /\ Len(monIn') \in {Len(monIn), Len(monIn) + 1}
         /\ \A i \in 1 .. Len(monIn) : monIn'[i] = monIn[i]
         /\ Len(monIn') # Len(monIn) => monIn'[Len(monIn) + 1].T = T /\ monIn'[Len(monIn) + 1].E = E'
<1> DEFINE m == [T |-> T, E |-> E']
<1>1. monIn' = IF Len(monIn) < ThermostatRoom THEN Append(monIn, m) ELSE monIn
  BY DEF Th!Model, Th!put_state
<1>2. m \in Report /\ m.T = T /\ m.E = E' /\ monIn \in Seq(Report)
  BY DEF Report, ThermostatTypes, Th!TypeOK
<1> HIDE DEF m
<1>3. /\ Append(monIn, m)[Len(monIn) + 1] = m /\ Len(Append(monIn, m)) = Len(monIn) + 1
      /\ \A i \in 1 .. Len(monIn) : Append(monIn, m)[i] = monIn[i]
  BY <1>2, Appended
<1> QED
  BY <1>1, <1>2, <1>3

LEMMA UnderWayCircle ==
  ASSUME ThermostatTypes
  PROVE  Th!UnderWay = Len(monIn) + Len(Circle)
<1>1. /\ Len(modIn) \in Nat /\ Len(pidIn) \in Nat /\ Len(pidPut) \in Nat /\ Len(monPut) \in Nat
      /\ Len(monIn) \in Nat
  BY LenProperties DEF ThermostatTypes, Th!TypeOK
<1> QED
  BY <1>1, CircleTyped DEF Th!UnderWay

(* A report only adds to what is under way when the inbox of the model is   *)
(* empty, and then there is room for all the rest.                          *)
LEMMA UnderWayStep ==
  ASSUME Th!ThermostatAssumption, ThermostatTypes, ThermostatTypes', UnderWayInv, Th!Next
  PROVE  UnderWayInv'
<1> DEFINE u == Th!UnderWay
           v == Th!UnderWay'
           R == ThermostatRoom
<1>1. /\ Len(modIn) \in Nat /\ Len(pidIn) \in Nat /\ Len(pidPut) \in Nat /\ Len(monPut) \in Nat
      /\ Len(monIn) \in Nat /\ Len(monIn) <= R /\ Len(pidIn) <= R /\ Len(modIn) <= R
      /\ Len(pidPut) <= 1 /\ Len(monPut) <= 1 /\ R \in Nat
  BY LenProperties DEF ThermostatTypes, Th!TypeOK, Th!ThermostatAssumption
<1>2. /\ u = Len(monIn) + Len(modIn) + Len(pidPut) + Len(pidIn) + Len(monPut) /\ u \in Nat
      /\ v = Len(monIn') + Len(modIn') + Len(pidPut') + Len(pidIn') + Len(monPut')
  BY <1>1 DEF Th!UnderWay
<1>3. u <= 2 * R + 2 /\ (mode = "Saving" => monPut = <<>> /\ u <= 2 * R + 1)
  BY DEF UnderWayInv
<1>t. /\ \A x \in Th!Values : Len(<<x>>) = 1
      /\ Len(<<>>) = 0
      /\ monIn # <<>> => Len(Tail(monIn)) = Len(monIn) - 1
      /\ pidIn # <<>> => Len(Tail(pidIn)) = Len(pidIn) - 1 /\ Head(pidIn) \in Th!Values
      /\ modIn # <<>> => Len(Tail(modIn)) = Len(modIn) - 1
      /\ Len(pidIn \o monPut) = Len(pidIn) + Len(monPut)
      /\ Len(modIn \o pidPut) = Len(modIn) + Len(pidPut)
      /\ modIn = <<>> => Len(modIn) = 0
  BY Taken, Joined DEF ThermostatTypes, Th!TypeOK
<1> DEFINE Goal == UnderWayInv'
<1>g. ASSUME v <= 2 * R + 2, mode' = "Saving" => monPut' = <<>> /\ v <= 2 * R + 1 PROVE Goal
  BY <1>g DEF UnderWayInv
<1> HIDE DEF u, v, Goal
<1>4. ASSUME Th!Model PROVE Goal
  <2>1. UNCHANGED <<pidIn, monPut, pidPut, mode>>
    BY <1>4 DEF Th!Model
  <2>2. Len(monIn') \in {Len(monIn), Len(monIn) + 1} /\ Len(monIn') \in Nat /\ Len(monIn') <= R
    <3>1. E' \in Th!Values
      BY DEF ThermostatTypes, Th!TypeOK
    <3> QED
      BY <1>1, <1>4, <3>1, Reported DEF ThermostatTypes, Th!TypeOK
  <2>3. CASE modIn = <<>>
    <3>1. modIn' = modIn
      BY <1>4, <2>3 DEF Th!Model, Th!pull_msg
    <3>2. v <= 2 * R + 2 /\ (monPut = <<>> => v <= 2 * R + 1)
      BY <1>1, <1>2, <1>t, <2>1, <2>2, <2>3, <3>1
    <3> QED
      BY <1>3, <1>g, <2>1, <3>2
  <2>4. CASE modIn # <<>>
    <3>1. modIn' = Tail(modIn)
      BY <1>4, <2>4 DEF Th!Model, Th!pull_msg
    <3>2. v <= u
      BY <1>1, <1>2, <1>t, <2>1, <2>2, <2>4, <3>1
    <3>3. v \in Nat
      BY <1>1, <1>2, <1>t, <2>1, <2>2, <2>4, <3>1
    <3> QED
      BY <1>1, <1>2, <1>3, <1>g, <2>1, <3>2, <3>3
  <2> QED
    BY <2>3, <2>4
<1>5. ASSUME Th!Calibrate \/ Th!Operate PROVE Goal
  <2>1. /\ monPut = <<>> /\ monIn # <<>> /\ monIn' = Tail(monIn) /\ UNCHANGED <<pidIn, modIn, pidPut>>
    BY <1>5 DEF Th!Calibrate, Th!Operate, Th!None
  <2>2. Len(monPut) = 0 /\ Len(monIn') = Len(monIn) - 1
    BY <1>t, <2>1
  <2>3. Len(monPut') \in Nat /\ Len(monPut') <= 1
    BY LenProperties DEF ThermostatTypes
  <2>4. v <= u /\ (monPut' = <<>> => v <= u - 1)
    BY <1>1, <1>2, <1>t, <2>1, <2>2, <2>3
  <2>5. mode' = "Saving" => monPut' = <<>>
    BY <1>5, <2>1 DEF Th!Calibrate, Th!Operate
  <2>6. v \in Nat
    BY <1>1, <1>2, <2>1, <2>2, <2>3
  <2> QED
    BY <1>1, <1>2, <1>3, <1>g, <2>4, <2>5, <2>6
<1>6. ASSUME Th!save_calibration PROVE Goal
  <2>1. /\ mode = "Saving" /\ mode' = "Operate" /\ UNCHANGED <<monIn, pidIn, modIn, pidPut>>
    BY <1>6 DEF Th!save_calibration
  <2>2. Len(monPut') \in Nat /\ Len(monPut') <= 1
    BY LenProperties DEF ThermostatTypes
  <2>3. v <= u + 1
    BY <1>1, <1>2, <1>3, <1>t, <2>1, <2>2
  <2>4. v \in Nat
    BY <1>1, <1>2, <2>1, <2>2
  <2> QED
    BY <1>1, <1>2, <1>3, <1>g, <2>1, <2>3, <2>4
<1>7. ASSUME Th!MonitorPuts PROVE Goal
  <2>1. /\ monPut # <<>> /\ pidIn' = pidIn \o monPut /\ monPut' = <<>> /\ UNCHANGED <<monIn, modIn, pidPut, mode>>
    BY <1>7 DEF Th!MonitorPuts, Th!None
  <2>2. v = u
    BY <1>1, <1>2, <1>t, <2>1
  <2> QED
    BY <1>3, <1>g, <2>1, <2>2
<1>8. ASSUME Th!internal_filter PROVE Goal
  <2>1. /\ pidPut = <<>> /\ pidIn # <<>> /\ pidPut' = <<Head(pidIn)>> /\ pidIn' = Tail(pidIn)
        /\ UNCHANGED <<monIn, modIn, monPut, mode>>
    BY <1>8 DEF Th!internal_filter, Th!None
  <2>2. v = u
    BY <1>1, <1>2, <1>t, <2>1
  <2> QED
    BY <1>3, <1>g, <2>1, <2>2
<1>9. ASSUME Th!PidPuts PROVE Goal
  <2>1. /\ modIn' = modIn \o pidPut /\ pidPut' = <<>> /\ UNCHANGED <<monIn, pidIn, monPut, mode>>
    BY <1>9 DEF Th!PidPuts, Th!None
  <2>2. v = u
    BY <1>1, <1>2, <1>t, <2>1
  <2> QED
    BY <1>3, <1>g, <2>1, <2>2
<1>10. ASSUME Th!Kill PROVE Goal
  <2>1. monIn' = <<>> /\ pidIn' = <<>> /\ modIn' = <<>> /\ monPut' = <<>> /\ pidPut' = <<>>
    BY <1>10 DEF Th!Kill, Th!None
  <2> QED
    BY <1>1, <1>2, <1>g, <1>t, <2>1
<1> QED
  BY <1>4, <1>5, <1>6, <1>7, <1>8, <1>9, <1>10 DEF Goal, Th!Next, Th!Monitor, Th!Pid

(* What is known of the sequences of a state, number by number. *)
LEMMA CircleValues ==
  ASSUME Th!ThermostatAssumption, ThermostatTypes
  PROVE  /\ Len(Circle) \in Nat /\ Len(Circle) <= 2 * ThermostatRoom + 2
         /\ monPut = <<>> => Len(Circle) <= 2 * ThermostatRoom + 1
         /\ Len(monIn) \in Nat /\ Len(monIn) <= ThermostatRoom
         /\ val \in Nat /\ run.len \in 0 .. BufSize
<1>1. /\ Len(modIn) \in Nat /\ Len(pidIn) \in Nat /\ Len(pidPut) \in Nat /\ Len(monPut) \in Nat
      /\ monPut = <<>> => Len(monPut) = 0
  BY LenProperties DEF ThermostatTypes, Th!TypeOK
<1>2. Len(Circle) = Len(modIn) + Len(pidPut) + Len(pidIn) + Len(monPut)
  BY CircleTyped
<1>3. Len(modIn) <= ThermostatRoom /\ Len(pidIn) <= ThermostatRoom /\ Len(pidPut) <= 1 /\ Len(monPut) <= 1
  BY DEF ThermostatTypes, Th!TypeOK
<1>4. /\ Len(monIn) \in Nat /\ Len(monIn) <= ThermostatRoom
      /\ val \in Nat /\ run.len \in 0 .. BufSize
  BY LenProperties DEF ThermostatTypes, Th!TypeOK
<1> QED
  BY <1>1, <1>2, <1>3, <1>4 DEF Th!ThermostatAssumption

LEMMA CircleTail ==
  ASSUME ThermostatTypes, Circle # <<>>
  PROVE  /\ Len(Circle) > 0 /\ Head(Circle) = Circle[1] /\ Len(Tail(Circle)) = Len(Circle) - 1
         /\ \A i \in 1 .. Len(Circle) - 1 : Tail(Circle)[i] = Circle[i + 1]
<1>1. Circle \in Seq(Th!Values)
  BY CircleTyped
<1> DEFINE V == Th!Values
<1> HIDE DEF V
<1>2. Circle \in Seq(V)
  BY <1>1 DEF V
<1> QED
  BY <1>2, Taken

(* A turn of the model. *)
LEMMA ModelCalibrates ==
  ASSUME Th!ThermostatAssumption, ThermostatTypes, ThermostatTypes', UnderWayInv,
         NotArrived \/ HasArrived, Th!Model
  PROVE  NotArrived' \/ HasArrived'
<1> DEFINE c == Circle
           d == Circle'
           q == monIn
           r == monIn'
           R == ThermostatRoom
<1>1. /\ Len(c) \in Nat /\ Len(c) <= 2 * R + 2 /\ Len(q) \in Nat /\ Len(q) <= R
      /\ val \in Nat /\ run.len \in 0 .. BufSize /\ R \in Nat
      /\ Len(q) + Len(c) <= 2 * R + 2
  BY CircleValues, UnderWayCircle DEF Th!ThermostatAssumption, UnderWayInv
<1>2. UNCHANGED <<pidIn, monPut, pidPut, val, run>> /\ T' = Th!evaluate(T, E')
  BY DEF Th!Model
<1>3. E' \in Th!Values /\ Len(r) <= R
  BY DEF ThermostatTypes, Th!TypeOK
<1>4. /\ Len(r) \in {Len(q), Len(q) + 1}
      /\ \A i \in 1 .. Len(q) : r[i] = q[i]
      /\ Len(r) # Len(q) => r[Len(q) + 1].T = T /\ r[Len(q) + 1].E = E'
  BY <1>3, Reported
<1>5. \/ E' = E /\ d = c
      \/ /\ Len(c) > 0 /\ E' = c[1] /\ Len(d) = Len(c) - 1
         /\ \A i \in 1 .. Len(c) - 1 : d[i] = c[i + 1]
  <2>1. CASE modIn = <<>>
    <3>1. E' = E /\ modIn' = modIn
      BY <2>1 DEF Th!Model, Th!pull_msg
    <3> QED
      BY <1>2, <3>1 DEF Circle
  <2>2. CASE modIn # <<>>
    <3>1. E' = Head(modIn) /\ modIn' = Tail(modIn)
      BY <2>2 DEF Th!Model, Th!pull_msg
    <3>2. c # <<>> /\ Head(modIn) = Head(c) /\ d = Tail(c)
      BY <1>2, <2>2, <3>1, CircleTaken
    <3> QED
      BY <3>1, <3>2, CircleTail
  <2> QED
    BY <2>1, <2>2
<1>6. Th!Moving = -2
  BY DEF Th!Moving
<1>7. ASSUME NotArrived PROVE NotArrived' \/ HasArrived'
  <2>1. /\ E = val - 1 /\ T = val - 1 /\ run.T = val - 1
        /\ \A i \in 1 .. Len(q) : q[i].T = val - 1
    BY <1>7 DEF NotArrived
  <2>2. PICK j \in 0 .. Len(c) :
          /\ \A i \in 1 .. Len(c) : c[i] = IF i <= j THEN val - 1 ELSE val
          /\ run.len <= Len(c) - j
    BY <1>7 DEF NotArrived
  <2>3. \A i \in 1 .. Len(r) : r[i].T = val - 1
    BY <1>1, <1>4, <2>1
  <2> HIDE DEF c, d, q, r
  <2>4. ASSUME E' = E, d = c PROVE NotArrived'
    <3>1. T' = val - 1
      BY <1>2, <2>1, <2>4 DEF Th!evaluate
    <3> QED
      BY <1>2, <2>1, <2>2, <2>3, <2>4, <3>1 DEF NotArrived, c, d, r
  <2>5. ASSUME Len(c) > 0, E' = c[1], Len(d) = Len(c) - 1,
               \A i \in 1 .. Len(c) - 1 : d[i] = c[i + 1]
        PROVE  NotArrived' \/ HasArrived'
    <3>1. CASE j > 0
      <4>1. E' = val - 1 /\ T' = val - 1
        BY <1>1, <1>2, <2>1, <2>2, <2>5, <3>1 DEF Th!evaluate
      <4>2. j - 1 \in 0 .. Len(d) /\ run.len <= Len(d) - (j - 1)
        BY <1>1, <2>2, <2>5, <3>1
      <4>3. \A i \in 1 .. Len(d) : d[i] = IF i <= j - 1 THEN val - 1 ELSE val
        BY <1>1, <2>2, <2>5, <3>1
      <4> QED
        BY <1>2, <2>1, <2>3, <4>1, <4>2, <4>3 DEF NotArrived, d, r
    <3>2. CASE j = 0
      <4>1. E' = val /\ T' = Th!Moving
        <5>1. 1 \in 1 .. Len(c) /\ ~(1 <= j)
          BY <1>1, <2>5, <3>2
        <5>2. E' = val
          BY <2>2, <2>5, <5>1
        <5> QED
          BY <1>1, <1>2, <1>6, <2>1, <5>2 DEF Th!evaluate
      <4>2. \A i \in 1 .. Len(d) : d[i] = val
        BY <1>1, <2>2, <2>5, <3>2
      <4>3. run.len + Len(r) <= 2 * R + 3 /\ Len(r) \in 0 .. Len(r)
        BY <1>1, <1>3, <1>4, <2>2, <3>2
      <4>4. \A i \in Len(r) + 1 .. Len(r) : r[i].T # val - 1
        BY <1>1, <1>4
      <4>5. \A i \in 1 .. Len(r) : r[i].T # val
        BY <1>1, <2>3
      <4> QED
        BY <1>2, <2>1, <2>3, <4>1, <4>2, <4>3, <4>4, <4>5 DEF HasArrived, d, r
    <3> QED
      BY <2>2, <3>1, <3>2
  <2> QED
    BY <1>5, <2>4, <2>5
<1>8. ASSUME HasArrived PROVE HasArrived'
  <2>1. /\ E = val /\ T \in {Th!Moving, val}
        /\ \A i \in 1 .. Len(c) : c[i] = val
    BY <1>8 DEF HasArrived
  <2>2. \A i \in 1 .. Len(q) :
          /\ q[i].T \in {val - 1, Th!Moving, val}
          /\ q[i].T = val => q[i].E = val /\ T = val /\ \A j \in i .. Len(q) : q[j].T = val
    BY <1>8 DEF HasArrived
  <2>3. PICK k \in 0 .. Len(q) :
          /\ \A i \in k + 1 .. Len(q) : q[i].T # val - 1
          /\ run.T = val - 1 => run.len + k <= 2 * R + 3
    BY <1>8 DEF HasArrived
  <2> HIDE DEF c, d, q, r
  <2>4. E' = val /\ \A i \in 1 .. Len(d) : d[i] = val
    <3>1. CASE E' = E /\ d = c
      BY <2>1, <3>1
    <3>2. CASE /\ Len(c) > 0 /\ E' = c[1] /\ Len(d) = Len(c) - 1
               /\ \A i \in 1 .. Len(c) - 1 : d[i] = c[i + 1]
      <4>1. 1 \in 1 .. Len(c) /\ \A i \in 1 .. Len(d) : i \in 1 .. Len(c) - 1 /\ i + 1 \in 1 .. Len(c)
        BY <1>1, <3>2
      <4> QED
        BY <2>1, <3>2, <4>1
    <3> QED
      BY <1>5, <3>1, <3>2
  <2>5. T' = val
    BY <1>2, <2>1, <2>4 DEF Th!evaluate
  <2>6. \A i \in 1 .. Len(r) :
          /\ r[i].T \in {val - 1, Th!Moving, val}
          /\ r[i].T = val => r[i].E = val /\ \A j \in i .. Len(r) : r[j].T = val
    <3>1. ASSUME NEW i \in 1 .. Len(r) PROVE r[i].T \in {val - 1, Th!Moving, val}
      <4>1. i \in 1 .. Len(q) \/ (i = Len(q) + 1 /\ Len(r) # Len(q))
        BY <1>1, <1>4
      <4> QED
        BY <1>4, <2>1, <2>2, <4>1
    <3>2. ASSUME NEW i \in 1 .. Len(r), r[i].T = val, NEW j \in i .. Len(r)
          PROVE  r[i].E = val /\ r[j].T = val
      <4>1. CASE i <= Len(q)
        <5>1. i \in 1 .. Len(q) /\ q[i].T = val
          BY <1>1, <1>4, <3>2, <4>1
        <5>2. q[i].E = val /\ T = val /\ \A n \in i .. Len(q) : q[n].T = val
          BY <2>2, <5>1
        <5> QED
          BY <1>1, <1>4, <3>2, <5>1, <5>2
      <4>2. CASE i > Len(q)
        BY <1>1, <1>4, <2>1, <2>4, <3>2, <4>2
      <4> QED
        BY <1>1, <3>2, <4>1, <4>2
    <3> QED
      BY <1>1, <1>4, <3>1, <3>2
  <2>7. k \in 0 .. Len(r) /\ \A i \in k + 1 .. Len(r) : r[i].T # val - 1
    BY <1>1, <1>4, <1>6, <2>1, <2>3
  <2> QED
    BY <1>2, <2>3, <2>4, <2>5, <2>6, <2>7 DEF HasArrived, d, r
<1> QED
  BY <1>7, <1>8

(* GSL takes the complete table. *)
LEMMA TableTaken ==
  ASSUME Th!ThermostatAssumption, NEW m
  PROVE  Th!interpolate(Th!Table, m) = m
<1>1. Steps \in Nat /\ Steps >= 1
  BY DEF Th!ThermostatAssumption
<1>2. <<0, 0>> \in Th!Table /\ <<1, 1>> \in Th!Table
  <2>1. 0 \in 0 .. Steps /\ 1 \in 0 .. Steps
    BY <1>1
  <2> QED
    BY <2>1 DEF Th!Table
<1>3. \E p, q \in Th!Table : p # q
  BY <1>2
<1>4. \A p, q \in Th!Table : p[1] = q[1] => p = q
  BY DEF Th!Table
<1> QED
  BY <1>3, <1>4 DEF Th!interpolate

(* The monitor handles a report. *)
LEMMA CalibrateCalibrates ==
  ASSUME Th!ThermostatAssumption, CalibratedInv, Th!Calibrate
  PROVE  CalibrationInv' /\ TableInv'
<1> DEFINE c == Circle
           d == Circle'
           q == monIn
           r == monIn'
           R == ThermostatRoom
           t == Head(monIn).T
<1>1. /\ Len(c) \in Nat /\ Len(c) <= 2 * R + 1 /\ Len(q) \in Nat /\ Len(q) <= R
      /\ val \in Nat /\ run.len \in 0 .. BufSize
      /\ R \in Nat /\ BufSize \in Nat /\ BufSize > 2 * R + 3
      /\ Len(q) + Len(c) <= 2 * R + 2
  BY CircleValues, UnderWayCircle DEF Th!ThermostatAssumption, Th!Calibrate, CalibratedInv, UnderWayInv, Th!None
<1>2. mode = "Calibrate" /\ monPut = <<>> /\ UNCHANGED <<pidIn, modIn, pidPut, E, T>>
  BY DEF Th!Calibrate, Th!None
<1>3. /\ val <= Steps /\ measured = {<<e, e>> : e \in 0 .. val - 1}
      /\ NotArrived \/ HasArrived
      /\ file \in {{}, Th!Table}
  BY <1>2 DEF CalibratedInv, CalibrationInv, TableInv
<1>4. /\ Len(q) >= 1 /\ t = q[1].T /\ Head(monIn) = q[1] /\ Len(r) = Len(q) - 1
      /\ \A i \in 1 .. Len(q) - 1 : r[i] = q[i + 1]
  <2>1. q # <<>> /\ r = Tail(q)
    BY DEF Th!Calibrate
  <2>2. q \in Seq(Report)
    BY DEF Report, CalibratedInv, ThermostatTypes, Th!TypeOK
  <2> QED
    BY <2>1, <2>2, Taken
<1>5. ASSUME NEW v \in 0 .. Steps + 1, monPut' = <<v>>
      PROVE  /\ Len(d) = Len(c) + 1 /\ d[Len(c) + 1] = v
             /\ \A i \in 1 .. Len(c) : d[i] = c[i]
  <2>1. v \in Th!Values
    BY <1>3, <1>5 DEF Th!Values, Th!ThermostatAssumption
  <2>2. ThermostatTypes
    BY DEF CalibratedInv
  <2>3. d = Append(c, v)
    BY <1>2, <1>5, <2>1, <2>2, CircleExtended
  <2>4. c \in Seq(Th!Values)
    BY <2>2, CircleTyped
  <2> HIDE DEF c, d
  <2>5. ASSUME NEW S, c \in Seq(S), v \in S
        PROVE  /\ Len(Append(c, v)) = Len(c) + 1 /\ Append(c, v)[Len(c) + 1] = v
               /\ \A i \in 1 .. Len(c) : Append(c, v)[i] = c[i]
    BY <2>5, Appended
  <2> QED
    BY <2>1, <2>3, <2>4, <2>5
<1>6. Th!Moving = -2
  BY DEF Th!Moving
<1> DEFINE u == Th!Pushed(t)
<1>7. /\ u.T = t
      /\ u.len = IF t = Th!Moving THEN 0 ELSE IF run.T # t THEN 1
                 ELSE IF run.len < BufSize THEN run.len + 1 ELSE BufSize
  BY DEF Th!Pushed
<1>8. Th!Stationary(t) <=> u.len = BufSize
  BY DEF Th!Stationary
<1> HIDE DEF u
<1>9. ASSUME NotArrived
      PROVE  /\ ~Th!Stationary(t)
             /\ run' = u /\ monPut' = <<val>> /\ val' = val => NotArrived'
  <2>1. /\ E = val - 1 /\ T = val - 1 /\ run.T = val - 1
        /\ \A i \in 1 .. Len(q) : q[i].T = val - 1
    BY <1>9 DEF NotArrived
  <2>2. PICK j \in 0 .. Len(c) :
          /\ \A i \in 1 .. Len(c) : c[i] = IF i <= j THEN val - 1 ELSE val
          /\ run.len <= Len(c) - j
    BY <1>9 DEF NotArrived
  <2> HIDE DEF c, d, q, r, t
  <2>3. t = val - 1 /\ \A i \in 1 .. Len(r) : r[i].T = val - 1
    BY <1>1, <1>4, <2>1
  <2>4. u.T = val - 1 /\ u.len <= run.len + 1 /\ u.len <= Len(c) + 1 - j
    BY <1>1, <1>6, <1>7, <2>1, <2>2, <2>3
  <2>5. ~Th!Stationary(t)
    BY <1>1, <1>8, <2>2, <2>4
  <2>6. ASSUME run' = u, monPut' = <<val>>, val' = val
        PROVE  NotArrived'
    <3>0. val \in 0 .. Steps + 1
      BY <1>1, <1>3 DEF Th!ThermostatAssumption
    <3>1. /\ Len(d) = Len(c) + 1 /\ d[Len(c) + 1] = val
          /\ \A i \in 1 .. Len(c) : d[i] = c[i]
      BY <1>5, <2>6, <3>0
    <3>2. j \in 0 .. Len(d) /\ u.len <= Len(d) - j
      BY <1>1, <2>2, <2>4, <3>1
    <3>3. \A i \in 1 .. Len(d) : d[i] = IF i <= j THEN val - 1 ELSE val
      <4>1. ASSUME NEW i \in 1 .. Len(d) PROVE d[i] = IF i <= j THEN val - 1 ELSE val
        <5>1. i \in 1 .. Len(c) \/ (i = Len(c) + 1 /\ ~(i <= j))
          BY <1>1, <2>2, <3>1
        <5> QED
          BY <2>2, <3>1, <5>1
      <4> QED
        BY <4>1
    <3> QED
      BY <1>2, <2>1, <2>3, <2>4, <2>6, <3>2, <3>3 DEF NotArrived, d, r
  <2> QED
    BY <2>5, <2>6
<1>10. ASSUME HasArrived
       PROVE  /\ Th!Stationary(t) => /\ t = val /\ Head(monIn).E = val /\ T = val
                                     /\ \A i \in 1 .. Len(q) : q[i].T = val
              /\ run' = u /\ monPut' = <<val>> /\ val' = val => HasArrived'
  <2>1. /\ E = val /\ T \in {Th!Moving, val}
        /\ \A i \in 1 .. Len(c) : c[i] = val
    BY <1>10 DEF HasArrived
  <2>2. \A i \in 1 .. Len(q) :
          /\ q[i].T \in {val - 1, Th!Moving, val}
          /\ q[i].T = val => q[i].E = val /\ T = val /\ \A j \in i .. Len(q) : q[j].T = val
    BY <1>10 DEF HasArrived
  <2>3. PICK k \in 0 .. Len(q) :
          /\ \A i \in k + 1 .. Len(q) : q[i].T # val - 1
          /\ run.T = val - 1 => run.len + k <= 2 * R + 3
    BY <1>10 DEF HasArrived
  <2>4. 1 \in 1 .. Len(q)
    BY <1>1, <1>4
  <2>5. /\ t \in {val - 1, Th!Moving, val}
        /\ t = val => Head(monIn).E = val /\ T = val /\ \A j \in 1 .. Len(q) : q[j].T = val
    BY <1>4, <2>2, <2>4
  <2> HIDE DEF c, d, q, r, t
  <2>6. t = val - 1 => k >= 1 /\ u.len + (k - 1) <= 2 * R + 3
    <3>1. ASSUME t = val - 1 PROVE k >= 1
      <4>1. q[1].T = val - 1
        BY <1>4, <3>1
      <4>2. 1 \notin k + 1 .. Len(q)
        BY <2>3, <4>1
      <4> QED
        BY <1>1, <1>4, <2>3, <4>2
    <3>2. ASSUME t = val - 1 PROVE u.len + (k - 1) <= 2 * R + 3
      <4>1. u.len <= run.len + 1 /\ (run.T # t => u.len <= 1)
        BY <1>1, <1>6, <1>7, <3>2
      <4> QED
        BY <1>1, <1>6, <1>7, <2>3, <3>1, <3>2, <4>1
    <3> QED
      BY <3>1, <3>2
  <2>7. Th!Stationary(t) => t = val
    BY <1>1, <1>6, <1>7, <1>8, <2>5, <2>6
  <2>8. ASSUME run' = u, monPut' = <<val>>, val' = val
        PROVE  HasArrived'
    <3>0. val \in 0 .. Steps + 1
      BY <1>1, <1>3 DEF Th!ThermostatAssumption
    <3>1. /\ Len(d) = Len(c) + 1 /\ d[Len(c) + 1] = val
          /\ \A i \in 1 .. Len(c) : d[i] = c[i]
      BY <1>5, <2>8, <3>0
    <3>2. \A i \in 1 .. Len(d) : d[i] = val
      <4>1. \A i \in 1 .. Len(d) : i \in 1 .. Len(c) \/ i = Len(c) + 1
        BY <1>1, <3>1
      <4> QED
        BY <2>1, <3>1, <4>1
    <3>3. \A i \in 1 .. Len(r) : r[i] = q[i + 1] /\ i + 1 \in 1 .. Len(q)
      BY <1>1, <1>4
    <3>4. \A i \in 1 .. Len(r) :
            /\ r[i].T \in {val - 1, Th!Moving, val}
            /\ r[i].T = val => r[i].E = val /\ T = val /\ \A j \in i .. Len(r) : r[j].T = val
      <4>1. \A i \in 1 .. Len(r) : \A j \in i .. Len(r) : j \in 1 .. Len(r) /\ j + 1 \in i + 1 .. Len(q)
        BY <1>1, <1>4
      <4>2. \A i \in 1 .. Len(r) : r[i].T \in {val - 1, Th!Moving, val}
        BY <2>2, <3>3
      <4>3. ASSUME NEW i \in 1 .. Len(r), r[i].T = val, NEW j \in i .. Len(r)
            PROVE  r[i].E = val /\ T = val /\ r[j].T = val
        <5>1. q[i + 1].E = val /\ T = val /\ \A n \in i + 1 .. Len(q) : q[n].T = val
          BY <2>2, <3>3, <4>3
        <5>2. j \in 1 .. Len(r) /\ j + 1 \in i + 1 .. Len(q)
          BY <4>1
        <5> QED
          BY <3>3, <5>1, <5>2
      <4>4. \A i \in 1 .. Len(r) : i \in i .. Len(r)
        BY <1>1
      <4> QED
        BY <4>2, <4>3, <4>4
    <3>5. PICK n \in 0 .. Len(r) : n = IF k = 0 THEN 0 ELSE k - 1
      BY <1>1, <1>4, <2>3
    <3>6. \A i \in n + 1 .. Len(r) : r[i].T # val - 1
      <4>1. \A i \in n + 1 .. Len(r) : i \in 1 .. Len(r) /\ i + 1 \in k + 1 .. Len(q)
        BY <1>1, <1>4, <2>3, <3>5
      <4> QED
        BY <2>3, <3>3, <4>1
    <3>7. u.T = val - 1 => u.len + n <= 2 * R + 3
      BY <1>7, <2>3, <2>6, <3>5
    <3> QED
      BY <1>2, <2>1, <2>8, <3>2, <3>4, <3>6, <3>7 DEF HasArrived, d, r
  <2> QED
    BY <2>5, <2>7, <2>8
<1>11. CASE ~Th!Stationary(t)
  <2>1. run' = u /\ monPut' = <<val>> /\ UNCHANGED <<measured, val, mode, file>>
    BY <1>11 DEF Th!Calibrate, u
  <2>2. NotArrived' \/ HasArrived'
    BY <1>3, <1>9, <1>10, <2>1
  <2> QED
    BY <1>2, <1>3, <2>1, <2>2 DEF CalibrationInv, TableInv
<1>12. CASE Th!Stationary(t)
  <2>1. /\ t = val /\ Head(monIn).E = val /\ T = val /\ E = val
        /\ \A i \in 1 .. Len(q) : q[i].T = val
    <3>1. HasArrived
      BY <1>3, <1>9, <1>12
    <3> QED
      BY <1>10, <1>12, <3>1 DEF HasArrived
  <2>2. run' = Th!Cleared(t) /\ val' = val + 1 /\ measured' = measured \cup {<<t, Head(monIn).E>>}
    BY <1>12 DEF Th!Calibrate
  <2>3. measured' = {<<e, e>> : e \in 0 .. val}
    <3>1. 0 .. val = (0 .. val - 1) \cup {val}
      BY <1>1
    <3>2. measured' = {<<e, e>> : e \in 0 .. val - 1} \cup {<<val, val>>}
      BY <1>3, <2>1, <2>2
    <3> QED
      BY <3>1, <3>2
  <2>4. CASE val = Steps
    <3>1. measured' = Th!Table
      BY <2>3, <2>4 DEF Th!Table
    <3>2. /\ mode' = Th!interpolate(measured', "Saving")
          /\ file' = IF mode' = "Saving" THEN {} ELSE file
      BY <1>12, <2>4 DEF Th!Calibrate
    <3>3. mode' = "Saving"
      BY <3>1, <3>2, TableTaken
    <3> QED
      BY <1>3, <3>1, <3>2, <3>3 DEF CalibrationInv, TableInv
  <2>5. CASE val # Steps
    <3>1. monPut' = <<val + 1>> /\ mode' = mode /\ file' = file
      BY <1>12, <2>5 DEF Th!Calibrate
    <3>2. val + 1 \in 0 .. Steps
      BY <1>1, <1>3, <2>5 DEF Th!ThermostatAssumption
    <3>3. /\ Len(d) = Len(c) + 1 /\ d[Len(c) + 1] = val + 1
          /\ \A i \in 1 .. Len(c) : d[i] = c[i]
      BY <1>5, <3>1, <3>2 DEF Th!ThermostatAssumption
    <3>4. /\ run'.T = val /\ run'.len = 0
      BY <2>1, <2>2 DEF Th!Cleared
    <3>5. \A i \in 1 .. Len(c) : c[i] = val
      BY <1>3, <1>9, <1>12 DEF HasArrived
    <3>6. \A i \in 1 .. Len(r) : r[i].T = val
      BY <1>1, <1>4, <2>1
    <3> HIDE DEF c, d, q, r, t
    <3>7. \A i \in 1 .. Len(d) : d[i] = IF i <= Len(c) THEN val ELSE val + 1
      <4>1. \A i \in 1 .. Len(d) : i \in 1 .. Len(c) \/ (i = Len(c) + 1 /\ ~(i <= Len(c)))
        BY <1>1, <3>3
      <4> QED
        BY <3>3, <3>5, <4>1
    <3>8. Len(c) \in 0 .. Len(d) /\ run'.len <= Len(d) - Len(c) /\ val' - 1 = val
      BY <1>1, <2>2, <3>3, <3>4
    <3>9. NotArrived'
      <4>1. \A i \in 1 .. Len(d) : d[i] = IF i <= Len(c) THEN val' - 1 ELSE val'
        BY <2>2, <3>7, <3>8
      <4>2. E' = val' - 1 /\ T' = val' - 1 /\ run'.T = val' - 1
        BY <1>2, <2>1, <3>4, <3>8
      <4>3. \A i \in 1 .. Len(r) : r[i].T = val' - 1
        BY <3>6, <3>8
      <4> QED
        BY <3>8, <4>1, <4>2, <4>3 DEF NotArrived, d, r
    <3> QED
      BY <1>2, <1>3, <2>2, <2>3, <3>1, <3>2, <3>8, <3>9 DEF CalibrationInv, TableInv
  <2> QED
    BY <2>4, <2>5
<1> QED
  BY <1>11, <1>12

LEMMA CalibratedStep ==
  ASSUME Th!ThermostatAssumption, ThermostatInv, [Th!Next]_thVars
  PROVE  CalibratedInv'
<1> CalibratedInv /\ ValInv
  BY DEF ThermostatInv
<1>1. CASE UNCHANGED thVars
  BY <1>1 DEF thVars, CalibratedInv, UnderWayInv, Th!UnderWay, ThermostatTypes, Th!TypeOK, CalibrationInv, TableInv, NotArrived, HasArrived, Circle
<1>2. CASE Th!Next
  <2>1. ThermostatTypes'
    BY <1>2, ThermostatTypesHold DEF CalibratedInv
  <2>8. UnderWayInv'
    BY <1>2, <2>1, UnderWayStep DEF CalibratedInv
  <2>2. ASSUME Th!Model PROVE CalibrationInv' /\ TableInv'
    <3>1. UNCHANGED <<mode, val, measured, file>>
      BY <2>2 DEF Th!Model
    <3>2. mode = "Calibrate" => NotArrived' \/ HasArrived'
      BY <2>1, <2>2, ModelCalibrates DEF CalibratedInv, CalibrationInv
    <3> QED
      BY <3>1, <3>2 DEF CalibratedInv, CalibrationInv, TableInv
  <2>3. ASSUME Th!Calibrate PROVE CalibrationInv' /\ TableInv'
    BY <2>3, CalibrateCalibrates
  <2>4. ASSUME Th!save_calibration PROVE CalibrationInv' /\ TableInv'
    BY <2>4 DEF Th!save_calibration, CalibratedInv, CalibrationInv, TableInv
  <2>5. ASSUME Th!Operate PROVE CalibrationInv' /\ TableInv'
    BY <2>5 DEF Th!Operate, CalibratedInv, CalibrationInv, TableInv
  <2>6. ASSUME Th!MonitorPuts \/ Th!Pid PROVE CalibrationInv' /\ TableInv'
    <3>1. UNCHANGED <<monIn, E, T, mode, val, run, measured, file>>
      BY <2>6 DEF Th!MonitorPuts, Th!Pid, Th!internal_filter, Th!PidPuts
    <3>2. Circle' = Circle
      BY <2>6, CircleTurns DEF CalibratedInv
    <3>3. NotArrived => NotArrived'
      BY <3>1, <3>2 DEF NotArrived
    <3>4. HasArrived => HasArrived'
      BY <3>1, <3>2 DEF HasArrived
    <3> QED
      BY <3>1, <3>3, <3>4 DEF CalibratedInv, CalibrationInv, TableInv
  <2>7. ASSUME Th!Kill PROVE CalibrationInv' /\ TableInv'
    <3>1. /\ monIn' = <<>> /\ pidIn' = <<>> /\ modIn' = <<>> /\ monPut' = <<>> /\ pidPut' = <<>>
          /\ E' = -1 /\ T' = -1 /\ val' = 0 /\ run'.T = -1 /\ run'.len = 0
          /\ measured' = file /\ file' = file
          /\ mode' = IF Th!read_calibration(file) THEN Th!interpolate(file, "Operate") ELSE "Calibrate"
      BY <2>7 DEF Th!Kill, Th!None, Th!Unset, Th!NoRun
    <3>2. CASE file = {}
      <4>1. mode' = "Calibrate" /\ measured' = {<<e, e>> : e \in 0 .. val' - 1}
        BY <3>1, <3>2 DEF Th!read_calibration
      <4>2. Circle' = <<>>
        <5>1. <<>> \o (<<>> \o (<<>> \o <<>>)) = <<>>
          OBVIOUS
        <5> QED
          BY <3>1, <5>1 DEF Circle
      <4>3. NotArrived'
        <5>1. Len(<<>>) = 0
          OBVIOUS
        <5> QED
          BY <3>1, <4>2, <5>1 DEF NotArrived
      <4> QED
        BY <3>1, <3>2, <4>1, <4>3 DEF CalibrationInv, TableInv, Th!ThermostatAssumption
    <3>3. CASE file = Th!Table
      <4>1. file # {}
        <5>1. 0 \in 0 .. Steps
          BY DEF Th!ThermostatAssumption
        <5> QED
          BY <3>3, <5>1 DEF Th!Table
      <4>2. mode' = "Operate"
        BY <3>1, <3>3, <4>1, TableTaken DEF Th!read_calibration
      <4> QED
        BY <3>1, <3>3, <4>2 DEF CalibrationInv, TableInv
    <3> QED
      BY <3>2, <3>3 DEF CalibratedInv, TableInv
  <2> QED
    BY <1>2, <2>1, <2>2, <2>3, <2>4, <2>5, <2>6, <2>7, <2>8 DEF Th!Next, Th!Monitor, CalibratedInv
<1> QED
  BY <1>1, <1>2

LEMMA ValStep ==
  ASSUME Th!ThermostatAssumption, ThermostatTypes, ValInv, Th!Next
  PROVE  ValInv'
<1>1. val \in Nat /\ Steps \in Nat
  BY ThermostatTypesMean DEF Th!ThermostatAssumption
<1>2. ASSUME UNCHANGED <<mode, val>> PROVE ValInv'
  BY <1>2 DEF ValInv
<1>3. ASSUME Th!Model PROVE ValInv'
  BY <1>2, <1>3 DEF Th!Model
<1>4. ASSUME Th!Calibrate PROVE ValInv'
  <2>1. mode = "Calibrate"
    BY <1>4 DEF Th!Calibrate
  <2>2. \/ UNCHANGED <<mode, val>>
        \/ val = Steps /\ mode' \in {"Saving", "Aborted"}
        \/ val # Steps /\ val' = val + 1
    BY <1>4 DEF Th!Calibrate, Th!interpolate
  <2> QED
    BY <1>1, <1>2, <2>1, <2>2 DEF ValInv
<1>5. ASSUME Th!save_calibration PROVE ValInv'
  BY <1>5 DEF Th!save_calibration, ValInv
<1>6. ASSUME Th!Operate \/ Th!MonitorPuts \/ Th!Pid PROVE ValInv'
  BY <1>2, <1>6 DEF Th!Operate, Th!MonitorPuts, Th!Pid, Th!internal_filter, Th!PidPuts
<1>7. ASSUME Th!Kill PROVE ValInv'
  BY <1>1, <1>7 DEF Th!Kill, ValInv
<1> QED
  BY <1>3, <1>4, <1>5, <1>6, <1>7 DEF Th!Next, Th!Monitor

LEMMA ThermostatStep ==
  ASSUME Th!ThermostatAssumption, ThermostatInv, [Th!Next]_thVars
  PROVE  ThermostatInv'
<1>1. CalibratedInv'
  BY CalibratedStep
<1>2. ValInv'
  <2>1. CASE UNCHANGED thVars
    BY <2>1 DEF thVars, ThermostatInv, ValInv
  <2>2. CASE Th!Next
    BY <2>2, ValStep DEF ThermostatInv, CalibratedInv
  <2> QED
    BY <2>1, <2>2
<1> QED
  BY <1>1, <1>2 DEF ThermostatInv

LEMMA ThermostatInit ==
  ASSUME Th!ThermostatAssumption, Th!Init
  PROVE  ThermostatInv
<1>1. /\ monIn = <<>> /\ pidIn = <<>> /\ modIn = <<>> /\ monPut = <<>> /\ pidPut = <<>>
      /\ E = -1 /\ T = -1 /\ val = 0 /\ run = [T |-> -1, len |-> 0]
      /\ mode = "Calibrate" /\ measured = {} /\ file = {} /\ kills = 0
  BY DEF Th!Init, Th!None, Th!Unset, Th!NoRun
<1>2. \A S, n : n \in Nat => <<>> \in UpTo(n, S)
  BY UpToSmall
<1>3. ThermostatTypes
  <2>1. -1 \in Th!Values /\ -1 \in Th!Temps /\ run \in LoopBuffers
    BY <1>1 DEF Th!Values, Th!Temps, Th!Unset, LoopBuffers, Th!ThermostatAssumption
  <2> QED
    BY <1>1, <1>2, <2>1, ThermostatTypesMean DEF Th!ThermostatAssumption, ThermostatModes
<1>4. Circle = <<>>
  <2>1. <<>> \o (<<>> \o (<<>> \o <<>>)) = <<>>
    OBVIOUS
  <2> QED
    BY <1>1, <2>1 DEF Circle
<1>5. NotArrived
  <2>1. Len(<<>>) = 0
    OBVIOUS
  <2> QED
    BY <1>1, <1>4, <2>1 DEF NotArrived
<1>6. measured = {<<e, e>> : e \in 0 .. val - 1}
  BY <1>1
<1>7. UnderWayInv
  BY <1>1 DEF UnderWayInv, Th!UnderWay, Th!ThermostatAssumption
<1> QED
  BY <1>1, <1>3, <1>5, <1>6, <1>7 DEF ThermostatInv, CalibratedInv, ValInv, CalibrationInv, TableInv, Th!ThermostatAssumption

LEMMA ThermostatHolds ==
  ASSUME Th!ThermostatAssumption, ThermostatInv
  PROVE  PairsSound /\ TableComplete
<1> USE DEF ThermostatInv, CalibratedInv
<1>1. PairsSound
  <2> SUFFICES ASSUME NEW pair \in measured PROVE pair[1] = pair[2] /\ pair[2] \in 0 .. Steps
    BY DEF PairsSound, Th!PairsSound, UnderWayInv
  <2>1. CASE mode = "Calibrate"
    BY <2>1 DEF CalibrationInv, ThermostatTypes, Th!TypeOK, Th!ThermostatAssumption
  <2>2. CASE mode # "Calibrate"
    BY <2>2 DEF TableInv, Th!Table
  <2> QED
    BY <2>1, <2>2
<1>2. TableComplete
  BY DEF TableInv, TableComplete, Th!TableComplete
<1> QED
  BY <1>1, <1>2

-----------------------------------------------------------------------------
(* The MIDI source. *)

MidiInv ==
  /\ Mi!TypeOK /\ Mi!EventsInOrder
  /\ put \in Seq([event : Int, sent_from : Int])
  /\ next => uid = 1
  /\ node \in {"none", "constructed"} => ~next
  /\ ~next => put = <<>>
  /\ node \in {"started", "stopped"} => uid = 1

LEMMA MidiInit == Mi!MidiPortAssumption /\ Mi!Init => MidiInv
<1> SUFFICES ASSUME Mi!MidiPortAssumption, Mi!Init PROVE MidiInv
  OBVIOUS
<1>1. put \in Seq([event : Int, sent_from : Int]) /\ Len(put) = 0
  BY DEF Mi!Init
<1>2. Mi!TypeOK
  <2>1. uid \in 0 .. 1 /\ events \in 0 .. MaxEvents /\ Len(put) <= events
    BY <1>1 DEF Mi!MidiPortAssumption, Mi!Init
  <2> QED
    BY <2>1, Zenon DEF Mi!Init, Mi!TypeOK
<1>3. Mi!EventsInOrder
  BY <1>1 DEF Mi!EventsInOrder
<1> QED
  BY <1>1, <1>2, <1>3 DEF Mi!Init, MidiInv

LEMMA MidiStep ==
  ASSUME Mi!MidiPortAssumption, MidiInv, [Mi!Next]_miVars
  PROVE  MidiInv'
<1> USE DEF MidiInv, Mi!TypeOK
<1>1. ASSUME UNCHANGED miVars PROVE MidiInv'
  BY <1>1 DEF miVars, Mi!EventsInOrder
<1>2. ASSUME NEW p \in Int, NEW n \in Int, Mi!MidiPortSRC(p, n) PROVE MidiInv'
  BY <1>2 DEF Mi!MidiPortSRC, Mi!EventsInOrder
<1>3. ASSUME Mi!create PROVE MidiInv'
  BY <1>3 DEF Mi!create, Mi!EventsInOrder
<1>4. ASSUME Mi!set_target PROVE MidiInv'
  BY <1>4 DEF Mi!set_target, Mi!EventsInOrder
<1>5. ASSUME Mi!stop PROVE MidiInv'
  BY <1>5 DEF Mi!stop, Mi!EventsInOrder
<1>6. ASSUME Mi!on_midi_event PROVE MidiInv'
  <2> DEFINE S == [event : Int, sent_from : Int]
             m == [event |-> events + 1, sent_from |-> uid]
  <2>1. /\ events \in Nat /\ events' = events + 1 /\ events' \in 0 .. MaxEvents
        /\ UNCHANGED <<node, opened, uid, next>>
        /\ put' = IF next THEN Append(put, m) ELSE put
    BY <1>6 DEF Mi!on_midi_event, Mi!MidiPortAssumption
  <2>2. m \in S /\ m.event = events + 1 /\ m.sent_from = uid
    BY <2>1
  <2>3. Len(put) \in Nat /\ Len(put) <= events /\ put \in Seq(S)
    OBVIOUS
  <2> HIDE DEF S, m
  <2> DEFINE l == Len(put)
             k == Len(put')
  <2>n. l \in Nat /\ events \in Nat /\ events' = events + 1
    BY <2>1, <2>3
  <2> HIDE DEF l, k
  <2>4. CASE ~next
    <3>1. put' = put /\ put = <<>> /\ Len(put) = 0
      BY <2>1, <2>4
    <3> QED
      BY <2>1, <2>3, <2>4, <3>1 DEF Mi!EventsInOrder, S
  <2>5. CASE next
    <3>1. put' = Append(put, m) /\ uid = 1
      BY <2>1, <2>5
    <3>2. /\ put' \in Seq(S) /\ Len(put') = Len(put) + 1
          /\ put'[Len(put) + 1] = m
          /\ \A i \in 1 .. Len(put) : put'[i] = put[i]
      BY <2>2, <2>3, <3>1, Appended
    <3>3. Mi!EventsInOrder'
      <4>1. ASSUME NEW i \in 1 .. Len(put')
            PROVE  put'[i].event = events' - Len(put') + i /\ put'[i].sent_from = 1
        <5>1. CASE i = Len(put) + 1
          <6>1. put'[i].event = events + 1 /\ put'[i].sent_from = 1
            BY <2>2, <3>1, <3>2, <5>1
          <6>2. k = l + 1 /\ i = l + 1
            BY <3>2, <5>1 DEF k, l
          <6>3. events' - k + i = events + 1
            BY <2>n, <6>2
          <6> QED
            BY <6>1, <6>3 DEF k
        <5>2. CASE i \in 1 .. Len(put)
          <6>1. put'[i].event = events - Len(put) + i /\ put'[i].sent_from = 1
            BY <3>2, <5>2 DEF Mi!EventsInOrder
          <6>2. k = l + 1 /\ i \in 1 .. l
            BY <3>2, <5>2 DEF k, l
          <6>3. events' - k + i = events - l + i
            BY <2>n, <6>2
          <6> QED
            BY <6>1, <6>3 DEF k, l
        <5> QED
          BY <2>3, <3>2, <5>1, <5>2
      <4> QED
        BY <4>1 DEF Mi!EventsInOrder
    <3> QED
      BY <2>1, <2>3, <2>5, <3>1, <3>2, <3>3 DEF S
  <2> QED
    BY <2>4, <2>5
<1> QED
  BY <1>1, <1>2, <1>3, <1>4, <1>5, <1>6 DEF Mi!Next, Mi!MidiPortAssumption

-----------------------------------------------------------------------------
(* The SCPI client. *)

(* What is on its way between client and server, for each place of the loop:*)
(* one request that has an answer or one answer, or less if the connection  *)
(* has broken.                                                              *)
ScpiInv ==
  /\ Sc!TypeOK
  /\ pc \in {"top", "closed"} => requests_pending = 0 /\ requests = <<>> /\ replies = <<>>
  /\ pc = "poll" =>
       /\ requests_pending = 0
       /\ \/ requests \in {<<"START", "STAT">>, <<"STAT">>} /\ replies = <<>>
          \/ requests = <<>> /\ replies \in {<<"WAIT">>, <<"TD">>}
          \/ requests = <<>> /\ replies = <<>> /\ link = "down"
  /\ pc = "read" =>
       /\ requests_pending = 1
       /\ \/ requests = <<"DATA">> /\ replies = <<>>
          \/ requests = <<>> /\ replies = <<"block">>
          \/ replies = <<>> /\ link = "down"

LEMMA ScpiHolds == ScpiInv => Sc!TypeOK /\ Sc!InStep
BY DEF ScpiInv, Sc!TypeOK, Sc!InStep

LEMMA ScpiInit == Sc!ScpiClientAssumption /\ Sc!Init => ScpiInv
<1> SUFFICES ASSUME Sc!ScpiClientAssumption, Sc!Init PROVE ScpiInv
  OBVIOUS
<1>1. inbox \in Seq({"STOP", "other"}) /\ Len(inbox) <= ScpiRoom
  BY DEF Sc!ScpiClientAssumption, Sc!Init
<1>2. Sc!TypeOK
  <2>1. requests_pending \in 0 .. 1
    BY DEF Sc!Init
  <2> QED
    BY <1>1, <2>1, Zenon DEF Sc!Init, Sc!TypeOK
<1> QED
  BY <1>2 DEF Sc!Init, ScpiInv

LEMMA ScpiStep ==
  ASSUME Sc!ScpiClientAssumption, ScpiInv, [Sc!Next]_scVars
  PROVE  ScpiInv'
<1> USE DEF ScpiInv, Sc!TypeOK, Sc!ScpiClientAssumption
<1>1. ASSUME UNCHANGED scVars PROVE ScpiInv'
  BY <1>1 DEF scVars
<1>2. ASSUME NEW cmd \in {"STOP", "other"}, Sc!put(cmd) PROVE ScpiInv'
  BY <1>2 DEF Sc!put
<1>3. ASSUME Sc!Turn PROVE ScpiInv'
  <2> DEFINE broken == stop \/ (inbox # <<>> /\ Head(inbox) = "STOP")
  <2>1. /\ pc = "top" /\ stop' = broken
        /\ inbox' = IF inbox = <<>> THEN inbox ELSE Tail(inbox)
        /\ UNCHANGED <<requests_pending, line, replies, trigger, link, asked>>
    BY <1>3 DEF Sc!Turn
  <2>2. stop' \in BOOLEAN /\ inbox' \in Seq({"STOP", "other"}) /\ Len(inbox') <= ScpiRoom
    BY <2>1
  <2>3. \/ pc' = "closed" /\ requests' = requests
        \/ pc' = "poll" /\ requests' = IF link = "up" THEN requests \o <<"START", "STAT">> ELSE requests
    BY <1>3, <2>1, Zenon DEF Sc!Turn, Sc!Leaves, Sc!Send
  <2>4. <<>> \o <<"START", "STAT">> = <<"START", "STAT">>
    OBVIOUS
  <2> HIDE DEF broken
  <2> QED
    BY <2>1, <2>2, <2>3, <2>4
<1>4. ASSUME Sc!Poll PROVE ScpiInv'
  <2>1. /\ pc = "poll" /\ (replies # <<>> \/ link = "down")
        /\ line' = IF replies = <<>> THEN line ELSE Head(replies)
        /\ replies' = IF replies = <<>> THEN replies ELSE Tail(replies)
        /\ UNCHANGED <<inbox, stop, trigger, link, asked>>
    BY <1>4 DEF Sc!Poll
  <2>2. \/ /\ line' = "TD" /\ pc' = "read" /\ requests_pending' = requests_pending + 1
           /\ requests' = IF link = "up" THEN requests \o <<"DATA">> ELSE requests
        \/ /\ pc' = pc /\ requests_pending' = requests_pending
           /\ requests' = IF link = "up" THEN requests \o <<"STAT">> ELSE requests
    BY <1>4 DEF Sc!Poll, Sc!Again, Sc!Send
  <2>3. replies' = <<>> /\ line' \in {"8192", "WAIT", "TD"} /\ (replies # <<>> => requests = <<>>)
    <3>1. \A r : Tail(<<r>>) = <<>> /\ Head(<<r>>) = r
      OBVIOUS
    <3> QED
      BY <2>1, <3>1
  <2>4. \A r : <<>> \o <<r>> = <<r>>
    OBVIOUS
  <2>5. requests_pending = 0
    BY <2>1
  <2>6. Sc!TypeOK'
    BY <2>1, <2>2, <2>3, <2>5
  <2> QED
    BY <2>1, <2>2, <2>3, <2>4, <2>5, <2>6
<1>5. ASSUME Sc!Read PROVE ScpiInv'
  BY <1>5 DEF Sc!Read
<1>6. ASSUME Sc!Serve PROVE ScpiInv'
  <2> DEFINE cmd == Head(requests)
  <2>1. /\ link = "up" /\ pc # "closed" /\ requests # <<>> /\ requests' = Tail(requests)
        /\ replies' = IF cmd = "START" THEN replies
                      ELSE Append(replies, IF cmd = "DATA" THEN "block" ELSE IF trigger = "TD" THEN "TD" ELSE "WAIT")
        /\ trigger' = IF cmd = "START" THEN "armed" ELSE trigger
        /\ UNCHANGED <<pc, inbox, stop, requests_pending, line, link, asked>>
    BY <1>6 DEF Sc!Serve
  <2>2. Sc!TypeOK'
    BY <2>1
  <2>3. CASE pc = "poll" /\ requests = <<"START", "STAT">> /\ replies = <<>>
    <3>1. cmd = "START" /\ Tail(requests) = <<"STAT">>
      BY <2>3
    <3> QED
      BY <2>1, <2>2, <2>3, <3>1
  <2>4. CASE pc = "poll" /\ requests = <<"STAT">> /\ replies = <<>>
    <3>1. cmd = "STAT" /\ Tail(requests) = <<>> /\ \A r : Append(replies, r) = <<r>>
      BY <2>4
    <3> QED
      BY <2>1, <2>2, <2>4, <3>1
  <2>5. CASE pc = "read" /\ requests = <<"DATA">> /\ replies = <<>>
    <3>1. cmd = "DATA" /\ Tail(requests) = <<>> /\ \A r : Append(replies, r) = <<r>>
      BY <2>5
    <3> QED
      BY <2>1, <2>2, <2>5, <3>1
  <2> QED
    BY <2>1, <2>3, <2>4, <2>5
<1>7. ASSUME Sc!Trigger PROVE ScpiInv'
  BY <1>7 DEF Sc!Trigger
<1>8. ASSUME Sc!Break PROVE ScpiInv'
  BY <1>8 DEF Sc!Break
<1> QED
  BY <1>1, <1>2, <1>3, <1>4, <1>5, <1>6, <1>7, <1>8 DEF Sc!Next, Sc!Loop

-----------------------------------------------------------------------------
(* The pipes of a PlotScope. *)

Commands == {"set", "plot", "quit"}
Writing  == [to : Pl!Outputs, left : 0 .. Image] \cup {[to |-> "exited", left |-> 0]}
Handlers == [pipe : Pl!Outputs, at : {"data", "error", "taken"}] \cup {Pl!None}
Ats      == {"thread", "arm out", "arm err", "header", "alive", "closing", "quit", "join gnuplot", "join io", "done"}

(* The asio thread runs a handler only while run() runs; the destructor gets*)
(* to its end when gnuplot has exited and run() has returned.               *)
PipesInv ==
  /\ at \in Ats /\ drawer \in {"idle", "pushing"} /\ frames \in 0 .. MaxFrames
  /\ stdin \in UpTo(PipeRoom, Commands) /\ pipes \in [Pl!Outputs -> 0 .. PipeRoom]
  /\ gnuplot \in Writing /\ io \in {"unborn", "starting", "running", "ended"}
  /\ armed \subseteq Pl!Outputs /\ handler \in Handlers /\ stopped \in BOOLEAN /\ fits \in BOOLEAN
  /\ io # "running" => handler = Pl!None
  /\ at \in {"join io", "done"} => gnuplot.to = "exited"
  /\ at = "done" => io = "ended"
  /\ at = "thread" => io = "unborn"

LEMMA PipesHold == PipesInv => Pl!TypeOK /\ Pl!NothingPending
<1> SUFFICES ASSUME PipesInv PROVE Pl!TypeOK /\ Pl!NothingPending
  OBVIOUS
<1>1. gnuplot \in [to : Pl!Outputs \cup {"exited"}, left : 0 .. Image]
  <2>1. 0 \in 0 .. Image
    BY DemosAssumption DEF DemosAssumption, Pl!PlotPipesAssumption
  <2>2. gnuplot \in Writing
    BY DEF PipesInv
  <2> QED
    BY <2>1, <2>2 DEF Writing
<1>2. Len(stdin) <= PipeRoom
  BY DEF PipesInv, UpTo
<1>3. handler.pipe \in Pl!Outputs \cup {"none"}
  <2>1. handler \in Handlers
    BY DEF PipesInv
  <2> QED
    BY <2>1 DEF Handlers, Pl!None
<1>4. Pl!TypeOK
  BY <1>1, <1>2, <1>3 DEF PipesInv, Pl!TypeOK, Ats
<1>5. Pl!NothingPending
  BY DEF PipesInv, Pl!NothingPending, Pl!Deaf
<1> QED
  BY <1>4, <1>5

LEMMA PipesInit == Pl!PlotPipesAssumption /\ Pl!Init => PipesInv
<1> SUFFICES ASSUME Pl!PlotPipesAssumption, Pl!Init PROVE PipesInv
  OBVIOUS
<1>1. stdin \in UpTo(PipeRoom, Commands)
  BY UpToSmall DEF Pl!PlotPipesAssumption, Pl!Init
<1>2. gnuplot \in Writing /\ 0 \in 0 .. PipeRoom
  BY DEF Pl!PlotPipesAssumption, Pl!Init, Pl!Idle, Writing, Pl!Outputs
<1>3. pipes \in [Pl!Outputs -> 0 .. PipeRoom]
  BY <1>2 DEF Pl!Init
<1>4. handler \in Handlers /\ frames \in 0 .. MaxFrames
  BY DEF Pl!PlotPipesAssumption, Pl!Init, Handlers
<1> QED
  BY <1>1, <1>2, <1>3, <1>4 DEF PipesInv, Pl!Init, Ats

LEMMA PipesStep ==
  ASSUME Pl!PlotPipesAssumption, PipesInv, [Pl!Next]_plVars
  PROVE  PipesInv'
<1> DEFINE Ins  == UpTo(PipeRoom, Commands)
           Outs == [Pl!Outputs -> 0 .. PipeRoom]
           Ios  == {"unborn", "starting", "running", "ended"}
<1>t. /\ frames \in 0 .. MaxFrames /\ MaxFrames \in Nat
      /\ gnuplot \in Writing /\ Image \in Nat /\ Image # 0
      /\ pipes \in [Pl!Outputs -> 0 .. PipeRoom] /\ PipeRoom \in Nat
  BY DEF PipesInv, Pl!PlotPipesAssumption
<1>c. /\ \A cmd \in Commands : Len(stdin) < PipeRoom => Append(stdin, cmd) \in Ins
      /\ stdin # <<>> => Tail(stdin) \in Ins /\ Head(stdin) \in Commands
  BY UpToGrows DEF PipesInv, Pl!PlotPipesAssumption
<1>h. /\ Pl!None \in Handlers
      /\ \A p \in Pl!Outputs : \A a \in {"data", "error", "taken"} : [pipe |-> p, at |-> a] \in Handlers
      /\ handler.at \in {"data", "error", "taken"} =>
           /\ handler.pipe \in Pl!Outputs /\ [handler EXCEPT !.at = "taken"] \in Handlers
           /\ handler # Pl!None
  <2>1. CASE handler = Pl!None
    BY <2>1 DEF Handlers, Pl!None
  <2>2. CASE handler \in [pipe : Pl!Outputs, at : {"data", "error", "taken"}]
    BY <2>2 DEF Handlers, Pl!None, Pl!Outputs
  <2> QED
    BY <2>1, <2>2 DEF PipesInv, Handlers
<1>w. /\ Pl!Idle \in Writing /\ [to |-> "exited", left |-> 0] \in Writing
      /\ [to |-> "out", left |-> Image] \in Writing /\ [to |-> "err", left |-> 1] \in Writing
      /\ gnuplot = Pl!Idle \/ gnuplot.left > 0 => gnuplot.to # "exited"
      /\ gnuplot.left > 0 => gnuplot.to \in Pl!Outputs /\ [gnuplot EXCEPT !.left = @ - 1] \in Writing
  <2>1. Image \in Nat /\ Image >= 1 /\ gnuplot \in Writing
    BY <1>t
  <2>2. CASE gnuplot = [to |-> "exited", left |-> 0]
    BY <2>1, <2>2 DEF Writing, Pl!Idle, Pl!Outputs
  <2>3. CASE gnuplot \in [to : Pl!Outputs, left : 0 .. Image]
    BY <2>1, <2>3 DEF Writing, Pl!Idle, Pl!Outputs
  <2> QED
    BY <2>1, <2>2, <2>3 DEF Writing
<1>p. /\ \A p \in Pl!Outputs : \A n \in 1 .. pipes[p] : [pipes EXCEPT ![p] = @ - n] \in Outs
      /\ \A p \in Pl!Outputs : pipes[p] < PipeRoom => [pipes EXCEPT ![p] = @ + 1] \in Outs
  BY <1>t
<1>a. \A p \in Pl!Outputs : armed \cup {p} \in SUBSET Pl!Outputs /\ armed \ {p} \in SUBSET Pl!Outputs
  BY DEF PipesInv
<1>o. "out" \in Pl!Outputs /\ "err" \in Pl!Outputs
  BY DEF Pl!Outputs
<1>f. frames < MaxFrames => frames + 1 \in 0 .. MaxFrames
  BY <1>t
<1> USE DEF PipesInv
<1> HIDE DEF Ins, Outs
<1>0. /\ stdin \in Ins /\ pipes \in Outs
  BY DEF Ins, Outs
<1>g. ASSUME /\ at' \in Ats /\ drawer' \in {"idle", "pushing"} /\ frames' \in 0 .. MaxFrames
             /\ stdin' \in Ins /\ pipes' \in Outs
             /\ gnuplot' \in Writing /\ io' \in Ios
             /\ armed' \in SUBSET Pl!Outputs /\ handler' \in Handlers /\ stopped' \in BOOLEAN /\ fits' \in BOOLEAN
             /\ io' # "running" => handler' = Pl!None
             /\ at' \in {"join io", "done"} => gnuplot'.to = "exited"
             /\ at' = "done" => io' = "ended"
             /\ at' = "thread" => io' = "unborn"
      PROVE  PipesInv'
  BY <1>g DEF Ins, Outs
<1>1. ASSUME UNCHANGED plVars PROVE PipesInv'
  BY <1>0, <1>1, <1>g DEF plVars
<1>2. ASSUME Pl!StartThread PROVE PipesInv'
  BY <1>0, <1>2, <1>g DEF Pl!StartThread, Ats
<1>3. ASSUME Pl!Arm PROVE PipesInv'
  BY <1>0, <1>3, <1>a, <1>g, <1>o DEF Pl!Arm, Pl!read_some_wrapper, Ats
<1>4. ASSUME Pl!Header PROVE PipesInv'
  BY <1>0, <1>4, <1>c, <1>g DEF Pl!Header, Pl!push_gp_in, Ats, Commands
<1>5. ASSUME Pl!draw_memory PROVE PipesInv'
  BY <1>0, <1>5, <1>f, <1>g DEF Pl!draw_memory
<1>6. ASSUME Pl!Push PROVE PipesInv'
  BY <1>0, <1>6, <1>c, <1>g DEF Pl!Push, Pl!push_gp_in, Commands
<1>7. ASSUME Pl!Close PROVE PipesInv'
  BY <1>0, <1>7, <1>g DEF Pl!Close, Ats
<1>8. ASSUME Pl!Stop PROVE PipesInv'
  BY <1>0, <1>8, <1>g DEF Pl!Stop, Ats
<1>9. ASSUME Pl!Quit PROVE PipesInv'
  BY <1>0, <1>9, <1>c, <1>g DEF Pl!Quit, Pl!push_gp_in, Ats, Commands
<1>10. ASSUME Pl!JoinGnuplot PROVE PipesInv'
  BY <1>0, <1>10, <1>g DEF Pl!JoinGnuplot, Ats
<1>11. ASSUME Pl!JoinIo PROVE PipesInv'
  BY <1>0, <1>11, <1>g DEF Pl!JoinIo, Ats
<1>12. ASSUME Pl!Run PROVE PipesInv'
  BY <1>0, <1>12, <1>g DEF Pl!Run
<1>13. ASSUME NEW p \in Pl!Outputs, Pl!Complete(p) PROVE PipesInv'
  BY <1>0, <1>13, <1>a, <1>g, <1>h, <1>p DEF Pl!Complete
<1>14. ASSUME Pl!Handle PROVE PipesInv'
  BY <1>0, <1>14, <1>g, <1>h DEF Pl!Handle
<1>15. ASSUME Pl!ReadOn PROVE PipesInv'
  BY <1>0, <1>15, <1>a, <1>g, <1>h DEF Pl!ReadOn, Pl!read_some_wrapper
<1>16. ASSUME Pl!TakeCommand PROVE PipesInv'
  BY <1>0, <1>16, <1>c, <1>g, <1>w DEF Pl!TakeCommand, Commands
<1>17. ASSUME Pl!Write PROVE PipesInv'
  BY <1>0, <1>17, <1>g, <1>p, <1>w DEF Pl!Write
<1> QED
  BY <1>1, <1>2, <1>3, <1>4, <1>5, <1>6, <1>7, <1>8, <1>9, <1>10, <1>11, <1>12, <1>13, <1>14, <1>15, <1>16, <1>17
     DEF Pl!Next, Pl!Program, Pl!Asio, Pl!Gnuplot

-----------------------------------------------------------------------------
(* The packets of NgSpiceSRC. *)

Simulated == Ng!Runs \X Nat
Packets   == [run : Ng!Runs, upto : Nat, points : Seq(Simulated)]

(* The simulation of the last packet. *)
LastRun == IF packets = <<>> THEN 0 ELSE packets[Len(packets)].run

(* x points fill a number of packets. *)
Filled(x) == \E q \in Nat : x = q * Slice

NgTypes ==
  /\ thread \in {"idle", "begun", "running", "quit"}
  /\ is_loaded \in BOOLEAN /\ locked \in BOOLEAN
  /\ vectors \in 0 .. MaxRuns /\ produced \in [Ng!Runs -> 0 .. MaxPoints]
  /\ out_msg \in Seq(Simulated) /\ Len(out_msg) < Slice
  /\ packets \in Seq(Packets)

(* The runs come one after the other, and each ends with a packet that is   *)
(* not full; all that lies before a packet fills packets.                   *)
NgInv ==
  /\ NgTypes
  /\ thread = "begun" => vectors < MaxRuns
  /\ thread = "running" => vectors >= 1
  /\ \A r \in Ng!Runs : r > vectors => produced[r] = 0
  /\ IF thread = "running" THEN LastRun \in {vectors - 1, vectors} ELSE LastRun = vectors
  /\ \A i \in 1 .. Len(packets) :
       /\ packets[i].run <= LastRun
       /\ Len(packets[i].points) <= Slice
       /\ Ng!Last(i) <=> Len(packets[i].points) < Slice
       /\ Filled(Ng!Before(i))
  /\ Ng!PointsInOrder
  /\ thread = "running" => Filled(produced[vectors] - Len(out_msg))

LEMMA NgInit == Ng!NgSpiceAssumption /\ Ng!Init => NgInv
<1> SUFFICES ASSUME Ng!NgSpiceAssumption, Ng!Init PROVE NgInv
  OBVIOUS
<1>1. /\ thread = "idle" /\ is_loaded = TRUE /\ vectors = 0 /\ out_msg = <<>> /\ packets = <<>> /\ locked = FALSE
      /\ produced = [r \in Ng!Runs |-> 0]
  BY DEF Ng!Init
<1>2. Len(<<>>) = 0 /\ <<>> \in Seq(Simulated) /\ <<>> \in Seq(Packets)
  OBVIOUS
<1>3. NgTypes
  <2>1. vectors \in 0 .. MaxRuns /\ produced \in [Ng!Runs -> 0 .. MaxPoints] /\ 0 < Slice
    BY <1>1 DEF Ng!NgSpiceAssumption
  <2> QED
    BY <1>1, <1>2, <2>1 DEF NgTypes
<1>4. Ng!PointsInOrder
  BY <1>1, <1>2 DEF Ng!PointsInOrder
<1> QED
  BY <1>1, <1>2, <1>3, <1>4 DEF NgInv, LastRun

(* A packet is sent: full, while the simulation runs, or with the rest, at  *)
(* its end.                                                                 *)
LEMMA PacketSent ==
  ASSUME Ng!NgSpiceAssumption, NgInv, thread = "running",
         NEW p \in Seq(Simulated), NEW u \in 0 .. MaxPoints,
         Len(p) <= Slice, Ng!EndWith(p, vectors, u), u - Len(p) = produced[vectors] - Len(out_msg),
         packets' = Append(packets, [run |-> vectors, upto |-> u, points |-> p]),
         out_msg' = <<>>, vectors' = vectors, produced' = [produced EXCEPT ![vectors] = u],
         is_loaded' \in BOOLEAN, locked' \in BOOLEAN,
         thread' \in {"running", "idle"}, thread' = "running" <=> Len(p) = Slice
  PROVE  NgInv'
<1> DEFINE new == [run |-> vectors, upto |-> u, points |-> p]
<1>0. PICK n \in Nat : n = Len(packets)
  BY DEF NgInv, NgTypes
<1>1. /\ vectors \in Ng!Runs /\ vectors \in Nat /\ MaxRuns \in Nat /\ MaxPoints \in Nat
      /\ Slice \in Nat /\ Slice # 0 /\ u \in Nat /\ Len(p) \in Nat
      /\ n \in Nat /\ packets \in Seq(Packets) /\ produced \in [Ng!Runs -> 0 .. MaxPoints]
      /\ out_msg \in Seq(Simulated) /\ Len(out_msg) \in Nat
  BY <1>0 DEF NgInv, NgTypes, Ng!NgSpiceAssumption, Ng!Runs
<1>2. new \in Packets /\ new.run = vectors /\ new.upto = u /\ new.points = p
  BY <1>1 DEF Packets
<1> HIDE DEF new
<1>3. /\ packets' = Append(packets, new) /\ packets' \in Seq(Packets)
      /\ Len(packets') = n + 1 /\ packets'[n + 1] = new
      /\ \A i \in 1 .. n : packets'[i] = packets[i] /\ packets[i] \in Packets
  <2>1. packets' = Append(packets, new)
    BY DEF new
  <2> QED
    BY <1>0, <1>1, <1>2, <2>1, Appended
<1>4. packets' # <<>> /\ LastRun' = vectors
  <2>1. Len(packets') # Len(<<>>)
    BY <1>3
  <2>2. packets' # <<>>
    BY <2>1
  <2> QED
    BY <1>2, <1>3, <2>2 DEF LastRun
<1>5. LastRun \in {vectors - 1, vectors}
  BY DEF NgInv
<1>6. \A i \in 1 .. n : /\ packets[i].run \in Nat /\ packets[i].upto \in Nat /\ packets[i].points \in Seq(Simulated)
                        /\ Len(packets[i].points) \in Nat /\ packets[i].run <= LastRun
                        /\ packets[i].run \in Ng!Runs
  <2> SUFFICES ASSUME NEW i \in 1 .. n
               PROVE  /\ packets[i].run \in Nat /\ packets[i].upto \in Nat /\ packets[i].points \in Seq(Simulated)
                      /\ Len(packets[i].points) \in Nat /\ packets[i].run <= LastRun
                      /\ packets[i].run \in Ng!Runs
    OBVIOUS
  <2>1. packets[i] \in Packets
    BY <1>3
  <2>2. packets[i].run \in Ng!Runs /\ packets[i].upto \in Nat /\ packets[i].points \in Seq(Simulated)
    BY <2>1 DEF Packets
  <2>3. packets[i].run <= LastRun
    BY <1>0 DEF NgInv
  <2>4. Len(packets[i].points) \in Nat /\ packets[i].run \in Nat
    BY <2>2 DEF Ng!Runs
  <2> QED
    BY <2>2, <2>3, <2>4
<1>7. \A i \in 1 .. n : packets[i].run <= vectors
  BY <1>1, <1>5, <1>6
<1>8. /\ produced'[vectors] = u /\ produced' \in [Ng!Runs -> 0 .. MaxPoints]
      /\ \A r \in Ng!Runs : r # vectors => produced'[r] = produced[r]
  BY <1>1
<1>9. NgTypes'
  <2>1. <<>> \in Seq(Simulated) /\ Len(<<>>) = 0
    OBVIOUS
  <2> QED
    BY <1>1, <1>3, <1>8, <2>1 DEF NgInv, NgTypes
<1>10. ASSUME NEW i \in 1 .. n PROVE Ng!Last(i)' <=> Ng!Last(i)
  <2>1. CASE packets[i].run = vectors
    <3>1. ~Ng!Last(i)
      BY <2>1 DEF Ng!Last, Ng!run
    <3>2. n + 1 \in i + 1 .. n + 1 /\ packets'[n + 1].run = vectors /\ packets'[i].run = vectors /\ i \in 1 .. n + 1
      BY <1>1, <1>2, <1>3, <2>1
    <3>3. ASSUME Ng!Last(i)' PROVE FALSE
      <4>1. packets'[n + 1].run > packets'[i].run
        BY <1>3, <3>2, <3>3 DEF Ng!Last
      <4>2. vectors > vectors
        BY <3>2, <4>1, Zenon
      <4> QED
        BY <1>1, <4>2
    <3> QED
      BY <3>1, <3>3
  <2>2. CASE packets[i].run # vectors
    <3>1. packets[i].run < vectors /\ packets[i].run \in Nat
      BY <1>1, <1>6, <1>7, <2>2
    <3>2. Ng!Last(i) <=> \A j \in i + 1 .. n : packets[j].run > packets[i].run
      BY <1>0, <2>2 DEF Ng!Last, Ng!run
    <3>3. Ng!Last(i)' <=> \A j \in i + 1 .. n + 1 : packets'[j].run > packets'[i].run
      BY <1>3, <2>2 DEF Ng!Last, Ng!run
    <3>4. packets'[i] = packets[i] /\ packets'[n + 1].run > packets[i].run
      BY <1>1, <1>2, <1>3, <3>1
    <3>5. \A j \in i + 1 .. n : j \in 1 .. n /\ j \in i + 1 .. n + 1 /\ packets'[j] = packets[j]
      BY <1>1, <1>3
    <3>6. \A j \in i + 1 .. n + 1 : j \in i + 1 .. n \/ j = n + 1
      BY <1>1
    <3> QED
      BY <3>2, <3>3, <3>4, <3>5, <3>6
  <2> QED
    BY <2>1, <2>2
<1>11. Ng!Last(n + 1)' <=> Len(p) < Slice
  <2>1. \A j \in n + 2 .. n + 1 : FALSE
    BY <1>1
  <2>2. packets'[n + 1].run = vectors
    BY <1>2, <1>3
  <2>3. Ng!Last(n + 1)' <=> thread' # "running"
    BY <1>1, <1>3, <2>1, <2>2 DEF Ng!Last, Ng!run
  <2> QED
    BY <1>1, <2>3
<1>12. /\ \A i \in 1 .. n : Ng!Before(i)' = Ng!Before(i)
       /\ Ng!Before(n + 1)' = u - Len(p)
  BY <1>2, <1>3 DEF Ng!Before
<1>13. Filled(u - Len(p))
  BY DEF NgInv
<1>14. ASSUME NEW i \in 1 .. Len(packets')
       PROVE  /\ packets'[i].run <= LastRun'
              /\ Len(packets'[i].points) <= Slice
              /\ Ng!Last(i)' <=> Len(packets'[i].points) < Slice
              /\ Filled(Ng!Before(i)')
  <2>1. CASE i = n + 1
    BY <1>1, <1>2, <1>3, <1>4, <1>11, <1>12, <1>13, <2>1
  <2>2. CASE i # n + 1
    <3>1. i \in 1 .. n
      BY <1>1, <1>3, <2>2
    <3>2. /\ Len(packets[i].points) <= Slice /\ (Ng!Last(i) <=> Len(packets[i].points) < Slice)
          /\ Filled(Ng!Before(i))
      BY <1>0, <3>1 DEF NgInv
    <3> QED
      BY <1>3, <1>4, <1>7, <1>10, <1>12, <3>1, <3>2
  <2> QED
    BY <2>1, <2>2
<1>15. Ng!PointsInOrder'
  <2>1. ASSUME NEW i \in 1 .. Len(packets')
        PROVE  /\ Ng!EndWith(packets'[i].points, packets'[i].run, packets'[i].upto)
               /\ Ng!Last(i)' => packets'[i].upto = produced'[packets'[i].run]
               /\ IF i > 1 /\ packets'[i - 1].run = packets'[i].run
                    THEN Ng!Before(i)' = packets'[i - 1].upto
                    ELSE Ng!Before(i)' = 0 /\ packets'[i].run = IF i = 1 THEN 1 ELSE packets'[i - 1].run + 1
    <3>1. CASE i = n + 1
      <4>1. packets'[i] = new /\ Ng!Before(i)' = produced[vectors] - Len(out_msg)
        BY <1>3, <1>12, <3>1
      <4>2. produced[vectors] - Len(out_msg) =
              IF packets # <<>> /\ packets[Len(packets)].run = vectors THEN packets[Len(packets)].upto ELSE 0
        BY DEF NgInv, Ng!PointsInOrder, Ng!run
      <4>3. CASE n = 0
        <5>1. packets = <<>>
          BY <1>0, <1>3, <4>3, EmptySeq
        <5>2. vectors = 1
          BY <1>1, <1>5, <5>1 DEF LastRun, Ng!Runs
        <5> QED
          BY <1>2, <1>8, <3>1, <4>1, <4>2, <4>3, <5>1, <5>2
      <4>4. CASE n # 0
        <5>1. packets # <<>> /\ n \in 1 .. n /\ LastRun = packets[n].run /\ i - 1 = n /\ i > 1
          BY <1>0, <1>1, <3>1, <4>4 DEF LastRun
        <5>2. packets'[i - 1] = packets[n]
          BY <1>3, <5>1
        <5> QED
          BY <1>0, <1>1, <1>2, <1>5, <1>8, <4>1, <4>2, <5>1, <5>2
      <4> QED
        BY <4>3, <4>4
    <3>2. CASE i # n + 1
      <4>1. i \in 1 .. n /\ i \in 1 .. Len(packets) /\ (i > 1 => i - 1 \in 1 .. n)
        BY <1>0, <1>1, <1>3, <3>2
      <4>2. /\ Ng!EndWith(packets[i].points, packets[i].run, packets[i].upto)
            /\ Ng!Last(i) => packets[i].upto = produced[packets[i].run]
            /\ IF i > 1 /\ packets[i - 1].run = packets[i].run
                 THEN Ng!Before(i) = packets[i - 1].upto
                 ELSE Ng!Before(i) = 0 /\ packets[i].run = IF i = 1 THEN 1 ELSE packets[i - 1].run + 1
        BY <4>1 DEF NgInv, Ng!PointsInOrder
      <4>3. Ng!Last(i) => packets[i].run # vectors
        BY DEF Ng!Last, Ng!run
      <4>4. packets'[i] = packets[i] /\ packets[i].run \in Ng!Runs /\ (i > 1 => packets'[i - 1] = packets[i - 1])
        BY <1>3, <1>6, <4>1
      <4> QED
        BY <1>8, <1>10, <1>12, <4>1, <4>2, <4>3, <4>4
    <3> QED
      BY <3>1, <3>2
  <2>2. thread' = "running" =>
          /\ Ng!EndWith(<<>>, vectors, u)
          /\ u - 0 = IF packets' # <<>> /\ packets'[Len(packets')].run = vectors THEN packets'[Len(packets')].upto ELSE 0
    <3>1. Ng!EndWith(<<>>, vectors, u)
      <4>1. Len(<<>>) = 0 /\ 1 .. 0 = {}
        OBVIOUS
      <4> QED
        BY <4>1 DEF Ng!EndWith
    <3> QED
      BY <1>1, <1>2, <1>3, <1>4, <3>1
  <2>3. Len(<<>>) = 0 /\ out_msg' = <<>> /\ vectors' = vectors /\ produced'[vectors] = u
    BY <1>8
  <2>4. thread' = "running" =>
       /\ Ng!EndWith(out_msg', vectors', produced'[vectors'])
       /\ produced'[vectors'] - Len(out_msg') =
            IF packets' # <<>> /\ packets'[Len(packets')].run = vectors' THEN packets'[Len(packets')].upto ELSE 0
    BY <2>2, <2>3
  <2> QED
    BY <2>1, <2>3, <2>4 DEF Ng!PointsInOrder, Ng!EndWith, Ng!run
<1>16. thread' = "running" => Filled(produced'[vectors'] - Len(out_msg'))
  <2> SUFFICES ASSUME thread' = "running" PROVE Filled(u)
    BY <1>1, <1>8
  <2>1. PICK q \in Nat : u - Len(p) = q * Slice
    BY <1>13 DEF Filled
  <2>2. u = (q + 1) * Slice /\ q + 1 \in Nat
    <3>1. Len(p) = Slice
      OBVIOUS
    <3>2. q * Slice \in Nat
      BY <1>1
    <3>3. u = q * Slice + Slice
      BY <1>1, <2>1, <3>1, <3>2
    <3>4. (q + 1) * Slice = q * Slice + Slice
      BY <1>1
    <3> QED
      BY <3>3, <3>4
  <2> QED
    BY <2>2 DEF Filled
<1>17. \A r \in Ng!Runs : r > vectors' => produced'[r] = 0
  BY <1>1, <1>8 DEF NgInv
<1> QED
  BY <1>1, <1>4, <1>9, <1>14, <1>15, <1>16, <1>17 DEF NgInv, Filled

LEMMA NgStep ==
  ASSUME Ng!NgSpiceAssumption, NgInv, [Ng!Next]_ngVars
  PROVE  NgInv'
<1>1. /\ MaxRuns \in Nat /\ MaxPoints \in Nat /\ Slice \in Nat /\ Slice # 0 /\ NgTypes
      /\ vectors \in 0 .. MaxRuns /\ produced \in [Ng!Runs -> 0 .. MaxPoints]
      /\ out_msg \in Seq(Simulated) /\ Len(out_msg) \in Nat /\ Len(out_msg) < Slice
  BY DEF NgInv, NgTypes, Ng!NgSpiceAssumption
<1>2. thread = "running" => vectors \in Ng!Runs /\ vectors \in Nat
  BY <1>1 DEF NgInv, Ng!Runs
(* Steps that send nothing. *)
<1>3. ASSUME UNCHANGED <<vectors, produced, out_msg, packets>>, thread' = thread,
             is_loaded' \in BOOLEAN, locked' \in BOOLEAN
      PROVE  NgInv'
  <2>1. NgTypes'
    BY <1>1, <1>3 DEF NgTypes
  <2>2. \A i \in 1 .. Len(packets) : Ng!Last(i)' = Ng!Last(i) /\ Ng!Before(i)' = Ng!Before(i)
    BY <1>3 DEF Ng!Last, Ng!Before, Ng!run
  <2>3. LastRun' = LastRun
    BY <1>3 DEF LastRun
  <2>4. Ng!PointsInOrder'
    BY <1>3, <2>2 DEF NgInv, Ng!PointsInOrder, Ng!EndWith, Ng!run
  <2> QED
    BY <1>3, <2>1, <2>2, <2>3, <2>4 DEF NgInv, Filled
<1>4. ASSUME thread \in {"idle", "begun"}, thread' \in {"begun", "quit"}, thread' = "begun" => vectors < MaxRuns,
             UNCHANGED <<vectors, produced, out_msg, packets, locked>>, is_loaded' \in BOOLEAN
      PROVE  NgInv'
  <2>1. NgTypes'
    BY <1>1, <1>4 DEF NgTypes
  <2>2. \A i \in 1 .. Len(packets) : Ng!Last(i)' = Ng!Last(i) /\ Ng!Before(i)' = Ng!Before(i)
    BY <1>4 DEF Ng!Last, Ng!Before, Ng!run
  <2>3. LastRun' = LastRun
    BY <1>4 DEF LastRun
  <2>4. Ng!PointsInOrder'
    BY <1>4, <2>2 DEF NgInv, Ng!PointsInOrder, Ng!EndWith, Ng!run
  <2> QED
    BY <1>4, <2>1, <2>2, <2>3, <2>4 DEF NgInv, Filled
<1>5. ASSUME Ng!simulate PROVE NgInv'
  <2>1. thread = "idle" /\ thread' = "begun" /\ vectors < MaxRuns /\ is_loaded' \in BOOLEAN
        /\ UNCHANGED <<vectors, produced, out_msg, packets, locked>>
    BY <1>5 DEF Ng!simulate
  <2> QED
    BY <1>4, <2>1
<1>6. ASSUME Ng!exit_cb PROVE NgInv'
  <2>1. thread = "idle" /\ thread' = "quit" /\ is_loaded' \in BOOLEAN
        /\ UNCHANGED <<vectors, produced, out_msg, packets, locked>>
    BY <1>6 DEF Ng!exit_cb
  <2> QED
    BY <1>4, <2>1
<1>7. ASSUME Ng!getstat_cb \/ UNCHANGED ngVars PROVE NgInv'
  <2>1. thread' = thread /\ is_loaded' \in BOOLEAN /\ locked' \in BOOLEAN
        /\ UNCHANGED <<vectors, produced, out_msg, packets>>
    BY <1>1, <1>7 DEF Ng!getstat_cb, ngVars, NgTypes
  <2> QED
    BY <1>3, <2>1
<1>8. ASSUME Ng!initdata_cb PROVE NgInv'
  <2>1. /\ thread = "begun" /\ thread' = "running" /\ vectors' = vectors + 1
        /\ UNCHANGED <<is_loaded, produced, out_msg, packets, locked>>
    BY <1>8 DEF Ng!initdata_cb
  <2>2. vectors < MaxRuns /\ vectors \in Nat /\ LastRun = vectors /\ out_msg = <<>> /\ vectors' \in Ng!Runs
    BY <1>1, <2>1 DEF NgInv, Ng!PointsInOrder, Ng!Runs
  <2>3. NgTypes'
    BY <1>1, <2>1, <2>2 DEF NgTypes
  <2>4. \A i \in 1 .. Len(packets) : packets[i].run \in Nat /\ packets[i].run <= vectors
    <3> SUFFICES ASSUME NEW i \in 1 .. Len(packets) PROVE packets[i].run \in Nat /\ packets[i].run <= vectors
      OBVIOUS
    <3>1. packets[i] \in Packets
      BY <1>1 DEF NgTypes
    <3>2. packets[i].run \in Nat
      BY <3>1 DEF Packets, Ng!Runs
    <3> QED
      BY <2>2, <3>2 DEF NgInv
  <2>5. \A i \in 1 .. Len(packets) : Ng!Last(i)' = Ng!Last(i) /\ Ng!Before(i)' = Ng!Before(i)
    <3> SUFFICES ASSUME NEW i \in 1 .. Len(packets)
                 PROVE  Ng!Last(i)' = Ng!Last(i) /\ Ng!Before(i)' = Ng!Before(i)
      OBVIOUS
    <3>1. packets[i].run # vectors + 1
      BY <2>2, <2>4
    <3> QED
      BY <2>1, <3>1 DEF Ng!Last, Ng!Before, Ng!run
  <2>6. LastRun' = LastRun
    BY <2>1 DEF LastRun
  <2>7. produced'[vectors'] = 0 /\ Len(out_msg') = 0
    BY <2>1, <2>2 DEF NgInv
  <2>8. packets # <<>> => packets[Len(packets)].run # vectors'
    BY <2>1, <2>2 DEF LastRun
  <2>9. Ng!PointsInOrder'
    <3>1. ASSUME NEW i \in 1 .. Len(packets)
          PROVE  /\ Ng!EndWith(packets[i].points, packets[i].run, packets[i].upto)
                 /\ Ng!Last(i)' => packets[i].upto = produced[packets[i].run]
                 /\ IF i > 1 /\ packets[i - 1].run = packets[i].run
                      THEN Ng!Before(i)' = packets[i - 1].upto
                      ELSE Ng!Before(i)' = 0 /\ packets[i].run = IF i = 1 THEN 1 ELSE packets[i - 1].run + 1
      BY <2>5 DEF NgInv, Ng!PointsInOrder
    <3>2. Ng!EndWith(out_msg', vectors', produced'[vectors'])
      BY <2>7 DEF Ng!EndWith
    <3>3. produced'[vectors'] - Len(out_msg') = 0
      BY <2>7
    <3> QED
      BY <2>1, <2>2, <2>8, <3>1, <3>2, <3>3 DEF Ng!PointsInOrder, Ng!EndWith, Ng!run
  <2>10. Filled(0)
    BY <1>1 DEF Filled
  <2> QED
    BY <2>1, <2>2, <2>3, <2>4, <2>5, <2>6, <2>7, <2>9, <2>10 DEF NgInv, Filled
<1>9. ASSUME Ng!data_cb PROVE NgInv'
  <2> DEFINE number == produced[vectors] + 1
             points == Append(out_msg, <<vectors, number>>)
  <2>1. /\ thread = "running" /\ thread' = thread /\ produced[vectors] < MaxPoints
        /\ produced' = [produced EXCEPT ![vectors] = number]
        /\ IF Len(points) >= Slice
             THEN packets' = Append(packets, [run |-> vectors, upto |-> number, points |-> points]) /\ out_msg' = <<>>
             ELSE out_msg' = points /\ UNCHANGED packets
        /\ UNCHANGED <<is_loaded, vectors, locked>>
    BY <1>9 DEF Ng!data_cb, Ng!send_out_message, Ng!run
  <2>2. vectors \in Ng!Runs /\ produced[vectors] \in Nat /\ number \in 0 .. MaxPoints /\ <<vectors, number>> \in Simulated
    BY <1>1, <1>2, <2>1 DEF Simulated
  <2>3. /\ points \in Seq(Simulated) /\ Len(points) = Len(out_msg) + 1
        /\ points[Len(out_msg) + 1] = <<vectors, number>>
        /\ \A i \in 1 .. Len(out_msg) : points[i] = out_msg[i]
    BY <1>1, <2>2, Appended
  <2> HIDE DEF points
  <2>4. Ng!EndWith(points, vectors, number)
    <3> SUFFICES ASSUME NEW j \in 1 .. Len(points) PROVE points[j] = <<vectors, number - Len(points) + j>>
      BY DEF Ng!EndWith
    <3>1. CASE j = Len(out_msg) + 1
      BY <1>1, <2>2, <2>3, <3>1
    <3>2. CASE j # Len(out_msg) + 1
      <4>1. j \in 1 .. Len(out_msg)
        BY <1>1, <2>3, <3>2
      <4>2. out_msg[j] = <<vectors, produced[vectors] - Len(out_msg) + j>>
        BY <2>1, <4>1 DEF NgInv, Ng!PointsInOrder, Ng!EndWith, Ng!run
      <4>3. number - Len(points) + j = produced[vectors] - Len(out_msg) + j
        BY <1>1, <2>2, <2>3
      <4> QED
        BY <2>3, <4>1, <4>2, <4>3
    <3> QED
      BY <3>1, <3>2
  <2>5. number - Len(points) = produced[vectors] - Len(out_msg)
    BY <1>1, <2>2, <2>3
  <2>6. PICK u \in 0 .. MaxPoints : u = number
    BY <2>2
  <2>7. PICK p \in Seq(Simulated) : p = points
    BY <2>3
  <2>8. CASE Len(points) >= Slice
    <3>1. Len(p) = Slice /\ Len(p) <= Slice
      BY <1>1, <2>3, <2>7, <2>8
    <3>2. Ng!EndWith(p, vectors, u) /\ u - Len(p) = produced[vectors] - Len(out_msg)
      BY <2>4, <2>5, <2>6, <2>7
    <3>3. /\ packets' = Append(packets, [run |-> vectors, upto |-> u, points |-> p])
          /\ out_msg' = <<>> /\ vectors' = vectors /\ produced' = [produced EXCEPT ![vectors] = u]
          /\ is_loaded' \in BOOLEAN /\ locked' \in BOOLEAN
          /\ thread' = "running"
      BY <1>1, <2>1, <2>6, <2>7, <2>8 DEF NgTypes
    <3> QED
      BY <2>1, <3>1, <3>2, <3>3, PacketSent
  <2>9. CASE ~(Len(points) >= Slice)
    <3>1. /\ out_msg' = p /\ packets' = packets /\ vectors' = vectors
          /\ produced' = [produced EXCEPT ![vectors] = u] /\ thread' = "running"
          /\ UNCHANGED <<is_loaded, locked>>
      BY <2>1, <2>6, <2>7, <2>9
    <3>2. /\ produced'[vectors] = u /\ produced' \in [Ng!Runs -> 0 .. MaxPoints]
          /\ \A r \in Ng!Runs : r # vectors => produced'[r] = produced[r]
      BY <1>1, <2>2, <3>1
    <3>3. Len(p) < Slice /\ u - Len(p) = produced[vectors] - Len(out_msg)
      BY <1>1, <2>3, <2>5, <2>6, <2>7, <2>9
    <3>4. NgTypes'
      BY <1>1, <3>1, <3>2, <3>3 DEF NgTypes
    <3>5. \A i \in 1 .. Len(packets) : Ng!Last(i)' = Ng!Last(i) /\ Ng!Before(i)' = Ng!Before(i)
      BY <2>1, <3>1 DEF Ng!Last, Ng!Before, Ng!run
    <3>6. LastRun' = LastRun
      BY <3>1 DEF LastRun
    <3>7. \A i \in 1 .. Len(packets) : packets[i].run \in Ng!Runs
      <4> SUFFICES ASSUME NEW i \in 1 .. Len(packets) PROVE packets[i].run \in Ng!Runs
        OBVIOUS
      <4>1. packets[i] \in Packets
        BY <1>1 DEF NgTypes
      <4> QED
        BY <4>1 DEF Packets
    <3>8. Ng!PointsInOrder'
      <4>1. \A i \in 1 .. Len(packets) : Ng!Last(i) => packets[i].run # vectors
        BY <2>1 DEF Ng!Last, Ng!run
      <4>2. Ng!EndWith(p, vectors, u)
        BY <2>4, <2>6, <2>7
      <4> QED
        BY <2>1, <3>1, <3>2, <3>3, <3>5, <3>7, <4>1, <4>2 DEF NgInv, Ng!PointsInOrder, Ng!EndWith, Ng!run
    <3>9. \A r \in Ng!Runs : r > vectors' => produced'[r] = 0
      <4>1. \A r \in Ng!Runs : r > vectors => r # vectors
        BY <1>2, <2>1 DEF Ng!Runs
      <4> QED
        BY <3>1, <3>2, <4>1 DEF NgInv
    <3> QED
      BY <2>1, <3>1, <3>2, <3>3, <3>4, <3>5, <3>6, <3>8, <3>9 DEF NgInv, Filled
  <2> QED
    BY <2>8, <2>9
<1>10. ASSUME Ng!simulation_runs_cb PROVE NgInv'
  <2>1. /\ thread = "running" /\ thread' = "idle"
        /\ packets' = Append(packets, [run |-> vectors, upto |-> produced[vectors], points |-> out_msg])
        /\ out_msg' = <<>> /\ UNCHANGED <<is_loaded, vectors, produced, locked>>
    BY <1>10 DEF Ng!simulation_runs_cb, Ng!send_out_message, Ng!run
  <2>2. PICK u \in 0 .. MaxPoints : u = produced[vectors]
    BY <1>1, <1>2, <2>1
  <2>3. PICK p \in Seq(Simulated) : p = out_msg
    BY <1>1
  <2>4. Ng!EndWith(p, vectors, u)
    BY <2>1, <2>2, <2>3 DEF NgInv, Ng!PointsInOrder, Ng!run
  <2>5. produced' = [produced EXCEPT ![vectors] = u]
    BY <1>1, <2>1, <2>2
  <2>6. Len(p) <= Slice /\ Len(p) # Slice /\ u - Len(p) = produced[vectors] - Len(out_msg)
    BY <1>1, <2>2, <2>3
  <2>7. /\ packets' = Append(packets, [run |-> vectors, upto |-> u, points |-> p])
        /\ is_loaded' \in BOOLEAN /\ locked' \in BOOLEAN
    BY <1>1, <2>1, <2>2, <2>3 DEF NgTypes
  <2> QED
    BY <2>1, <2>4, <2>5, <2>6, <2>7, PacketSent
<1> QED
  BY <1>5, <1>6, <1>7, <1>8, <1>9, <1>10 DEF Ng!Next

(* What is left over after full packets is the remainder.                   *)
LEMMA Remainder ==
  ASSUME NEW s \in Nat \ {0}, NEW q \in Nat, NEW r \in 0 .. s - 1, NEW x \in Nat, x = q * s + r
  PROVE  x % s = r
<1> DEFINE d == x \div s
           m == x % s
<1>1. m \in 0 .. s - 1 /\ x = s * d + m /\ d \in Int
  OBVIOUS
<1> HIDE DEF d, m
<1>2. PICK e \in Int : e = d - q
  BY <1>1
<1>3. s * d = s * q + s * e
  BY <1>1, <1>2
<1>4. r - m = s * e
  BY <1>1, <1>3
<1>5. CASE e >= 1
  <2>1. s * e >= s
    BY <1>5
  <2> QED
    BY <1>1, <1>4, <2>1
<1>6. CASE e <= -1
  <2>1. s * e <= -s
    BY <1>6
  <2> QED
    BY <1>1, <1>4, <2>1
<1>7. CASE e = 0
  BY <1>1, <1>4, <1>7 DEF m
<1> QED
  BY <1>2, <1>5, <1>6, <1>7

LEMMA NgHolds ==
  ASSUME Ng!NgSpiceAssumption, NgInv
  PROVE  Ng!TypeOK /\ Ng!PointsInOrder /\ Ng!RemainderLast
<1>1. Ng!TypeOK
  BY DEF NgInv, NgTypes, Ng!TypeOK
<1>2. Ng!RemainderLast
  <2> SUFFICES ASSUME NEW i \in 1 .. Len(packets)
               PROVE  /\ Len(packets[i].points) = IF Ng!Last(i) THEN produced[packets[i].run] % Slice ELSE Slice
                      /\ Ng!dev_proc(packets[i]) = "throws" <=> Ng!Last(i) /\ produced[packets[i].run] % Slice = 0
    BY DEF Ng!RemainderLast
  <2>1. /\ Slice \in Nat \ {0} /\ packets[i] \in Packets
    BY DEF NgInv, NgTypes, Ng!NgSpiceAssumption
  <2>2. packets[i].points \in Seq(Simulated) /\ packets[i].upto \in Nat /\ Len(packets[i].points) \in Nat
    BY <2>1 DEF Packets
  <2>3. /\ Len(packets[i].points) <= Slice /\ (Ng!Last(i) <=> Len(packets[i].points) < Slice)
        /\ Filled(packets[i].upto - Len(packets[i].points))
    BY DEF NgInv, Ng!Before
  <2>4. ASSUME Ng!Last(i) PROVE Len(packets[i].points) = produced[packets[i].run] % Slice
    <3>1. packets[i].upto = produced[packets[i].run]
      BY <2>4 DEF NgInv, Ng!PointsInOrder
    <3>2. PICK q \in Nat : packets[i].upto - Len(packets[i].points) = q * Slice
      BY <2>3 DEF Filled
    <3>3. PICK r \in 0 .. Slice - 1 : r = Len(packets[i].points)
      BY <2>1, <2>2, <2>3, <2>4
    <3>4. PICK x \in Nat : x = packets[i].upto
      BY <2>2
    <3>5. q * Slice \in Nat
      BY <2>1
    <3>6. x = q * Slice + r
      BY <2>1, <2>2, <3>2, <3>3, <3>4, <3>5
    <3>7. x % Slice = r
      BY <2>1, <3>6, Remainder
    <3> QED
      BY <3>1, <3>3, <3>4, <3>7, Zenon
  <2>5. packets[i].points = <<>> <=> Len(packets[i].points) = 0
    BY <2>2, EmptySeq
  <2>6. Ng!dev_proc(packets[i]) = "throws" <=> Len(packets[i].points) = 0
    BY <2>5 DEF Ng!dev_proc
  <2>7. Len(packets[i].points) = 0 => Ng!Last(i)
    BY <2>1, <2>3
  <2> QED
    BY <2>1, <2>2, <2>3, <2>4, <2>6, <2>7
<1> QED
  BY <1>1, <1>2 DEF NgInv

-----------------------------------------------------------------------------
(* The serial parsers. *)

(* A set of natural numbers has a least element. *)
LEMMA LeastNumber ==
  ASSUME NEW places \in SUBSET Nat, places # {}
  PROVE  \E n \in places : \A m \in places : n <= m
<1> DEFINE I == {1 .. n : n \in places}
           R == StrictSubsetOrdering(Nat)
<1>1. IsWellFoundedOn(R, FiniteSubsetsOf(Nat))
  BY FS_StrictSubsetOrderingWellFounded
<1>2. I \subseteq FiniteSubsetsOf(Nat) /\ I # {}
  <2>1. \A n \in places : 1 .. n \in SUBSET Nat /\ IsFiniteSet(1 .. n)
    BY FS_Interval
  <2> QED
    BY <2>1 DEF FiniteSubsetsOf
<1>3. \E x \in I : \A y \in I : ~ (<<y, x>> \in R)
  <2> HIDE DEF I, R
  <2> QED
    BY <1>1, <1>2, WFMin
<1>4. PICK n \in places : \A m \in places : <<1 .. m, 1 .. n>> \notin R
  BY <1>3
<1>5. ASSUME NEW m \in places, m < n PROVE FALSE
  <2>1. 1 .. m \subseteq 1 .. n /\ n \in 1 .. n /\ n \notin 1 .. m
    BY <1>5
  <2>2. 1 .. m \in SUBSET Nat /\ 1 .. n \in SUBSET Nat
    OBVIOUS
  <2>3. <<1 .. m, 1 .. n>> \in R
    BY <2>1, <2>2, Zenon DEF StrictSubsetOrdering
  <2> QED
    BY <2>3, <1>4
<1> QED
  BY <1>5

-----------------------------------------------------------------------------
(* The parsers of serial streams. *)

LEMMA FirstIs ==
  ASSUME NEW places \in SUBSET (Nat \ {0})
  PROVE  /\ Pa!First(places) \in Nat
         /\ Pa!First(places) = 0 <=> places = {}
         /\ Pa!First(places) # 0 => Pa!First(places) \in places
         /\ \A j \in places : Pa!First(places) <= j
<1>1. CASE places = {}
  BY <1>1 DEF Pa!First
<1>2. CASE places # {}
  <2>1. \E i \in places : \A j \in places : i <= j
    BY <1>2, LeastNumber
  <2>2. Pa!First(places) \in places /\ \A j \in places : Pa!First(places) <= j
    BY <1>2, <2>1 DEF Pa!First
  <2> QED
    BY <1>2, <2>2
<1> QED
  BY <1>1, <1>2

SerialBytes == {"B", "EGIN", "low", "high", "E", "ND", "T", "ten", "one", "\n"} \X Nat

(* A stream of frames, and a stream of lines. *)
Framed(S) ==
  /\ S \in Seq(SerialBytes) /\ Len(S) = 6 * Messages
  /\ \A i \in 1 .. 6 * Messages :
       \E k \in 1 .. Messages :
         \/ i = 6 * k - 5 /\ S[i] = <<"B", k>>
         \/ i = 6 * k - 4 /\ S[i] = <<"EGIN", k>>
         \/ i = 6 * k - 3 /\ S[i] = <<"low", k>>
         \/ i = 6 * k - 2 /\ S[i] = <<"high", k>>
         \/ i = 6 * k - 1 /\ S[i] = <<"E", k>>
         \/ i = 6 * k /\ S[i] = <<"ND", k>>

Lined(S) ==
  /\ S \in Seq(SerialBytes) /\ Len(S) = 4 * Messages
  /\ \A i \in 1 .. 4 * Messages :
       \E k \in 1 .. Messages :
         \/ i = 4 * k - 3 /\ S[i] = <<"T", k>>
         \/ i = 4 * k - 2 /\ S[i] = <<"ten", k>>
         \/ i = 4 * k - 1 /\ S[i] = <<"one", k>>
         \/ i = 4 * k /\ S[i] = <<"\n", k>>

LEMMA ReceiverStream ==
  ASSUME Pa!SerialParsersAssumption, parser = "Receiver"
  PROVE  Framed(Pa!Stream)
<1>1. Pa!Roles = <<"B", "EGIN", "low", "high", "E", "ND">>
  BY DEF Pa!Roles, Pa!loop
<1>2. Len(Pa!Roles) = 6
  BY <1>1
<1>3. Pa!Stream = [i \in 1 .. Messages * 6 |-> <<Pa!Roles[1 + ((i - 1) % 6)], 1 + ((i - 1) \div 6)>>]
  BY <1>2 DEF Pa!Stream
<1>4. Messages \in Nat /\ Messages * 6 = 6 * Messages /\ 6 * Messages \in Nat
  BY DEF Pa!SerialParsersAssumption
<1>5. ASSUME NEW i \in 1 .. 6 * Messages
      PROVE  \E k \in 1 .. Messages :
                \/ i = 6 * k - 5 /\ Pa!Stream[i] = <<"B", k>>
                \/ i = 6 * k - 4 /\ Pa!Stream[i] = <<"EGIN", k>>
                \/ i = 6 * k - 3 /\ Pa!Stream[i] = <<"low", k>>
                \/ i = 6 * k - 2 /\ Pa!Stream[i] = <<"high", k>>
                \/ i = 6 * k - 1 /\ Pa!Stream[i] = <<"E", k>>
                \/ i = 6 * k /\ Pa!Stream[i] = <<"ND", k>>
  <2>1. PICK k \in 1 .. Messages : k = 1 + ((i - 1) \div 6)
    BY <1>4
  <2>2. PICK r \in 0 .. 5 : r = (i - 1) % 6
    BY <1>4
  <2>3. i = 6 * k - 5 + r
    BY <1>4, <2>1, <2>2
  <2>4. Pa!Stream[i] = <<Pa!Roles[1 + r], k>>
    BY <1>3, <1>4, <2>1, <2>2
  <2>5. /\ r = 0 => Pa!Roles[1 + r] = "B"
        /\ r = 1 => Pa!Roles[1 + r] = "EGIN"
        /\ r = 2 => Pa!Roles[1 + r] = "low"
        /\ r = 3 => Pa!Roles[1 + r] = "high"
        /\ r = 4 => Pa!Roles[1 + r] = "E"
        /\ r = 5 => Pa!Roles[1 + r] = "ND"
    BY <1>1
  <2> QED
    BY <1>4, <2>2, <2>3, <2>4, <2>5
<1>6. ASSUME NEW i \in 1 .. 6 * Messages PROVE Pa!Stream[i] \in SerialBytes
  <2>1. \A k \in 1 .. Messages :
          /\ <<"B", k>> \in SerialBytes /\ <<"EGIN", k>> \in SerialBytes /\ <<"low", k>> \in SerialBytes
          /\ <<"high", k>> \in SerialBytes /\ <<"E", k>> \in SerialBytes /\ <<"ND", k>> \in SerialBytes
    BY <1>4 DEF SerialBytes
  <2> QED
    BY <1>5, <2>1
<1>7. Pa!Stream \in [1 .. 6 * Messages -> SerialBytes]
  BY <1>3, <1>4, <1>6
<1>8. Pa!Stream \in Seq(SerialBytes) /\ Len(Pa!Stream) = 6 * Messages
  <2> DEFINE str == Pa!Stream
  <2>1. str \in [1 .. 6 * Messages -> SerialBytes]
    BY <1>7
  <2> HIDE DEF str
  <2>2. str \in Seq(SerialBytes) /\ Len(str) = 6 * Messages
    BY <1>4, <2>1, LenProperties
  <2> QED
    BY <2>2 DEF str
<1> QED
  BY <1>5, <1>8 DEF Framed

LEMMA TrackerStream ==
  ASSUME Pa!SerialParsersAssumption, parser = "HWStateTracker"
  PROVE  Lined(Pa!Stream)
<1>1. Pa!Roles = <<"T", "ten", "one", "\n">>
  BY DEF Pa!Roles, Pa!Line
<1>2. Len(Pa!Roles) = 4
  BY <1>1
<1>3. Pa!Stream = [i \in 1 .. Messages * 4 |-> <<Pa!Roles[1 + ((i - 1) % 4)], 1 + ((i - 1) \div 4)>>]
  BY <1>2 DEF Pa!Stream
<1>4. Messages \in Nat /\ Messages * 4 = 4 * Messages /\ 4 * Messages \in Nat
  BY DEF Pa!SerialParsersAssumption
<1>5. ASSUME NEW i \in 1 .. 4 * Messages
      PROVE  \E k \in 1 .. Messages :
                \/ i = 4 * k - 3 /\ Pa!Stream[i] = <<"T", k>>
                \/ i = 4 * k - 2 /\ Pa!Stream[i] = <<"ten", k>>
                \/ i = 4 * k - 1 /\ Pa!Stream[i] = <<"one", k>>
                \/ i = 4 * k /\ Pa!Stream[i] = <<"\n", k>>
  <2>1. PICK k \in 1 .. Messages : k = 1 + ((i - 1) \div 4)
    BY <1>4
  <2>2. PICK r \in 0 .. 3 : r = (i - 1) % 4
    BY <1>4
  <2>3. i = 4 * k - 3 + r
    BY <1>4, <2>1, <2>2
  <2>4. Pa!Stream[i] = <<Pa!Roles[1 + r], k>>
    BY <1>3, <1>4, <2>1, <2>2
  <2>5. /\ r = 0 => Pa!Roles[1 + r] = "T"
        /\ r = 1 => Pa!Roles[1 + r] = "ten"
        /\ r = 2 => Pa!Roles[1 + r] = "one"
        /\ r = 3 => Pa!Roles[1 + r] = "\n"
    BY <1>1
  <2> QED
    BY <1>4, <2>2, <2>3, <2>4, <2>5
<1>6. ASSUME NEW i \in 1 .. 4 * Messages PROVE Pa!Stream[i] \in SerialBytes
  <2>1. \A k \in 1 .. Messages :
          /\ <<"T", k>> \in SerialBytes /\ <<"ten", k>> \in SerialBytes
          /\ <<"one", k>> \in SerialBytes /\ <<"\n", k>> \in SerialBytes
    BY <1>4 DEF SerialBytes
  <2> QED
    BY <1>5, <2>1
<1>7. Pa!Stream \in [1 .. 4 * Messages -> SerialBytes]
  BY <1>3, <1>4, <1>6
<1>8. Pa!Stream \in Seq(SerialBytes) /\ Len(Pa!Stream) = 4 * Messages
  <2> DEFINE str == Pa!Stream
  <2>1. str \in [1 .. 4 * Messages -> SerialBytes]
    BY <1>7
  <2> HIDE DEF str
  <2>2. str \in Seq(SerialBytes) /\ Len(str) = 4 * Messages
    BY <1>4, <2>1, LenProperties
  <2> QED
    BY <2>2 DEF str
<1> QED
  BY <1>5, <1>8 DEF Lined

LEMMA SameCardinality == ASSUME NEW S PROVE Pa!Cardinality(S) = Cardinality(S)
BY DEF Pa!Cardinality, Cardinality

LEMMA FramedRoles ==
  ASSUME Messages \in Nat, NEW S, Framed(S), NEW i \in 1 .. 6 * Messages
  PROVE  \E k \in 1 .. Messages :
           /\ i \in 6 * k - 5 .. 6 * k /\ S[i] \in SerialBytes /\ S[i][2] = k
           /\ S[i][1] = "B" => i = 6 * k - 5
           /\ S[i][1] = "EGIN" => i = 6 * k - 4
           /\ S[i][1] = "low" => i = 6 * k - 3
           /\ S[i][1] = "E" => i = 6 * k - 1
           /\ S[i][1] = "ND" => i = 6 * k
<1>1. S[i] \in SerialBytes
  BY DEF Framed
<1> QED
  BY <1>1 DEF Framed

LEMMA FrameOf ==
  ASSUME Messages \in Nat, NEW S, Framed(S), NEW k \in 1 .. Messages
  PROVE  /\ S[6 * k - 5] = <<"B", k>> /\ S[6 * k - 4] = <<"EGIN", k>> /\ S[6 * k - 3] = <<"low", k>>
         /\ S[6 * k - 2] = <<"high", k>> /\ S[6 * k - 1] = <<"E", k>> /\ S[6 * k] = <<"ND", k>>
<1>1. 6 * k - 5 \in 1 .. 6 * Messages /\ S[6 * k - 5] = <<"B", k>>
  BY DEF Framed
<1>2. 6 * k - 4 \in 1 .. 6 * Messages /\ S[6 * k - 4] = <<"EGIN", k>>
  BY DEF Framed
<1>3. 6 * k - 3 \in 1 .. 6 * Messages /\ S[6 * k - 3] = <<"low", k>>
  BY DEF Framed
<1>4. 6 * k - 2 \in 1 .. 6 * Messages /\ S[6 * k - 2] = <<"high", k>>
  BY DEF Framed
<1>5. 6 * k - 1 \in 1 .. 6 * Messages /\ S[6 * k - 1] = <<"E", k>>
  BY DEF Framed
<1>6. 6 * k \in 1 .. 6 * Messages /\ S[6 * k] = <<"ND", k>>
  BY DEF Framed
<1> QED
  BY <1>1, <1>2, <1>3, <1>4, <1>5, <1>6

LEMMA LinedRoles ==
  ASSUME Messages \in Nat, NEW S, Lined(S), NEW i \in 1 .. 4 * Messages
  PROVE  \E k \in 1 .. Messages :
           /\ i \in 4 * k - 3 .. 4 * k /\ S[i] \in SerialBytes /\ S[i][2] = k
           /\ S[i][1] = "T" => i = 4 * k - 3
           /\ S[i][1] = "ten" => i = 4 * k - 2
           /\ S[i][1] = "\n" => i = 4 * k
<1>1. S[i] \in SerialBytes
  BY DEF Lined
<1> QED
  BY <1>1 DEF Lined

LEMMA LineOf ==
  ASSUME Messages \in Nat, NEW S, Lined(S), NEW k \in 1 .. Messages
  PROVE  /\ S[4 * k - 3] = <<"T", k>> /\ S[4 * k - 2] = <<"ten", k>>
         /\ S[4 * k - 1] = <<"one", k>> /\ S[4 * k] = <<"\n", k>>
<1>1. 4 * k - 3 \in 1 .. 4 * Messages /\ S[4 * k - 3] = <<"T", k>>
  BY DEF Lined
<1>2. 4 * k - 2 \in 1 .. 4 * Messages /\ S[4 * k - 2] = <<"ten", k>>
  BY DEF Lined
<1>3. 4 * k - 1 \in 1 .. 4 * Messages /\ S[4 * k - 1] = <<"one", k>>
  BY DEF Lined
<1>4. 4 * k \in 1 .. 4 * Messages /\ S[4 * k] = <<"\n", k>>
  BY DEF Lined
<1> QED
  BY <1>1, <1>2, <1>3, <1>4

(* Bytes b of stream S that came before place p, with c blocks lost: w is   *)
(* where each of them stands in the stream, l how many blocks were lost     *)
(* before it.  Bytes between which no block was lost are neighbours.        *)
Placed(S, b, w, l, p, c) ==
  /\ w \in [1 .. Len(b) -> Nat] /\ l \in [1 .. Len(b) -> Nat]
  /\ \A i \in 1 .. Len(b) :
       w[i] \in 1 .. p /\ l[i] <= c /\ b[i] = S[w[i]] /\ (l[i] = c => w[i] = p - (Len(b) - i))
  /\ \A i, j \in 1 .. Len(b) :
       i < j => w[i] < w[j] /\ l[i] <= l[j] /\ (l[i] = l[j] => w[j] - w[i] = j - i)

(* They all came after place f and the loss of g blocks. *)
Beyond(b, w, l, f, g) == \A i \in 1 .. Len(b) : f < w[i] /\ g <= l[i]

LEMMA PlacedLost ==
  ASSUME NEW S, NEW b \in Seq(SerialBytes), NEW w, NEW l, NEW p \in Nat, NEW c \in Nat, NEW n \in Nat,
         Placed(S, b, w, l, p, c)
  PROVE  Placed(S, b, w, l, p + n, c + 1)
BY DEF Placed

(* q is b and the n bytes of S from place p + 1. *)
Extended(S, b, q, p, n, c, f, g) ==
  /\ q \in Seq(SerialBytes) /\ Len(q) = Len(b) + n
  /\ \A i \in 1 .. Len(b) : q[i] = b[i]
  /\ \A i \in 1 .. n : q[Len(b) + i] = S[p + i]
  /\ \E w, l : /\ Placed(S, q, w, l, p + n, c) /\ Beyond(q, w, l, f, g)
               /\ \A i \in Len(b) + 1 .. Len(b) + n : l[i] = c

LEMMA PlacedJoined ==
  ASSUME NEW S \in Seq(SerialBytes), NEW b \in Seq(SerialBytes), NEW w, NEW l,
         NEW p \in Nat, NEW c \in Nat, NEW n \in Nat, p + n <= Len(S),
         NEW f \in 0 .. p, NEW g \in 0 .. c,
         Placed(S, b, w, l, p, c), Beyond(b, w, l, f, g)
  PROVE  Extended(S, b, b \o SubSeq(S, p + 1, p + n), p, n, c, f, g)
<1> DEFINE more == SubSeq(S, p + 1, p + n)
           q == b \o more
           m == Len(b)
           w1 == [i \in 1 .. m + n |-> IF i <= m THEN w[i] ELSE p + (i - m)]
           l1 == [i \in 1 .. m + n |-> IF i <= m THEN l[i] ELSE c]
<1>1. more \in Seq(SerialBytes) /\ Len(more) = n /\ \A i \in 1 .. n : more[i] = S[p + i]
  <2>1. p + n \in 0 .. Len(S) /\ p + 1 \in 1 .. Len(S) + 1 /\ p + 1 <= p + n + 1 /\ (p + n) - (p + 1) + 1 = n
    OBVIOUS
  <2>2. SubSeq(S, p + 1, p + n) \in Seq(SerialBytes)
    BY <2>1
  <2>3. Len(SubSeq(S, p + 1, p + n)) = n
    BY <2>1
  <2>4. \A i \in 1 .. n : SubSeq(S, p + 1, p + n)[i] = S[p + i]
    BY <2>1
  <2> QED
    BY <2>2, <2>3, <2>4
<1>2. m \in Nat
  OBVIOUS
<1> HIDE DEF more, m
<1>3. q \in Seq(SerialBytes) /\ Len(q) = m + n
  <2>1. b \o more \in Seq(SerialBytes) /\ Len(b \o more) = Len(b) + Len(more)
    BY <1>1, Joined
  <2> QED
    BY <1>1, <2>1 DEF m
<1>4. /\ \A i \in 1 .. m : q[i] = b[i]
      /\ \A i \in m + 1 .. m + n : q[i] = S[p + (i - m)]
  BY <1>1, <1>2 DEF m
<1> HIDE DEF q
<1>5. /\ w \in [1 .. m -> Nat] /\ l \in [1 .. m -> Nat]
      /\ \A i \in 1 .. m :
           w[i] \in 1 .. p /\ l[i] <= c /\ b[i] = S[w[i]] /\ (l[i] = c => w[i] = p - (m - i))
      /\ \A i, j \in 1 .. m :
           i < j => w[i] < w[j] /\ l[i] <= l[j] /\ (l[i] = l[j] => w[j] - w[i] = j - i)
  BY DEF Placed, m
<1>6. \A i \in 1 .. m : f < w[i] /\ g <= l[i]
  BY DEF Beyond, m
<1>7. /\ w1 \in [1 .. m + n -> Nat] /\ l1 \in [1 .. m + n -> Nat]
      /\ \A i \in 1 .. m : w1[i] = w[i] /\ l1[i] = l[i]
      /\ \A i \in m + 1 .. m + n : w1[i] = p + (i - m) /\ l1[i] = c
  BY <1>2, <1>5
<1> HIDE DEF w1, l1
<1>8. \A i \in 1 .. m + n :
        w1[i] \in 1 .. p + n /\ l1[i] <= c /\ q[i] = S[w1[i]] /\ (l1[i] = c => w1[i] = (p + n) - ((m + n) - i))
  <2> TAKE i \in 1 .. m + n
  <2>1. CASE i <= m
    <3>1. i \in 1 .. m
      BY <1>2, <2>1
    <3>2. w1[i] = w[i] /\ l1[i] = l[i] /\ q[i] = b[i]
      BY <1>4, <1>7, <3>1
    <3>3. w[i] \in 1 .. p /\ l[i] <= c /\ b[i] = S[w[i]] /\ (l[i] = c => w[i] = p - (m - i))
      BY <1>5, <3>1
    <3> QED
      BY <1>2, <3>1, <3>2, <3>3
  <2>2. CASE i > m
    <3>1. i \in m + 1 .. m + n
      BY <1>2, <2>2
    <3>2. w1[i] = p + (i - m) /\ l1[i] = c /\ q[i] = S[p + (i - m)]
      BY <1>4, <1>7, <3>1
    <3> QED
      BY <1>2, <3>1, <3>2
  <2> QED
    BY <1>2, <2>1, <2>2
<1>9. \A i, j \in 1 .. m + n :
        i < j => w1[i] < w1[j] /\ l1[i] <= l1[j] /\ (l1[i] = l1[j] => w1[j] - w1[i] = j - i)
  <2> SUFFICES ASSUME NEW i \in 1 .. m + n, NEW j \in 1 .. m + n, i < j
               PROVE  w1[i] < w1[j] /\ l1[i] <= l1[j] /\ (l1[i] = l1[j] => w1[j] - w1[i] = j - i)
    OBVIOUS
  <2>1. CASE j <= m
    <3>1. i \in 1 .. m /\ j \in 1 .. m
      BY <1>2, <2>1
    <3>2. w1[i] = w[i] /\ l1[i] = l[i] /\ w1[j] = w[j] /\ l1[j] = l[j]
      BY <1>7, <3>1
    <3>3. w[i] < w[j] /\ l[i] <= l[j] /\ (l[i] = l[j] => w[j] - w[i] = j - i)
      BY <1>5, <3>1
    <3> QED
      BY <3>2, <3>3
  <2>2. CASE i <= m /\ j > m
    <3>1. i \in 1 .. m /\ j \in m + 1 .. m + n
      BY <1>2, <2>2
    <3>2. w1[i] = w[i] /\ l1[i] = l[i] /\ w1[j] = p + (j - m) /\ l1[j] = c
      BY <1>7, <3>1
    <3>3. w[i] \in 1 .. p /\ l[i] <= c /\ (l[i] = c => w[i] = p - (m - i))
      BY <1>5, <3>1
    <3> QED
      BY <1>2, <3>1, <3>2, <3>3
  <2>3. CASE i > m
    <3>1. i \in m + 1 .. m + n /\ j \in m + 1 .. m + n
      BY <1>2, <2>3
    <3>2. w1[i] = p + (i - m) /\ l1[i] = c /\ w1[j] = p + (j - m) /\ l1[j] = c
      BY <1>7, <3>1
    <3> QED
      BY <1>2, <3>1, <3>2
  <2> QED
    BY <1>2, <2>1, <2>2, <2>3
<1>10. \A i \in 1 .. m + n : f < w1[i] /\ g <= l1[i]
  <2> TAKE i \in 1 .. m + n
  <2>1. CASE i <= m
    <3>1. i \in 1 .. m
      BY <1>2, <2>1
    <3> QED
      BY <1>6, <1>7, <3>1
  <2>2. CASE i > m
    <3>1. i \in m + 1 .. m + n
      BY <1>2, <2>2
    <3>2. w1[i] = p + (i - m) /\ l1[i] = c
      BY <1>7, <3>1
    <3> QED
      BY <1>2, <3>1, <3>2
  <2> QED
    BY <1>2, <2>1, <2>2
<1>11. Placed(S, q, w1, l1, p + n, c) /\ Beyond(q, w1, l1, f, g)
  <2>1. Len(q) = m + n
    BY <1>3
  <2>2. Placed(S, q, w1, l1, p + n, c)
    BY <1>7, <1>8, <1>9, <2>1, Zenon DEF Placed
  <2> QED
    BY <1>10, <2>1, <2>2, Zenon DEF Beyond
<1>12. /\ q \in Seq(SerialBytes) /\ Len(q) = Len(b) + n
       /\ \A i \in 1 .. Len(b) : q[i] = b[i]
       /\ \A i \in 1 .. n : q[Len(b) + i] = S[p + i]
  <2>1. \A i \in 1 .. n : m + i \in m + 1 .. m + n /\ (m + i) - m = i
    BY <1>2
  <2>2. \A i \in 1 .. n : q[m + i] = S[p + i]
    BY <1>4, <2>1
  <2> QED
    BY <1>3, <1>4, <2>2 DEF m
<1>13. \A i \in Len(b) + 1 .. Len(b) + n : l1[i] = c
  BY <1>7 DEF m
<1>14. Extended(S, b, q, p, n, c, f, g)
  BY <1>11, <1>12, <1>13, Zenon DEF Extended
<1> QED
  BY <1>14, Zenon DEF q, more

(* What is left when the first h bytes are taken away. *)
LEMMA PlacedFrom ==
  ASSUME NEW S \in Seq(SerialBytes), NEW b \in Seq(SerialBytes), NEW w, NEW l,
         NEW p \in Nat, NEW c \in Nat, Placed(S, b, w, l, p, c), NEW h \in 1 .. Len(b)
  PROVE  /\ Pa!From(b, h + 1) \in Seq(SerialBytes) /\ Len(Pa!From(b, h + 1)) = Len(b) - h
         /\ w[h] \in 0 .. p /\ l[h] \in 0 .. c
         /\ \E w1, l1 : /\ Placed(S, Pa!From(b, h + 1), w1, l1, p, c)
                        /\ Beyond(Pa!From(b, h + 1), w1, l1, w[h], l[h])
<1> DEFINE r == Pa!From(b, h + 1)
           m == Len(b)
           w1 == [i \in 1 .. m - h |-> w[i + h]]
           l1 == [i \in 1 .. m - h |-> l[i + h]]
<1>1. r = SubSeq(b, h + 1, m)
  BY DEF Pa!From
<1>2. m \in Nat /\ h \in 1 .. m
  OBVIOUS
<1>3. r \in Seq(SerialBytes) /\ Len(r) = m - h /\ \A i \in 1 .. m - h : r[i] = b[i + h]
  <2>1. h + 1 \in 1 .. m + 1
    BY <1>2
  <2>2. /\ SubSeq(b, h + 1, m) \in Seq(SerialBytes)
        /\ Len(SubSeq(b, h + 1, m)) = m - h
        /\ \A i \in 1 .. m - h : SubSeq(b, h + 1, m)[i] = b[i + h]
    BY <1>2, <2>1
  <2> QED
    BY <1>1, <2>2
<1>4. /\ w \in [1 .. m -> Nat] /\ l \in [1 .. m -> Nat]
      /\ \A i \in 1 .. m :
           w[i] \in 1 .. p /\ l[i] <= c /\ b[i] = S[w[i]] /\ (l[i] = c => w[i] = p - (m - i))
      /\ \A i, j \in 1 .. m :
           i < j => w[i] < w[j] /\ l[i] <= l[j] /\ (l[i] = l[j] => w[j] - w[i] = j - i)
  BY DEF Placed
<1> HIDE DEF r, m
<1>5. w1 \in [1 .. m - h -> Nat] /\ l1 \in [1 .. m - h -> Nat]
  BY <1>2, <1>4
<1>6. \A i \in 1 .. m - h : w1[i] = w[i + h] /\ l1[i] = l[i + h] /\ i + h \in 1 .. m
  BY <1>2
<1> HIDE DEF w1, l1
<1>7. \A i \in 1 .. m - h :
        w1[i] \in 1 .. p /\ l1[i] <= c /\ r[i] = S[w1[i]] /\ (l1[i] = c => w1[i] = p - ((m - h) - i))
  <2> TAKE i \in 1 .. m - h
  <2>1. w1[i] = w[i + h] /\ l1[i] = l[i + h] /\ i + h \in 1 .. m /\ r[i] = b[i + h]
    BY <1>3, <1>6
  <2>2. PICK j \in 1 .. m : j = i + h
    BY <2>1
  <2>3. w[j] \in 1 .. p /\ l[j] <= c /\ b[j] = S[w[j]] /\ (l[j] = c => w[j] = p - (m - j))
    BY <1>4
  <2> QED
    BY <1>2, <2>1, <2>2, <2>3
<1>8. \A i, j \in 1 .. m - h :
        i < j => w1[i] < w1[j] /\ l1[i] <= l1[j] /\ (l1[i] = l1[j] => w1[j] - w1[i] = j - i)
  <2> SUFFICES ASSUME NEW i \in 1 .. m - h, NEW j \in 1 .. m - h, i < j
               PROVE  w1[i] < w1[j] /\ l1[i] <= l1[j] /\ (l1[i] = l1[j] => w1[j] - w1[i] = j - i)
    OBVIOUS
  <2>1. PICK x \in 1 .. m, y \in 1 .. m : x = i + h /\ y = j + h
    BY <1>6
  <2>2. w1[i] = w[x] /\ l1[i] = l[x] /\ w1[j] = w[y] /\ l1[j] = l[y]
    BY <1>6, <2>1
  <2>3. x < y /\ y - x = j - i
    BY <1>2, <2>1
  <2>4. w[x] < w[y] /\ l[x] <= l[y] /\ (l[x] = l[y] => w[y] - w[x] = y - x)
    BY <1>4, <2>3
  <2> QED
    BY <2>2, <2>3, <2>4
<1>9. \A i \in 1 .. m - h : w[h] < w1[i] /\ l[h] <= l1[i]
  <2> TAKE i \in 1 .. m - h
  <2>1. PICK j \in 1 .. m : j = i + h
    BY <1>6
  <2>2. h \in 1 .. m /\ h < j
    BY <1>2, <2>1
  <2>3. w[h] < w[j] /\ l[h] <= l[j]
    BY <1>4, <2>2
  <2> QED
    BY <1>6, <2>1, <2>3
<1>10. Placed(S, r, w1, l1, p, c) /\ Beyond(r, w1, l1, w[h], l[h])
  BY <1>3, <1>5, <1>7, <1>8, <1>9 DEF Placed, Beyond
<1>11. w[h] \in 0 .. p /\ l[h] \in 0 .. c
  BY <1>2, <1>4
<1> QED
  BY <1>3, <1>10, <1>11, Zenon DEF r, m

(* The bytes of b from place i to place j follow each other in S. *)
Follow(b, w, S, i, j) == \A x \in i .. j : w[x] = w[i] + (x - i) /\ b[x] = S[w[i] + (x - i)]

LEMMA Neighbours ==
  ASSUME NEW S, NEW b \in Seq(SerialBytes), NEW w, NEW l, NEW p \in Nat, NEW c \in Nat, Placed(S, b, w, l, p, c),
         NEW i \in 1 .. Len(b), NEW j \in 1 .. Len(b), i <= j, l[i] = l[j]
  PROVE  Follow(b, w, S, i, j)
<1> SUFFICES ASSUME NEW x \in i .. j PROVE w[x] = w[i] + (x - i) /\ b[x] = S[w[i] + (x - i)]
  BY DEF Follow
<1>1. PICK n \in Nat : n = Len(b)
  OBVIOUS
<1>2. x \in 1 .. Len(b)
  OBVIOUS
<1>3. w[i] \in Nat /\ w[x] \in Nat /\ l[i] \in Nat /\ l[j] \in Nat /\ l[x] \in Nat /\ b[x] = S[w[x]]
  BY <1>2 DEF Placed
<1>4. CASE x = i
  BY <1>3, <1>4
<1>5. CASE i < x
  <2>1. w[i] < w[x] /\ l[i] <= l[x] /\ (l[i] = l[x] => w[x] - w[i] = x - i)
    BY <1>2, <1>5 DEF Placed
  <2>2. x < j => l[x] <= l[j]
    BY <1>2 DEF Placed
  <2>3. l[x] = l[i]
    BY <1>3, <2>1, <2>2
  <2>4. w[x] = w[i] + (x - i)
    BY <1>3, <2>1, <2>3
  <2> QED
    BY <1>3, <2>4
<1> QED
  BY <1>4, <1>5

(* What a filter makes of message k of a stream with P bytes a message.     *)
Sample(k, P) == IF P = 6 THEN <<<<"low", k>>, <<"high", k>>>> ELSE <<<<"ten", k>>, <<"one", k>>>>

WholeIn(x, P) == \E k \in 1 .. Messages : x = Sample(k, P)

LEMMA NumberOfSample ==
  ASSUME NEW P, NEW k PROVE Sample(k, P)[1][2] = k
BY DEF Sample

Spoiled(s, P) == {i \in 1 .. Len(s) : ~ WholeIn(s[i], P)}

(* What was recognised comes from the first f bytes of the stream; g blocks *)
(* were lost among them.                                                    *)
Told(s, P, f, g) ==
  /\ P * Len(s) <= f
  /\ \A i \in 1 .. Len(s) : WholeIn(s[i], P) => P * s[i][1][2] <= f
  /\ \A i, j \in 1 .. Len(s) : i < j /\ WholeIn(s[i], P) /\ WholeIn(s[j], P) => s[i][1][2] < s[j][1][2]
  /\ Cardinality(Spoiled(s, P)) <= g

LEMMA SpoiledCounted ==
  ASSUME NEW s \in Seq(Seq(SerialBytes)), NEW P
  PROVE  IsFiniteSet(Spoiled(s, P)) /\ Cardinality(Spoiled(s, P)) \in Nat
<1>1. IsFiniteSet(1 .. Len(s))
  BY FS_Interval
<1>2. Spoiled(s, P) \subseteq 1 .. Len(s)
  BY DEF Spoiled
<1>3. IsFiniteSet(Spoiled(s, P))
  BY <1>1, <1>2, FS_Subset
<1> QED
  BY <1>3, FS_CardinalityType

LEMMA WholeTyped ==
  ASSUME Messages \in Nat, NEW x, NEW P, WholeIn(x, P)
  PROVE  x[1][2] \in Nat
BY NumberOfSample DEF WholeIn

LEMMA ToldMore ==
  ASSUME Messages \in Nat, NEW s \in Seq(Seq(SerialBytes)), NEW P \in {4, 6}, NEW f \in Nat, NEW g \in Nat,
         NEW f1 \in Nat, NEW g1 \in Nat, f <= f1, g <= g1, Told(s, P, f, g)
  PROVE  Told(s, P, f1, g1)
<1>1. Cardinality(Spoiled(s, P)) \in Nat
  BY SpoiledCounted
<1>2. P * Len(s) <= f1
  <2>1. P * Len(s) <= f
    BY DEF Told
  <2> QED
    BY <2>1
<1>3. ASSUME NEW i \in 1 .. Len(s), WholeIn(s[i], P) PROVE P * s[i][1][2] <= f1
  <2>1. P * s[i][1][2] <= f
    BY <1>3 DEF Told
  <2>2. s[i][1][2] \in Nat
    BY <1>3, WholeTyped
  <2> QED
    BY <2>1, <2>2
<1>4. Cardinality(Spoiled(s, P)) <= g1
  <2>1. Cardinality(Spoiled(s, P)) <= g
    BY DEF Told
  <2> QED
    BY <1>1, <2>1
<1> QED
  BY <1>2, <1>3, <1>4 DEF Told

(* A message x is recognised in the bytes from place f + 1 to f1.           *)
LEMMA ToldNext ==
  ASSUME Messages \in Nat, NEW s \in Seq(Seq(SerialBytes)), NEW P \in {4, 6}, NEW f \in Nat, NEW g \in Nat,
         NEW f1 \in Nat, NEW g1 \in Nat, f <= f1, g <= g1, Told(s, P, f, g),
         NEW x \in Seq(SerialBytes), P * (Len(s) + 1) <= f1,
         WholeIn(x, P) => f < P * x[1][2] /\ P * x[1][2] <= f1,
         ~ WholeIn(x, P) => g < g1
  PROVE  Told(Append(s, x), P, f1, g1)
<1> DEFINE t == Append(s, x)
<1>1. PICK n \in Nat : n = Len(s)
  OBVIOUS
<1>2. Len(t) = n + 1 /\ t[n + 1] = x /\ \A i \in 1 .. n : t[i] = s[i]
  BY <1>1
<1> HIDE DEF t
<1>3. Told(s, P, f1, g1)
  BY ToldMore
<1>4. ASSUME NEW i \in 1 .. n + 1, WholeIn(t[i], P) PROVE P * t[i][1][2] <= f1
  <2>1. CASE i = n + 1
    BY <1>2, <1>4, <2>1
  <2>2. CASE i \in 1 .. n
    BY <1>1, <1>2, <1>3, <1>4, <2>2 DEF Told
  <2> QED
    BY <2>1, <2>2
<1>5. ASSUME NEW i \in 1 .. n + 1, NEW j \in 1 .. n + 1, i < j, WholeIn(t[i], P), WholeIn(t[j], P)
      PROVE  t[i][1][2] < t[j][1][2]
  <2>1. CASE j = n + 1
    <3>1. i \in 1 .. n /\ t[i] = s[i] /\ t[j] = x
      BY <1>2, <1>5, <2>1
    <3>2. P * s[i][1][2] <= f
      BY <1>1, <1>5, <3>1 DEF Told
    <3>3. f < P * x[1][2]
      BY <1>5, <3>1
    <3>4. s[i][1][2] \in Nat /\ x[1][2] \in Nat
      BY <1>5, <3>1, WholeTyped
    <3>5. \A y, z \in Nat : P * y <= f /\ f < P * z => y < z
      <4>1. CASE P = 4
        BY <4>1
      <4>2. CASE P = 6
        BY <4>2
      <4> QED
        BY <4>1, <4>2
    <3> QED
      BY <3>1, <3>2, <3>3, <3>4, <3>5
  <2>2. CASE j \in 1 .. n
    <3>1. i \in 1 .. n /\ t[i] = s[i] /\ t[j] = s[j]
      BY <1>2, <1>5, <2>2
    <3> QED
      BY <1>1, <1>5, <2>2, <3>1 DEF Told
  <2> QED
    BY <2>1, <2>2
<1>6. Cardinality(Spoiled(t, P)) <= g1
  <2>1. IsFiniteSet(Spoiled(s, P)) /\ Cardinality(Spoiled(s, P)) \in Nat /\ Cardinality(Spoiled(s, P)) <= g
    BY SpoiledCounted DEF Told
  <2>2. CASE WholeIn(x, P)
    <3>1. Spoiled(t, P) = Spoiled(s, P)
      BY <1>1, <1>2, <2>2 DEF Spoiled
    <3> QED
      BY <2>1, <3>1
  <2>3. CASE ~ WholeIn(x, P)
    <3>1. Spoiled(t, P) = Spoiled(s, P) \cup {n + 1} /\ n + 1 \notin Spoiled(s, P)
      BY <1>1, <1>2, <2>3 DEF Spoiled
    <3>2. Cardinality(Spoiled(t, P)) = Cardinality(Spoiled(s, P)) + 1
      BY <2>1, <3>1, FS_AddElement
    <3> QED
      BY <2>1, <2>3, <3>2
  <2> QED
    BY <2>2, <2>3
<1>7. P * Len(t) <= f1
  BY <1>1, <1>2
<1> QED
  BY <1>2, <1>4, <1>5, <1>6, <1>7 DEF Told, t


LEMMA TwoOf ==
  ASSUME NEW S, NEW s \in Seq(S), NEW i \in 1 .. Len(s) - 1
  PROVE  SubSeq(s, i, i + 1) = <<s[i], s[i + 1]>>
<1> DEFINE r == SubSeq(s, i, i + 1)
           t == <<s[i], s[i + 1]>>
<1>1. r \in Seq(S) /\ Len(r) = 2 /\ r[1] = s[i] /\ r[2] = s[i + 1]
  OBVIOUS
<1>2. t \in Seq(S) /\ Len(t) = 2 /\ t[1] = s[i] /\ t[2] = s[i + 1]
  OBVIOUS
<1> HIDE DEF r, t
<1>3. r = t
  BY <1>1, <1>2, SeqEqual
<1> QED
  BY <1>3 DEF r, t

LEMMA SearchIs ==
  ASSUME NEW q \in Seq(SerialBytes), NEW r1, NEW r2
  PROVE  /\ Pa!search(q, r1, r2) \in Nat
         /\ Pa!search(q, r1, r2) # 0 =>
              /\ Pa!search(q, r1, r2) \in 1 .. Len(q) - 1
              /\ q[Pa!search(q, r1, r2)][1] = r1 /\ q[Pa!search(q, r1, r2) + 1][1] = r2
         /\ \A j \in 1 .. Len(q) - 1 :
              q[j][1] = r1 /\ q[j + 1][1] = r2 => Pa!search(q, r1, r2) # 0 /\ Pa!search(q, r1, r2) <= j
<1> DEFINE places == {i \in 1 .. Len(q) - 1 : q[i][1] = r1 /\ q[i + 1][1] = r2}
           first == Pa!First(places)
<1>1. places \in SUBSET (Nat \ {0})
  OBVIOUS
<1>2. \A j : j \in places <=> j \in 1 .. Len(q) - 1 /\ q[j][1] = r1 /\ q[j + 1][1] = r2
  OBVIOUS
<1>3. Pa!search(q, r1, r2) = first
  BY DEF Pa!search
<1> HIDE DEF places
<1>4. /\ first \in Nat
      /\ first = 0 <=> places = {}
      /\ first # 0 => first \in places
      /\ \A j \in places : first <= j
  BY <1>1, FirstIs
<1> HIDE DEF first
<1> QED
  BY <1>2, <1>3, <1>4

(* The places of the delimiters that the Receiver finds in its queue.       *)
Delimited(b, head, foot) ==
  /\ head \in 1 .. Len(b) - 1 /\ b[head][1] = "B"
  /\ foot \in 1 .. Len(b) - 1 /\ b[foot][1] = "E" /\ b[foot + 1][1] = "ND"
  /\ \A j \in 1 .. Len(b) - 1 : b[j][1] = "B" /\ b[j + 1][1] = "EGIN" => head <= j
  /\ \A j \in 1 .. Len(b) - 1 : b[j][1] = "E" /\ b[j + 1][1] = "ND" => foot <= j

(* Nothing else than a lost block puts other bytes between the delimiters.  *)
FrameOrGap(b, w, l, head, foot) ==
  \E k, m \in 1 .. Messages :
    /\ w[head] = 6 * k - 5 /\ w[foot + 1] = 6 * m
    /\ l[head] = l[foot + 1] =>
         foot = head + 4 /\ k = m /\ SubSeq(b, head + 2, foot - 1) = Sample(k, 6)

LEMMA FrameFound ==
  ASSUME Messages \in Nat, NEW S, Framed(S), NEW b \in Seq(SerialBytes), NEW w, NEW l,
         NEW p \in 0 .. 6 * Messages, NEW c \in Nat, Placed(S, b, w, l, p, c),
         NEW head, NEW foot, Delimited(b, head, foot), foot >= head + 2
  PROVE  FrameOrGap(b, w, l, head, foot)
<1>1. PICK n \in Nat : n = Len(b)
  OBVIOUS
<1>2. /\ head \in 1 .. n - 1 /\ foot \in 1 .. n - 1 /\ b[head][1] = "B" /\ b[foot + 1][1] = "ND"
      /\ \A j \in 1 .. n - 1 : b[j][1] = "E" /\ b[j + 1][1] = "ND" => foot <= j
  BY <1>1 DEF Delimited
<1>3. \A i \in 1 .. n : w[i] \in 1 .. p /\ b[i] = S[w[i]] /\ w[i] \in 1 .. 6 * Messages
  BY <1>1 DEF Placed
<1>4. head \in 1 .. n /\ foot \in 1 .. n /\ foot + 1 \in 1 .. n
  BY <1>2
<1>5. PICK k \in 1 .. Messages : w[head] = 6 * k - 5
  <2>1. w[head] \in 1 .. 6 * Messages /\ S[w[head]][1] = "B"
    BY <1>2, <1>3, <1>4
  <2> QED
    BY <2>1, FramedRoles
<1>6. PICK m \in 1 .. Messages : w[foot + 1] = 6 * m
  <2>1. w[foot + 1] \in 1 .. 6 * Messages /\ S[w[foot + 1]][1] = "ND"
    BY <1>2, <1>3, <1>4
  <2> QED
    BY <2>1, FramedRoles
<1>7. ASSUME l[head] = l[foot + 1]
      PROVE  foot = head + 4 /\ k = m /\ SubSeq(b, head + 2, foot - 1) = Sample(k, 6)
  <2>1. \A x \in head .. foot + 1 : w[x] = w[head] + (x - head) /\ b[x] = S[w[head] + (x - head)]
    <3>1. foot + 1 \in 1 .. Len(b) /\ head \in 1 .. Len(b) /\ head <= foot + 1 /\ p \in Nat
      BY <1>1, <1>4
    <3>2. PICK t \in 1 .. Len(b) : t = foot + 1
      BY <3>1
    <3>3. head <= t /\ l[head] = l[t]
      BY <1>7, <3>1, <3>2
    <3>4. Follow(b, w, S, head, t)
      BY <3>1, <3>3, Neighbours
    <3> QED
      BY <3>2, <3>4 DEF Follow
  <2>2. foot + 1 \in head .. foot + 1 /\ head \in Nat /\ foot \in Nat /\ foot >= head + 2
    BY <1>4
  <2>3. w[foot + 1] = w[head] + ((foot + 1) - head)
    BY <2>1, <2>2
  <2>4. 6 * m = (6 * k - 5) + ((foot + 1) - head)
    BY <1>5, <1>6, <2>3
  <2>5. foot >= head + 4
    BY <2>2, <2>4
  <2>6. ASSUME NEW d \in 0 .. 5 PROVE b[head + d] = S[(6 * k - 5) + d]
    <3>1. head + d \in head .. foot + 1 /\ (head + d) - head = d
      BY <2>2, <2>5
    <3>2. b[head + d] = S[w[head] + ((head + d) - head)]
      BY <2>1, <3>1
    <3> QED
      BY <1>5, <3>1, <3>2
  <2>7. /\ (6 * k - 5) + 2 = 6 * k - 3 /\ (6 * k - 5) + 3 = 6 * k - 2
        /\ (6 * k - 5) + 4 = 6 * k - 1 /\ (6 * k - 5) + 5 = 6 * k
    OBVIOUS
  <2>8. /\ b[head + 2] = S[6 * k - 3] /\ b[head + 3] = S[6 * k - 2]
        /\ b[head + 4] = S[6 * k - 1] /\ b[head + 5] = S[6 * k]
    BY <2>6, <2>7
  <2>9. /\ b[head + 2] = <<"low", k>> /\ b[head + 3] = <<"high", k>>
        /\ b[head + 4] = <<"E", k>> /\ b[head + 5] = <<"ND", k>>
    BY <2>8, FrameOf
  <2>10. foot = head + 4
    <3>1. head + 4 \in 1 .. n - 1 /\ (head + 4) + 1 = head + 5
      BY <1>2, <2>5
    <3>2. foot <= head + 4
      BY <1>2, <2>9, <3>1
    <3> QED
      BY <2>2, <2>5, <3>2
  <2>11. k = m
    BY <2>2, <2>4, <2>10
  <2>12. SubSeq(b, head + 2, foot - 1) = <<b[head + 2], b[head + 3]>>
    <3>1. foot - 1 = (head + 2) + 1 /\ head + 2 \in 1 .. Len(b) - 1 /\ (head + 2) + 1 = head + 3
      BY <1>1, <1>2, <2>10
    <3> QED
      BY <3>1, TwoOf
  <2> QED
    BY <2>9, <2>10, <2>11, <2>12 DEF Sample
<1> QED
  BY <1>5, <1>6, <1>7 DEF FrameOrGap

LEMMA FrameTold ==
  ASSUME Messages \in Nat, NEW S, Framed(S), NEW b \in Seq(SerialBytes), NEW w, NEW l,
         NEW p \in 0 .. 6 * Messages, NEW c \in Nat, Placed(S, b, w, l, p, c),
         NEW f \in Nat, NEW g \in Nat, Beyond(b, w, l, f, g),
         NEW s \in Seq(Seq(SerialBytes)), Told(s, 6, f, g),
         NEW head, NEW foot, Delimited(b, head, foot), foot >= head + 2
  PROVE  Told(Append(s, SubSeq(b, head + 2, foot - 1)), 6, w[foot + 1], l[foot + 1])
<1>10. head \in 1 .. Len(b) - 1 /\ foot \in 1 .. Len(b) - 1
  BY DEF Delimited
<1>0. /\ SubSeq(b, head + 2, foot - 1) \in Seq(SerialBytes)
      /\ foot = head + 2 => Len(SubSeq(b, head + 2, foot - 1)) = 0
      /\ foot > head + 2 => SubSeq(b, head + 2, foot - 1)[1] = b[head + 2]
  BY <1>10
<1> DEFINE data == SubSeq(b, head + 2, foot - 1)
<1> HIDE DEF data
<1>1. PICK k \in 1 .. Messages, m \in 1 .. Messages :
        /\ w[head] = 6 * k - 5 /\ w[foot + 1] = 6 * m
        /\ l[head] = l[foot + 1] => foot = head + 4 /\ k = m /\ data = Sample(k, 6)
  <2>1. FrameOrGap(b, w, l, head, foot)
    BY FrameFound
  <2> QED
    BY <2>1, Zenon DEF data, FrameOrGap
<1>2. head \in 1 .. Len(b) /\ foot + 1 \in 1 .. Len(b) /\ head < foot + 1
  BY <1>10
<1>3. /\ f < w[head] /\ g <= l[head] /\ w[head] < w[foot + 1] /\ l[head] <= l[foot + 1]
      /\ l[head] \in Nat /\ l[foot + 1] \in Nat
  BY <1>2 DEF Placed, Beyond
<1>4. 6 * Len(s) <= f /\ Len(s) \in Nat
  BY DEF Told
<1>5. 6 * (Len(s) + 1) <= 6 * m /\ f <= 6 * m /\ g <= l[foot + 1]
  <2>1. PICK n \in Nat, a \in Nat, z \in Nat : n = Len(s) /\ a = l[head] /\ z = l[foot + 1]
    BY <1>3, <1>4
  <2>2. f < 6 * k - 5 /\ 6 * k - 5 < 6 * m /\ 6 * n <= f /\ g <= a /\ a <= z
    BY <1>1, <1>3, <1>4, <2>1
  <2>3. n < k /\ k <= m
    BY <2>2
  <2>4. 6 * (n + 1) <= 6 * m /\ f <= 6 * m /\ g <= z
    BY <2>2, <2>3
  <2> QED
    BY <2>1, <2>4
<1>6. data \in Seq(SerialBytes)
  BY <1>0 DEF data
<1>7. ASSUME WholeIn(data, 6) PROVE f < 6 * data[1][2] /\ 6 * data[1][2] <= 6 * m
  <2>1. PICK y \in 1 .. Messages : data = Sample(y, 6)
    BY <1>7 DEF WholeIn
  <2>2. data = <<<<"low", y>>, <<"high", y>>>>
    BY <2>1 DEF Sample
  <2>3. Len(data) = 2 /\ data[1] = <<"low", y>>
    BY <2>2
  <2>4. foot > head + 2
    <3>1. CASE foot = head + 2
      <4>1. Len(data) = 0
        BY <1>0, <3>1 DEF data
      <4> QED
        BY <2>3, <4>1
    <3> QED
      BY <1>10, <3>1
  <2>5. head + 2 \in 1 .. Len(b) /\ data[1] = b[head + 2] /\ head + 2 < foot + 1
    <3>1. head + 2 \in 1 .. Len(b) /\ head + 2 < foot + 1
      BY <1>10, <2>4
    <3>2. data[1] = b[head + 2]
      BY <1>0, <2>4, Zenon DEF data
    <3> QED
      BY <3>1, <3>2
  <2>6. /\ w[head + 2] \in 1 .. p /\ b[head + 2] = S[w[head + 2]]
        /\ w[head + 2] < w[foot + 1] /\ f < w[head + 2]
    BY <1>2, <2>5 DEF Placed, Beyond
  <2>7. PICK x \in 1 .. 6 * Messages : x = w[head + 2]
    BY <2>6
  <2>8. S[x] = <<"low", y>>
    BY <2>3, <2>5, <2>6, <2>7
  <2>9. x = 6 * y - 3
    BY <2>8, FramedRoles
  <2> QED
    BY <1>1, <2>3, <2>6, <2>7, <2>9
<1>8. ASSUME ~ WholeIn(data, 6) PROVE g < l[foot + 1]
  <2>1. l[head] # l[foot + 1]
    BY <1>1, <1>8 DEF WholeIn
  <2> QED
    BY <1>3, <2>1
<1>9. Told(Append(s, data), 6, 6 * m, l[foot + 1])
  <2>0. 6 * m \in Nat
    OBVIOUS
  <2>1. PICK f1 \in Nat, g1 \in Nat : f1 = 6 * m /\ g1 = l[foot + 1]
    BY <1>3, <2>0
  <2>2. /\ f <= f1 /\ g <= g1 /\ 6 * (Len(s) + 1) <= f1 /\ 6 \in {4, 6}
        /\ WholeIn(data, 6) => f < 6 * data[1][2] /\ 6 * data[1][2] <= f1
        /\ ~ WholeIn(data, 6) => g < g1
    BY <1>5, <1>7, <1>8, <2>1
  <2>3. Told(Append(s, data), 6, f1, g1)
    BY <1>6, <2>2, ToldNext
  <2> QED
    BY <2>1, <2>3
<1> QED
  BY <1>1, <1>9 DEF data

(* While no block is lost the queue is the end of what came.                *)
LEMMA NothingLost ==
  ASSUME NEW S, NEW b \in Seq(SerialBytes), NEW w, NEW l, NEW p \in Nat, Placed(S, b, w, l, p, 0)
  PROVE  \A i \in 1 .. Len(b) : /\ l[i] = 0 /\ w[i] = p - (Len(b) - i) /\ w[i] = (p - Len(b)) + i
                                /\ b[i] = S[(p - Len(b)) + i]
<1> TAKE i \in 1 .. Len(b)
<1>1. PICK n \in Nat : n = Len(b)
  OBVIOUS
<1>2. l[i] \in Nat /\ l[i] <= 0 /\ w[i] \in Nat /\ b[i] = S[w[i]]
  BY DEF Placed
<1>3. l[i] = 0
  BY <1>2
<1>4. w[i] = p - (Len(b) - i)
  BY <1>3 DEF Placed
<1>5. w[i] = (p - Len(b)) + i
  BY <1>1, <1>4
<1> QED
  BY <1>2, <1>3, <1>4, <1>5

(* The Receiver has dropped z bytes: part of the first frame, or whole      *)
(* frames, of which it has recognised all but the first.                    *)
Kept(s, z) ==
  /\ z \in 0 .. 5 \/ \E k \in Nat : z = 6 * k
  /\ \A k \in 2 .. Messages : 6 * k - 3 <= z => \E i \in 1 .. Len(s) : s[i][1][2] = k

LEMMA HeadsFirst ==
  ASSUME Messages \in Nat, NEW S, Framed(S), NEW b \in Seq(SerialBytes), NEW z \in Nat,
         z + Len(b) <= 6 * Messages, \A i \in 1 .. Len(b) : b[i] = S[z + i],
         NEW head \in 1 .. Len(b) - 1,
         \A j \in 1 .. Len(b) - 1 : b[j][1] = "B" /\ b[j + 1][1] = "EGIN" => head <= j,
         NEW k \in 1 .. Messages, z <= 6 * k - 6, 6 * k - 4 <= z + Len(b)
  PROVE  z + head <= 6 * k - 5
<1>1. PICK j \in 1 .. Len(b) - 1 : z + j = 6 * k - 5 /\ z + (j + 1) = 6 * k - 4
  <2>1. (6 * k - 5) - z \in 1 .. Len(b) - 1
    OBVIOUS
  <2> QED
    BY <2>1
<1>2. b[j] = S[6 * k - 5] /\ b[j + 1] = S[6 * k - 4]
  <2>1. j \in 1 .. Len(b) /\ j + 1 \in 1 .. Len(b)
    OBVIOUS
  <2>2. b[j] = S[z + j] /\ b[j + 1] = S[z + (j + 1)]
    BY <2>1
  <2> QED
    BY <1>1, <2>2
<1>3. b[j][1] = "B" /\ b[j + 1][1] = "EGIN"
  <2>1. S[6 * k - 5] = <<"B", k>> /\ S[6 * k - 4] = <<"EGIN", k>>
    BY FrameOf
  <2> QED
    BY <1>2, <2>1
<1>4. head <= j
  BY <1>3
<1> QED
  BY <1>1, <1>4

(* A foot without its head belongs to the frame the host has joined within. *)
LEMMA KeptDropped ==
  ASSUME Messages \in Nat, NEW S, Framed(S), NEW b \in Seq(SerialBytes), NEW z \in Nat,
         z + Len(b) <= 6 * Messages, \A i \in 1 .. Len(b) : b[i] = S[z + i],
         NEW s, Kept(s, z), NEW head, NEW foot, Delimited(b, head, foot), foot < head + 2
  PROVE  z + (foot + 1) = 6 /\ Kept(s, z + (foot + 1))
<1>1. /\ head \in 1 .. Len(b) - 1 /\ foot \in 1 .. Len(b) - 1 /\ foot \in 1 .. Len(b) /\ b[foot][1] = "E"
      /\ \A j \in 1 .. Len(b) - 1 : b[j][1] = "B" /\ b[j + 1][1] = "EGIN" => head <= j
  BY DEF Delimited
<1>2. PICK x \in 1 .. 6 * Messages : x = z + foot
  BY <1>1
<1>3. S[x][1] = "E"
  BY <1>1, <1>2
<1>4. PICK m \in 1 .. Messages : x = 6 * m - 1
  BY <1>3, FramedRoles
<1>5. ~ (z <= 6 * m - 6)
  <2> SUFFICES ASSUME z <= 6 * m - 6 PROVE FALSE
    OBVIOUS
  <2>1. 6 * m - 4 <= z + Len(b)
    BY <1>1, <1>2, <1>4
  <2>2. z + head <= 6 * m - 5
    BY <1>1, <2>1, HeadsFirst
  <2> QED
    BY <1>1, <1>2, <1>4, <2>2
<1>6. z < 6 * m - 1
  BY <1>1, <1>2, <1>4
<1>7. z \in 0 .. 5
  <2>1. ASSUME NEW k \in Nat, z = 6 * k PROVE FALSE
    <3>1. CASE k < m
      BY <1>5, <2>1, <3>1
    <3>2. CASE m <= k
      BY <1>6, <2>1, <3>2
    <3> QED
      BY <3>1, <3>2
  <2> QED
    BY <2>1 DEF Kept
<1>8. m = 1
  BY <1>5, <1>7
<1>9. z + (foot + 1) = 6
  BY <1>1, <1>2, <1>4, <1>8
<1>10. 6 = 6 * 1 /\ 1 \in Nat /\ \A k \in 2 .. Messages : ~ (6 * k - 3 <= 6)
  OBVIOUS
<1>11. Kept(s, 6)
  BY <1>10 DEF Kept
<1> QED
  BY <1>9, <1>11

(* The first frame in the queue is the next one.                            *)
LEMMA KeptTaken ==
  ASSUME Messages \in Nat, NEW S, Framed(S), NEW b \in Seq(SerialBytes), NEW z \in Nat,
         z + Len(b) <= 6 * Messages, \A i \in 1 .. Len(b) : b[i] = S[z + i],
         NEW s \in Seq(Seq(SerialBytes)), Kept(s, z), NEW head, NEW foot, Delimited(b, head, foot),
         NEW k \in 1 .. Messages, z + head = 6 * k - 5, z + (foot + 1) = 6 * k,
         NEW x \in Seq(SerialBytes), x[1][2] = k
  PROVE  Kept(Append(s, x), z + (foot + 1))
<1>1. /\ head \in 1 .. Len(b) - 1 /\ foot \in 1 .. Len(b) - 1
      /\ \A j \in 1 .. Len(b) - 1 : b[j][1] = "B" /\ b[j + 1][1] = "EGIN" => head <= j
  BY DEF Delimited
<1>2. /\ Len(Append(s, x)) = Len(s) + 1 /\ Append(s, x)[Len(s) + 1] = x /\ Len(s) \in Nat
      /\ \A i \in 1 .. Len(s) : Append(s, x)[i] = s[i]
  BY Appended
<1>3. ASSUME NEW j \in 2 .. Messages, 6 * j - 3 <= 6 * k
      PROVE  \E i \in 1 .. Len(Append(s, x)) : Append(s, x)[i][1][2] = j
  <2>1. CASE 6 * j - 3 <= z
    <3>1. PICK i \in 1 .. Len(s) : s[i][1][2] = j
      BY <2>1 DEF Kept
    <3> QED
      BY <1>2, <3>1
  <2>2. CASE z < 6 * j - 3
    <3>1. z <= 6 * j - 6
      <4>1. CASE z \in 0 .. 5
        BY <4>1
      <4>2. CASE \E y \in Nat : z = 6 * y
        BY <2>2, <4>2
      <4> QED
        BY <4>1, <4>2 DEF Kept
    <3>2. j <= k
      BY <1>3
    <3>3. 6 * j - 4 <= z + Len(b)
      BY <1>1, <3>2
    <3>4. j \in 1 .. Messages
      OBVIOUS
    <3>5. z + head <= 6 * j - 5
      BY <1>1, <3>1, <3>3, <3>4, HeadsFirst
    <3>6. j = k
      BY <3>2, <3>5
    <3> QED
      BY <1>2, <3>6
  <2> QED
    BY <2>1, <2>2
<1>4. Kept(Append(s, x), 6 * k)
  <2>1. \E y \in Nat : 6 * k = 6 * y
    <3>1. k \in Nat
      OBVIOUS
    <3> QED
      BY <3>1, Zenon
  <2>2. \A j \in 2 .. Messages : 6 * j - 3 <= 6 * k => \E i \in 1 .. Len(Append(s, x)) : Append(s, x)[i][1][2] = j
    BY <1>3
  <2> QED
    BY <2>1, <2>2, Zenon DEF Kept
<1> QED
  BY <1>4

-----------------------------------------------------------------------------
(* The invariant of both filters. *)

Period == IF parser = "Receiver" THEN 6 ELSE 4

PaTypes ==
  /\ parser \in {"Receiver", "HWStateTracker"} /\ pos \in 0 .. Len(Pa!Stream)
  /\ buffer \in Seq(SerialBytes) /\ Len(buffer) <= pos
  /\ seen \in Seq(Seq(SerialBytes))
  /\ lost \in 0 .. MaxLost /\ threw \in BOOLEAN

Recognised ==
  \E w, l : \E f \in 0 .. pos, g \in 0 .. lost :
    /\ Placed(Pa!Stream, buffer, w, l, pos, lost) /\ Beyond(buffer, w, l, f, g)
    /\ Told(seen, Period, f, g)

PaInv ==
  /\ PaTypes
  /\ threw => lost > 0 \/ Len(buffer) > MaxQueue
  /\ Recognised
  /\ parser = "Receiver" /\ lost = 0 => Kept(seen, pos - Len(buffer))

LEMMA StreamLength ==
  ASSUME Pa!SerialParsersAssumption, parser \in {"Receiver", "HWStateTracker"}
  PROVE  /\ Pa!Stream \in Seq(SerialBytes) /\ Len(Pa!Stream) = Period * Messages
         /\ Period \in {4, 6} /\ Messages \in Nat /\ Len(Pa!Roles) = Period
<1>1. CASE parser = "Receiver"
  <2>1. Pa!Roles = <<"B", "EGIN", "low", "high", "E", "ND">>
    BY <1>1 DEF Pa!Roles, Pa!loop
  <2>2. Len(Pa!Roles) = 6 /\ Period = 6
    BY <1>1, <2>1 DEF Period
  <2> QED
    BY <1>1, <2>2, ReceiverStream DEF Framed, Pa!SerialParsersAssumption
<1>2. CASE parser = "HWStateTracker"
  <2>1. Pa!Roles = <<"T", "ten", "one", "\n">>
    BY <1>2 DEF Pa!Roles, Pa!Line
  <2>2. Len(Pa!Roles) = 4 /\ Period = 4
    BY <1>2, <2>1 DEF Period
  <2> QED
    BY <1>2, <2>2, TrackerStream DEF Lined, Pa!SerialParsersAssumption
<1> QED
  BY <1>1, <1>2

LEMMA PaInit == Pa!SerialParsersAssumption /\ Pa!Init => PaInv
<1> SUFFICES ASSUME Pa!SerialParsersAssumption, Pa!Init PROVE PaInv
  OBVIOUS
<1>1. /\ parser \in {"Receiver", "HWStateTracker"} /\ pos \in 0 .. Len(Pa!Roles) - 1
      /\ buffer = <<>> /\ seen = <<>> /\ lost = 0 /\ threw = FALSE
  BY DEF Pa!Init
<1>2. /\ Len(Pa!Stream) = Period * Messages /\ Period \in {4, 6} /\ Messages \in Nat \ {0} /\ MaxLost \in Nat
      /\ Len(Pa!Roles) = Period
  BY <1>1, StreamLength DEF Pa!SerialParsersAssumption
<1>3. pos \in 0 .. Period - 1 /\ pos \in 0 .. Len(Pa!Stream) /\ pos \in Nat
  <2>1. Period <= Period * Messages
    <3>1. CASE Period = 4
      BY <1>2, <3>1
    <3>2. CASE Period = 6
      BY <1>2, <3>2
    <3> QED
      BY <1>2, <3>1, <3>2
  <2>2. pos \in 0 .. Period - 1
    BY <1>1, <1>2
  <2>3. Period \in Nat /\ Period * Messages \in Nat
    BY <1>2
  <2> QED
    BY <1>2, <2>1, <2>2, <2>3
<1>4. /\ Len(<<>>) = 0 /\ <<>> \in Seq(SerialBytes) /\ <<>> \in Seq(Seq(SerialBytes))
      /\ 1 .. 0 = {}
  OBVIOUS
<1>5. PaTypes
  <2>1. 0 \in 0 .. MaxLost /\ 0 <= pos
    BY <1>2, <1>3
  <2> QED
    BY <1>1, <1>3, <1>4, <2>1, Zenon DEF PaTypes
<1>6. Recognised
  <2> DEFINE none == [i \in {} |-> 0]
  <2>1. none \in [1 .. Len(<<>>) -> Nat]
    BY <1>4
  <2> HIDE DEF none
  <2>2. Placed(Pa!Stream, <<>>, none, none, pos, 0) /\ Beyond(<<>>, none, none, 0, 0)
    BY <1>4, <2>1 DEF Placed, Beyond
  <2>3. Told(<<>>, Period, 0, 0)
    <3>1. Spoiled(<<>>, Period) = {}
      BY <1>4 DEF Spoiled
    <3>2. Cardinality(Spoiled(<<>>, Period)) = 0
      BY <3>1, FS_EmptySet
    <3>3. Period * 0 = 0
      BY <1>2
    <3> QED
      BY <1>4, <3>2, <3>3 DEF Told
  <2>4. 0 \in 0 .. pos /\ 0 \in 0 .. lost
    BY <1>1, <1>3
  <2> QED
    BY <1>1, <2>2, <2>3, <2>4 DEF Recognised
<1>7. ASSUME parser = "Receiver" PROVE Kept(seen, pos - Len(buffer))
  <2>1. pos - Len(buffer) \in 0 .. 5
    BY <1>1, <1>3, <1>4, <1>7 DEF Period
  <2>2. \A k \in 2 .. Messages : ~ (6 * k - 3 <= pos - Len(buffer))
    BY <2>1
  <2> QED
    BY <2>1, <2>2 DEF Kept
<1> QED
  BY <1>1, <1>5, <1>6, <1>7 DEF PaInv

(* A block is lost. *)
LEMMA BlockLost ==
  ASSUME Pa!SerialParsersAssumption, PaInv, NEW n \in Pa!Blocks, Pa!Lose(n)
  PROVE  PaInv'
<1>1. /\ Len(Pa!Stream) = Period * Messages /\ Period \in {4, 6} /\ Messages \in Nat /\ MaxLost \in Nat
      /\ Len(Pa!Stream) \in Nat
  BY StreamLength DEF PaInv, PaTypes, Pa!SerialParsersAssumption
<1>2. n \in Nat /\ pos + n <= Len(Pa!Stream) /\ pos \in Nat /\ lost \in Nat
  BY <1>1 DEF Pa!Blocks, PaInv, PaTypes, Pa!SerialParsersAssumption
<1>3. /\ lost < MaxLost /\ pos' = pos + n /\ lost' = lost + 1
      /\ parser' = parser /\ buffer' = buffer /\ seen' = seen /\ threw' = threw
  BY DEF Pa!Lose
<1>4. Pa!Stream' = Pa!Stream /\ Period' = Period
  BY <1>3 DEF Pa!Stream, Pa!Roles, Period
<1>5. PaTypes'
  <2>1. Len(buffer) \in Nat /\ Len(buffer) <= pos
    BY DEF PaInv, PaTypes
  <2>2. pos' \in 0 .. Len(Pa!Stream) /\ Len(buffer) <= pos' /\ lost' \in 0 .. MaxLost
    BY <1>1, <1>2, <1>3, <2>1
  <2> QED
    BY <1>3, <1>4, <2>2 DEF PaInv, PaTypes
<1>6. Recognised'
  <2>1. PICK w, l : \E f \in 0 .. pos, g \in 0 .. lost :
          /\ Placed(Pa!Stream, buffer, w, l, pos, lost) /\ Beyond(buffer, w, l, f, g)
          /\ Told(seen, Period, f, g)
    BY DEF PaInv, Recognised
  <2>2. PICK f \in 0 .. pos, g \in 0 .. lost :
          /\ Placed(Pa!Stream, buffer, w, l, pos, lost) /\ Beyond(buffer, w, l, f, g)
          /\ Told(seen, Period, f, g)
    BY <2>1
  <2>3. buffer \in Seq(SerialBytes)
    BY DEF PaInv, PaTypes
  <2>4. Placed(Pa!Stream, buffer, w, l, pos + n, lost + 1)
    BY <1>2, <2>2, <2>3, PlacedLost
  <2>5. f \in 0 .. pos + n /\ g \in 0 .. lost + 1
    BY <1>2
  <2> QED
    BY <1>3, <1>4, <2>2, <2>4, <2>5, Zenon DEF Recognised
<1>7. lost' > 0
  BY <1>2, <1>3
<1> QED
  BY <1>5, <1>6, <1>7 DEF PaInv

(* What both filters see: the bytes that were kept, then those of the block.*)
LEMMA BlockSeen ==
  ASSUME Pa!SerialParsersAssumption, PaInv, NEW n \in Pa!Blocks
  PROVE  LET q == buffer \o SubSeq(Pa!Stream, pos + 1, pos + n)
         IN  /\ n \in Nat \ {0} /\ pos \in Nat /\ pos + n \in 0 .. Len(Pa!Stream) /\ lost \in Nat
             /\ Len(Pa!Stream) \in Nat /\ Messages \in Nat /\ Period \in {4, 6}
             /\ Len(Pa!Stream) = Period * Messages /\ Pa!Stream \in Seq(SerialBytes)
             /\ q \in Seq(SerialBytes) /\ Len(q) = Len(buffer) + n /\ Len(q) <= pos + n
             /\ \A i \in 1 .. Len(buffer) : q[i] = buffer[i]
             /\ \A i \in 1 .. n : q[Len(buffer) + i] = Pa!Stream[pos + i]
             /\ \E w, l : \E f \in 0 .. pos, g \in 0 .. lost :
                  /\ Placed(Pa!Stream, q, w, l, pos + n, lost) /\ Beyond(q, w, l, f, g)
                  /\ Told(seen, Period, f, g)
                  /\ \A i \in Len(buffer) + 1 .. Len(buffer) + n : l[i] = lost
<1> DEFINE q == buffer \o SubSeq(Pa!Stream, pos + 1, pos + n)
<1>1. /\ Len(Pa!Stream) = Period * Messages /\ Period \in {4, 6} /\ Messages \in Nat
      /\ Pa!Stream \in Seq(SerialBytes) /\ Len(Pa!Stream) \in Nat
  BY StreamLength DEF PaInv, PaTypes
<1>2. n \in Nat \ {0} /\ pos + n <= Len(Pa!Stream) /\ pos \in Nat /\ lost \in Nat
  BY <1>1 DEF Pa!Blocks, PaInv, PaTypes, Pa!SerialParsersAssumption
<1>3. buffer \in Seq(SerialBytes) /\ Len(buffer) \in Nat /\ Len(buffer) <= pos
  BY DEF PaInv, PaTypes
<1>4. PICK w, l : \E f \in 0 .. pos, g \in 0 .. lost :
        /\ Placed(Pa!Stream, buffer, w, l, pos, lost) /\ Beyond(buffer, w, l, f, g)
        /\ Told(seen, Period, f, g)
  BY DEF PaInv, Recognised
<1>5. PICK f \in 0 .. pos, g \in 0 .. lost :
        /\ Placed(Pa!Stream, buffer, w, l, pos, lost) /\ Beyond(buffer, w, l, f, g)
        /\ Told(seen, Period, f, g)
  BY <1>4
<1>6. /\ q \in Seq(SerialBytes) /\ Len(q) = Len(buffer) + n
      /\ \A i \in 1 .. Len(buffer) : q[i] = buffer[i]
      /\ \A i \in 1 .. n : q[Len(buffer) + i] = Pa!Stream[pos + i]
      /\ \E w1, l1 : /\ Placed(Pa!Stream, q, w1, l1, pos + n, lost) /\ Beyond(q, w1, l1, f, g)
                     /\ \A i \in Len(buffer) + 1 .. Len(buffer) + n : l1[i] = lost
  <2>1. Extended(Pa!Stream, buffer, q, pos, n, lost, f, g)
    BY <1>1, <1>2, <1>3, <1>5, PlacedJoined
  <2> HIDE DEF q
  <2> QED
    BY <2>1, Zenon DEF Extended
<1>7. Len(buffer) + n <= pos + n /\ pos + n \in 0 .. Len(Pa!Stream)
  BY <1>1, <1>2, <1>3
<1> HIDE DEF q
<1>8. Len(q) <= pos + n
  BY <1>6, <1>7
<1>9. \E w2, l2 : \E f2 \in 0 .. pos, g2 \in 0 .. lost :
        /\ Placed(Pa!Stream, q, w2, l2, pos + n, lost) /\ Beyond(q, w2, l2, f2, g2)
        /\ Told(seen, Period, f2, g2)
        /\ \A i \in Len(buffer) + 1 .. Len(buffer) + n : l2[i] = lost
  BY <1>5, <1>6, Zenon
<1> QED
  BY <1>1, <1>2, <1>6, <1>7, <1>8, <1>9, Zenon DEF q

(* What the Receiver does with its queue q. *)
ReceiverDoes(q, head, foot) ==
  LET data  == SubSeq(q, head + 2, foot - 1)
      found == head > 0 /\ foot > 0
      long  == Len(q) > MaxQueue
      odd   == foot >= head + 2 /\ Len(data) % 2 = 1
  IN  CASE ~found -> buffer' = q /\ UNCHANGED <<seen, threw>>
        [] found /\ (long \/ odd) -> buffer' = q /\ threw' = TRUE /\ UNCHANGED seen
        [] found /\ ~long /\ foot < head + 2 ->
             buffer' = Pa!From(q, foot + 2) /\ UNCHANGED <<seen, threw>>
        [] found /\ ~long /\ foot = head + 2 -> buffer' = q /\ UNCHANGED <<seen, threw>>
        [] OTHER -> /\ buffer' = Pa!From(q, foot + 2)
                    /\ seen' = Append(seen, data)
                    /\ UNCHANGED threw

LEMMA ReceiverSearches ==
  ASSUME NEW block1, Pa!Receiver(block1)
  PROVE  LET q == buffer \o block1
         IN  ReceiverDoes(q, Pa!search(q, "B", "EGIN"), Pa!search(q, "E", "ND"))
BY DEF Pa!Receiver, ReceiverDoes

LEMMA ReceiverCases ==
  ASSUME NEW q \in Seq(SerialBytes), NEW head \in Nat, NEW foot \in Nat, ReceiverDoes(q, head, foot)
  PROVE  \/ buffer' = q /\ seen' = seen /\ threw' = threw
         \/ Len(q) > MaxQueue /\ buffer' = q /\ seen' = seen /\ threw' = TRUE
         \/ /\ head # 0 /\ foot # 0 /\ foot < head + 2
            /\ buffer' = Pa!From(q, foot + 2) /\ seen' = seen /\ threw' = threw
         \/ /\ head # 0 /\ foot # 0 /\ foot >= head + 2 /\ Len(SubSeq(q, head + 2, foot - 1)) % 2 = 1
            /\ buffer' = q /\ seen' = seen /\ threw' = TRUE
         \/ /\ head # 0 /\ foot # 0 /\ foot >= head + 2
            /\ buffer' = Pa!From(q, foot + 2) /\ seen' = Append(seen, SubSeq(q, head + 2, foot - 1)) /\ threw' = threw
<1> DEFINE data  == SubSeq(q, head + 2, foot - 1)
           found == head > 0 /\ foot > 0
           long  == Len(q) > MaxQueue
           some  == Len(data) % 2 = 1
           odd   == foot >= head + 2 /\ some
<1>1. TRUE /\
       CASE ~found -> buffer' = q /\ UNCHANGED <<seen, threw>>
        [] found /\ (long \/ odd) -> buffer' = q /\ threw' = TRUE /\ UNCHANGED seen
        [] found /\ ~long /\ foot < head + 2 ->
             buffer' = Pa!From(q, foot + 2) /\ UNCHANGED <<seen, threw>>
        [] found /\ ~long /\ foot = head + 2 -> buffer' = q /\ UNCHANGED <<seen, threw>>
        [] OTHER -> /\ buffer' = Pa!From(q, foot + 2)
                    /\ seen' = Append(seen, data)
                    /\ UNCHANGED threw
  BY DEF ReceiverDoes
<1>2. foot = head + 2 => ~some
  <2>1. foot = head + 2 => Len(data) = 0
    OBVIOUS
  <2>2. ~ (0 % 2 = 1)
    OBVIOUS
  <2> HIDE DEF data
  <2> QED
    BY <2>1, <2>2
<1> HIDE DEF data, some, long
<1>3. CASE ~found
  BY <1>1, <1>3
<1>4. CASE found /\ long
  BY <1>1, <1>4 DEF long
<1>5. CASE found /\ ~long /\ odd
  <2>1. buffer' = q /\ threw' = TRUE /\ seen' = seen /\ head # 0 /\ foot # 0 /\ foot >= head + 2 /\ some
    BY <1>1, <1>2, <1>5
  <2> QED
    BY <2>1, Zenon DEF some, data
<1>6. CASE found /\ ~long /\ foot < head + 2
  BY <1>1, <1>6
<1>7. CASE found /\ ~long /\ foot = head + 2
  BY <1>1, <1>2, <1>7
<1>8. CASE found /\ ~long /\ foot > head + 2 /\ ~some
  <2>1. /\ buffer' = Pa!From(q, foot + 2) /\ seen' = Append(seen, data) /\ threw' = threw
        /\ head # 0 /\ foot # 0 /\ foot >= head + 2
    BY <1>1, <1>8
  <2> QED
    BY <2>1, Zenon DEF data
<1>9. \/ ~found
      \/ found /\ long
      \/ found /\ ~long /\ odd
      \/ found /\ ~long /\ foot < head + 2
      \/ found /\ ~long /\ foot = head + 2
      \/ found /\ ~long /\ foot > head + 2 /\ ~some
  <2>1. foot < head + 2 \/ foot = head + 2 \/ (foot > head + 2 /\ foot >= head + 2)
    OBVIOUS
  <2> QED
    BY <2>1, Zenon
<1> QED
  BY <1>3, <1>4, <1>5, <1>6, <1>7, <1>8, <1>9

LEMMA ReceiverStep ==
  ASSUME Pa!SerialParsersAssumption, PaInv, ~threw, parser = "Receiver", NEW n \in Pa!Blocks,
         Pa!Receiver(SubSeq(Pa!Stream, pos + 1, pos + n)),
         pos' = pos + n, parser' = parser, lost' = lost
  PROVE  PaInv'
<1> DEFINE block1 == SubSeq(Pa!Stream, pos + 1, pos + n)
<1>1. PICK q : q = buffer \o block1
  OBVIOUS
<1>2. PICK S : S = Pa!Stream
  OBVIOUS
<1>3. /\ n \in Nat \ {0} /\ pos \in Nat /\ pos + n \in 0 .. Len(S) /\ lost \in Nat
      /\ Messages \in Nat /\ Len(S) = Period * Messages /\ S \in Seq(SerialBytes)
      /\ q \in Seq(SerialBytes) /\ Len(q) = Len(buffer) + n /\ Len(q) <= pos + n
  BY <1>1, <1>2, BlockSeen, Zenon
<1>4. \E w, l : \E f \in 0 .. pos, g \in 0 .. lost :
        Placed(S, q, w, l, pos + n, lost) /\ Beyond(q, w, l, f, g) /\ Told(seen, Period, f, g)
  BY <1>1, <1>2, BlockSeen, Zenon
<1>5. Period = 6 /\ Framed(S)
  BY <1>2, ReceiverStream DEF Period
<1>6. PICK p \in 0 .. 6 * Messages, c \in Nat : p = pos + n /\ c = lost
  BY <1>3, <1>5
<1>7. PICK w, l, f, g : /\ f \in 0 .. pos /\ g \in 0 .. c /\ Placed(S, q, w, l, p, c)
                        /\ Beyond(q, w, l, f, g) /\ Told(seen, 6, f, g)
  BY <1>4, <1>5, <1>6, Zenon
<1>8. f \in Nat /\ g \in Nat /\ f <= p /\ g <= c /\ p \in Nat /\ f \in 0 .. p
  BY <1>3, <1>6, <1>7
<1>9. /\ seen \in Seq(Seq(SerialBytes)) /\ buffer \in Seq(SerialBytes) /\ Len(buffer) <= pos
      /\ parser \in {"Receiver", "HWStateTracker"} /\ lost \in 0 .. MaxLost /\ threw \in BOOLEAN
  BY DEF PaInv, PaTypes
<1>10. PICK head \in Nat, foot \in Nat : head = Pa!search(q, "B", "EGIN") /\ foot = Pa!search(q, "E", "ND")
  BY <1>3, SearchIs
<1>11. ReceiverDoes(q, head, foot)
  BY <1>1, <1>10, ReceiverSearches, Zenon
<1>12. head # 0 /\ foot # 0 => Delimited(q, head, foot)
  <2>1. head # 0 => head \in 1 .. Len(q) - 1 /\ q[head][1] = "B"
    BY <1>3, <1>10, SearchIs
  <2>2. foot # 0 => foot \in 1 .. Len(q) - 1 /\ q[foot][1] = "E" /\ q[foot + 1][1] = "ND"
    BY <1>3, <1>10, SearchIs
  <2>3. \A j \in 1 .. Len(q) - 1 : q[j][1] = "B" /\ q[j + 1][1] = "EGIN" => head <= j
    BY <1>3, <1>10, SearchIs
  <2>4. \A j \in 1 .. Len(q) - 1 : q[j][1] = "E" /\ q[j + 1][1] = "ND" => foot <= j
    BY <1>3, <1>10, SearchIs
  <2> QED
    BY <2>1, <2>2, <2>3, <2>4 DEF Delimited
<1>13. PICK z \in Nat : z = pos - Len(buffer)
  <2>1. Len(buffer) \in Nat /\ Len(buffer) <= pos /\ pos \in Nat
    BY <1>3, <1>9
  <2>2. pos - Len(buffer) \in Nat
    BY <2>1
  <2> QED
    BY <2>2
<1>14. z + Len(q) = p /\ z = p - Len(q) /\ z + Len(q) <= 6 * Messages
  BY <1>3, <1>6, <1>9, <1>13
<1>15. lost = 0 => Kept(seen, z) /\ (\A i \in 1 .. Len(q) : l[i] = 0 /\ w[i] = z + i /\ q[i] = S[z + i])
  <2> SUFFICES ASSUME lost = 0 PROVE Kept(seen, z) /\ (\A i \in 1 .. Len(q) : l[i] = 0 /\ w[i] = z + i /\ q[i] = S[z + i])
    OBVIOUS
  <2>1. Kept(seen, z)
    BY <1>13 DEF PaInv
  <2>2. Placed(S, q, w, l, p, 0)
    BY <1>6, <1>7
  <2>3. \A i \in 1 .. Len(q) : /\ l[i] = 0 /\ w[i] = p - (Len(q) - i) /\ w[i] = (p - Len(q)) + i
                                /\ q[i] = S[(p - Len(q)) + i]
    <3>1. q \in Seq(SerialBytes) /\ p \in Nat
      BY <1>3, <1>8
    <3> QED
      BY <2>2, <3>1, NothingLost
  <2>4. p - Len(q) = z
    BY <1>14
  <2> QED
    BY <2>1, <2>3, <2>4, Zenon
<1>16. Pa!Stream' = S /\ Period' = 6 /\ pos' = p /\ lost' = c /\ parser' = "Receiver"
  BY <1>2, <1>5, <1>6 DEF Pa!Stream, Pa!Roles, Period
(* It is enough to say where the queue and what was seen come from.         *)
<1>17. ASSUME buffer' \in Seq(SerialBytes), Len(buffer') <= p, seen' \in Seq(Seq(SerialBytes)), threw' \in BOOLEAN,
              threw' => lost > 0 \/ Len(buffer') > MaxQueue,
              NEW w1, NEW l1, NEW f1 \in 0 .. p, NEW g1 \in 0 .. c,
              Placed(S, buffer', w1, l1, p, c), Beyond(buffer', w1, l1, f1, g1), Told(seen', 6, f1, g1),
              lost = 0 => Kept(seen', p - Len(buffer'))
       PROVE  PaInv'
  <2>1. PaTypes'
    <3>1. p \in 0 .. Len(S)
      BY <1>3, <1>6
    <3> QED
      BY <1>9, <1>16, <1>17, <3>1, Zenon DEF PaTypes
  <2>2. Recognised'
    BY <1>16, <1>17, Zenon DEF Recognised
  <2>3. lost' = lost
    OBVIOUS
  <2>4. threw' => lost' > 0 \/ Len(buffer') > MaxQueue
    BY <1>17, <2>3
  <2>5. lost' = 0 => Kept(seen', p - Len(buffer'))
    BY <1>17, <2>3
  <2> QED
    BY <1>16, <2>1, <2>2, <2>4, <2>5, Zenon DEF PaInv
<1>18. CASE buffer' = q /\ seen' = seen /\ threw' = threw
  <2>1. Len(q) <= p /\ p - Len(q) = z
    BY <1>3, <1>6, <1>14
  <2>2. threw' => lost > 0 \/ Len(buffer') > MaxQueue
    BY <1>18
  <2>3. lost = 0 => Kept(seen', p - Len(buffer'))
    BY <1>15, <1>18, <2>1
  <2> QED
    BY <1>3, <1>7, <1>8, <1>9, <1>17, <1>18, <2>1, <2>2, <2>3
<1>19. CASE /\ head # 0 /\ foot # 0 /\ foot < head + 2
            /\ buffer' = Pa!From(q, foot + 2) /\ seen' = seen /\ threw' = threw
  <2>1. Delimited(q, head, foot)
    BY <1>12, <1>19
  <2>2. PICK h \in 1 .. Len(q) : h = foot + 1
    BY <2>1 DEF Delimited
  <2>3. foot + 2 = h + 1
    BY <2>2
  <2>4. /\ buffer' \in Seq(SerialBytes) /\ Len(buffer') = Len(q) - h
        /\ w[h] \in 0 .. p /\ l[h] \in 0 .. c
        /\ \E w1, l1 : Placed(S, buffer', w1, l1, p, c) /\ Beyond(buffer', w1, l1, w[h], l[h])
    <3>1. /\ Pa!From(q, h + 1) \in Seq(SerialBytes) /\ Len(Pa!From(q, h + 1)) = Len(q) - h
          /\ w[h] \in 0 .. p /\ l[h] \in 0 .. c
          /\ \E w1, l1 : /\ Placed(S, Pa!From(q, h + 1), w1, l1, p, c)
                         /\ Beyond(Pa!From(q, h + 1), w1, l1, w[h], l[h])
      BY <1>3, <1>7, <1>8, PlacedFrom
    <3>2. buffer' = Pa!From(q, h + 1)
      BY <1>19, <2>3
    <3> QED
      BY <3>1, <3>2, Zenon
  <2>5. PICK w1, l1 : Placed(S, buffer', w1, l1, p, c) /\ Beyond(buffer', w1, l1, w[h], l[h])
    BY <2>4
  <2>6. Told(seen, 6, w[h], l[h])
    <3>1. f < w[h] /\ g <= l[h]
      BY <1>7 DEF Beyond
    <3>2. PICK f1 \in Nat, g1 \in Nat : f1 = w[h] /\ g1 = l[h]
      BY <2>4
    <3>3. f <= f1 /\ g <= g1 /\ 6 \in {4, 6}
      BY <1>8, <3>1, <3>2
    <3> QED
      BY <1>3, <1>7, <1>8, <1>9, <3>2, <3>3, ToldMore
  <2>7. Len(buffer') <= p /\ p - Len(buffer') = z + (foot + 1)
    BY <1>3, <1>6, <1>14, <2>2, <2>4
  <2>8. lost = 0 => Kept(seen', p - Len(buffer'))
    <3>1. ASSUME lost = 0 PROVE Kept(seen, z + (foot + 1))
      <4>1. Kept(seen, z) /\ \A i \in 1 .. Len(q) : q[i] = S[z + i]
        BY <1>15, <3>1
      <4>2. foot < head + 2
        BY <1>19
      <4> QED
        BY <1>3, <1>5, <1>14, <2>1, <4>1, <4>2, KeptDropped
    <3> QED
      BY <1>19, <2>7, <3>1
  <2>9. threw' => lost > 0 \/ Len(buffer') > MaxQueue
    BY <1>19
  <2> QED
    BY <1>9, <1>17, <1>19, <2>4, <2>5, <2>6, <2>7, <2>8, <2>9
<1>20. CASE /\ head # 0 /\ foot # 0 /\ foot >= head + 2 /\ Len(SubSeq(q, head + 2, foot - 1)) % 2 = 1
            /\ buffer' = q /\ seen' = seen /\ threw' = TRUE
  <2>1. Delimited(q, head, foot) /\ foot >= head + 2
    BY <1>12, <1>20
  <2>2. FrameOrGap(q, w, l, head, foot)
    BY <1>3, <1>5, <1>7, <2>1, FrameFound
  <2>3. lost # 0
    <3> SUFFICES ASSUME lost = 0 PROVE FALSE
      OBVIOUS
    <3>1. head \in 1 .. Len(q) /\ foot + 1 \in 1 .. Len(q)
      BY <1>3, <2>1 DEF Delimited
    <3>2. l[head] = l[foot + 1]
      BY <1>15, <3>1
    <3>3. PICK k \in 1 .. Messages : SubSeq(q, head + 2, foot - 1) = Sample(k, 6)
      BY <2>2, <3>2 DEF FrameOrGap
    <3>4. Len(Sample(k, 6)) = 2 /\ ~ (2 % 2 = 1)
      BY DEF Sample
    <3> QED
      BY <1>20, <3>3, <3>4, Zenon
  <2>4. Len(q) <= p /\ p - Len(q) = z /\ lost > 0
    BY <1>3, <1>6, <1>14, <2>3
  <2>5. lost = 0 => Kept(seen', p - Len(buffer'))
    BY <1>15, <1>20, <2>4
  <2>6. buffer' = q /\ seen' = seen /\ threw' \in BOOLEAN
    BY <1>20
  <2> QED
    BY <1>3, <1>7, <1>8, <1>9, <1>17, <2>4, <2>5, <2>6
<1>21. CASE /\ head # 0 /\ foot # 0 /\ foot >= head + 2
            /\ buffer' = Pa!From(q, foot + 2) /\ seen' = Append(seen, SubSeq(q, head + 2, foot - 1)) /\ threw' = threw
  <2>1. Delimited(q, head, foot) /\ foot >= head + 2
    BY <1>12, <1>21
  <2>2. PICK h \in 1 .. Len(q) : h = foot + 1
    BY <2>1 DEF Delimited
  <2>3. foot + 2 = h + 1
    BY <2>2
  <2>4. /\ buffer' \in Seq(SerialBytes) /\ Len(buffer') = Len(q) - h
        /\ w[h] \in 0 .. p /\ l[h] \in 0 .. c
        /\ \E w1, l1 : Placed(S, buffer', w1, l1, p, c) /\ Beyond(buffer', w1, l1, w[h], l[h])
    <3>1. /\ Pa!From(q, h + 1) \in Seq(SerialBytes) /\ Len(Pa!From(q, h + 1)) = Len(q) - h
          /\ w[h] \in 0 .. p /\ l[h] \in 0 .. c
          /\ \E w1, l1 : /\ Placed(S, Pa!From(q, h + 1), w1, l1, p, c)
                         /\ Beyond(Pa!From(q, h + 1), w1, l1, w[h], l[h])
      BY <1>3, <1>7, <1>8, PlacedFrom
    <3>2. buffer' = Pa!From(q, h + 1)
      BY <1>21, <2>3
    <3> QED
      BY <3>1, <3>2, Zenon
  <2>5. PICK w1, l1 : Placed(S, buffer', w1, l1, p, c) /\ Beyond(buffer', w1, l1, w[h], l[h])
    BY <2>4
  <2>6. Told(seen', 6, w[h], l[h])
    <3>1. Told(Append(seen, SubSeq(q, head + 2, foot - 1)), 6, w[foot + 1], l[foot + 1])
      BY <1>3, <1>5, <1>7, <1>8, <1>9, <2>1, FrameTold
    <3> QED
      BY <1>21, <2>2, <3>1, Zenon
  <2>7. Len(buffer') <= p /\ p - Len(buffer') = z + (foot + 1)
    BY <1>3, <1>6, <1>14, <2>2, <2>4
  <2>8. SubSeq(q, head + 2, foot - 1) \in Seq(SerialBytes) /\ seen' \in Seq(Seq(SerialBytes))
    <3>0. head \in 1 .. Len(q) - 1 /\ foot \in 1 .. Len(q) - 1
      BY <2>1 DEF Delimited
    <3>1. SubSeq(q, head + 2, foot - 1) \in Seq(SerialBytes)
      BY <1>3, <3>0
    <3> QED
      BY <1>9, <1>21, <3>1, Appended
  <2>9. ASSUME lost = 0 PROVE Kept(seen', z + (foot + 1))
    <3>1. Kept(seen, z) /\ \A i \in 1 .. Len(q) : l[i] = 0 /\ w[i] = z + i /\ q[i] = S[z + i]
      BY <1>15, <2>9
    <3>2. head \in 1 .. Len(q) /\ foot + 1 \in 1 .. Len(q)
      <4>1. head \in 1 .. Len(q) - 1 /\ foot \in 1 .. Len(q) - 1
        BY <2>1 DEF Delimited
      <4> QED
        BY <1>3, <4>1
    <3>3. l[head] = l[foot + 1] /\ w[head] = z + head /\ w[foot + 1] = z + (foot + 1)
      BY <3>1, <3>2
    <3>4. FrameOrGap(q, w, l, head, foot)
      BY <1>3, <1>5, <1>7, <2>1, FrameFound
    <3>5. PICK k \in 1 .. Messages : w[head] = 6 * k - 5 /\ w[foot + 1] = 6 * k /\ SubSeq(q, head + 2, foot - 1) = Sample(k, 6)
      BY <3>3, <3>4 DEF FrameOrGap
    <3>6. z + head = 6 * k - 5 /\ z + (foot + 1) = 6 * k
      BY <3>3, <3>5
    <3>7. SubSeq(q, head + 2, foot - 1)[1][2] = k
      BY <3>5, NumberOfSample
    <3>8. PICK x \in Seq(SerialBytes) : x = SubSeq(q, head + 2, foot - 1)
      BY <2>8
    <3>9. Kept(Append(seen, x), z + (foot + 1))
      <4>1. \A i \in 1 .. Len(q) : q[i] = S[z + i]
        BY <3>1
      <4>2. x[1][2] = k /\ q \in Seq(SerialBytes) /\ seen \in Seq(Seq(SerialBytes)) /\ Messages \in Nat
        BY <1>3, <1>9, <3>7, <3>8
      <4>3. Kept(seen, z)
        BY <3>1
      <4> QED
        BY <1>5, <1>14, <2>1, <3>6, <4>1, <4>2, <4>3, KeptTaken
    <3> QED
      BY <1>21, <3>8, <3>9, Zenon
  <2>10. lost = 0 => Kept(seen', p - Len(buffer'))
    BY <2>7, <2>9
  <2>11. (threw' => lost > 0 \/ Len(buffer') > MaxQueue) /\ threw' \in BOOLEAN
    BY <1>9, <1>21
  <2> QED
    BY <1>17, <2>4, <2>5, <2>6, <2>7, <2>8, <2>10, <2>11
<1>22. CASE Len(q) > MaxQueue /\ buffer' = q /\ seen' = seen /\ threw' = TRUE
  <2>1. Len(q) <= p /\ p - Len(q) = z
    BY <1>3, <1>6, <1>14
  <2>2. lost = 0 => Kept(seen', p - Len(buffer'))
    BY <1>15, <1>22, <2>1
  <2>3. (threw' => lost > 0 \/ Len(buffer') > MaxQueue) /\ threw' \in BOOLEAN
    BY <1>22
  <2> QED
    BY <1>3, <1>7, <1>8, <1>9, <1>17, <1>22, <2>1, <2>2, <2>3
<1> QED
  BY <1>3, <1>11, <1>18, <1>19, <1>20, <1>21, <1>22, ReceiverCases

LEMMA CutJoined ==
  ASSUME NEW X, NEW a \in Seq(X), NEW b \in Seq(X), NEW i \in 1 .. Len(b)
  PROVE  LET q == a \o b
         IN  /\ SubSeq(b, i + 1, Len(b)) = SubSeq(q, Len(a) + i + 1, Len(q))
             /\ a \o SubSeq(b, 1, i - 1) = SubSeq(q, 1, Len(a) + i - 1)
<1> DEFINE q == a \o b
           t == SubSeq(b, i + 1, Len(b))
           u == SubSeq(q, Len(a) + i + 1, Len(q))
           v == a \o SubSeq(b, 1, i - 1)
           x == SubSeq(q, 1, Len(a) + i - 1)
<1>1. q \in Seq(X) /\ Len(q) = Len(a) + Len(b) /\ Len(a) \in Nat /\ Len(b) \in Nat
  OBVIOUS
<1>2. (\A j \in 1 .. Len(a) : q[j] = a[j]) /\ (\A j \in 1 .. Len(b) : q[Len(a) + j] = b[j])
  OBVIOUS
<1>3. t \in Seq(X) /\ Len(t) = Len(b) - i /\ \A j \in 1 .. Len(b) - i : t[j] = b[j + i]
  OBVIOUS
<1>4. v \in Seq(X) /\ Len(v) = Len(a) + (i - 1)
  OBVIOUS
<1>5. \A j \in 1 .. Len(a) + (i - 1) : v[j] = IF j <= Len(a) THEN a[j] ELSE b[j - Len(a)]
  OBVIOUS
<1> HIDE DEF q, t, v
<1>6. Len(a) + i + 1 \in 1 .. Len(q) + 1 /\ Len(a) + i - 1 \in 0 .. Len(q)
  BY <1>1
<1>7. u \in Seq(X) /\ Len(u) = Len(b) - i /\ \A j \in 1 .. Len(b) - i : u[j] = q[j + (Len(a) + i)]
  BY <1>1, <1>6
<1>8. x \in Seq(X) /\ Len(x) = Len(a) + (i - 1) /\ \A j \in 1 .. Len(a) + (i - 1) : x[j] = q[j]
  BY <1>1, <1>6
<1> HIDE DEF u, x
<1>9. t = u
  <2>1. ASSUME NEW j \in 1 .. Len(b) - i PROVE t[j] = u[j]
    <3>1. j + i \in 1 .. Len(b) /\ j + (Len(a) + i) = Len(a) + (j + i)
      BY <1>1
    <3>2. u[j] = q[Len(a) + (j + i)]
      BY <1>7, <3>1
    <3>3. q[Len(a) + (j + i)] = b[j + i]
      BY <1>2, <3>1
    <3> QED
      BY <1>3, <3>2, <3>3
  <2> QED
    BY <1>3, <1>7, <2>1, SeqEqual
<1>10. v = x
  <2>1. ASSUME NEW j \in 1 .. Len(a) + (i - 1) PROVE v[j] = x[j]
    <3>1. CASE j <= Len(a)
      BY <1>1, <1>2, <1>5, <1>8, <3>1
    <3>2. CASE j > Len(a)
      <4>1. j - Len(a) \in 1 .. Len(b) /\ Len(a) + (j - Len(a)) = j
        BY <1>1, <3>2
      <4>2. q[Len(a) + (j - Len(a))] = b[j - Len(a)]
        BY <1>2, <4>1
      <4>3. v[j] = b[j - Len(a)]
        BY <1>1, <1>5, <3>2
      <4> QED
        BY <1>8, <4>1, <4>2, <4>3
    <3> QED
      BY <1>1, <3>1, <3>2
  <2> QED
    BY <1>4, <1>8, <2>1, SeqEqual
<1> QED
  BY <1>9, <1>10 DEF q, t, u, v, x

(* What the tracker reads after the letter of a line.                       *)
LEMMA NumberRead ==
  ASSUME NEW s \in Seq(SerialBytes), Len(s) >= 1
  PROVE  /\ Pa!Number(s) \in Seq(SerialBytes)
         /\ Pa!Number(s) # <<>> => Len(s) >= 2 /\ Pa!Number(s)[1] = s[2]
         /\ Len(s) >= 3 /\ s[2][1] = "ten" /\ s[3][1] = "one" /\ (Len(s) >= 4 => s[4][1] = "\n")
              => Pa!Number(s) = <<s[2], s[3]>>
<1> DEFINE places == {i \in 2 .. Len(s) : s[i][1] \notin {"ten", "one"}}
           other == Pa!First(places)
           top == IF other = 0 THEN Len(s) ELSE other - 1
<1>1. Pa!Number(s) = SubSeq(s, 2, top)
  BY DEF Pa!Number
<1>2. places \in SUBSET (Nat \ {0}) /\ \A i : i \in places <=> i \in 2 .. Len(s) /\ s[i][1] \notin {"ten", "one"}
  OBVIOUS
<1> HIDE DEF places
<1>3. /\ other \in Nat
      /\ other = 0 <=> places = {}
      /\ other # 0 => other \in places
      /\ \A j \in places : other <= j
  BY <1>2, FirstIs
<1> HIDE DEF other
<1>4. top \in 1 .. Len(s) /\ top \in Nat
  <2>1. Len(s) \in Nat
    OBVIOUS
  <2> QED
    BY <1>2, <1>3, <2>1
<1>5. ASSUME Len(s) >= 3, s[2][1] = "ten", s[3][1] = "one", Len(s) >= 4 => s[4][1] = "\n"
      PROVE  top = 3
  <2>1. Len(s) \in Nat /\ 2 \notin places /\ 3 \notin places
    BY <1>2, <1>5
  <2>2. Len(s) >= 4 => 4 \in places
    BY <1>2, <1>5, <2>1
  <2>3. other # 2 /\ other # 3
    BY <1>3, <2>1
  <2>4. CASE Len(s) >= 4
    <3>1. other # 0 /\ other <= 4 /\ other >= 2
      BY <1>2, <1>3, <2>2, <2>4
    <3> QED
      BY <1>3, <2>3, <3>1
  <2>5. CASE Len(s) = 3
    <3>1. other # 0 => other \in 2 .. 3
      BY <1>2, <1>3, <2>5
    <3>2. other = 0
      BY <1>3, <2>3, <3>1
    <3> QED
      BY <2>5, <3>2
  <2>6. Len(s) = 3 \/ Len(s) >= 4
    <3>1. PICK y \in Nat : y = Len(s)
      BY <2>1
    <3>2. y >= 3
      BY <1>5, <3>1
    <3>3. y = 3 \/ y >= 4
      BY <3>2
    <3> QED
      BY <3>1, <3>3
  <2> QED
    BY <2>4, <2>5, <2>6
<1> HIDE DEF top
<1>6. SubSeq(s, 2, top) \in Seq(SerialBytes)
  BY <1>4
<1>7. SubSeq(s, 2, top) # <<>> => top >= 2
  <2>1. CASE top = 1
    <3>1. Len(SubSeq(s, 2, top)) = 0
      BY <2>1
    <3> QED
      BY <1>6, <3>1, EmptySeq
  <2> QED
    BY <1>4, <2>1
<1>8. top >= 2 => Len(s) >= 2 /\ SubSeq(s, 2, top)[1] = s[2]
  BY <1>4
<1>9. ASSUME top = 3 PROVE SubSeq(s, 2, top) = <<s[2], s[3]>>
  <2>1. 2 \in 1 .. Len(s) - 1 /\ 2 + 1 = 3
    BY <1>4, <1>9
  <2>2. SubSeq(s, 2, 2 + 1) = <<s[2], s[2 + 1]>>
    BY <2>1, TwoOf
  <2> QED
    BY <1>9, <2>1, <2>2
<1> QED
  BY <1>1, <1>5, <1>6, <1>7, <1>8, <1>9

(* The same from the first byte of a line. *)
LEMMA FromFirst ==
  ASSUME Messages \in Nat, NEW S, NEW b \in Seq(SerialBytes), NEW w, NEW l,
         NEW p \in 0 .. 4 * Messages, NEW c \in Nat, Placed(S, b, w, l, p, c),
         NEW e \in 2 .. Len(b), l[1] = l[e]
  PROVE  Follow(b, w, S, 1, e)
<1>1. PICK u \in 1 .. Len(b), v \in 1 .. Len(b) : u = 1 /\ v = e
  OBVIOUS
<1>2. PICK t \in Nat : t = p
  OBVIOUS
<1>3. Placed(S, b, w, l, t, c) /\ u <= v /\ l[u] = l[v]
  BY <1>1, <1>2
<1>4. Follow(b, w, S, u, v)
  BY <1>3, Neighbours
<1> QED
  BY <1>1, <1>4, Zenon

LEMMA LineTold ==
  ASSUME Messages \in Nat, NEW S, Lined(S), NEW b \in Seq(SerialBytes), NEW w, NEW l,
         NEW p \in 0 .. 4 * Messages, NEW c \in Nat, Placed(S, b, w, l, p, c),
         NEW f \in Nat, NEW g \in Nat, Beyond(b, w, l, f, g),
         NEW s \in Seq(Seq(SerialBytes)), Told(s, 4, f, g),
         NEW e \in 2 .. Len(b), b[e][1] = "\n", b[1][1] = "T"
  PROVE  /\ Pa!Number(SubSeq(b, 1, e - 1)) \in Seq(SerialBytes)
         /\ Told(Append(s, Pa!Number(SubSeq(b, 1, e - 1))), 4, w[e], l[e])
<1>14. e - 1 \in 0 .. Len(b) /\ Len(b) \in Nat
  OBVIOUS
<1>13. SubSeq(b, 1, e - 1) \in Seq(SerialBytes)
  BY <1>14
<1>1. PICK a \in Seq(SerialBytes) : a = SubSeq(b, 1, e - 1)
  BY <1>13
<1>2. Len(a) = e - 1 /\ \A i \in 1 .. e - 1 : a[i] = b[i]
  BY <1>14, <1>1
<1>12. /\ Pa!Number(a) \in Seq(SerialBytes)
       /\ Pa!Number(a) # <<>> => Len(a) >= 2 /\ Pa!Number(a)[1] = a[2]
       /\ Len(a) >= 3 /\ a[2][1] = "ten" /\ a[3][1] = "one" /\ (Len(a) >= 4 => a[4][1] = "\n")
            => Pa!Number(a) = <<a[2], a[3]>>
  <2>1. Len(a) >= 1
    BY <1>2
  <2> QED
    BY <2>1, NumberRead
<1>3. PICK data \in Seq(SerialBytes) : data = Pa!Number(a)
  BY <1>12
<1>4. \A i \in 1 .. e : w[i] \in 1 .. 4 * Messages /\ b[i] = S[w[i]] /\ l[i] \in Nat /\ f < w[i] /\ g <= l[i]
  <2> TAKE i \in 1 .. e
  <2>1. i \in 1 .. Len(b)
    OBVIOUS
  <2>2. w[i] \in 1 .. p /\ b[i] = S[w[i]] /\ l[i] \in Nat /\ f < w[i] /\ g <= l[i]
    BY <2>1 DEF Placed, Beyond
  <2> QED
    BY <2>2
<1>5. PICK k \in 1 .. Messages : w[1] = 4 * k - 3
  <2>1. 1 \in 1 .. e
    OBVIOUS
  <2>2. w[1] \in 1 .. 4 * Messages /\ S[w[1]][1] = "T"
    BY <1>4, <2>1
  <2> QED
    BY <2>2, LinedRoles
<1>6. PICK m \in 1 .. Messages : w[e] = 4 * m
  <2>1. e \in 1 .. e
    OBVIOUS
  <2>2. w[e] \in 1 .. 4 * Messages /\ S[w[e]][1] = "\n"
    BY <1>4, <2>1
  <2> QED
    BY <2>2, LinedRoles
<1>7. f < 4 * k - 3 /\ 4 * k - 3 < 4 * m /\ l[1] \in Nat /\ l[e] \in Nat /\ g <= l[1] /\ l[1] <= l[e]
  <2>1. 1 \in 1 .. Len(b) /\ e \in 1 .. Len(b) /\ 1 < e /\ 1 \in 1 .. e /\ e \in 1 .. e
    OBVIOUS
  <2>2. w[1] < w[e] /\ l[1] <= l[e]
    BY <2>1 DEF Placed
  <2>3. f < w[1] /\ g <= l[1] /\ l[1] \in Nat /\ l[e] \in Nat
    BY <1>4, <2>1
  <2> QED
    BY <1>5, <1>6, <2>2, <2>3
<1>8. 4 * (Len(s) + 1) <= 4 * m /\ f <= 4 * m
  <2>1. 4 * Len(s) <= f /\ Len(s) \in Nat
    BY DEF Told
  <2>2. Len(s) < k /\ k <= m
    BY <1>7, <2>1
  <2> QED
    BY <1>7, <2>1, <2>2
<1>9. ASSUME WholeIn(data, 4) PROVE f < 4 * data[1][2] /\ 4 * data[1][2] <= 4 * m
  <2>1. PICK y \in 1 .. Messages : data = Sample(y, 4)
    BY <1>9 DEF WholeIn
  <2>2. data = <<<<"ten", y>>, <<"one", y>>>>
    BY <2>1 DEF Sample
  <2>3. data # <<>> /\ data[1] = <<"ten", y>>
    BY <2>2
  <2>4. Len(a) >= 2 /\ data[1] = a[2]
    BY <1>12, <1>3, <2>3, Zenon
  <2>5. 2 \in 1 .. e - 1 /\ 2 \in 1 .. e
    BY <1>2, <2>4
  <2>6. b[2] = <<"ten", y>>
    BY <1>2, <2>3, <2>4, <2>5
  <2>10. w[2] \in 1 .. 4 * Messages /\ b[2] = S[w[2]] /\ f < w[2]
    BY <1>4, <2>5
  <2>7. PICK x \in 1 .. 4 * Messages : x = w[2] /\ S[x] = <<"ten", y>> /\ f < x
    BY <2>6, <2>10
  <2>8. x = 4 * y - 2
    <3>1. S[x][1] = "ten" /\ S[x][2] = y
      BY <2>7
    <3> QED
      BY <3>1, LinedRoles
  <2>9. x < 4 * m
    <3>1. 2 \in 1 .. Len(b) /\ e \in 1 .. Len(b) /\ 2 < e
      BY <2>5
    <3>2. w[2] < w[e]
      BY <3>1 DEF Placed
    <3> QED
      BY <1>6, <2>7, <3>2
  <2> QED
    BY <2>3, <2>7, <2>8, <2>9
<1>10. ASSUME l[1] = l[e] PROVE WholeIn(data, 4)
  <2>1. \A x \in 1 .. e : w[x] = w[1] + (x - 1) /\ b[x] = S[w[1] + (x - 1)]
    <3>1. Follow(b, w, S, 1, e)
      BY <1>10, FromFirst
    <3> QED
      BY <3>1 DEF Follow
  <2>2. 4 * m = (4 * k - 3) + (e - 1)
    <3>1. e \in 1 .. e
      OBVIOUS
    <3> QED
      BY <1>5, <1>6, <2>1, <3>1
  <2>3. e >= 4
    <3>1. e \in Nat /\ k \in Nat /\ m \in Nat /\ e > 1
      BY <1>14
    <3>2. e = 4 * (m - k) + 4
      BY <2>2, <3>1
    <3>3. m - k \in Int /\ 4 * (m - k) > -3
      BY <3>1, <3>2
    <3>4. m - k >= 0
      BY <3>3
    <3> QED
      BY <3>2, <3>4
  <2>4. ASSUME NEW d \in 0 .. 3 PROVE b[1 + d] = S[(4 * k - 3) + d]
    <3>1. 1 + d \in 1 .. e /\ (1 + d) - 1 = d
      BY <2>3
    <3>2. b[1 + d] = S[w[1] + ((1 + d) - 1)]
      BY <2>1, <3>1
    <3> QED
      BY <1>5, <3>1, <3>2
  <2>5. (4 * k - 3) + 1 = 4 * k - 2 /\ (4 * k - 3) + 2 = 4 * k - 1 /\ (4 * k - 3) + 3 = 4 * k
    OBVIOUS
  <2>6. b[1 + 1] = S[4 * k - 2] /\ b[1 + 2] = S[4 * k - 1] /\ b[1 + 3] = S[4 * k]
    BY <2>4, <2>5
  <2>7. b[2] = <<"ten", k>> /\ b[3] = <<"one", k>> /\ b[4] = <<"\n", k>>
    <3>1. 1 + 1 = 2 /\ 1 + 2 = 3 /\ 1 + 3 = 4
      OBVIOUS
    <3> QED
      BY <2>6, <3>1, LineOf
  <2>8. Len(a) >= 3 /\ a[2] = b[2] /\ a[3] = b[3] /\ (Len(a) >= 4 => a[4] = b[4])
    BY <1>2, <2>3
  <2>9. data = <<a[2], a[3]>>
    <3>1. a[2][1] = "ten" /\ a[3][1] = "one"
      BY <2>7, <2>8
    <3>2. Len(a) >= 4 => a[4][1] = "\n"
      BY <2>7, <2>8
    <3> QED
      BY <1>12, <1>3, <2>8, <3>1, <3>2, Zenon
  <2>10. data = Sample(k, 4)
    BY <2>7, <2>8, <2>9 DEF Sample
  <2> QED
    BY <2>10 DEF WholeIn
<1>11. Told(Append(s, data), 4, w[e], l[e])
  <2>1. PICK f1 \in Nat : f1 = 4 * m
    OBVIOUS
  <2>2. PICK g1 \in Nat : g1 = l[e]
    BY <1>7
  <2>3. /\ f <= f1 /\ g <= g1 /\ 4 * (Len(s) + 1) <= f1 /\ 4 \in {4, 6}
        /\ WholeIn(data, 4) => f < 4 * data[1][2] /\ 4 * data[1][2] <= f1
        /\ ~ WholeIn(data, 4) => g < g1
    BY <1>7, <1>8, <1>9, <1>10, <2>1, <2>2
  <2>4. Told(Append(s, data), 4, f1, g1)
    BY <1>3, <2>3, ToldNext
  <2> QED
    BY <1>6, <2>1, <2>2, <2>4
<1> QED
  BY <1>1, <1>3, <1>11


LEMMA TrackerDoes ==
  ASSUME NEW block1, Pa!HWStateTracker(block1)
  PROVE  LET end == Pa!First({i \in 1 .. Len(block1) : block1[i][1] = "\n"})
             whole == buffer \o SubSeq(block1, 1, end - 1)
         IN  /\ threw' = threw
             /\ end = 0 => buffer' = buffer \o block1 /\ seen' = seen
             /\ end # 0 => /\ buffer' = SubSeq(block1, end + 1, Len(block1))
                           /\ \/ whole # <<>> /\ whole[1][1] = "T" /\ seen' = Append(seen, Pa!Number(whole))
                              \/ seen' = seen
BY Zenon DEF Pa!HWStateTracker, Pa!Rest, Pa!From

LEMMA TrackerStep ==
  ASSUME Pa!SerialParsersAssumption, PaInv, ~threw, parser = "HWStateTracker", NEW n \in Pa!Blocks,
         Pa!HWStateTracker(SubSeq(Pa!Stream, pos + 1, pos + n)),
         pos' = pos + n, parser' = parser, lost' = lost
  PROVE  PaInv'
<1>1. PICK x : x = SubSeq(Pa!Stream, pos + 1, pos + n)
  OBVIOUS
<1>2. PICK S, q : S = Pa!Stream /\ q = buffer \o x
  OBVIOUS
<1>3. /\ n \in Nat \ {0} /\ pos \in Nat /\ pos + n \in 0 .. Len(S) /\ lost \in Nat
      /\ Messages \in Nat /\ Len(S) = Period * Messages /\ S \in Seq(SerialBytes)
      /\ q \in Seq(SerialBytes) /\ Len(q) = Len(buffer) + n /\ Len(q) <= pos + n
  BY <1>1, <1>2, BlockSeen, Zenon
<1>4. \E w, l : \E f \in 0 .. pos, g \in 0 .. lost :
        Placed(S, q, w, l, pos + n, lost) /\ Beyond(q, w, l, f, g) /\ Told(seen, Period, f, g)
  BY <1>1, <1>2, BlockSeen, Zenon
<1>5. Period = 4 /\ Lined(S)
  BY <1>2, TrackerStream DEF Period
<1>6. PICK p \in 0 .. 4 * Messages, c \in Nat : p = pos + n /\ c = lost
  BY <1>3, <1>5
<1>7. PICK w, l, f, g : /\ f \in 0 .. pos /\ g \in 0 .. c /\ Placed(S, q, w, l, p, c)
                        /\ Beyond(q, w, l, f, g) /\ Told(seen, 4, f, g)
  BY <1>4, <1>5, <1>6, Zenon
<1>8. f \in Nat /\ g \in Nat /\ f <= p /\ g <= c /\ p \in Nat /\ f \in 0 .. p
  BY <1>3, <1>6, <1>7
<1>9. /\ seen \in Seq(Seq(SerialBytes)) /\ buffer \in Seq(SerialBytes) /\ Len(buffer) <= pos
      /\ parser \in {"Receiver", "HWStateTracker"} /\ lost \in 0 .. MaxLost /\ threw \in BOOLEAN
  BY DEF PaInv, PaTypes
<1>10. x \in Seq(SerialBytes) /\ Len(x) = n
  BY <1>1, <1>2, <1>3
<1>11. PICK end \in Nat :
         /\ threw' = threw
         /\ end = 0 => buffer' = q /\ seen' = seen
         /\ end # 0 => /\ end \in 1 .. Len(x) /\ x[end][1] = "\n"
                       /\ buffer' = SubSeq(x, end + 1, Len(x))
                       /\ LET whole == buffer \o SubSeq(x, 1, end - 1)
                          IN  \/ whole # <<>> /\ whole[1][1] = "T" /\ seen' = Append(seen, Pa!Number(whole))
                              \/ seen' = seen
  <2> DEFINE places == {i \in 1 .. Len(x) : x[i][1] = "\n"}
  <2>1. places \in SUBSET (Nat \ {0})
    OBVIOUS
  <2>2. Pa!First(places) \in Nat /\ (Pa!First(places) # 0 => Pa!First(places) \in places)
    BY <2>1, FirstIs
  <2>3. Pa!HWStateTracker(x)
    BY <1>1
  <2> QED
    BY <1>2, <2>2, <2>3, TrackerDoes, Zenon
<1>16. Pa!Stream' = S /\ Period' = 4 /\ pos' = p /\ lost' = c /\ parser' = "HWStateTracker"
  BY <1>2, <1>5, <1>6 DEF Pa!Stream, Pa!Roles, Period
(* It is enough to say where the line and what was seen come from.          *)
<1>17. ASSUME buffer' \in Seq(SerialBytes), Len(buffer') <= p, seen' \in Seq(Seq(SerialBytes)),
              NEW w1, NEW l1, NEW f1 \in 0 .. p, NEW g1 \in 0 .. c,
              Placed(S, buffer', w1, l1, p, c), Beyond(buffer', w1, l1, f1, g1), Told(seen', 4, f1, g1)
       PROVE  PaInv'
  <2>1. PaTypes'
    <3>1. p \in 0 .. Len(S) /\ threw' = threw
      BY <1>3, <1>6, <1>11
    <3> QED
      BY <1>9, <1>16, <1>17, <3>1, Zenon DEF PaTypes
  <2>2. Recognised'
    BY <1>16, <1>17, Zenon DEF Recognised
  <2>4. ~threw'
    BY <1>11
  <2>5. parser' # "Receiver"
    OBVIOUS
  <2> QED
    BY <2>1, <2>2, <2>4, <2>5, Zenon DEF PaInv
<1>18. CASE end = 0
  <2>1. Len(q) <= p /\ buffer' = q /\ seen' = seen
    BY <1>3, <1>6, <1>11, <1>18
  <2> QED
    BY <1>3, <1>7, <1>8, <1>9, <1>17, <2>1
<1>19. CASE end # 0
  <2>1. end \in 1 .. Len(x) /\ x[end][1] = "\n" /\ buffer' = SubSeq(x, end + 1, Len(x))
    BY <1>11, <1>19
  <2>2. PICK e \in 1 .. Len(q) : e = Len(buffer) + end
    <3>1. PICK m \in Nat : m = Len(buffer)
      BY <1>9
    <3>2. end \in 1 .. n /\ Len(q) = m + n
      BY <1>3, <1>10, <2>1, <3>1
    <3>3. m + end \in 1 .. Len(q)
      BY <1>3, <3>2
    <3> QED
      BY <3>1, <3>3
  <2>3. q[e][1] = "\n"
    <3>1. q[Len(buffer) + end] = x[end]
      BY <1>2, <1>9, <1>10, <2>1
    <3> QED
      BY <2>1, <2>2, <3>1
  <2>4. buffer' = Pa!From(q, e + 1) /\ buffer \o SubSeq(x, 1, end - 1) = SubSeq(q, 1, e - 1)
    <3>1. /\ SubSeq(x, end + 1, Len(x)) = SubSeq(q, Len(buffer) + end + 1, Len(q))
          /\ buffer \o SubSeq(x, 1, end - 1) = SubSeq(q, 1, Len(buffer) + end - 1)
      BY <1>2, <1>9, <1>10, <2>1, CutJoined
    <3>2. e + 1 = Len(buffer) + end + 1 /\ e - 1 = Len(buffer) + end - 1
      BY <1>9, <2>2
    <3> QED
      BY <2>1, <3>1, <3>2, Zenon DEF Pa!From
  <2>5. /\ buffer' \in Seq(SerialBytes) /\ Len(buffer') = Len(q) - e
        /\ w[e] \in 0 .. p /\ l[e] \in 0 .. c
        /\ \E w1, l1 : Placed(S, buffer', w1, l1, p, c) /\ Beyond(buffer', w1, l1, w[e], l[e])
    <3>1. /\ Pa!From(q, e + 1) \in Seq(SerialBytes) /\ Len(Pa!From(q, e + 1)) = Len(q) - e
          /\ w[e] \in 0 .. p /\ l[e] \in 0 .. c
          /\ \E w1, l1 : /\ Placed(S, Pa!From(q, e + 1), w1, l1, p, c)
                         /\ Beyond(Pa!From(q, e + 1), w1, l1, w[e], l[e])
      BY <1>3, <1>7, <1>8, PlacedFrom
    <3> QED
      BY <2>4, <3>1, Zenon
  <2>6. PICK w1, l1 : Placed(S, buffer', w1, l1, p, c) /\ Beyond(buffer', w1, l1, w[e], l[e])
    BY <2>5
  <2>7. seen' \in Seq(Seq(SerialBytes)) /\ Told(seen', 4, w[e], l[e])
    <3>1. CASE seen' = seen
      <4>1. f < w[e] /\ g <= l[e]
        BY <1>7 DEF Beyond
      <4>2. PICK f1 \in Nat, g1 \in Nat : f1 = w[e] /\ g1 = l[e]
        BY <2>5
      <4>3. f <= f1 /\ g <= g1 /\ 4 \in {4, 6}
        BY <1>8, <4>1, <4>2
      <4>4. Told(seen, 4, w[e], l[e])
        BY <1>3, <1>7, <1>8, <1>9, <4>2, <4>3, ToldMore
      <4> QED
        BY <1>9, <3>1, <4>4
    <3>2. CASE /\ SubSeq(q, 1, e - 1) # <<>> /\ SubSeq(q, 1, e - 1)[1][1] = "T"
               /\ seen' = Append(seen, Pa!Number(SubSeq(q, 1, e - 1)))
      <4>1. e \in 2 .. Len(q)
        <5>1. e # 1
          <6> SUFFICES ASSUME e = 1 PROVE FALSE
            OBVIOUS
          <6>1. SubSeq(q, 1, e - 1) \in Seq(SerialBytes) /\ Len(SubSeq(q, 1, e - 1)) = 0
            BY <1>3
          <6> QED
            BY <3>2, <6>1, EmptySeq
        <5> QED
          BY <5>1
      <4>2. q[1][1] = "T"
        BY <1>3, <3>2, <4>1
      <4>3. /\ Pa!Number(SubSeq(q, 1, e - 1)) \in Seq(SerialBytes)
            /\ Told(Append(seen, Pa!Number(SubSeq(q, 1, e - 1))), 4, w[e], l[e])
        BY <1>3, <1>5, <1>7, <1>8, <1>9, <2>3, <4>1, <4>2, LineTold
      <4> QED
        BY <1>9, <3>2, <4>3, Appended
    <3>3. \/ seen' = seen
          \/ /\ SubSeq(q, 1, e - 1) # <<>> /\ SubSeq(q, 1, e - 1)[1][1] = "T"
             /\ seen' = Append(seen, Pa!Number(SubSeq(q, 1, e - 1)))
      BY <1>11, <1>19, <2>4, Zenon
    <3> QED
      BY <3>1, <3>2, <3>3
  <2>8. Len(buffer') <= p
    BY <1>3, <1>6, <2>2, <2>5
  <2> QED
    BY <1>17, <2>5, <2>6, <2>7, <2>8
<1> QED
  BY <1>18, <1>19

LEMMA PaStep == Pa!SerialParsersAssumption /\ PaInv /\ [Pa!Next]_paVars => PaInv'
<1> SUFFICES ASSUME Pa!SerialParsersAssumption, PaInv, [Pa!Next]_paVars PROVE PaInv'
  OBVIOUS
<1>1. ASSUME ~threw, NEW n \in Pa!Blocks, Pa!Arrive(n) PROVE PaInv'
  <2>1. /\ \/ Pa!Receiver(SubSeq(Pa!Stream, pos + 1, pos + n))
           \/ Pa!HWStateTracker(SubSeq(Pa!Stream, pos + 1, pos + n))
        /\ pos' = pos + n /\ parser' = parser /\ lost' = lost
    BY <1>1, Zenon DEF Pa!Arrive
  <2>2. CASE Pa!Receiver(SubSeq(Pa!Stream, pos + 1, pos + n))
    <3>1. parser = "Receiver"
      BY <2>2, Zenon DEF Pa!Receiver
    <3> QED
      BY <1>1, <2>1, <2>2, <3>1, ReceiverStep, Zenon
  <2>3. CASE Pa!HWStateTracker(SubSeq(Pa!Stream, pos + 1, pos + n))
    <3>1. parser = "HWStateTracker"
      BY <2>3, Zenon DEF Pa!HWStateTracker
    <3> QED
      BY <1>1, <2>1, <2>3, <3>1, TrackerStep, Zenon
  <2> QED
    BY <2>1, <2>2, <2>3
<1>2. ASSUME NEW n \in Pa!Blocks, Pa!Lose(n) PROVE PaInv'
  BY <1>2, BlockLost
<1>3. CASE UNCHANGED paVars
  <2>1. /\ parser' = parser /\ pos' = pos /\ buffer' = buffer /\ seen' = seen
        /\ lost' = lost /\ threw' = threw
    BY <1>3 DEF paVars
  <2>2. Pa!Stream' = Pa!Stream /\ Period' = Period
    BY <2>1 DEF Pa!Stream, Pa!Roles, Period
  <2>3. PaTypes'
    BY <2>1, <2>2, Zenon DEF PaInv, PaTypes
  <2>4. Recognised'
    BY <2>1, <2>2, Zenon DEF PaInv, Recognised
  <2> QED
    BY <2>1, <2>3, <2>4, Zenon DEF PaInv
<1> QED
  BY <1>1, <1>2, <1>3 DEF Pa!Next

LEMMA PaHolds ==
  ASSUME Pa!SerialParsersAssumption, PaInv
  PROVE  Pa!TypeOK /\ Pa!MessagesInOrder /\ Pa!FramesKept
<1>1. /\ parser \in {"Receiver", "HWStateTracker"} /\ buffer \in Seq(SerialBytes) /\ Len(buffer) <= pos
      /\ seen \in Seq(Seq(SerialBytes)) /\ lost \in 0 .. MaxLost /\ threw \in BOOLEAN
      /\ pos \in 0 .. Len(Pa!Stream)
  BY DEF PaInv, PaTypes
<1>2. /\ Pa!Stream \in Seq(SerialBytes) /\ Len(Pa!Stream) = Period * Messages
      /\ Period \in {4, 6} /\ Messages \in Nat
  BY <1>1, StreamLength
<1>3. PICK w, l : \E f \in 0 .. pos, g \in 0 .. lost :
        /\ Placed(Pa!Stream, buffer, w, l, pos, lost) /\ Beyond(buffer, w, l, f, g)
        /\ Told(seen, Period, f, g)
  BY DEF PaInv, Recognised
<1>4. PICK f \in 0 .. pos, g \in 0 .. lost :
        Placed(Pa!Stream, buffer, w, l, pos, lost) /\ Told(seen, Period, f, g)
  BY <1>3
<1>5. MaxLost \in Nat /\ lost \in Nat /\ pos \in Nat /\ Len(Pa!Stream) \in Nat
  BY <1>1, <1>2 DEF Pa!SerialParsersAssumption
<1>6. Pa!TypeOK
  <2>1. Len(buffer) <= Len(Pa!Stream)
    BY <1>1, <1>5
  <2>2. Len(seen) <= Messages
    <3>1. PICK m \in Nat : m = Len(seen)
      BY <1>1
    <3>2. Period * m <= Period * Messages
      <4>1. Period * m <= f /\ f <= pos /\ pos <= Period * Messages
        BY <1>1, <1>2, <1>4, <3>1 DEF Told
      <4>2. Period * m \in Int /\ f \in Int /\ pos \in Int /\ Period * Messages \in Int
        BY <1>2, <1>5
      <4> QED
        BY <4>1, <4>2
    <3>3. m <= Messages
      <4>1. CASE Period = 4
        BY <1>2, <3>2, <4>1
      <4>2. CASE Period = 6
        BY <1>2, <3>2, <4>2
      <4> QED
        BY <1>2, <4>1, <4>2
    <3> QED
      BY <3>1, <3>3
  <2> QED
    BY <1>1, <2>1, <2>2, Zenon DEF Pa!TypeOK
<1>7. ASSUME NEW x PROVE Pa!Whole(x) <=> WholeIn(x, Period)
  <2>1. CASE parser = "Receiver"
    <3>1. Period = 6
      BY <2>1 DEF Period
    <3> QED
      BY <2>1, <3>1, Zenon DEF Pa!Whole, WholeIn, Sample
  <2>2. CASE parser # "Receiver"
    <3>1. Period = 4 /\ 4 # 6
      BY <2>2 DEF Period
    <3> QED
      BY <2>2, <3>1, Zenon DEF Pa!Whole, WholeIn, Sample
  <2> QED
    BY <2>1, <2>2
<1>8. Pa!MessagesInOrder
  <2>1. \A i, j \in 1 .. Len(seen) :
          i < j /\ Pa!Whole(seen[i]) /\ Pa!Whole(seen[j]) => seen[i][1][2] < seen[j][1][2]
    BY <1>4, <1>7, Zenon DEF Told
  <2>2. {i \in 1 .. Len(seen) : ~ Pa!Whole(seen[i])} = Spoiled(seen, Period)
    BY <1>7, Zenon DEF Spoiled
  <2>3. Cardinality(Spoiled(seen, Period)) <= lost
    <3>1. Cardinality(Spoiled(seen, Period)) \in Nat
      BY <1>1, SpoiledCounted
    <3>2. Cardinality(Spoiled(seen, Period)) <= g /\ g <= lost
      BY <1>4, <1>5 DEF Told
    <3> QED
      BY <1>5, <3>1, <3>2
  <2>4. threw => lost > 0 \/ Len(buffer) > MaxQueue
    BY DEF PaInv
  <2> QED
    BY <2>1, <2>2, <2>3, <2>4, SameCardinality, Zenon DEF Pa!MessagesInOrder
<1>9. Pa!FramesKept
  <2> SUFFICES ASSUME parser = "Receiver", lost = 0, NEW k \in 2 .. Messages,
                      NEW i \in 1 .. pos, Pa!Stream[i] = <<"low", k>>
               PROVE  \/ \E j \in 1 .. Len(seen) : seen[j][1][2] = k
                      \/ \E j \in 1 .. Len(buffer) : buffer[j] = <<"low", k>>
    BY Zenon DEF Pa!FramesKept
  <2>1. PICK S : S = Pa!Stream
    OBVIOUS
  <2>2. Period = 6 /\ Framed(S)
    BY <2>1, ReceiverStream DEF Period
  <2>3. Kept(seen, pos - Len(buffer))
    BY DEF PaInv
  <2>4. PICK m \in Nat : m = Len(buffer)
    BY <1>1
  <2>5. i = 6 * k - 3
    <3>1. i \in 1 .. 6 * Messages /\ S[i] = <<"low", k>>
      BY <1>1, <1>2, <1>5, <2>1, <2>2
    <3>2. S[i][1] = "low" /\ S[i][2] = k
      BY <3>1
    <3> QED
      BY <1>2, <2>2, <3>1, <3>2, FramedRoles
  <2>6. CASE i <= pos - m
    <3>1. 6 * k - 3 <= pos - m
      BY <2>5, <2>6
    <3>2. Kept(seen, pos - m)
      BY <2>3, <2>4
    <3> QED
      BY <3>1, <3>2 DEF Kept
  <2>7. CASE i > pos - m
    <3>1. Placed(S, buffer, w, l, pos, 0)
      BY <1>4, <2>1
    <3>2. \A j \in 1 .. m : buffer[j] = S[(pos - m) + j]
      <4>1. \A j \in 1 .. Len(buffer) : buffer[j] = S[(pos - Len(buffer)) + j]
        <5>1. buffer \in Seq(SerialBytes) /\ pos \in Nat
          BY <1>1, <1>5
        <5> QED
          BY <3>1, <5>1, NothingLost
      <4> QED
        BY <2>4, <4>1
    <3>3. PICK j \in 1 .. m : j = i - (pos - m)
      <4>1. i - (pos - m) \in 1 .. m
        BY <1>5, <2>7
      <4> QED
        BY <4>1
    <3>4. (pos - m) + j = i
      BY <1>5, <3>3
    <3>5. buffer[j] = <<"low", k>>
      BY <2>1, <3>2, <3>4
    <3> QED
      BY <2>4, <3>5
  <2> QED
    BY <1>5, <2>6, <2>7
<1> QED
  BY <1>6, <1>8, <1>9

-----------------------------------------------------------------------------
(* The filters of UDP packets. *)

(* The sum of a time stamp and the difference to the next is the next.      *)
LEMMA DifferenceAdds ==
  ASSUME NEW w \in Nat \ {0}, NEW a \in 0 .. w - 1, NEW b \in 0 .. w - 1
  PROVE  /\ (b - a) % w >= 0
         /\ (a + ((b - a) % w)) % w = b
<1>1. ASSUME NEW s \in Int, NEW r \in 0 .. w - 1, s = r \/ s = r + w \/ s = r - w
      PROVE  s % w = r
  <2>1. s % w \in 0 .. w - 1 /\ s = (w * (s \div w)) + (s % w) /\ s \div w \in Int
    BY Z3
  <2>2. PICK k \in Int, m \in 0 .. w - 1 : k = s \div w /\ m = s % w
    BY <2>1
  <2>3. s = (w * k) + m
    BY <2>1, <2>2
  <2>4. PICK j \in {-1, 0, 1} : s = (w * j) + r
    <3>1. (w * 0 = 0) /\ (w * 1 = w) /\ (w * (-1) = -w)
      OBVIOUS
    <3> QED
      BY <1>1, <3>1
  <2>5. w * (k - j) = r - m
    <3>1. w * (k - j) = (w * k) - (w * j)
      BY Z3
    <3>2. w * k \in Int /\ w * j \in Int
      OBVIOUS
    <3> QED
      BY <2>3, <2>4, <3>1, <3>2
  <2>6. PICK d \in Int : d = k - j
    OBVIOUS
  <2>7. d = 0
    <3>1. w * d = r - m /\ r - m < w /\ r - m > -w
      BY <2>5, <2>6
    <3>2. ASSUME d >= 1 PROVE w * d >= w
      BY <3>2, Z3
    <3>3. ASSUME d <= -1 PROVE w * d <= -w
      BY <3>3, Z3
    <3>4. w * d \in Int
      OBVIOUS
    <3> QED
      BY <3>1, <3>2, <3>3, <3>4
  <2>8. r = m
    <3>1. w * 0 = 0
      OBVIOUS
    <3> QED
      BY <2>5, <2>6, <2>7, <3>1
  <2> QED
    BY <2>2, <2>8
<1>2. PICK r \in 0 .. w - 1 : r = b - a \/ r = (b - a) + w
  <2>1. CASE a <= b
    <3>1. b - a \in 0 .. w - 1
      BY <2>1
    <3> QED
      BY <3>1, Zenon
  <2>2. CASE b < a
    <3>1. (b - a) + w \in 0 .. w - 1
      BY <2>2
    <3> QED
      BY <3>1, Zenon
  <2>3. a <= b \/ b < a
    OBVIOUS
  <2> QED
    BY <2>1, <2>2, <2>3
<1>3. (b - a) % w = r
  <2>1. b - a \in Int /\ (b - a = r \/ b - a = r - w)
    BY <1>2
  <2> QED
    BY <1>1, <2>1
<1>4. (a + r) % w = b
  <2>1. a + r \in Int /\ (a + r = b \/ a + r = b + w)
    BY <1>2
  <2> QED
    BY <1>1, <2>1
<1> QED
  BY <1>2, <1>3, <1>4

UdInv == part = "udp" => block \in Ud!Blocks

LEMMA StampsAddUp ==
  ASSUME Ud!UdpFiltersAssumption, NEW b \in Ud!Blocks
  PROVE  Ud!StampsRestored(b)
<1> DEFINE dt == Ud!filter_proc_dt(b)
<1>1. PICK n \in Nat \ {0} : b \in [1 .. n -> [v : {0, 1}, t : 0 .. Wrap - 1]]
  <2>1. PICK n \in 0 .. MaxSamples : b \in [1 .. n -> [v : {0, 1}, t : 0 .. Wrap - 1]]
    BY DEF Ud!Blocks, Ud!SeqOf
  <2>2. n \in Nat
    BY <2>1 DEF Ud!UdpFiltersAssumption
  <2>3. ASSUME n = 0 PROVE FALSE
    <3>1. 1 .. n = {} /\ DOMAIN b = {}
      BY <2>1, <2>3
    <3>2. b = <<>>
      BY <2>1, <3>1
    <3> QED
      BY <3>2 DEF Ud!Blocks
  <2> QED
    BY <2>1, <2>2, <2>3
<1>2. Len(b) = n /\ Wrap \in Nat \ {0} /\ \A i \in 1 .. n : b[i].t \in 0 .. Wrap - 1
  BY <1>1 DEF Ud!UdpFiltersAssumption
<1>3. /\ Len(dt) = n - 1
      /\ \A i \in 1 .. n - 1 : dt[i] = (b[i + 1].t - b[i].t) % Wrap
  BY <1>1, <1>2 DEF Ud!filter_proc_dt
<1>4. Len(Ud!filter_proc_adc(b)) = n
  BY <1>2 DEF Ud!filter_proc_adc
<1>5. \A i \in 1 .. n - 1 : i \in 1 .. n /\ i + 1 \in 1 .. n
  OBVIOUS
<1> HIDE DEF dt
<1>6. \A i \in 1 .. n - 1 : dt[i] >= 0 /\ (b[i].t + dt[i]) % Wrap = b[i + 1].t
  <2> SUFFICES ASSUME NEW i \in 1 .. n - 1
               PROVE  dt[i] >= 0 /\ (b[i].t + dt[i]) % Wrap = b[i + 1].t
    OBVIOUS
  <2>1. PICK x \in 0 .. Wrap - 1, y \in 0 .. Wrap - 1 : x = b[i].t /\ y = b[i + 1].t
    BY <1>2, <1>5
  <2>2. dt[i] = (y - x) % Wrap
    BY <1>3, <2>1
  <2>3. (y - x) % Wrap >= 0 /\ (x + ((y - x) % Wrap)) % Wrap = y
    BY <1>2, DifferenceAdds
  <2> QED
    BY <2>1, <2>2, <2>3
<1>7. ASSUME NEW stamps \in [1 .. n -> 0 .. Wrap - 1], stamps[1] = b[1].t,
             \A i \in 1 .. n - 1 : stamps[i + 1] = (stamps[i] + dt[i]) % Wrap
      PROVE  \A i \in 1 .. n : stamps[i] = b[i].t
  <2> DEFINE wrong == {i \in 1 .. n : stamps[i] # b[i].t}
  <2> SUFFICES ASSUME wrong # {} PROVE FALSE
    OBVIOUS
  <2>1. PICK i \in wrong : \A m \in wrong : i <= m
    <3>1. wrong \in SUBSET Nat
      OBVIOUS
    <3> HIDE DEF wrong
    <3> QED
      BY <3>1, LeastNumber
  <2>2. i \in 1 .. n /\ i # 1 /\ stamps[i] # b[i].t
    BY <1>7, <2>1
  <2>3. PICK j \in 1 .. n - 1 : i = j + 1
    BY <2>2
  <2>4. stamps[j] = b[j].t
    <3>1. ~(i <= j) /\ j \in 1 .. n
      BY <2>3
    <3> QED
      BY <2>1, <3>1
  <2>5. stamps[j + 1] = (b[j].t + dt[j]) % Wrap
    BY <1>7, <2>3, <2>4
  <2> QED
    BY <1>6, <2>2, <2>3, <2>5
<1>8. (n - 1) + 1 = n
  OBVIOUS
<1>9. Len(Ud!filter_proc_adc(b)) = Len(dt) + 1
  BY <1>3, <1>4, <1>8
<1>10. \A i \in 1 .. Len(dt) : dt[i] >= 0
  BY <1>3, <1>6
<1> QED
  BY <1>2, <1>3, <1>7, <1>9, <1>10, Zenon DEF Ud!StampsRestored, dt

(* The bytes of a number are turned round. *)
LEMMA BytesReversed ==
  ASSUME NEW n \in Nat
  PROVE  Ud!BytesUsedOnce(n)
<1>1. PICK s \in Seq(Nat) : s = [i \in 1 .. n |-> i] /\ Len(s) = n
  <2>1. [i \in 1 .. n |-> i] \in Seq(Nat) /\ Len([i \in 1 .. n |-> i]) = n
    OBVIOUS
  <2> QED
    BY <2>1
<1>2. PICK q \in Nat : q = n \div 4 /\ 4 * q \in n - 3 .. n
  OBVIOUS
<1> DEFINE f == Ud!bin_float_proc(s)
<1>3. f = [i \in 1 .. q |-> Ud!ieee754_1985_to_float(SubSeq(s, (4 * i) - 3, 4 * i))]
  BY <1>1, <1>2 DEF Ud!bin_float_proc
<1>4. Len(f) = q
  BY <1>3
<1>5. ASSUME NEW i \in 1 .. q
      PROVE  f[i] = [j \in 1 .. 4 |-> ((4 * i) + 1) - j]
  <2>1. PICK a \in Nat, c \in Nat : a = (4 * i) - 3 /\ c = 4 * i /\ a >= 1 /\ c <= n /\ c = a + 3
    BY <1>2
  <2>2. PICK u : u = SubSeq(s, a, c)
    OBVIOUS
  <2>3. Len(u) = 4 /\ \A j \in 1 .. 4 : u[j] = (a + j) - 1
    <3>1. Len(u) = (c - a) + 1
      BY <1>1, <2>1, <2>2
    <3>2. \A j \in 1 .. 4 : u[j] = s[(a + j) - 1]
      BY <1>1, <2>1, <2>2
    <3>3. \A j \in 1 .. 4 : (a + j) - 1 \in 1 .. n
      BY <2>1
    <3> QED
      BY <1>1, <2>1, <3>1, <3>2, <3>3
  <2>4. f[i] = Ud!Reverse(u)
    BY <1>3, <2>1, <2>2 DEF Ud!ieee754_1985_to_float
  <2>5. Ud!Reverse(u) = [j \in 1 .. 4 |-> u[(4 - j) + 1]]
    BY <2>3 DEF Ud!Reverse
  <2>6. \A j \in 1 .. 4 : u[(4 - j) + 1] = ((4 * i) + 1) - j
    <3>1. \A j \in 1 .. 4 : (4 - j) + 1 \in 1 .. 4
      OBVIOUS
    <3>2. \A j \in 1 .. 4 : u[(4 - j) + 1] = (a + ((4 - j) + 1)) - 1
      BY <2>3, <3>1
    <3>3. \A j \in 1 .. 4 : (a + ((4 - j) + 1)) - 1 = ((4 * i) + 1) - j
      BY <2>1
    <3> QED
      BY <3>2, <3>3, Zenon
  <2> QED
    BY <2>4, <2>5, <2>6
<1> HIDE DEF f
<1>6. 4 * Len(f) \in n - 3 .. n
  BY <1>2, <1>4
<1>7. \A i \in 1 .. Len(f) : f[i] = [j \in 1 .. 4 |-> (4 * i) + (1 - j)]
  <2>1. \A i \in 1 .. q, j \in 1 .. 4 : ((4 * i) + 1) - j = (4 * i) + (1 - j)
    OBVIOUS
  <2>2. \A i \in 1 .. q : [j \in 1 .. 4 |-> ((4 * i) + 1) - j] = [j \in 1 .. 4 |-> (4 * i) + (1 - j)]
    BY <2>1
  <2> QED
    BY <1>4, <1>5, <2>2
<1>8. Ud!BytesUsedOnce(n) <=>
        /\ 4 * Len(f) \in n - 3 .. n
        /\ \A i \in 1 .. Len(f) : f[i] = [j \in 1 .. 4 |-> (4 * i) + (1 - j)]
  <2>1. f = Ud!bin_float_proc([i \in 1 .. n |-> i])
    BY <1>1 DEF f
  <2> QED
    BY <2>1, Zenon DEF Ud!BytesUsedOnce
<1> QED
  BY <1>6, <1>7, <1>8, Zenon

-----------------------------------------------------------------------------
(* The programs together: each of them takes the steps of its module and    *)
(* leaves alone what belongs to the others.                                 *)

DemosInv == ThermostatInv /\ PaInv /\ MidiInv /\ ScpiInv /\ PipesInv /\ NgInv /\ UdInv

LEMMA DemosInit == Init => DemosInv
<1>1. Init => UdInv
  BY DEF Init, UdInv
<1> QED
  BY <1>1, DemosAssumption, ThermostatInit, PaInit, MidiInit, ScpiInit, PipesInit, NgInit DEF DemosAssumption, Init, DemosInv

LEMMA DemosStep == DemosInv /\ [Next]_all => DemosInv'
<1> SUFFICES ASSUME DemosInv, [Next]_all PROVE DemosInv'
  OBVIOUS
<1>1. [Th!Next]_thVars /\ [Mi!Next]_miVars /\ [Sc!Next]_scVars /\ [Pl!Next]_plVars /\ [Ng!Next]_ngVars
      /\ [Pa!Next]_paVars
  BY DEF Next, all, Thermostat, Parsers, NgSpice, Scpi, Midi, Plot
<1>2. ThermostatInv'
  BY <1>1, DemosAssumption, ThermostatStep DEF DemosAssumption, DemosInv
<1>3. MidiInv'
  BY <1>1, DemosAssumption, MidiStep DEF DemosAssumption, DemosInv
<1>4. ScpiInv'
  BY <1>1, DemosAssumption, ScpiStep DEF DemosAssumption, DemosInv
<1>5. PipesInv'
  BY <1>1, DemosAssumption, PipesStep DEF DemosAssumption, DemosInv
<1>6. NgInv'
  BY <1>1, DemosAssumption, NgStep DEF DemosAssumption, DemosInv
<1>7. PaInv'
  BY <1>1, DemosAssumption, PaStep DEF DemosAssumption, DemosInv
<1>8. UdInv'
  BY DEF DemosInv, UdInv, Next, all, Thermostat, Parsers, NgSpice, Scpi, Midi, Plot
<1> QED
  BY <1>2, <1>3, <1>4, <1>5, <1>6, <1>7, <1>8 DEF DemosInv

LEMMA DemosInvariant == Spec => []DemosInv
BY DemosInit, DemosStep, PTL DEF Spec

(* Each program keeps its variables in their types and within their bounds. *)
THEOREM DemosTypeCorrect == Spec => []TypeOK
<1>1. DemosInv => TypeOK
  <2> SUFFICES ASSUME DemosInv PROVE TypeOK
    OBVIOUS
  <2>1. Th!TypeOK
    BY DEF DemosInv, ThermostatInv, CalibratedInv, ThermostatTypes
  <2>2. Pa!TypeOK /\ Ng!TypeOK
    BY DemosAssumption, PaHolds, NgHolds DEF DemosAssumption, DemosInv
  <2>3. Sc!TypeOK /\ Mi!TypeOK /\ Pl!TypeOK
    BY ScpiHolds, PipesHold DEF DemosInv, MidiInv
  <2> QED
    BY <2>1, <2>2, <2>3 DEF TypeOK
<1> QED
  BY <1>1, DemosInvariant, PTL

(* A temperature is recorded in the calibration table for the control value *)
(* that caused it, through kills and restarts of the demo and with any      *)
(* number of stale reports in the inboxes: they never fill a loop buffer of *)
(* more than 2 * Room + 3 places, which that of the code has.               *)
THEOREM CalibrationIsSound == Spec => []PairsSound
<1>1. DemosInv => PairsSound
  BY DemosAssumption, ThermostatHolds DEF DemosAssumption, DemosInv
<1> QED
  BY <1>1, DemosInvariant, PTL

(* The file holds no table or the whole of it, so that a restarted          *)
(* thermostat never interpolates in a part of one.                          *)
THEOREM TableIsWhole == Spec => []TableComplete
<1>1. DemosInv => TableComplete
  BY DemosAssumption, ThermostatHolds DEF DemosAssumption, DemosInv
<1> QED
  BY <1>1, DemosInvariant, PTL

(* The MIDI source sends the events of each port in order; the SCPI client  *)
(* takes an answer for the request it was made to, until the connection     *)
(* breaks; a pipe of gnuplot that nobody reads is one whose owner has gone. *)
THEOREM PeersKeepStep == Spec => [](Mi!EventsInOrder /\ Sc!InStep /\ Pl!NothingPending)
<1>1. DemosInv => Mi!EventsInOrder /\ Sc!InStep /\ Pl!NothingPending
  BY ScpiHolds, PipesHold DEF DemosInv, MidiInv
<1> QED
  BY <1>1, DemosInvariant, PTL

(* The packets of a simulation hold its points, each once and in order, and *)
(* begin anew with the next simulation; all are full but the last, which    *)
(* holds the rest - and when there is no rest it is empty, so that the      *)
(* device throws.                                                           *)
THEOREM PacketsInOrder == Spec => [](Ng!PointsInOrder /\ Ng!RemainderLast)
<1>1. DemosInv => Ng!PointsInOrder /\ Ng!RemainderLast
  BY DemosAssumption, NgHolds DEF DemosAssumption, DemosInv
<1> QED
  BY <1>1, DemosInvariant, PTL

(* However the stream is cut into blocks and wherever the host joins it,    *)
(* the whole messages that the serial parsers recognise have the order they *)
(* were sent in, a lost block spoils one message at most, only a lost block *)
(* or a queue that is too long makes the Receiver throw, and while no block *)
(* is lost all frames that began after it joined are recognised or in its   *)
(* queue.                                                                   *)
THEOREM MessagesAreWhole == Spec => [](Pa!MessagesInOrder /\ Pa!FramesKept)
<1>1. DemosInv => Pa!MessagesInOrder /\ Pa!FramesKept
  BY DemosAssumption, PaHolds DEF DemosAssumption, DemosInv
<1> QED
  BY <1>1, DemosInvariant, PTL

(* Whatever comes in blocks, packets, events or answers is whole and in     *)
(* order: the three theorems above, and that the differences and bytes the  *)
(* UDP filters make of a block are those of its samples.                    *)
THEOREM EverythingInOrder == Spec => []StreamInOrder
<1>1. DemosInv => StreamInOrder
  <2> SUFFICES ASSUME DemosInv PROVE StreamInOrder
    OBVIOUS
  <2>1. Pa!MessagesInOrder /\ Pa!FramesKept
    BY DemosAssumption, PaHolds DEF DemosAssumption, DemosInv
  <2>2. Ng!PointsInOrder /\ Ng!RemainderLast
    BY DemosAssumption, NgHolds DEF DemosAssumption, DemosInv
  <2>3. Mi!EventsInOrder /\ Sc!InStep /\ Pl!NothingPending
    BY ScpiHolds, PipesHold DEF DemosInv, MidiInv
  <2>4. part = "udp" => Ud!StampsRestored(block)
    BY DemosAssumption, StampsAddUp DEF DemosAssumption, DemosInv, UdInv
  <2>5. \A n \in 0 .. 9 : Ud!BytesUsedOnce(n)
    <3>1. \A n \in 0 .. 9 : n \in Nat
      OBVIOUS
    <3> QED
      BY <3>1, BytesReversed
  <2> QED
    BY <2>1, <2>2, <2>3, <2>4, <2>5, Zenon DEF StreamInOrder
<1> QED
  BY <1>1, DemosInvariant, PTL

=============================================================================
