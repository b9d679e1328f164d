-------------------------- MODULE SequentialProofs --------------------------
(***************************************************************************)
(* Theorems about the classes of MCSequential: interpolation objects, the  *)
(* tables of the transform filters, and index arithmetic; for joins and    *)
(* for the slicer of images those of SyncJoinProofs and PngSlicerProofs    *)
(* are carried over.                                                       *)
(***************************************************************************)
EXTENDS MCSequential, TLAPS

-----------------------------------------------------------------------------
(* Interpolation. *)

Axes    == [n : 0 .. InterpolSize + 1, id : Xs \cup {I!Autofilled}, back : 0 .. InterpolSize + 1]
Vectors == [n : 0 .. InterpolSize + 1, id : Ys \cup {I!Autofilled}, closed : BOOLEAN]

Gifts   == [x : Axes, y : Vectors, periodic : BOOLEAN]

InterpolTypes ==
  /\ I!TypeOK
  /\ interval \in Int \X Int
  /\ given \in Gifts

(* A period is the place of the last point; without one the axis fits into  *)
(* the bound and nothing is closed.                                         *)
AxisInv ==
  /\ T # 0 /\ (x.n = 0 => T < 0) /\ (x.n > 0 => x.n >= 2 /\ x.back >= 1)
  /\ T < 0 => x.n <= InterpolSize /\ x.back <= InterpolSize /\ (x.n > 0 => x.back < InterpolSize) /\ y.n <= InterpolSize /\ ~y.closed
  /\ T > 0 => x.back = T

(* The interval of a finite function is its axis. *)
IntervalInv == x.n > 0 /\ T < 0 => interval = <<0, x.back>>

(* The axis, the samples and the period are those that were given, with one *)
(* point more when they were closed.                                        *)
GivenInv ==
  ~strayed =>
  /\ given.periodic = y.closed /\ (T > 0 <=> y.closed)
  /\ given.x.id = x.id /\ given.y.id = y.id
  /\ given.x.n = IF y.closed THEN x.n - 1 ELSE x.n
  /\ given.y.n = IF y.closed THEN y.n - 1 ELSE y.n

InterpolInv == InterpolTypes /\ AxisInv /\ IntervalInv /\ GivenInv /\ I!WorkspaceFits

LEMMA InterpolInit == I!InterpolAssumption /\ I!Init => InterpolInv
<1> SUFFICES ASSUME I!InterpolAssumption, I!Init PROVE InterpolInv
  OBVIOUS
<1>1. I!NoX \in Axes /\ I!NoY \in Vectors
  BY DEF I!InterpolAssumption, I!NoX, I!NoY, Axes, Vectors
<1>2. x \in Axes /\ y \in Vectors /\ given \in Gifts /\ interval \in Int \X Int
  BY <1>1 DEF I!Init, I!Nothing, Gifts
<1>3. T \in -1 .. InterpolSize + 1 /\ ws \in 0 .. InterpolSize + 1
  BY DEF I!Init, I!InterpolAssumption
<1>4. strayed \in BOOLEAN /\ kind \in {"RR", "CR"} /\ outcome \in {"ok", "refused", "aborted"}
  BY DEF I!Init, I!InterpolAssumption
<1>5. InterpolTypes
  BY <1>2, <1>3, <1>4, Zenon DEF InterpolTypes, I!TypeOK, Axes, Vectors
<1> QED
  BY <1>5 DEF I!InterpolAssumption, I!Init, InterpolInv, AxisInv, IntervalInv, GivenInv, I!WorkspaceFits, I!Nothing, I!NoX, I!NoY

(* The workspace after update_ws(). *)
LEMMA WorkspaceMade ==
  ASSUME NEW w \in Nat, I!update_ws(w), y'.n \in Nat
  PROVE  /\ outcome' \in {"ok", "aborted"} /\ ws' \in {w, y'.n}
         /\ x'.n = y'.n /\ w \in {0, y'.n} => ws' = x'.n /\ outcome' = "ok"
  BY DEF I!update_ws

LEMMA SetDataInv ==
  ASSUME I!InterpolAssumption, InterpolInv, outcome # "aborted", UNCHANGED kind,
         NEW size \in 0 .. InterpolSize, NEW id \in Ys, NEW k \in 0 .. InterpolSize, NEW axis \in Xs,
         I!set_data(size, id, k, axis), outcome' # "refused"
  PROVE  InterpolInv'
<1> DEFINE points == IF kind = "CR" THEN size \div 2 ELSE size
           kept == k = 0 /\ size = x.n
           same == k = 0 /\ points = given.x.n
<1>1. /\ points >= 2 /\ points \in 0 .. InterpolSize /\ k \in {0, points} /\ size >= 2 /\ points <= size
      /\ kind = "RR" => points = size
  BY DEF I!set_data, I!Refused, I!MinPoints, I!InterpolAssumption
<1>2. /\ x' = IF k > 0 THEN I!Grid(axis, k) ELSE IF kept THEN x ELSE I!x_autofill(size)
      /\ T' = IF kept THEN T ELSE -1
      /\ y' = [n |-> points, id |-> id, closed |-> FALSE]
      /\ interval' = <<0, x'.back>>
      /\ I!update_ws(IF kept THEN ws ELSE 0)
      /\ I!Give(points, id, k, axis)
  BY <1>1 DEF I!set_data, I!Refused
<1>6. /\ given' = [x |-> IF k > 0 THEN I!Grid(axis, k) ELSE IF same THEN given.x ELSE I!x_autofill(points),
                   y |-> [n |-> points, id |-> id, closed |-> FALSE],
                   periodic |-> same /\ given.periodic]
      /\ strayed' = IF k > 0 THEN FALSE
                    ELSE \/ strayed \/ kind = "CR"
                         \/ given.periodic /\ points \in {given.x.n, given.x.n + 1}
  BY <1>2 DEF I!Give
<1> HIDE DEF points
<1>3. y' \in Vectors /\ y'.n = points /\ y'.id = id /\ y'.closed = FALSE
  BY <1>1, <1>2 DEF Vectors, I!InterpolAssumption
<1>7. given \in Gifts /\ strayed \in BOOLEAN /\ kind \in {"RR", "CR"} /\ k \in Nat
  BY DEF InterpolInv, InterpolTypes, I!TypeOK, I!InterpolAssumption
<1>8. given' \in Gifts /\ given'.y.n = points /\ given'.y.id = id
  <2>1. I!x_autofill(points) \in Axes
    BY <1>1 DEF I!Grid, I!x_autofill, Axes, I!InterpolAssumption
  <2>2. k > 0 => I!Grid(axis, k) \in Axes
    BY DEF I!Grid, Axes, I!InterpolAssumption
  <2>3. [n |-> points, id |-> id, closed |-> FALSE] \in Vectors
    BY <1>2, <1>3
  <2>4. given.x \in Axes /\ given.periodic \in BOOLEAN
    BY <1>7 DEF Gifts
  <2>5. (same /\ given.periodic) \in BOOLEAN
    BY <2>4
  <2> QED BY <1>6, <2>1, <2>2, <2>3, <2>4, <2>5 DEF Gifts
<1>9. strayed' \in BOOLEAN
  BY <1>6, <1>7
<1>10. ASSUME ~strayed', k = 0
       PROVE  ~strayed /\ kind = "RR" /\ ~(given.periodic /\ points \in {given.x.n, given.x.n + 1})
  BY <1>6, <1>7, <1>10
<1>11. ASSUME ~strayed', same
       PROVE  kept /\ T < 0 /\ x.id = given.x.id /\ x.n = given.x.n /\ ~given.periodic
  BY <1>1, <1>7, <1>10, <1>11 DEF InterpolInv, GivenInv, AxisInv, InterpolTypes, I!TypeOK, Axes, Gifts
<1>12. ASSUME ~strayed', kept PROVE same /\ T < 0 /\ ~given.periodic
  BY <1>1, <1>7, <1>10, <1>12 DEF InterpolInv, GivenInv, AxisInv, InterpolTypes, I!TypeOK, Axes, Gifts
<1>4. CASE kept
  <2>1. x' = x /\ T' = T /\ I!update_ws(ws) /\ k = 0 /\ size = x.n
    BY <1>2, <1>4, <1>1
  <2>2. x \in Axes /\ ws \in Nat /\ kind \in {"RR", "CR"}
    BY DEF InterpolInv, InterpolTypes, I!TypeOK, Axes, I!InterpolAssumption
  <2>3. outcome' \in {"ok", "aborted"} /\ ws' \in 0 .. InterpolSize + 1
    BY <1>1, <1>3, <2>1, <2>2, WorkspaceMade DEF InterpolInv, InterpolTypes, I!TypeOK, I!InterpolAssumption
  <2>4. interval' \in Int \X Int
    BY <1>2, <2>1, <2>2 DEF Axes
  <2>5. InterpolTypes'
    BY <1>3, <1>8, <1>9, <2>1, <2>3, <2>4 DEF InterpolInv, InterpolTypes, I!TypeOK, Axes, Vectors
  <2>6. AxisInv' /\ IntervalInv'
    BY <1>1, <1>2, <1>3, <2>1, <2>2 DEF InterpolInv, AxisInv, IntervalInv, I!InterpolAssumption, Axes
  <2>8. GivenInv'
    <3> SUFFICES ASSUME ~strayed'
                 PROVE  /\ given'.periodic = y'.closed /\ (T' > 0 <=> y'.closed)
                        /\ given'.x.id = x'.id /\ given'.y.id = y'.id
                        /\ given'.x.n = (IF y'.closed THEN x'.n - 1 ELSE x'.n)
                        /\ given'.y.n = (IF y'.closed THEN y'.n - 1 ELSE y'.n)
      BY Zenon DEF GivenInv
    <3>1. same /\ T < 0 /\ ~given.periodic
      BY <1>4, <1>12
    <3>2. x.id = given.x.id /\ x.n = given.x.n
      BY <3>1, <1>11
    <3>3. given'.x = given.x /\ given'.periodic = FALSE
      <4>1. k = 0 /\ ~(k > 0)
        BY <1>4
      <4> QED BY <1>6, <3>1, <4>1
    <3>4. ~(T' > 0)
      BY <2>1, <3>1 DEF InterpolInv, InterpolTypes, I!TypeOK
    <3> QED BY <1>3, <1>8, <2>1, <3>2, <3>3, <3>4, Zenon
  <2>7. I!WorkspaceFits'
    <3> SUFFICES ASSUME kind' = "RR" \/ ~strayed' PROVE outcome' # "aborted" /\ ws' = x'.n /\ x'.n = y'.n
      BY DEF I!WorkspaceFits
    <3>1. kind = "RR" /\ points = size
      BY <1>1, <1>10, <2>1, <2>2
    <3>2. ws = x.n
      BY <3>1 DEF InterpolInv, I!WorkspaceFits
    <3> QED BY <1>1, <1>3, <2>1, <2>2, <3>1, <3>2, WorkspaceMade
  <2> QED BY <2>5, <2>6, <2>7, <2>8 DEF InterpolInv
<1>5. CASE ~kept
  <2>1. PICK m \in 2 .. InterpolSize, name \in Xs \cup {I!Autofilled} :
          x' = [n |-> m, id |-> name, back |-> m - 1] /\ (k > 0 \/ kind = "RR" => m = points)
    <3>1. CASE k > 0
      <4>1. k = points /\ k \in 2 .. InterpolSize /\ axis \in Xs \cup {I!Autofilled}
        BY <1>1, <3>1 DEF I!InterpolAssumption
      <4>2. x' = [n |-> k, id |-> axis, back |-> k - 1]
        BY <1>2, <3>1 DEF I!Grid
      <4> QED BY <4>1, <4>2
    <3>2. CASE k = 0
      <4>1. size \in 2 .. InterpolSize /\ I!Autofilled \in Xs \cup {I!Autofilled} /\ (kind = "RR" => size = points)
        BY <1>1 DEF I!InterpolAssumption
      <4>2. x' = [n |-> size, id |-> I!Autofilled, back |-> size - 1]
        BY <1>2, <1>5, <3>2 DEF I!Grid, I!x_autofill
      <4>3. k \in Nat /\ ~(k > 0)
        BY <3>2
      <4> QED BY <4>1, <4>2, <4>3
    <3> QED BY <3>1, <3>2
  <2>2. x' \in Axes /\ x'.n = m /\ x'.id = name /\ x'.back = m - 1 /\ T' = -1 /\ I!update_ws(0)
    BY <1>2, <1>5, <2>1 DEF Axes, I!InterpolAssumption
  <2>3. outcome' \in {"ok", "aborted"} /\ ws' \in 0 .. InterpolSize + 1
    BY <1>1, <1>3, <2>2, WorkspaceMade DEF I!InterpolAssumption
  <2>4. interval' \in Int \X Int
    BY <1>2, <2>2 DEF Axes
  <2>5. InterpolTypes'
    BY <1>3, <1>8, <1>9, <2>2, <2>3, <2>4 DEF InterpolInv, InterpolTypes, I!TypeOK, Axes, Vectors, I!InterpolAssumption
  <2>6. AxisInv' /\ IntervalInv'
    BY <1>1, <1>2, <1>3, <2>2 DEF AxisInv, IntervalInv, I!InterpolAssumption
  <2>8. GivenInv'
    <3> SUFFICES ASSUME ~strayed'
                 PROVE  /\ given'.periodic = y'.closed /\ (T' > 0 <=> y'.closed)
                        /\ given'.x.id = x'.id /\ given'.y.id = y'.id
                        /\ given'.x.n = (IF y'.closed THEN x'.n - 1 ELSE x'.n)
                        /\ given'.y.n = (IF y'.closed THEN y'.n - 1 ELSE y'.n)
      BY Zenon DEF GivenInv
    <3>1. ~same
      BY <1>5, <1>11
    <3>2. given'.periodic = FALSE
      BY <1>6, <3>1
    <3>3. given'.x = x'
      <4>1. CASE k > 0
        BY <1>2, <1>6, <4>1
      <4>2. CASE k = 0
        <5>1. size = points
          BY <1>1, <1>10, <4>2
        <5>2. ~(k > 0)
          BY <4>2
        <5>3. given'.x = I!x_autofill(points)
          BY <1>6, <3>1, <5>2
        <5>4. x' = I!x_autofill(size)
          BY <1>2, <1>5, <5>2
        <5> QED BY <5>1, <5>3, <5>4
      <4> QED BY <1>7, <4>1, <4>2
    <3>4. ~(T' > 0)
      BY <2>2
    <3> QED BY <1>3, <1>8, <3>2, <3>3, <3>4, Zenon
  <2>7. I!WorkspaceFits'
    <3> SUFFICES ASSUME kind' = "RR" \/ ~strayed' PROVE outcome' # "aborted" /\ ws' = x'.n /\ x'.n = y'.n
      BY DEF I!WorkspaceFits
    <3>1. k > 0 \/ kind = "RR"
      BY <1>7, <1>10
    <3>2. x'.n = y'.n
      BY <1>1, <1>3, <2>1, <2>2, <3>1
    <3> QED BY <1>1, <1>3, <2>2, <3>2, WorkspaceMade
  <2> QED BY <2>5, <2>6, <2>7, <2>8 DEF InterpolInv
<1> QED BY <1>4, <1>5

LEMMA SetPeriodicInv ==
  ASSUME I!InterpolAssumption, InterpolInv, outcome # "aborted", UNCHANGED kind,
         NEW dx \in 1 .. 2, I!set_periodic(dx), outcome' # "refused"
  PROVE  InterpolInv'
<1>1. /\ x.n > 0 /\ T < 0
      /\ T' = x.back + dx
      /\ x' = [x EXCEPT !.n = @ + 1, !.back = @ + dx]
      /\ y' = [y EXCEPT !.n = @ + 1, !.closed = TRUE]
      /\ interval' = <<-Far, Far>>
      /\ I!update_ws(0)
      /\ given' = [given EXCEPT !.periodic = TRUE]
      /\ UNCHANGED strayed
  BY DEF I!set_periodic, I!Refused, I!is_initialized, InterpolInv, InterpolTypes, AxisInv, I!TypeOK, I!InterpolAssumption
<1>2. /\ x \in Axes /\ x.n >= 2 /\ x.back >= 1 /\ x.n <= InterpolSize /\ x.back < InterpolSize
      /\ y \in Vectors /\ y.n <= InterpolSize /\ ~y.closed
  BY <1>1 DEF InterpolInv, InterpolTypes, I!TypeOK, AxisInv, Axes, Vectors
<1>3. /\ x' \in Axes /\ x'.n = x.n + 1 /\ x'.back = x.back + dx /\ x'.id = x.id
      /\ y' \in Vectors /\ y'.n = y.n + 1 /\ y'.closed = TRUE /\ y'.id = y.id
  <2>1. /\ x' = [n |-> x.n + 1, id |-> x.id, back |-> x.back + dx]
        /\ y' = [n |-> y.n + 1, id |-> y.id, closed |-> TRUE]
    BY <1>1, <1>2 DEF Axes, Vectors
  <2>2. /\ x.n + 1 \in 0 .. InterpolSize + 1 /\ x.back + dx \in 0 .. InterpolSize + 1 /\ x.id \in Xs \cup {I!Autofilled}
        /\ y.n + 1 \in 0 .. InterpolSize + 1 /\ y.id \in Ys \cup {I!Autofilled}
    BY <1>2 DEF Axes, Vectors, I!InterpolAssumption
  <2> QED BY <2>1, <2>2 DEF Axes, Vectors
<1>4. outcome' \in {"ok", "aborted"} /\ ws' \in 0 .. InterpolSize + 1 /\ T' \in 1 .. InterpolSize + 1
  BY <1>1, <1>2, <1>3, WorkspaceMade DEF I!InterpolAssumption, Axes, Vectors
<1>8. given' \in Gifts /\ given'.x = given.x /\ given'.y = given.y /\ given'.periodic = TRUE
  BY <1>1 DEF InterpolInv, InterpolTypes, Gifts
<1>5. InterpolTypes'
  BY <1>1, <1>3, <1>4, <1>8 DEF InterpolInv, InterpolTypes, I!TypeOK, Axes, Vectors, I!InterpolAssumption
<1>6. AxisInv' /\ IntervalInv'
  BY <1>1, <1>2, <1>3, <1>4 DEF InterpolInv, AxisInv, IntervalInv, I!InterpolAssumption, Axes, Vectors
<1>9. GivenInv'
  BY <1>1, <1>2, <1>3, <1>4, <1>8 DEF InterpolInv, GivenInv, I!InterpolAssumption, Axes, Vectors
<1>7. I!WorkspaceFits'
  BY <1>1, <1>2, <1>3, WorkspaceMade DEF InterpolInv, I!WorkspaceFits, Axes, Vectors
<1> QED
  BY <1>5, <1>6, <1>7, <1>9 DEF InterpolInv

LEMMA ClearInv ==
  ASSUME I!InterpolAssumption, InterpolInv, UNCHANGED kind, I!clear
  PROVE  InterpolInv'
<1>1. I!NoX \in Axes /\ I!NoY \in Vectors
  BY DEF I!InterpolAssumption, I!NoX, I!NoY, Axes, Vectors
<1>2. /\ x' \in Axes /\ y' \in Vectors /\ given' \in Gifts
      /\ interval' \in Int \X Int /\ kind' \in {"RR", "CR"}
  BY <1>1 DEF I!clear, I!Nothing, Gifts, InterpolInv, InterpolTypes, I!TypeOK
<1>3. T' \in -1 .. InterpolSize + 1 /\ ws' \in 0 .. InterpolSize + 1
  BY DEF I!clear, I!InterpolAssumption
<1>4. strayed' \in BOOLEAN /\ outcome' \in {"ok", "refused", "aborted"}
  BY DEF I!clear
<1>5. InterpolTypes'
  BY <1>2, <1>3, <1>4, Zenon DEF InterpolTypes, I!TypeOK, Axes, Vectors
<1> QED
  BY <1>5 DEF I!InterpolAssumption, I!clear, InterpolInv, AxisInv, IntervalInv, GivenInv, I!WorkspaceFits, I!Nothing, I!NoX, I!NoY

LEMMA CopyInv ==
  ASSUME I!InterpolAssumption, InterpolInv, UNCHANGED kind, I!copy
  PROVE  InterpolInv'
<1>1. CASE x.n > 0 /\ y.n > 0
  <2>1. UNCHANGED <<x, y, T, interval, given, strayed>> /\ I!update_ws(0)
    BY <1>1 DEF I!copy
  <2>2. y.n \in 0 .. InterpolSize + 1
    BY DEF InterpolInv, InterpolTypes, I!TypeOK
  <2>3. /\ outcome' \in {"ok", "aborted"} /\ ws' \in 0 .. InterpolSize + 1
        /\ x.n = y.n => ws' = x.n /\ outcome' = "ok"
    BY <2>1, <2>2, WorkspaceMade DEF I!InterpolAssumption
  <2>4. InterpolTypes' /\ AxisInv' /\ IntervalInv' /\ GivenInv'
    BY <2>1, <2>3 DEF InterpolInv, InterpolTypes, I!TypeOK, AxisInv, IntervalInv, GivenInv
  <2> QED
    BY <2>1, <2>3, <2>4 DEF InterpolInv, I!WorkspaceFits
<1>2. CASE ~(x.n > 0 /\ y.n > 0)
  BY <1>2, ClearInv DEF I!copy
<1> QED BY <1>1, <1>2

LEMMA SetIntervalInv ==
  ASSUME I!InterpolAssumption, InterpolInv, UNCHANGED kind, NEW lower \in Int, NEW upper \in Int,
         I!set_interval(lower, upper), outcome' # "refused"
  PROVE  InterpolInv'
<1>1. /\ interval' = IF T > 0 THEN <<lower, upper>> ELSE interval
      /\ outcome' = "ok"
      /\ UNCHANGED <<x, y, T, ws, given, strayed>>
  BY DEF I!set_interval, I!Refused
<1>2. interval' \in Int \X Int
  BY <1>1 DEF InterpolInv, InterpolTypes
<1>3. InterpolTypes'
  BY <1>1, <1>2 DEF InterpolInv, InterpolTypes, I!TypeOK
<1>4. AxisInv' /\ IntervalInv' /\ GivenInv' /\ I!WorkspaceFits'
  BY <1>1 DEF InterpolInv, InterpolTypes, I!TypeOK, AxisInv, IntervalInv, GivenInv, I!WorkspaceFits, I!InterpolAssumption
<1> QED BY <1>3, <1>4 DEF InterpolInv

LEMMA RefusedKeeps ==
  ASSUME InterpolInv, UNCHANGED kind, outcome' = "refused", UNCHANGED <<x, y, T, interval, ws, given, strayed>>
  PROVE  InterpolInv'
<1>1. InterpolTypes' /\ AxisInv' /\ IntervalInv' /\ GivenInv'
  BY DEF InterpolInv, InterpolTypes, I!TypeOK, AxisInv, IntervalInv, GivenInv
<1> QED
  BY <1>1 DEF InterpolInv, I!WorkspaceFits

LEMMA InterpolNext == I!InterpolAssumption /\ InterpolInv /\ [I!Next]_(I!vars) => InterpolInv'
<1> SUFFICES ASSUME I!InterpolAssumption, InterpolInv, [I!Next]_(I!vars) PROVE InterpolInv'
  OBVIOUS
<1>1. CASE UNCHANGED I!vars
  BY <1>1 DEF I!vars, InterpolInv, InterpolTypes, I!TypeOK, AxisInv, IntervalInv, GivenInv, I!WorkspaceFits
<1>2. CASE I!Next
  <2>1. outcome # "aborted" /\ UNCHANGED kind
    BY <1>2 DEF I!Next
  <2>2. ASSUME NEW size \in 0 .. InterpolSize, NEW id \in Ys, NEW k \in 0 .. InterpolSize, NEW axis \in Xs,
               I!set_data(size, id, k, axis)
        PROVE  InterpolInv'
    <3>1. CASE outcome' = "refused"
      <4>1. I!Refused
        BY <2>2, <3>1 DEF I!set_data, I!update_ws
      <4> QED BY <2>1, <4>1, RefusedKeeps DEF I!Refused
    <3> QED BY <2>1, <2>2, <3>1, SetDataInv
  <2>3. ASSUME NEW dx \in 1 .. 2, I!set_periodic(dx) PROVE InterpolInv'
    <3>1. CASE outcome' = "refused"
      <4>1. I!Refused
        BY <2>3, <3>1 DEF I!set_periodic, I!update_ws
      <4> QED BY <2>1, <4>1, RefusedKeeps DEF I!Refused
    <3> QED BY <2>1, <2>3, <3>1, SetPeriodicInv
  <2>4. ASSUME NEW lower \in Int, NEW upper \in Int, I!set_interval(lower, upper) PROVE InterpolInv'
    <3>1. CASE outcome' = "refused"
      <4>1. I!Refused
        BY <2>4, <3>1 DEF I!set_interval
      <4> QED BY <2>1, <4>1, RefusedKeeps DEF I!Refused
    <3> QED BY <2>1, <2>4, <3>1, SetIntervalInv
  <2>5. CASE I!clear
    BY <2>1, <2>5, ClearInv
  <2>6. CASE I!copy
    BY <2>1, <2>6, CopyInv
  <2> QED
    BY <1>2, <2>2, <2>3, <2>4, <2>5, <2>6 DEF I!Next
<1> QED BY <1>1, <1>2

-----------------------------------------------------------------------------
(* The periods that evaluate() shifts a point by. *)

LEMMA Division ==
  ASSUME NEW p \in Int, NEW t \in Nat, t > 0
  PROVE  p \div t \in Int /\ (p \div t) * t <= p /\ p < (p \div t) * t + t
  BY Z3

LEMMA Multiple ==
  ASSUME NEW m \in Int, NEW t \in Nat, t > 0
  PROVE  (m * t) % t = 0
<1> DEFINE q == (m * t) \div t
           r == (m * t) % t
<1>1. m * t \in Int
  OBVIOUS
<1>2. q \in Int /\ r \in 0 .. t - 1 /\ m * t = t * q + r
  BY <1>1, Z3
<1> HIDE DEF q
<1>3. CASE m > q
  <2>1. (m - q) * t >= t
    BY <1>2, <1>3, Z3
  <2> QED BY <1>2, <2>1, Z3
<1>4. CASE m < q
  <2>1. (q - m) * t >= t
    BY <1>2, <1>4, Z3
  <2> QED BY <1>2, <2>1, Z3
<1>5. CASE m = q
  <2>1. m * t = t * q
    BY <1>5, <1>2, Z3
  <2> QED BY <1>2, <2>1
<1> QED BY <1>2, <1>3, <1>4, <1>5

(* evaluate() shifts a point into the data by a whole number of periods.    *)
LEMMA Evaluated ==
  ASSUME InterpolInv, I!is_initialized, NEW p \in Int, I!Within(p, interval)
  PROVE  /\ I!Within(I!evaluate(p), <<0, x.back>>)
         /\ T > 0 => (I!evaluate(p) - p) % T = 0
<1>1. T \in Int /\ T # 0 /\ x.back \in Nat
  BY DEF InterpolInv, InterpolTypes, I!TypeOK, AxisInv
<1>2. CASE T < 0
  <2>1. interval = <<0, x.back>> /\ I!evaluate(p) = p
    BY <1>2 DEF InterpolInv, IntervalInv, I!is_initialized, I!evaluate
  <2> QED BY <1>1, <1>2, <2>1
<1>3. CASE T > 0
  <2>1. PICK t \in Nat : t = T /\ t > 0 /\ x.back = t
    BY <1>1, <1>3 DEF InterpolInv, AxisInv
  <2>2. CASE I!Within(p, <<0, t>>)
    <3>1. I!evaluate(p) = p
      BY <2>1, <2>2 DEF I!evaluate
    <3>2. (p - p) % t = 0
      BY <2>1
    <3> QED BY <2>1, <2>2, <3>1, <3>2
  <2>3. CASE ~I!Within(p, <<0, t>>)
    <3> DEFINE m == (-p) \div t + 1
    <3>1. m \in Int /\ m * t > -p /\ m * t - t <= -p
      <4>1. PICK q \in Int : q = (-p) \div t
        BY <2>1, Division
      <4>2. q * t <= -p /\ -p < q * t + t
        BY <2>1, <4>1, Division
      <4>3. (q + 1) * t = q * t + t
        BY Z3
      <4> QED BY <4>1, <4>2, <4>3
    <3> HIDE DEF m
    <3>2. m * t \in Int
      BY <3>1
    <3>3. I!Within(p + m * t, <<0, t>>)
      BY <2>1, <3>1, <3>2 DEF I!Within
    <3>4. I!evaluate(p) = p + m * t
      BY <2>1, <2>3, <3>3 DEF I!evaluate, m
    <3>5. (I!evaluate(p) - p) % t = 0
      BY <2>1, <3>1, <3>2, <3>4, Multiple
    <3> QED BY <2>1, <3>3, <3>4, <3>5
  <2> QED BY <2>2, <2>3
<1> QED BY <1>1, <1>2, <1>3

LEMMA InterpolHolds == I!InterpolAssumption /\ InterpolInv => I!InterpolContract
<1> SUFFICES ASSUME I!InterpolAssumption, InterpolInv PROVE I!InterpolContract
  OBVIOUS
<1>1. I!WorkspaceFits
  BY DEF InterpolInv
<1>2. I!EvaluatesInside
  <2>1. \A p \in -Far .. Far : p \in Int
    BY DEF I!InterpolAssumption
  <2> QED BY <2>1, Evaluated DEF I!EvaluatesInside
<1>3. I!RestoresGiven
  <2> SUFFICES ASSUME I!is_initialized, ~strayed
               PROVE  /\ I!restore_orig_x = <<given.x.id, given.x.n>>
                      /\ I!restore_orig_y = <<given.y.id, given.y.n>>
                      /\ T > 0 <=> given.periodic
    BY DEF I!RestoresGiven, I!KeepsGiven
  <2>1. T < 0 <=> ~y.closed
    BY DEF InterpolInv, InterpolTypes, I!TypeOK, AxisInv, GivenInv, I!InterpolAssumption
  <2>2. x.n = y.n
    BY DEF InterpolInv, I!WorkspaceFits
  <2>3. T > 0 <=> given.periodic
    BY DEF InterpolInv, GivenInv
  <2> QED
    BY <2>1, <2>2, <2>3 DEF InterpolInv, GivenInv, I!restore_orig_x, I!restore_orig_y
<1> QED
  BY <1>1, <1>2, <1>3 DEF I!InterpolContract

-----------------------------------------------------------------------------
(* The tables of the transform filters. *)
Sizes == 0 .. TransformSize

Tables == [{"REAL", "COMPLEX"} -> Sizes]

-----------------------------------------------------------------------------
(* The operators of class DFT. *)

(* After "if(!is_initialized(N, type)) initialize(N, type)" the tables of   *)
(* the type have the size asked for.                                        *)
LEMMA PreparedFits ==
  ASSUME ctx \in Tables, TransformSize \in Nat, NEW len \in Sizes, len > 0,
         NEW type \in {"REAL", "COMPLEX", "ALL"}
  PROVE  /\ F!Prepared(len, type) \in Tables
         /\ F!is_initialized(F!Prepared(len, type), len, type)
  BY DEF F!Prepared, F!is_initialized, F!initialize, F!Types, Sizes, Tables

LEMMA HalfSize ==
  ASSUME TransformSize \in Nat, NEW size \in Sizes
  PROVE  size \div 2 \in Sizes
  BY DEF Sizes

-----------------------------------------------------------------------------
(* What a message leaves behind. *)

LEMMA TransformTypes == F!TransformsAssumption /\ F!Init => F!TypeOK
<1> SUFFICES ASSUME F!TransformsAssumption, F!Init PROVE F!TypeOK
  OBVIOUS
<1>1. 0 \in 0 .. TransformSize /\ 0 \in 0 .. 2 * TransformSize
  BY DEF F!TransformsAssumption
<1>2. ctx \in [{"REAL", "COMPLEX"} -> 0 .. TransformSize]
  <2>1. ctx = [t \in {"REAL", "COMPLEX"} |-> 0]
    BY DEF F!Init
  <2> QED BY <1>1, <2>1
<1>3. Fa \in [n : 0 .. TransformSize, a : Angles] /\ a \in Angles /\ Ec \in 0 .. TransformSize
  BY <1>1 DEF F!Init, F!Null, F!TransformsAssumption
<1>4. out \in [size : 0 .. 2 * TransformSize, done : 0 .. TransformSize, of : 0 .. TransformSize, angle : Angles]
  BY <1>1 DEF F!Init, F!Nothing, F!TransformsAssumption
<1> QED
  BY <1>2, <1>3, <1>4 DEF F!Init, F!TypeOK

(* A message that is refused leaves no result.                              *)
LEMMA ThrowType ==
  ASSUME F!TransformsAssumption, F!TypeOK, NEW why \in {"input", "tables"}, F!Throw(why), UNCHANGED filter
  PROVE  F!TypeOK'
<1>1. out' \in [size : 0 .. 2 * TransformSize, done : 0 .. TransformSize, of : 0 .. TransformSize, angle : Angles]
  BY DEF F!Throw, F!Nothing, F!TransformsAssumption
<1>2. UNCHANGED <<filter, ctx, a, Ec, Fa>> /\ end' \in {"none", "input", "tables"}
  BY DEF F!Throw
<1> QED
  BY <1>1, <1>2 DEF F!TypeOK

LEMMA ThrowCurrent ==
  ASSUME F!Throw("input")
  PROVE  F!CachesCurrent'
  BY DEF F!Throw, F!CachesCurrent, F!StopsOnlyStale, F!MatrixCurrent, F!BuffersFit

(* The result of a filter without a matrix. *)
LEMMA ResultInv ==
  ASSUME F!TransformsAssumption, F!TypeOK, end = "none", UNCHANGED <<filter, a, Ec, Fa, end>>, ctx' \in Tables,
         NEW size \in 0 .. 2 * TransformSize, NEW done \in Sizes, NEW len \in Sizes,
         F!Result(size, done, len, 0),
         filter # "DFrFT",
         filter # "Power real" =>
           done = len /\ size = IF filter \in {"IDFT real", "Quadrature", "Power complex"} THEN len ELSE 2 * len
  PROVE  F!TypeOK' /\ F!CachesCurrent'
<1>1. out' = [size |-> size, done |-> done, of |-> len, angle |-> 0]
  BY DEF F!Result
<1>2. out' \in [size : 0 .. 2 * TransformSize, done : 0 .. TransformSize, of : 0 .. TransformSize, angle : Angles]
  BY <1>1 DEF Sizes, F!TransformsAssumption
<1>3. F!TypeOK'
  BY <1>2 DEF F!TypeOK, Tables, Sizes
<1>4. F!StopsOnlyStale' /\ F!MatrixCurrent'
  BY DEF F!StopsOnlyStale, F!MatrixCurrent
<1>5. F!BuffersFit'
  BY <1>1 DEF F!BuffersFit
<1> QED
  BY <1>3, <1>4, <1>5 DEF F!CachesCurrent

(* A message with an input the filter does not take. *)
LEMMA RefusedInv ==
  ASSUME F!TransformsAssumption, F!TypeOK, F!Throw("input"), UNCHANGED filter
  PROVE  F!TypeOK' /\ F!CachesCurrent'
  BY ThrowType, ThrowCurrent

-----------------------------------------------------------------------------
(* The filters of class DFT, and PowerFilter. *)

LEMMA DFTInv ==
  ASSUME F!TransformsAssumption, F!TypeOK, end = "none", NEW size \in Sizes, F!DFTFilter(size), UNCHANGED filter
  PROVE  F!TypeOK' /\ F!CachesCurrent'
<1> DEFINE type == IF filter = "DFT real" THEN "REAL" ELSE "COMPLEX"
           len == IF type = "REAL" THEN size ELSE size \div 2
           c == F!Prepared(len, type)
           ft == F!dft(c, size, type)
<1>1. len \in Sizes /\ type \in {"REAL", "COMPLEX"}
  BY HalfSize DEF F!TransformsAssumption
<1>2. len = 0 \/ (type = "COMPLEX" /\ size % 2 # 0) => F!Throw("input")
  BY DEF F!DFTFilter
<1>3. CASE ~(len = 0 \/ (type = "COMPLEX" /\ size % 2 # 0))
  <2>1. len > 0
    <3>1. len # 0
      BY <1>3
    <3> HIDE DEF len
    <3> QED BY <1>1, <3>1 DEF Sizes, F!TransformsAssumption
  <2>2. c \in Tables /\ F!is_initialized(c, len, type)
    <3>1. ctx \in Tables /\ TransformSize \in Nat
      BY DEF F!TypeOK, Tables, Sizes, F!TransformsAssumption
    <3> HIDE DEF len, type
    <3> QED BY <1>1, <2>1, <3>1, PreparedFits
  <2>3. ft.points = len /\ ft.size = 2 * len
    <3>1. ft = IF F!is_initialized(c, len, type) THEN [points |-> len, size |-> 2 * len] ELSE [points |-> 0, size |-> 0]
      BY DEF F!dft
    <3> HIDE DEF len, c, type, ft
    <3> QED BY <2>2, <3>1
  <2>4. ctx' = c /\ F!Result(ft.size, ft.points, len, 0) /\ UNCHANGED <<a, Ec, Fa, end>>
    <3>1. ft.points # 0
      <4> HIDE DEF len, ft
      <4> QED BY <2>1, <2>3, <1>1 DEF Sizes, F!TransformsAssumption
    <3> QED BY <1>3, <3>1 DEF F!DFTFilter
  <2>5. filter \in {"DFT real", "DFT complex"}
    BY DEF F!DFTFilter
  <2> HIDE DEF len, c, type, ft
  <2>6. 2 * len \in 0 .. 2 * TransformSize
    BY <1>1 DEF Sizes, F!TransformsAssumption
  <2> QED
    BY <1>1, <2>2, <2>3, <2>4, <2>5, <2>6, ResultInv
<1> QED
  BY <1>2, <1>3, RefusedInv

LEMMA IDFTInv ==
  ASSUME F!TransformsAssumption, F!TypeOK, end = "none", NEW size \in Sizes, F!IDFTFilter(size), UNCHANGED filter
  PROVE  F!TypeOK' /\ F!CachesCurrent'
<1> DEFINE type == IF filter = "IDFT real" THEN "REAL" ELSE "COMPLEX"
           len == size \div 2
           c == F!Prepared(len, "COMPLEX")
           ft == F!ift(c, size, type)
<1>1. len \in Sizes
  BY HalfSize DEF F!TransformsAssumption
<1>2. len = 0 \/ size % 2 # 0 => F!Throw("input")
  BY DEF F!IDFTFilter
<1>3. CASE ~(len = 0 \/ size % 2 # 0)
  <2>1. len > 0
    <3> HIDE DEF len
    <3> QED BY <1>1, <1>3 DEF Sizes, F!TransformsAssumption
  <2>2. c \in Tables /\ F!is_initialized(c, len, "COMPLEX")
    <3>1. ctx \in Tables /\ TransformSize \in Nat
      BY DEF F!TypeOK, Tables, Sizes, F!TransformsAssumption
    <3> HIDE DEF len
    <3> QED BY <1>1, <2>1, <3>1, PreparedFits
  <2>3. ft.points = len /\ ft.size = IF type = "REAL" THEN len ELSE 2 * len
    <3>1. ft = IF F!is_initialized(c, len, "COMPLEX")
                 THEN [points |-> len, size |-> IF type = "REAL" THEN len ELSE 2 * len]
                 ELSE [points |-> 0, size |-> 0]
      BY DEF F!ift
    <3> HIDE DEF len, c, type, ft
    <3> QED BY <2>2, <3>1
  <2>4. ctx' = c /\ F!Result(ft.size, ft.points, len, 0) /\ UNCHANGED <<a, Ec, Fa, end>>
    <3>1. ft.points # 0
      <4>1. len # 0
        BY <1>3
      <4> HIDE DEF len, ft
      <4> QED BY <2>3, <4>1
    <3> QED BY <1>3, <3>1 DEF F!IDFTFilter
  <2>5. filter \in {"IDFT real", "IDFT complex"} /\ (type = "REAL" <=> filter = "IDFT real")
    BY DEF F!IDFTFilter
  <2> HIDE DEF len, c, type, ft
  <2>6. len \in 0 .. 2 * TransformSize /\ 2 * len \in 0 .. 2 * TransformSize
    BY <1>1 DEF Sizes, F!TransformsAssumption
  <2> QED
    BY <1>1, <2>2, <2>3, <2>4, <2>5, <2>6, ResultInv
<1> QED
  BY <1>2, <1>3, RefusedInv

LEMMA QuadratureInv ==
  ASSUME F!TransformsAssumption, F!TypeOK, end = "none", NEW len \in Sizes, F!FilterQuadrature(len), UNCHANGED filter
  PROVE  F!TypeOK' /\ F!CachesCurrent'
<1> DEFINE c == F!Prepared(len, "ALL")
           ft == F!dft(c, len, "REAL")
           s == F!ift(c, ft.size, "COMPLEX")
<1>1. len = 0 => F!Throw("input")
  BY DEF F!FilterQuadrature
<1>2. CASE len # 0
  <2>1. len > 0 /\ len \in Nat /\ (2 * len) \div 2 = len
    BY <1>2 DEF Sizes, F!TransformsAssumption
  <2>2. c \in Tables /\ F!is_initialized(c, len, "ALL")
    <3>1. ctx \in Tables /\ TransformSize \in Nat
      BY DEF F!TypeOK, Tables, Sizes, F!TransformsAssumption
    <3> QED BY <2>1, <3>1, PreparedFits
  <2>3. F!is_initialized(c, len, "REAL") /\ F!is_initialized(c, len, "COMPLEX")
    <3> HIDE DEF c
    <3> QED BY <2>2 DEF F!is_initialized, F!Types
  <2>4. ft = [points |-> len, size |-> 2 * len]
    BY <2>3 DEF F!dft
  <2>5. ft.points = len /\ ft.size = 2 * len
    <3> HIDE DEF ft
    <3> QED BY <2>4
  <2>6. s = [points |-> len, size |-> 2 * len]
    <3>1. s = IF F!is_initialized(c, ft.size \div 2, "COMPLEX")
                THEN [points |-> ft.size \div 2, size |-> 2 * (ft.size \div 2)]
                ELSE [points |-> 0, size |-> 0]
      BY DEF F!ift
    <3> HIDE DEF s, c, ft
    <3>2. ft.size \div 2 = len
      BY <2>1, <2>5
    <3> QED BY <2>3, <3>1, <3>2
  <2>7. s.points = len /\ s.size = 2 * len
    <3> HIDE DEF s
    <3> QED BY <2>6
  <2>8. ctx' = c /\ F!Result(len, s.points, len, 0) /\ UNCHANGED <<a, Ec, Fa, end>> /\ filter = "Quadrature"
    <3>1. F!FilterQuadrature(len) =
            /\ filter = "Quadrature"
            /\ IF len = 0 THEN F!Throw("input")
               ELSE IF ft.points = 0 \/ s.points = 0 \/ s.size # 2 * len THEN F!Throw("tables")
               ELSE ctx' = c /\ F!Result(len, s.points, len, 0) /\ UNCHANGED <<a, Ec, Fa, end>>
      BY DEF F!FilterQuadrature
    <3> HIDE DEF c, ft, s
    <3> QED BY <1>2, <2>5, <2>7, <3>1
  <2> HIDE DEF c, ft, s
  <2>9. len \in 0 .. 2 * TransformSize
    BY DEF Sizes, F!TransformsAssumption
  <2> QED
    BY <2>2, <2>7, <2>8, <2>9, ResultInv
<1> QED
  BY <1>1, <1>2, RefusedInv

LEMMA PowerInv ==
  ASSUME F!TransformsAssumption, F!TypeOK, end = "none", NEW size \in Sizes, F!PowerFilter(size), UNCHANGED filter
  PROVE  F!TypeOK' /\ F!CachesCurrent'
<1>1. size \div 2 \in Sizes /\ 0 \in Sizes /\ Sizes \subseteq 0 .. 2 * TransformSize
  BY HalfSize DEF F!TransformsAssumption, Sizes
<1>2. UNCHANGED <<a, Ec, Fa, end>> /\ ctx' \in Tables
  BY DEF F!PowerFilter, F!TypeOK, Tables, Sizes
<1>3. CASE filter = "Power complex"
  <2>1. F!Result(size \div 2, size \div 2, size \div 2, 0)
    BY <1>3 DEF F!PowerFilter, F!proc_c
  <2>2. PICK len \in Sizes : len = size \div 2
    BY <1>1
  <2> QED
    BY <1>1, <1>2, <1>3, <2>1, <2>2, ResultInv
<1>4. CASE filter = "Power real"
  <2>1. F!Result(size, 0, size, 0)
    BY <1>4 DEF F!PowerFilter, F!proc_r
  <2> QED
    BY <1>1, <1>2, <1>4, <2>1, ResultInv
<1> QED
  BY <1>3, <1>4 DEF F!PowerFilter

-----------------------------------------------------------------------------
(* The fractional transform: the only filter whose next message depends on  *)
(* the one before.                                                          *)
LEMMA DFrFTInv ==
  ASSUME F!TransformsAssumption, F!TypeOK, F!CachesCurrent, end = "none", NEW len \in Sizes, NEW angle \in Angles,
         F!DFrFTFilter(len, angle), UNCHANGED filter
  PROVE  F!TypeOK' /\ F!CachesCurrent'
<1> DEFINE M == F!tUsrCmdRotate(angle).Fa
           m == IF M = F!Null THEN F!init_transform(len, angle) ELSE M
<1>1. filter = "DFrFT" /\ len \in Nat
  BY DEF F!DFrFTFilter, Sizes, F!TransformsAssumption
<1>2. M = IF angle = a THEN Fa ELSE F!Null
  BY DEF F!tUsrCmdRotate
<1>3. F!tUsrCmdRotate(angle).a = angle
  BY DEF F!tUsrCmdRotate
<1>4. \/ len = 0 /\ a' = angle /\ Fa' = M /\ out' = F!Nothing /\ UNCHANGED <<ctx, Ec, end>>
      \/ F!Throw("input")
      \/ len > 3 /\ F!dfrft(m, len) = 0 /\ F!Throw("tables")
      \/ /\ len > 3 /\ F!dfrft(m, len) > 0 /\ a' = angle
         /\ Ec' = (IF Ec = len THEN Ec ELSE F!create_basis(len))
         /\ Fa' = m /\ F!Result(F!dfrft(m, len), m.n, len, m.a) /\ UNCHANGED <<ctx, end>>
  BY <1>3 DEF F!DFrFTFilter
<1>5. m = IF M = F!Null THEN [n |-> len, a |-> angle] ELSE M
  BY DEF F!init_transform
<1>6. Fa # F!Null => Fa = [n |-> Ec, a |-> a]
  BY <1>1 DEF F!CachesCurrent, F!MatrixCurrent
<1>7. M # F!Null => M = [n |-> Ec, a |-> angle] /\ M = Fa
  BY <1>2, <1>6
<1> HIDE DEF M, m
<1>8. CASE len = 0 /\ a' = angle /\ Fa' = M /\ out' = F!Nothing /\ UNCHANGED <<ctx, Ec, end>>
  <2>1. F!Null \in [n : 0 .. TransformSize, a : Angles]
    BY DEF F!Null, F!TransformsAssumption
  <2>2. F!Nothing \in [size : 0 .. 2 * TransformSize, done : 0 .. TransformSize, of : 0 .. TransformSize, angle : Angles]
    BY DEF F!Nothing, F!TransformsAssumption
  <2>3. F!TypeOK'
    BY <1>2, <1>8, <2>1, <2>2 DEF F!TypeOK
  <2>4. F!CachesCurrent'
    BY <1>1, <1>7, <1>8 DEF F!CachesCurrent, F!StopsOnlyStale, F!MatrixCurrent, F!BuffersFit
  <2> QED BY <2>3, <2>4
<1>9. CASE F!Throw("input")
  BY <1>9, RefusedInv
<1>10. CASE len > 3 /\ F!dfrft(m, len) = 0 /\ F!Throw("tables")
  <2>1. F!TypeOK'
    BY <1>10, ThrowType
  <2>2. m.n # len
    BY <1>1, <1>10 DEF F!dfrft
  <2>3. M # F!Null
    BY <1>5, <2>2
  <2>4. Fa # F!Null
    BY <1>7, <2>3
  <2> QED
    BY <1>1, <1>10, <2>1, <2>4 DEF F!Throw, F!CachesCurrent, F!StopsOnlyStale, F!MatrixCurrent, F!BuffersFit
<1>11. CASE /\ len > 3 /\ F!dfrft(m, len) > 0 /\ a' = angle
            /\ Ec' = (IF Ec = len THEN Ec ELSE F!create_basis(len))
            /\ Fa' = m /\ F!Result(F!dfrft(m, len), m.n, len, m.a) /\ UNCHANGED <<ctx, end>>
  <2>1. m.n = len /\ F!dfrft(m, len) = 2 * len
    BY <1>11 DEF F!dfrft
  <2>2. m = [n |-> len, a |-> angle]
    <3>1. CASE M = F!Null
      BY <1>5, <3>1
    <3>2. CASE M # F!Null
      BY <1>5, <1>7, <2>1, <3>2
    <3> QED BY <3>1, <3>2
  <2>3. Ec' = len /\ a' = angle /\ Fa' = [n |-> len, a |-> angle]
    BY <1>11, <2>2 DEF F!create_basis
  <2>4. out' = [size |-> 2 * len, done |-> len, of |-> len, angle |-> angle]
    BY <1>11, <2>1, <2>2 DEF F!Result
  <2>5. out' \in [size : 0 .. 2 * TransformSize, done : 0 .. TransformSize, of : 0 .. TransformSize, angle : Angles]
    BY <1>1, <2>4 DEF Sizes, F!TransformsAssumption
  <2>6. Fa' \in [n : 0 .. TransformSize, a : Angles]
    BY <2>3 DEF Sizes
  <2>7. F!TypeOK'
    BY <1>11, <2>3, <2>5, <2>6 DEF F!TypeOK, Sizes
  <2>8. F!StopsOnlyStale' /\ F!MatrixCurrent'
    BY <1>11, <2>3, <2>4 DEF F!StopsOnlyStale, F!MatrixCurrent
  <2>9. F!BuffersFit'
    BY <1>1, <2>4 DEF F!BuffersFit
  <2> QED
    BY <2>7, <2>8, <2>9 DEF F!CachesCurrent
<1> QED
  BY <1>4, <1>8, <1>9, <1>10, <1>11

-----------------------------------------------------------------------------
(* The tables are current: that is inductive with the types. *)
TransformInv == F!TypeOK /\ F!CachesCurrent

LEMMA TransformInit == F!TransformsAssumption /\ F!Init => TransformInv
  BY TransformTypes DEF TransformInv, F!Init, F!CachesCurrent, F!StopsOnlyStale, F!MatrixCurrent, F!BuffersFit

LEMMA TransformNext == F!TransformsAssumption /\ TransformInv /\ [F!Next]_(F!vars) => TransformInv'
<1> SUFFICES ASSUME F!TransformsAssumption, TransformInv, [F!Next]_(F!vars) PROVE TransformInv'
  OBVIOUS
<1>1. CASE UNCHANGED F!vars
  BY <1>1 DEF F!vars, TransformInv, F!TypeOK, F!CachesCurrent, F!StopsOnlyStale, F!MatrixCurrent, F!BuffersFit
<1>2. CASE F!Next
  <2>1. PICK size \in Sizes, angle \in Angles : F!internal_filter(size, angle)
    BY <1>2 DEF F!Next, Sizes
  <2>2. end = "none" /\ UNCHANGED filter /\ F!TypeOK /\ F!CachesCurrent
    BY <1>2 DEF F!Next, TransformInv
  <2>3. CASE F!DFTFilter(size)
    BY <2>2, <2>3, DFTInv DEF TransformInv
  <2>4. CASE F!IDFTFilter(size)
    BY <2>2, <2>4, IDFTInv DEF TransformInv
  <2>5. CASE F!FilterQuadrature(size)
    BY <2>2, <2>5, QuadratureInv DEF TransformInv
  <2>6. CASE F!DFrFTFilter(size, angle)
    BY <2>2, <2>6, DFrFTInv DEF TransformInv
  <2>7. CASE F!PowerFilter(size)
    BY <2>2, <2>7, PowerInv DEF TransformInv
  <2> QED
    BY <2>1, <2>3, <2>4, <2>5, <2>6, <2>7 DEF F!internal_filter
<1> QED
  BY <1>1, <1>2

-----------------------------------------------------------------------------
(* Index arithmetic of spectra. *)

Length == Nat \ {0}

(* A sum of two indexes is reduced by n once or not at all. *)
LEMMA ModSmall ==
  ASSUME NEW len \in Length, NEW s \in Nat, s < 2 * len
  PROVE  s % len = IF s < len THEN s ELSE s - len
<1>1. s % len \in 0 .. len - 1 /\ s = len * (s \div len) + (s % len) /\ s \div len \in Int
  BY Z3 DEF Length
<1> DEFINE k == s \div len
<1>2. k \in Int
  BY <1>1
<1>3. CASE k < 0
  <2>1. len * k <= -len
    BY <1>2, <1>3, Z3 DEF Length
  <2> QED BY <1>1, <2>1 DEF Length
<1>4. CASE k = 0
  BY <1>1, <1>4 DEF Length
<1>5. CASE k = 1
  BY <1>1, <1>5 DEF Length
<1>6. CASE k > 1
  <2>1. len * k >= 2 * len
    BY <1>2, <1>6, Z3 DEF Length
  <2> QED BY <1>1, <2>1 DEF Length
<1> QED
  BY <1>2, <1>3, <1>4, <1>5, <1>6

(* The places of the first negative frequency and of frequency zero after   *)
(* the shift, which are rounded in opposite ways, make up the length.       *)
LEMMA Halves ==
  ASSUME NEW len \in Length
  PROVE  /\ U!NegativeIdx(len) \in 1 .. len
         /\ U!get_w0_idx(len, "FT_STANDARD") \in 0 .. len - 1
         /\ U!NegativeIdx(len) + U!get_w0_idx(len, "FT_STANDARD") = len
  BY DEF Length, U!NegativeIdx, U!get_w0_idx

LEMMA RotateElement ==
  ASSUME NEW len \in Length, NEW f, NEW p \in 0 .. len, NEW i \in U!Samples(len)
  PROVE  /\ U!Rotate(f, len, p)[i] = f[IF i + p < len THEN i + p ELSE i + p - len]
         /\ (IF i + p < len THEN i + p ELSE i + p - len) \in U!Samples(len)
<1>1. i + p \in Nat /\ i + p < 2 * len
  BY DEF U!Samples, Length
<1>2. PICK s \in Nat : s = i + p
  BY <1>1
<1>3. s % len = IF s < len THEN s ELSE s - len
  BY <1>1, <1>2, ModSmall
<1>4. U!Rotate(f, len, p)[i] = f[s % len]
  BY <1>2 DEF U!Rotate
<1> QED
  BY <1>1, <1>2, <1>3, <1>4 DEF U!Samples, Length

(* Two rotations by p and q with p + q = n are none. *)
LEMMA RotateBack ==
  ASSUME NEW len \in Length, NEW f, f = [i \in U!Samples(len) |-> f[i]],
         NEW p \in 0 .. len, NEW q \in 0 .. len, p + q = len
  PROVE  U!Rotate(U!Rotate(f, len, p), len, q) = f
<1> DEFINE r == U!Rotate(U!Rotate(f, len, p), len, q)
<1>1. ASSUME NEW i \in U!Samples(len) PROVE r[i] = f[i]
  <2> DEFINE j == IF i + q < len THEN i + q ELSE i + q - len
             k == IF j + p < len THEN j + p ELSE j + p - len
  <2>1. r[i] = U!Rotate(f, len, p)[j] /\ j \in U!Samples(len)
    BY RotateElement
  <2>2. U!Rotate(f, len, p)[j] = f[k]
    BY <2>1, RotateElement
  <2>3. k = i
    BY DEF U!Samples, Length
  <2> QED BY <2>1, <2>2, <2>3
<1>2. r = [i \in U!Samples(len) |-> r[i]]
  BY DEF U!Rotate
<1> QED
  BY <1>1, <1>2

(* shift_dft_right() and shift_dft_left() undo each other (ft_utils.cpp).   *)
LEMMA ShiftsUndo == \A len \in Length : U!ShiftsInvert(len)
<1> SUFFICES ASSUME NEW len \in Length, NEW type \in U!Types
             PROVE  LET data == U!dft_freq_map(len, type)
                    IN  /\ U!shift_dft_left(U!shift_dft_right(data, len), len) = data
                        /\ U!shift_dft_right(U!shift_dft_left(data, len), len) = data
  BY DEF U!ShiftsInvert
<1> DEFINE data == U!dft_freq_map(len, type)
<1>1. data = [i \in U!Samples(len) |-> data[i]]
  BY DEF U!dft_freq_map, U!Types
<1> QED
  BY <1>1, Halves, RotateBack DEF U!shift_dft_left, U!shift_dft_right, Length

(* A shifted spectrum has the frequencies dft_freq_map() names for its new  *)
(* standard, and frequency zero is where get_w0_idx() says.                 *)
LEMMA FrequenciesKept == \A len \in Length : U!FrequenciesAgree(len)
<1> SUFFICES ASSUME NEW len \in Length PROVE U!FrequenciesAgree(len)
  OBVIOUS
<1> DEFINE D == U!dft_freq_map(len, "DFT_STANDARD")
           G == U!dft_freq_map(len, "FT_STANDARD")
           p == U!NegativeIdx(len)
           w == U!get_w0_idx(len, "FT_STANDARD")
<1>1. p \in 1 .. len /\ w \in 0 .. len - 1 /\ p + w = len
  BY Halves
<1>2. /\ D = [i \in U!Samples(len) |-> IF i < p THEN i ELSE i - (len - 1) - 1]
      /\ G = [i \in U!Samples(len) |-> i - w]
  BY DEF U!dft_freq_map
<1> HIDE DEF D, G, p, w
<1>3. ASSUME NEW i \in U!Samples(len) PROVE U!Rotate(D, len, p)[i] = G[i]
  <2> DEFINE j == IF i + p < len THEN i + p ELSE i + p - len
  <2>1. U!Rotate(D, len, p)[i] = D[j] /\ j \in U!Samples(len)
    BY <1>1, RotateElement DEF Length
  <2>2. D[j] = IF j < p THEN j ELSE j - (len - 1) - 1
    BY <1>2, <2>1
  <2>3. D[j] = i - w
    BY <1>1, <2>2 DEF U!Samples, Length
  <2> QED BY <1>2, <2>1, <2>3
<1>4. U!Rotate(D, len, p) = G
  BY <1>2, <1>3 DEF U!Rotate
<1>5. D[0] = 0 /\ G[w] = 0
  BY <1>1, <1>2 DEF U!Samples, Length
<1>6. U!get_w0_idx(len, "DFT_STANDARD") = 0
  BY DEF U!get_w0_idx
<1> QED
  BY <1>4, <1>5, <1>6 DEF U!FrequenciesAgree, U!shift_dft_right, D, G, p, w, U!Types

(* FilterQuadrature multiplies an element of a spectrum and its mirror      *)
(* image by opposite signs, but the one or two in the middle.               *)
LEMMA MirrorSigns == \A len \in Length : U!HilbertMirrors(len)
  BY DEF Length, U!HilbertMirrors, U!HilbertSign

-----------------------------------------------------------------------------
(* The matrix of even_odd_decomp(): a row has one element of length 1, when *)
(* its index is its own mirror image, or two of +-1/sqrt(2).                *)

Lone(len, i) == i = 0 \/ 2 * i = len
Sign(len, i) == IF i < B!EvenSize(len) THEN 1 ELSE -1

LEMMA Blocks ==
  ASSUME NEW len \in Nat, len > 3
  PROVE  /\ B!EvenSize(len) \in 2 .. len /\ B!OddSize(len) \in 1 .. len
         /\ B!EvenSize(len) + B!OddSize(len) = len
         /\ len - B!R(len) = B!EvenSize(len)
         /\ \A i \in Nat : i < B!EvenSize(len) <=> 2 * i <= len
         /\ B!R(len) \in Nat
         /\ len % 2 = 0 => 2 * (B!R(len) + 1) = len
         /\ \A i \in Nat : 2 * i = len => len % 2 = 0
  BY DEF B!EvenSize, B!OddSize, B!R

LEMMA Mirrors ==
  ASSUME NEW len \in Nat, len > 3, NEW i \in B!Idx(len)
  PROVE  /\ B!Mirror(len, i) \in B!Idx(len)
         /\ B!Mirror(len, i) = IF i = 0 THEN 0 ELSE len - i
         /\ B!Mirror(len, i) = i <=> Lone(len, i)
<1>1. PICK s \in Nat : s = len - i /\ s < 2 * len
  BY DEF B!Idx
<1>2. s % len = IF s < len THEN s ELSE s - len
  BY <1>1, ModSmall DEF Length
<1> QED
  BY <1>1, <1>2 DEF B!Idx, B!Mirror, Lone

LEMMA Cells ==
  ASSUME NEW len \in Nat, len > 3, NEW i \in B!Idx(len), NEW j \in B!Idx(len)
  PROVE  LET P == B!even_odd_decomp(len) IN
         /\ Lone(len, i) => P[<<i, i>>] = [one |-> 1, half |-> 0]
         /\ ~Lone(len, i) => P[<<i, i>>] = [one |-> 0, half |-> Sign(len, i)]
         /\ i # j => P[<<i, j>>] = [one |-> 0, half |-> IF i + j = len THEN 1 ELSE 0]
<1> DEFINE P == B!even_odd_decomp(len)
<1>1. \A p \in B!Idx(len) \X B!Idx(len) :
        P[p] = IF p = <<0, 0>> \/ (len % 2 = 0 /\ p = <<B!R(len) + 1, B!R(len) + 1>>)
                 THEN [one |-> 1, half |-> 0]
               ELSE IF p[1] + p[2] = len THEN [one |-> 0, half |-> 1]
               ELSE IF p[1] = p[2] THEN [one |-> 0, half |-> IF p[1] >= len - B!R(len) THEN -1 ELSE 1]
               ELSE [one |-> 0, half |-> 0]
  BY DEF B!even_odd_decomp
<1> HIDE DEF P
<1>2. ASSUME NEW p \in B!Idx(len), NEW q \in B!Idx(len)
      PROVE  P[<<p, q>>] = IF (p = 0 /\ q = 0) \/ (len % 2 = 0 /\ p = B!R(len) + 1 /\ q = B!R(len) + 1)
                             THEN [one |-> 1, half |-> 0]
                           ELSE IF p + q = len THEN [one |-> 0, half |-> 1]
                           ELSE IF p = q THEN [one |-> 0, half |-> IF p >= len - B!R(len) THEN -1 ELSE 1]
                           ELSE [one |-> 0, half |-> 0]
  BY <1>1
<1>3. Lone(len, i) <=> (i = 0 \/ (len % 2 = 0 /\ i = B!R(len) + 1))
  BY Blocks DEF Lone, B!Idx
<1>4. ~Lone(len, i) => i + i # len /\ (i >= len - B!R(len) <=> ~(i < B!EvenSize(len)))
  BY Blocks DEF Lone, B!Idx
<1>5. Lone(len, i) => P[<<i, i>>] = [one |-> 1, half |-> 0]
  BY <1>2, <1>3
<1>6. ~Lone(len, i) => P[<<i, i>>] = [one |-> 0, half |-> Sign(len, i)]
  BY <1>2, <1>3, <1>4 DEF Sign
<1>7. i # j => P[<<i, j>>] = [one |-> 0, half |-> IF i + j = len THEN 1 ELSE 0]
  BY <1>2
<1> QED
  BY <1>5, <1>6, <1>7 DEF P

(* An element of P A Transpose(P).                                          *)
LEMMA Sums ==
  ASSUME NEW len \in Nat, len > 3, NEW A \in [B!Idx(len) \X B!Idx(len) -> Int],
         NEW i \in B!Idx(len), NEW j \in B!Idx(len)
  PROVE  LET m == B!Mirror(len, i)
             k == B!Mirror(len, j)
             s == Sign(len, i)
             t == Sign(len, j)
             C == B!Congruent(len, A, i, j)
         IN /\ Lone(len, i) /\ Lone(len, j) => C = [rational |-> 2 * A[<<i, j>>], irrational |-> 0]
            /\ Lone(len, i) /\ ~Lone(len, j) => C = [rational |-> 0, irrational |-> t * A[<<i, j>>] + A[<<i, k>>]]
            /\ ~Lone(len, i) /\ Lone(len, j) => C = [rational |-> 0, irrational |-> s * A[<<i, j>>] + A[<<m, j>>]]
            /\ ~Lone(len, i) /\ ~Lone(len, j) =>
                 C = [rational |-> s * t * A[<<i, j>>] + s * A[<<i, k>>] + (t * A[<<m, j>>] + A[<<m, k>>]),
                      irrational |-> 0]
<1> DEFINE m == B!Mirror(len, i)
           k == B!Mirror(len, j)
           s == Sign(len, i)
           t == Sign(len, j)
           C == B!Congruent(len, A, i, j)
           P == B!even_odd_decomp(len)
           rational(p, q)   == (2 * P[<<i, p>>].one * P[<<j, q>>].one + P[<<i, p>>].half * P[<<j, q>>].half) * A[<<p, q>>]
           irrational(p, q) == (P[<<i, p>>].one * P[<<j, q>>].half + P[<<i, p>>].half * P[<<j, q>>].one) * A[<<p, q>>]
<1>1. /\ m = i /\ k = j => C = [rational |-> rational(i, j), irrational |-> irrational(i, j)]
      /\ m = i /\ k # j => C = [rational   |-> rational(i, j) + rational(i, k),
                                irrational |-> irrational(i, j) + irrational(i, k)]
      /\ m # i /\ k = j => C = [rational   |-> rational(i, j) + rational(m, j),
                                irrational |-> irrational(i, j) + irrational(m, j)]
      /\ m # i /\ k # j => C = [rational   |-> rational(i, j) + rational(i, k) + (rational(m, j) + rational(m, k)),
                                irrational |-> irrational(i, j) + irrational(i, k) + (irrational(m, j) + irrational(m, k))]
  BY DEF B!Congruent, B!OverRow
<1>2. m \in B!Idx(len) /\ k \in B!Idx(len) /\ (m = i <=> Lone(len, i)) /\ (k = j <=> Lone(len, j))
  BY Mirrors
<1>3. ~Lone(len, i) => m # i /\ i + m = len
  BY Mirrors DEF Lone, B!Idx
<1>4. ~Lone(len, j) => k # j /\ j + k = len
  BY Mirrors DEF Lone, B!Idx
<1>5. /\ Lone(len, i) => P[<<i, i>>] = [one |-> 1, half |-> 0]
      /\ ~Lone(len, i) => P[<<i, i>>] = [one |-> 0, half |-> s] /\ P[<<i, m>>] = [one |-> 0, half |-> 1]
  BY <1>2, <1>3, Cells
<1>6. /\ Lone(len, j) => P[<<j, j>>] = [one |-> 1, half |-> 0]
      /\ ~Lone(len, j) => P[<<j, j>>] = [one |-> 0, half |-> t] /\ P[<<j, k>>] = [one |-> 0, half |-> 1]
  BY <1>2, <1>4, Cells
<1>7. s \in {1, -1} /\ t \in {1, -1}
  BY DEF Sign
<1>8. /\ A[<<i, j>>] \in Int /\ A[<<i, k>>] \in Int /\ A[<<m, j>>] \in Int /\ A[<<m, k>>] \in Int
  BY <1>2
<1> HIDE DEF m, k, s, t, C, P
<1>9. CASE Lone(len, i) /\ Lone(len, j)
  <2>1. rational(i, j) = 2 * A[<<i, j>>] /\ irrational(i, j) = 0
    BY <1>5, <1>6, <1>8, <1>9
  <2> QED BY <1>1, <1>2, <1>9, <2>1 DEF m, k, s, t, C
<1>10. CASE Lone(len, i) /\ ~Lone(len, j)
  <2>1. /\ rational(i, j) = 0 /\ irrational(i, j) = t * A[<<i, j>>]
        /\ rational(i, k) = 0 /\ irrational(i, k) = A[<<i, k>>]
    BY <1>5, <1>6, <1>7, <1>8, <1>10
  <2> QED BY <1>1, <1>2, <1>10, <2>1 DEF m, k, s, t, C
<1>11. CASE ~Lone(len, i) /\ Lone(len, j)
  <2>1. /\ rational(i, j) = 0 /\ irrational(i, j) = s * A[<<i, j>>]
        /\ rational(m, j) = 0 /\ irrational(m, j) = A[<<m, j>>]
    BY <1>5, <1>6, <1>7, <1>8, <1>11
  <2> QED BY <1>1, <1>2, <1>11, <2>1 DEF m, k, s, t, C
<1>12. CASE ~Lone(len, i) /\ ~Lone(len, j)
  <2>1. /\ rational(i, j) = s * t * A[<<i, j>>] /\ irrational(i, j) = 0
        /\ rational(i, k) = s * A[<<i, k>>] /\ irrational(i, k) = 0
        /\ rational(m, j) = t * A[<<m, j>>] /\ irrational(m, j) = 0
        /\ rational(m, k) = A[<<m, k>>] /\ irrational(m, k) = 0
    BY <1>5, <1>6, <1>7, <1>8, <1>12
  <2> QED BY <1>1, <1>2, <1>12, <2>1 DEF m, k, s, t, C
<1> QED BY <1>9, <1>10, <1>11, <1>12

(* first_order_HG() looks the same when all indexes are mirrored.           *)
LEMMA HGMirrored ==
  ASSUME NEW len \in Nat, len > 3
  PROVE  LET A == B!first_order_HG(len) IN
         /\ A \in [B!Idx(len) \X B!Idx(len) -> Int]
         /\ \A i, j \in B!Idx(len) : A[<<B!Mirror(len, i), B!Mirror(len, j)>>] = A[<<i, j>>]
<1> DEFINE A == B!first_order_HG(len)
<1>1. A \in [B!Idx(len) \X B!Idx(len) -> Int]
  BY DEF B!first_order_HG, B!Distance, B!Idx
<1>2. ASSUME NEW i \in B!Idx(len), NEW j \in B!Idx(len)
      PROVE  A[<<i, j>>] = IF i = j THEN -4 - B!Distance(len, i)
                           ELSE IF i - j \in {1, -1, len - 1, 1 - len} THEN 1 ELSE 0
  BY DEF B!first_order_HG
<1> HIDE DEF A
<1>3. ASSUME NEW i \in B!Idx(len), NEW j \in B!Idx(len)
      PROVE  A[<<B!Mirror(len, i), B!Mirror(len, j)>>] = A[<<i, j>>]
  <2> DEFINE m == B!Mirror(len, i)
             k == B!Mirror(len, j)
  <2>1. /\ m \in B!Idx(len) /\ m = IF i = 0 THEN 0 ELSE len - i
        /\ k \in B!Idx(len) /\ k = IF j = 0 THEN 0 ELSE len - j
    BY Mirrors
  <2> HIDE DEF m, k
  <2>2. A[<<m, k>>] = IF m = k THEN -4 - B!Distance(len, m)
                      ELSE IF m - k \in {1, -1, len - 1, 1 - len} THEN 1 ELSE 0
    BY <1>2, <2>1
  <2>3. (m = k <=> i = j) /\ B!Distance(len, m) = B!Distance(len, i)
    BY <2>1 DEF B!Idx, B!Distance
  <2>4. i # j => (m - k \in {1, -1, len - 1, 1 - len} <=> i - j \in {1, -1, len - 1, 1 - len})
    BY <2>1 DEF B!Idx
  <2>5. A[<<m, k>>] = A[<<i, j>>]
    BY <1>2, <2>2, <2>3, <2>4
  <2> QED BY <2>5 DEF m, k
<1> QED BY <1>1, <1>3 DEF A

(* The even and the odd half: mirror images have the same place in it.      *)
LEMMA Halved ==
  ASSUME NEW len \in Nat, len > 3, NEW i \in B!Idx(len)
  PROVE  /\ Lone(len, i) => i < B!EvenSize(len) /\ Sign(len, i) = 1
         /\ ~Lone(len, i) => Sign(len, B!Mirror(len, i)) = -Sign(len, i)
  BY Mirrors, Blocks DEF Lone, Sign, B!Idx

(* The blocks create_basis() clears are zero exactly, for every length.     *)
LEMMA BlocksEmpty ==
  ASSUME NEW len \in Nat, len > 3
  PROVE  B!CleanupLosesNothing(len)
<1> SUFFICES ASSUME NEW i \in 0 .. B!EvenSize(len) - 1, NEW j \in B!EvenSize(len) .. len - 1
             PROVE  /\ B!Congruent(len, B!first_order_HG(len), i, j) = B!Nought
                    /\ B!Congruent(len, B!first_order_HG(len), j, i) = B!Nought
  BY Blocks DEF B!CleanupLosesNothing
<1> DEFINE A == B!first_order_HG(len)
           m == B!Mirror(len, i)
           k == B!Mirror(len, j)
<1>1. i \in B!Idx(len) /\ j \in B!Idx(len) /\ Sign(len, i) = 1 /\ Sign(len, j) = -1 /\ ~Lone(len, j)
  BY Blocks, Halved DEF B!Idx, Sign
<1>2. m \in B!Idx(len) /\ k \in B!Idx(len) /\ (m = i <=> Lone(len, i))
  BY <1>1, Mirrors
<1>3. B!Mirror(len, m) = i /\ B!Mirror(len, k) = j
  BY <1>1, <1>2, Mirrors DEF B!Idx
<1>4. A \in [B!Idx(len) \X B!Idx(len) -> Int]
  BY HGMirrored
<1>5. /\ A[<<m, k>>] = A[<<i, j>>] /\ A[<<m, j>>] = A[<<i, k>>]
      /\ A[<<k, m>>] = A[<<j, i>>] /\ A[<<j, m>>] = A[<<k, i>>]
  BY <1>1, <1>2, <1>3, HGMirrored
<1>6. /\ A[<<i, j>>] \in Int /\ A[<<i, k>>] \in Int /\ A[<<j, i>>] \in Int /\ A[<<j, m>>] \in Int
  BY <1>1, <1>2, <1>4
<1> DEFINE s == Sign(len, i)
           t == Sign(len, j)
<1>7. /\ Lone(len, i) =>
           /\ B!Congruent(len, A, i, j) = [rational |-> 0, irrational |-> t * A[<<i, j>>] + A[<<i, k>>]]
           /\ B!Congruent(len, A, j, i) = [rational |-> 0, irrational |-> t * A[<<j, i>>] + A[<<k, i>>]]
      /\ ~Lone(len, i) =>
           /\ B!Congruent(len, A, i, j) =
                [rational |-> s * t * A[<<i, j>>] + s * A[<<i, k>>] + (t * A[<<m, j>>] + A[<<m, k>>]), irrational |-> 0]
           /\ B!Congruent(len, A, j, i) =
                [rational |-> t * s * A[<<j, i>>] + t * A[<<j, m>>] + (s * A[<<k, i>>] + A[<<k, m>>]), irrational |-> 0]
  BY <1>1, <1>4, Sums
<1>8. s = 1 /\ t = -1
  BY <1>1
<1> HIDE DEF A, m, k, s, t
<1>9. CASE Lone(len, i)
  <2>1. t * A[<<i, j>>] + A[<<i, k>>] = 0 /\ t * A[<<j, i>>] + A[<<k, i>>] = 0
    BY <1>2, <1>5, <1>6, <1>8, <1>9
  <2> QED BY <1>7, <1>9, <2>1 DEF B!Nought, A
<1>10. CASE ~Lone(len, i)
  <2>1. /\ s * t * A[<<i, j>>] + s * A[<<i, k>>] + (t * A[<<m, j>>] + A[<<m, k>>]) = 0
        /\ t * s * A[<<j, i>>] + t * A[<<j, m>>] + (s * A[<<k, i>>] + A[<<k, m>>]) = 0
    BY <1>5, <1>6, <1>8
  <2> QED BY <1>7, <1>10, <2>1 DEF B!Nought, A
<1> QED BY <1>9, <1>10

(* even_odd_decomp() is symmetric and its own inverse, its first rows are   *)
(* even in the column and the others odd.                                   *)
LEMMA Splits ==
  ASSUME NEW len \in Nat, len > 3
  PROVE  B!DecompositionSplits(len)
<1> DEFINE P == B!even_odd_decomp(len)
           A == B!Unit(len)
<1>1. ASSUME NEW i \in B!Idx(len), NEW j \in B!Idx(len) PROVE P[<<i, j>>] = P[<<j, i>>]
  <2>1. i # j => P[<<i, j>>] = [one |-> 0, half |-> IF i + j = len THEN 1 ELSE 0]
    BY Cells
  <2>2. i # j => P[<<j, i>>] = [one |-> 0, half |-> IF j + i = len THEN 1 ELSE 0]
    BY Cells
  <2> HIDE DEF P
  <2> QED BY <2>1, <2>2 DEF B!Idx
<1>2. ASSUME NEW i \in B!Idx(len), NEW j \in B!Idx(len)
      PROVE  B!Congruent(len, A, i, j) = [B!Nought EXCEPT !.rational = IF i = j THEN 2 ELSE 0]
  <2> DEFINE m == B!Mirror(len, i)
             k == B!Mirror(len, j)
             s == Sign(len, i)
             t == Sign(len, j)
  <2>1. /\ m \in B!Idx(len) /\ m = (IF i = 0 THEN 0 ELSE len - i) /\ (m = i <=> Lone(len, i))
        /\ k \in B!Idx(len) /\ k = (IF j = 0 THEN 0 ELSE len - j) /\ (k = j <=> Lone(len, j))
    BY Mirrors
  <2>2. A \in [B!Idx(len) \X B!Idx(len) -> Int]
    BY DEF B!Unit
  <2>3. \A p, q \in B!Idx(len) : A[<<p, q>>] = IF p = q THEN 1 ELSE 0
    BY DEF B!Unit
  <2>4. /\ Lone(len, i) /\ Lone(len, j) => B!Congruent(len, A, i, j) = [rational |-> 2 * A[<<i, j>>], irrational |-> 0]
        /\ Lone(len, i) /\ ~Lone(len, j) =>
             B!Congruent(len, A, i, j) = [rational |-> 0, irrational |-> t * A[<<i, j>>] + A[<<i, k>>]]
        /\ ~Lone(len, i) /\ Lone(len, j) =>
             B!Congruent(len, A, i, j) = [rational |-> 0, irrational |-> s * A[<<i, j>>] + A[<<m, j>>]]
        /\ ~Lone(len, i) /\ ~Lone(len, j) =>
             B!Congruent(len, A, i, j) =
               [rational |-> s * t * A[<<i, j>>] + s * A[<<i, k>>] + (t * A[<<m, j>>] + A[<<m, k>>]), irrational |-> 0]
    BY <2>2, Sums
  <2>5. s \in {1, -1} /\ t \in {1, -1} /\ (i = j => s = t)
    BY DEF Sign
  <2>6. ~Lone(len, i) /\ i = k => s = -t
    <3>1. ~Lone(len, j) => Sign(len, k) = -t
      BY Halved
    <3>2. i = k /\ ~Lone(len, i) => ~Lone(len, j)
      BY <2>1 DEF Lone, B!Idx
    <3> QED BY <3>1, <3>2
  <2>7. (m = k <=> i = j) /\ (m = j <=> i = k)
    BY <2>1 DEF B!Idx
  <2>8. (Lone(len, i) /\ i = k => Lone(len, j)) /\ (Lone(len, j) /\ m = j => Lone(len, i))
    BY <2>1, <2>7 DEF Lone, B!Idx
  <2>9. /\ A[<<i, j>>] = (IF i = j THEN 1 ELSE 0) /\ A[<<m, k>>] = (IF i = j THEN 1 ELSE 0)
        /\ A[<<i, k>>] = (IF i = k THEN 1 ELSE 0) /\ A[<<m, j>>] = (IF i = k THEN 1 ELSE 0)
    BY <2>1, <2>3, <2>7
  <2> HIDE DEF A, m, k, s, t
  <2>10. B!Congruent(len, A, i, j) = [rational |-> IF i = j THEN 2 ELSE 0, irrational |-> 0]
    <3>1. CASE Lone(len, i) /\ Lone(len, j)
      BY <2>4, <2>9, <3>1
    <3>2. CASE Lone(len, i) /\ ~Lone(len, j)
      BY <2>1, <2>4, <2>5, <2>8, <2>9, <3>2
    <3>3. CASE ~Lone(len, i) /\ Lone(len, j)
      BY <2>1, <2>4, <2>5, <2>7, <2>8, <2>9, <3>3
    <3>4. CASE ~Lone(len, i) /\ ~Lone(len, j)
      <4>1. s * t * A[<<i, j>>] + s * A[<<i, k>>] + (t * A[<<m, j>>] + A[<<m, k>>]) = IF i = j THEN 2 ELSE 0
        BY <2>1, <2>5, <2>6, <2>9, <3>4
      <4> QED BY <2>4, <3>4, <4>1
    <3> QED BY <3>1, <3>2, <3>3, <3>4
  <2> QED BY <2>10 DEF B!Nought
<1>3. ASSUME NEW i \in B!Idx(len), NEW j \in 1 .. len - 1
      PROVE  P[<<i, len - j>>] = IF i < B!EvenSize(len) THEN P[<<i, j>>] ELSE [P[<<i, j>>] EXCEPT !.half = -@]
  <2>1. PICK l \in B!Idx(len) : l = len - j
    BY DEF B!Idx
  <2>2. j \in B!Idx(len) /\ i \in Nat /\ j \in Nat /\ l \in Nat
    BY DEF B!Idx
  <2>3. /\ i = j /\ Lone(len, i) => P[<<i, j>>] = [one |-> 1, half |-> 0]
        /\ i = j /\ ~Lone(len, i) => P[<<i, j>>] = [one |-> 0, half |-> Sign(len, i)]
        /\ i # j => P[<<i, j>>] = [one |-> 0, half |-> IF i + j = len THEN 1 ELSE 0]
    BY <2>2, Cells
  <2>4. /\ i = l /\ Lone(len, i) => P[<<i, l>>] = [one |-> 1, half |-> 0]
        /\ i = l /\ ~Lone(len, i) => P[<<i, l>>] = [one |-> 0, half |-> Sign(len, i)]
        /\ i # l => P[<<i, l>>] = [one |-> 0, half |-> IF i + l = len THEN 1 ELSE 0]
    BY Cells
  <2>5. /\ i + l = len <=> i = j
        /\ i + j = len <=> i = l
        /\ i = j /\ i = l <=> i = j /\ Lone(len, i)
        /\ Lone(len, i) /\ i # j => i # l
        /\ Lone(len, i) => i < B!EvenSize(len)
    BY <2>1, <2>2, Halved DEF Lone
  <2> HIDE DEF P
  <2>6. P[<<i, l>>] = IF i < B!EvenSize(len) THEN P[<<i, j>>] ELSE [P[<<i, j>>] EXCEPT !.half = -@]
    <3>1. CASE i < B!EvenSize(len)
      BY <2>3, <2>4, <2>5, <3>1 DEF Sign
    <3>2. CASE ~(i < B!EvenSize(len))
      BY <2>3, <2>4, <2>5, <3>2 DEF Sign
    <3> QED BY <3>1, <3>2
  <2> QED BY <2>1, <2>6
<1> QED BY <1>1, <1>2, <1>3 DEF B!DecompositionSplits

(* The columns belong to different functions.                               *)
LEMMA Indexes ==
  ASSUME NEW len \in Nat, len > 3
  PROVE  B!IndexesDistinct(len)
<1> DEFINE K == B!KVec(len)
           e == B!EvenSize(len)
           h == len \div 2
           S == IF len % 2 = 0 THEN (0 .. len - 2) \cup {len} ELSE 0 .. len - 1
<1>1. \A k \in B!Idx(len) : K[k] = IF k < e THEN 2 * k ELSE 2 * (k - e) + 1
  BY DEF B!KVec
<1>2. h \in Nat /\ e = h + 1 /\ ((len = 2 * h /\ len % 2 = 0) \/ (len = 2 * h + 1 /\ len % 2 # 0))
  <2>1. h \in Nat /\ len % 2 \in 0 .. 1 /\ len = 2 * h + (len % 2)
    OBVIOUS
  <2>2. e = h + 1
    BY DEF B!EvenSize
  <2> HIDE DEF e, h
  <2> QED BY <2>1, <2>2
<1> HIDE DEF K, e, h
<1>3. ASSUME NEW k \in B!Idx(len), NEW l \in B!Idx(len), K[k] = K[l] PROVE k = l
  BY <1>1, <1>2, <1>3 DEF B!Idx
<1>4. ASSUME NEW k \in B!Idx(len) PROVE K[k] \in S
  <2>1. CASE len = 2 * h /\ len % 2 = 0
    <3>1. K[k] \in (0 .. len - 2) \cup {len}
      BY <1>1, <1>2, <2>1 DEF B!Idx
    <3> QED BY <2>1, <3>1
  <2>2. CASE len = 2 * h + 1 /\ len % 2 # 0
    <3>1. K[k] \in 0 .. len - 1
      BY <1>1, <1>2, <2>2 DEF B!Idx
    <3> QED BY <2>2, <3>1
  <2> QED BY <1>2, <2>1, <2>2
<1>5. ASSUME NEW v \in S PROVE \E k \in B!Idx(len) : K[k] = v
  <2>1. v \in Nat /\ (len = 2 * h => v = 2 * h \/ v <= 2 * h - 2) /\ (len = 2 * h + 1 => v <= 2 * h)
    BY <1>2
  <2> DEFINE w == v \div 2
  <2>2. w \in Nat /\ (v = 2 * w \/ v = 2 * w + 1)
    BY <2>1
  <2> HIDE DEF w
  <2>3. CASE v = 2 * w
    <3>1. w \in B!Idx(len) /\ w < e
      BY <1>2, <2>1, <2>2, <2>3 DEF B!Idx
    <3> QED BY <1>1, <2>3, <3>1
  <2>4. CASE v = 2 * w + 1
    <3>1. w + e \in B!Idx(len)
      BY <1>2, <2>1, <2>2, <2>4 DEF B!Idx
    <3>2. PICK k \in B!Idx(len) : k = w + e
      BY <3>1
    <3>3. ~(k < e) /\ 2 * (k - e) + 1 = v
      BY <1>2, <2>2, <2>4, <3>2
    <3> QED BY <1>1, <3>3
  <2> QED BY <2>2, <2>3, <2>4
<1>6. {K[k] : k \in B!Idx(len)} = S
  BY <1>4, <1>5
<1> QED BY <1>3, <1>6 DEF B!IndexesDistinct, K

-----------------------------------------------------------------------------
(* The walk through the lengths.                                            *)
LEMMA IndexMapsHold ==
  ASSUME n \in Length
  PROVE  IndexMaps
<1>1. U!ShiftsInvert(n) /\ U!FrequenciesAgree(n) /\ U!HilbertMirrors(n)
  BY ShiftsUndo, FrequenciesKept, MirrorSigns
<1>2. n > 3 => B!DecompositionSplits(n) /\ B!CleanupLosesNothing(n) /\ B!IndexesDistinct(n)
  BY Splits, BlocksEmpty, Indexes DEF Length
<1> QED BY <1>1, <1>2 DEF IndexMaps

-----------------------------------------------------------------------------
(* The behaviours of MCSequential. *)

DspInv == InterpolInv /\ TransformInv /\ n \in Length

LEMMA DspInit == Init => DspInv
  BY SequentialAssumption, InterpolInit, TransformInit DEF Init, DspInv, Length

(* A step is one of every part or leaves it alone. *)
LEMMA PartsStep ==
  [Next]_vars => /\ [I!Next]_(I!vars) /\ [F!Next]_(F!vars) /\ [J!Next]_(J!vars) /\ [Png!Next]_(Png!vars)
                 /\ n' = n \/ n' = n + 1
<1> SUFFICES ASSUME [Next]_vars
             PROVE  /\ [I!Next]_(I!vars) /\ [F!Next]_(F!vars) /\ [J!Next]_(J!vars) /\ [Png!Next]_(Png!vars)
                    /\ n' = n \/ n' = n + 1
  OBVIOUS
<1> USE DEF interpolVars, transformVars, joinVars, slicerVars, I!vars, F!vars, J!vars, Png!vars
<1>1. CASE Interpolate
  BY <1>1, Zenon DEF Interpolate
<1>2. CASE Transform
  BY <1>2, Zenon DEF Transform
<1>3. CASE Longer
  BY <1>3, Zenon DEF Longer
<1>4. CASE Join
  BY <1>4, Zenon DEF Join
<1>5. CASE Slice
  BY <1>5, Zenon DEF Slice
<1>6. CASE UNCHANGED vars
  BY <1>6, Zenon DEF vars
<1> QED
  BY <1>1, <1>2, <1>3, <1>4, <1>5, <1>6, Zenon DEF Next

LEMMA DspNext == DspInv /\ [Next]_vars => DspInv'
<1> SUFFICES ASSUME DspInv, [Next]_vars PROVE DspInv'
  OBVIOUS
<1>1. /\ [I!Next]_(I!vars) /\ [F!Next]_(F!vars)
      /\ n' = n \/ n' = n + 1
  BY PartsStep
<1>2. InterpolInv'
  BY <1>1, SequentialAssumption, InterpolNext DEF DspInv
<1>3. TransformInv'
  BY <1>1, SequentialAssumption, TransformNext DEF DspInv
<1> QED
  BY <1>1, <1>2, <1>3 DEF DspInv, Length

LEMMA DspInvariant == Spec => []DspInv
<1> QED
  BY DspInit, DspNext, PTL DEF Spec

(* A behaviour of the whole is one of the join and one of the slicer.       *)
LEMMA PartsSpec == Spec => J!Spec /\ Png!Spec
<1>1. Init => J!Init /\ Png!Init
  BY DEF Init
<1>2. [Next]_vars => [J!Next]_(J!vars) /\ [Png!Next]_(Png!vars)
  BY PartsStep
<1> QED
  BY <1>1, <1>2, PTL DEF Spec, J!Spec, Png!Spec

(* The variables of every part keep their types, for samples, messages and  *)
(* images of every size, and any finite set of sources of a join.           *)
THEOREM SequentialTypeCorrect == Spec => []TypeOK
<1>1. DspInv => I!TypeOK /\ F!TypeOK
  BY DEF DspInv, InterpolInv, InterpolTypes, TransformInv
<1>2. J!Spec => []J!TypeOK
  BY JoinMessagesAssumption, J!JoinTypeCorrect DEF J!JoinTypeCorrect, IsFiniteSet, J!IsFiniteSet
<1>3. Png!Spec => []Png!TypeOK
  BY PngStreamAssumption, Png!SlicerTypeCorrect DEF Png!SlicerTypeCorrect
<1>4. I!TypeOK /\ F!TypeOK /\ J!TypeOK /\ Png!TypeOK => TypeOK
  BY DEF TypeOK
<1> QED
  BY <1>1, <1>2, <1>3, <1>4, DspInvariant, PartsSpec, PTL

(* Through any calls workspaces fit, no point is looked up outside the axis *)
(* and the data can be restored, with the exceptions Interpol names.        *)
THEOREM InterpolKeepsContract == Spec => []InterpolContract
<1>1. DspInv => InterpolContract
  BY SequentialAssumption, InterpolHolds DEF DspInv, InterpolContract
<1> QED
  BY <1>1, DspInvariant, PTL

(* The tables are those of the messages: the filters of class DFT never     *)
(* meet a table of another size, the matrix of a DFrFT is that of its basis *)
(* and angle, and every point is transformed (PowerFilter excepted).        *)
THEOREM TablesAreCurrent == Spec => []CachesCurrent
<1>1. DspInv => CachesCurrent
  BY DEF DspInv, TransformInv, CachesCurrent
<1> QED
  BY <1>1, DspInvariant, PTL

(* The index arithmetic of spectra and of the fractional basis is right for *)
(* every length, odd or even.                                               *)
THEOREM IndexMapsAgree == Spec => []IndexMaps
<1>1. DspInv => IndexMaps
  BY IndexMapsHold DEF DspInv
<1> QED
  BY <1>1, DspInvariant, PTL

(* The search for a joined uid never runs off a queue, whatever arrives     *)
(* from whom and in whatever order (base_sync_join.hpp:95-127).             *)
THEOREM SearchEnds == Spec => []SetsBacked
<1>1. J!Spec => []J!SetsBacked
  BY JoinMessagesAssumption, J!QueuesBackSets DEF J!QueuesBackSets, IsFiniteSet, J!IsFiniteSet
<1>2. J!SetsBacked => SetsBacked
  BY DEF SetsBacked
<1> QED
  BY <1>1, <1>2, PartsSpec, PTL

(* With FIFO channels exactly the uids that have come from every source are *)
(* joined, once and in order (base_sync_join.hpp:78-146).                   *)
THEOREM JoinIsExact == Srcs # {} => (Spec => []JoinsExactly)
<1> SUFFICES ASSUME Srcs # {} PROVE Spec => []JoinsExactly
  OBVIOUS
<1>1. J!Spec => []J!JoinsExactly
  BY JoinMessagesAssumption, J!JoinedExactly DEF J!JoinedExactly, IsFiniteSet, J!IsFiniteSet
<1>2. J!JoinsExactly => JoinsExactly
  BY DEF JoinsExactly
<1> QED
  BY <1>1, <1>2, PartsSpec, PTL

(* With FIFO channels no message stays behind that can never be joined any  *)
(* more (base_sync_join.hpp:95-127).                                        *)
THEOREM NothingStays == Srcs # {} => (Spec => []NothingStale)
<1> SUFFICES ASSUME Srcs # {} PROVE Spec => []NothingStale
  OBVIOUS
<1>1. J!Spec => []J!NothingStale
  BY JoinMessagesAssumption, J!NoneIsStale DEF J!NoneIsStale, IsFiniteSet, J!IsFiniteSet
<1>2. J!NothingStale => NothingStale
  BY DEF NothingStale
<1> QED
  BY <1>1, <1>2, PartsSpec, PTL

(* However gnuplot's output is cut into reads and whatever was missed       *)
(* before, what is stored is one whole image (plotscope.cpp:158-197).       *)
THEOREM SlicedIsWhole == Spec => []CurrIsImage
<1>1. Png!Spec => []Png!CurrIsImage
  BY PngStreamAssumption, Png!StoredIsImage DEF Png!StoredIsImage
<1>2. Png!CurrIsImage => CurrIsImage
  BY DEF CurrIsImage
<1> QED
  BY <1>1, <1>2, PartsSpec, PTL

(* The slicer misses only images that a read cuts roughly                   *)
(* (plotscope.cpp:142-197).                                                 *)
THEOREM SmoothIsNeverMissed == Spec => []SmoothIsSliced
<1>1. Png!Spec => []Png!SmoothIsSliced
  BY PngStreamAssumption, Png!SmoothIsStored DEF Png!SmoothIsStored
<1>2. Png!SmoothIsSliced => SmoothIsSliced
  BY DEF SmoothIsSliced
<1> QED
  BY <1>1, <1>2, PartsSpec, PTL

=============================================================================
