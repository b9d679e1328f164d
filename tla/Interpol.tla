------------------------------ MODULE Interpol ------------------------------
(***************************************************************************)
(* GSL1DInterpolRR (real) and GSL1DInterpolCR (packed complex samples),    *)
(* src/dsp/interpolation: one object through its calls.                    *)
(*                                                                         *)
(* The samples of a call are a member of Ys, the x-axis a member of Xs or  *)
(* Autofilled.  Positions are counted from x_vec.front() in steps of the   *)
(* axis.                                                                   *)
(* gsl_interp_init() calls GSL's default error handler when the size of    *)
(* the workspace is not that of the data: the program is aborted.          *)
(***************************************************************************)
EXTENDS Integers

CONSTANTS Kinds,     \* the classes: "RR", "CR"
          Xs, Ys,    \* the x-axes and the samples the calls are given
          MaxSize,   \* bound: doubles in a vector of samples
          Far        \* bound: the points asked for are -Far .. Far

InterpolAssumption == Kinds \subseteq {"RR", "CR"} /\ MaxSize \in Nat /\ Far \in Nat

VARIABLES kind,      \* "RR" or "CR"
          x,         \* x_vec: [n, id, back], back the position of the last point
          y,         \* y_vec, or re_y_vec and im_y_vec: [n, id, closed]
          T,         \* the period, or -1
          interval,  \* <<lower, upper>>
          ws,        \* the size of the workspace(s), 0 when reset
          given,     \* history: what the accepted calls gave, [x, y, periodic]
          strayed,   \* history: there was a call without an axis that the code goes wrong on
          outcome    \* of the last call: "ok", "refused" (it threw) or "aborted"

vars == <<kind, x, y, T, interval, ws, given, strayed, outcome>>

Autofilled == "auto"
NoX  == [n |-> 0, id |-> Autofilled, back |-> 0]
NoY  == [n |-> 0, id |-> Autofilled, closed |-> FALSE]
Nothing == [x |-> NoX, y |-> NoY, periodic |-> FALSE]
MinPoints == 2   \* gsl_interp_type_min_size(gsl_interp_linear)

is_initialized == x.n > 0

Init ==
  /\ kind \in Kinds
  /\ x = NoX /\ y = NoY /\ T = -1 /\ interval = <<0, 0>> /\ ws = 0
  /\ given = Nothing /\ strayed = FALSE /\ outcome = "ok"

Refused == outcome' = "refused" /\ UNCHANGED <<x, y, T, interval, ws, given, strayed>>

(* A workspace that was reset gets the size of y. *)
update_ws(w) ==
  /\ ws' = IF w = 0 THEN y'.n ELSE w
  /\ outcome' = IF ws' = x'.n THEN "ok" ELSE "aborted"

Grid(id, n) == [n |-> n, id |-> id, back |-> n - 1]
x_autofill(n) == Grid(Autofilled, n)

(* What a caller means by set_data(): the axis named; without one that of   *)
(* the calls before, and their period, as long as the number of points is   *)
(* the same; else a new uniform one (i_interpol.h:45-55, 80-83).  The code  *)
(* compares with the closed axis and, for a CR, with the number of doubles. *)
Give(points, id, k, axis) ==
  LET same == k = 0 /\ points = given.x.n
  IN  /\ given' = [x |-> IF k > 0 THEN Grid(axis, k) ELSE IF same THEN given.x ELSE x_autofill(points),
                   y |-> [n |-> points, id |-> id, closed |-> FALSE],
                   periodic |-> same /\ given.periodic]
      /\ strayed' = IF k > 0 THEN FALSE
                    ELSE \/ strayed \/ kind = "CR"
                         \/ given.periodic /\ points \in {given.x.n, given.x.n + 1}

(* size doubles of samples; an axis of k points, or none (k = 0). *)
set_data(size, id, k, axis) ==
  LET points == IF kind = "CR" THEN size \div 2 ELSE size
      kept   == k = 0 /\ size = x.n     \* for a CR too, x.n is compared with the doubles
  IN IF \/ (kind = "CR" /\ size % 2 # 0)
        \/ points < MinPoints
        \/ k \notin {0, points}
     THEN Refused
     ELSE /\ x' = IF k > 0 THEN Grid(axis, k) ELSE IF kept THEN x ELSE x_autofill(size)
          /\ T' = IF kept THEN T ELSE -1
          /\ y' = [n |-> points, id |-> id, closed |-> FALSE]
          /\ interval' = <<0, x'.back>>
          /\ update_ws(IF kept THEN ws ELSE 0)
          /\ Give(points, id, k, axis)

(* A mutant of set_periodic: the workspace keeps its size. *)
set_periodicStale(dx) ==
  IF ~is_initialized \/ T > 0 THEN Refused
  ELSE /\ T' = x.back + dx
       /\ x' = [x EXCEPT !.n = @ + 1, !.back = @ + dx]
       /\ y' = [y EXCEPT !.n = @ + 1, !.closed = TRUE]
       /\ interval' = <<-Far, Far>>
       /\ update_ws(ws)
       /\ given' = [given EXCEPT !.periodic = TRUE] /\ UNCHANGED strayed

(* A mutant of set_periodic: it may be called again. *)
set_periodicAgain(dx) ==
  IF ~is_initialized THEN Refused
  ELSE /\ T' = x.back + dx
       /\ x' = [x EXCEPT !.n = @ + 1, !.back = @ + dx]
       /\ y' = [y EXCEPT !.n = @ + 1, !.closed = TRUE]
       /\ interval' = <<-Far, Far>>
       /\ update_ws(0)
       /\ given' = [given EXCEPT !.periodic = TRUE] /\ UNCHANGED strayed

(* The data is closed: the first sample is repeated dx behind the last.     *)
set_periodic(dx) ==
  IF ~is_initialized \/ T > 0 THEN Refused
  ELSE /\ T' = x.back + dx
       /\ x' = [x EXCEPT !.n = @ + 1, !.back = @ + dx]
       /\ y' = [y EXCEPT !.n = @ + 1, !.closed = TRUE]
       /\ interval' = <<-Far, Far>>
       /\ update_ws(0)
       /\ given' = [given EXCEPT !.periodic = TRUE] /\ UNCHANGED strayed

(* Of a finite function the interval is checked and not set. *)
set_interval(lower, upper) ==
  IF ~is_initialized \/ (T < 0 /\ (lower < 0 \/ upper > x.back)) THEN Refused
  ELSE /\ interval' = IF T > 0 THEN <<lower, upper>> ELSE interval
       /\ outcome' = "ok"
       /\ UNCHANGED <<x, y, T, ws, given, strayed>>

clear ==
  /\ x' = NoX /\ y' = NoY /\ T' = -1 /\ ws' = 0 /\ outcome' = "ok"
  /\ given' = Nothing /\ strayed' = FALSE
  /\ UNCHANGED interval

(* The copy, with which the model goes on, makes its workspace anew. *)
copy ==
  IF x.n > 0 /\ y.n > 0
    THEN UNCHANGED <<x, y, T, interval, given, strayed>> /\ update_ws(0)
    ELSE clear

Next ==
  /\ outcome # "aborted"
  /\ UNCHANGED kind
  /\ \/ \E size \in 0 .. MaxSize, id \in Ys, k \in 0 .. MaxSize, axis \in Xs : set_data(size, id, k, axis)
     \/ \E dx \in 1 .. 2 : set_periodic(dx)
     \/ \E lower \in -2 .. 2 : \E upper \in lower .. 4 : set_interval(lower, upper)
     \/ clear
     \/ copy

Spec == Init /\ [][Next]_vars

-----------------------------------------------------------------------------
(* What the calls that leave the object alone return. *)

Within(p, ivl) == ivl[1] <= p /\ p <= ivl[2]

Ceiling(a, b) == -((-a) \div b)

(* Where evaluate(p) asks the workspace, for a p inside the interval. *)
evaluate(p) ==
  LET data == <<0, x.back>>
      n1 == (-p) \div T + 1
      n2 == Ceiling(-p, T)
  IN  IF T < 0 \/ Within(p, data) THEN p
      ELSE IF Within(p + n1 * T, data) THEN p + n1 * T ELSE p + n2 * T

restore_orig_x == IF T < 0 THEN <<x.id, x.n>> ELSE <<x.id, x.n - 1>>

(* CR counts the points of x, RR those of y. *)
restore_orig_y ==
  LET n == IF kind = "CR" THEN x.n ELSE y.n
  IN  IF T < 0 THEN <<y.id, n>> ELSE <<y.id, n - 1>>

-----------------------------------------------------------------------------
(* Correctness. *)

TypeOK ==
  /\ kind \in {"RR", "CR"}
  /\ x \in [n : 0 .. MaxSize + 1, id : Xs \cup {Autofilled}, back : 0 .. MaxSize + 1]
  /\ y \in [n : 0 .. MaxSize + 1, id : Ys \cup {Autofilled}, closed : BOOLEAN]
  /\ T \in -1 .. MaxSize + 1 /\ ws \in 0 .. MaxSize + 1
  /\ strayed \in BOOLEAN /\ outcome \in {"ok", "refused", "aborted"}

(* The workspaces always have the size of the axis and of the samples they  *)
(* are set up with, so that GSL neither aborts the program nor reads past   *)
(* the end of a vector: through any calls of a real interpolation, and of a *)
(* complex one unless it was given samples without an x-axis.               *)
WorkspaceFits == kind = "RR" \/ ~strayed => outcome # "aborted" /\ ws = x.n /\ x.n = y.n

(* No point inside the interval is looked up outside the axis, and a        *)
(* shifted point is a whole number of periods away.                         *)
EvaluatesInside ==
  is_initialized =>
    \A p \in -Far .. Far :
      Within(p, interval) =>
        /\ Within(evaluate(p), <<0, x.back>>)
        /\ T > 0 => (evaluate(p) - p) % T = 0

KeepsGiven ==
  is_initialized =>
    /\ restore_orig_x = <<given.x.id, given.x.n>>
    /\ restore_orig_y = <<given.y.id, given.y.n>>
    /\ T > 0 <=> given.periodic

(* The axis, the samples and the period are those the calls gave, until     *)
(* samples without an axis are set that the code goes wrong on: any of a    *)
(* complex interpolation, and of a periodic one those of the size of its    *)
(* axis, closed or not.                                                     *)
RestoresGiven == ~strayed => KeepsGiven

InterpolContract == WorkspaceFits /\ EvaluatesInside /\ RestoresGiven

(* What i_interpol.h promises (51-55, 80-83): after the first set_data() the *)
(* x-range is used for all calls of set_data() that do not change the number *)
(* of points, and a periodic signal stays periodic.  The code drops both, or *)
(* aborts (gsl_1d_interpol.cpp:72-74, 106-108).                              *)
AxisKept == outcome # "aborted" /\ KeepsGiven

=============================================================================
