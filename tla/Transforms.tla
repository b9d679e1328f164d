----------------------------- MODULE Transforms -----------------------------
(***************************************************************************)
(* The transform filters of src/dsp and the tables they keep between       *)
(* messages: DFTFilter, IDFTFilter, FilterQuadrature (all three a DFT),    *)
(* DFrFTFilter (a DFrFTGSL) and PowerFilter.  One filter and the messages  *)
(* it processes; of a vector only the number of doubles is kept.           *)
(*                                                                         *)
(* internal_filter() throws out of the node's thread, which nobody         *)
(* catches: the program ends (end), because of the length of the input or  *)
(* because a table has another size.  What it left in its tables then is   *)
(* not kept.                                                               *)
(***************************************************************************)
EXTENDS Integers

CONSTANTS Angles,   \* the angles the commands ask for, with the initial one, 0
          MaxSize   \* bound: doubles in a message

TransformsAssumption == MaxSize \in Nat /\ 0 \in Angles

VARIABLES filter,   \* which filter and whether its input is real or complex
          ctx,      \* real and complex wavetable and workspace: their size, 0 for null
          a,        \* the angle of the DFrFT
          Ec,       \* the size of the basis (and of k_vec), 0 for null
          Fa,       \* the transform matrix [n, a], n = 0 for null
          out,      \* what is known of the last result
          end       \* why the program ended: "none", "input" or "tables"

vars == <<filter, ctx, a, Ec, Fa, out, end>>

Filters == {"DFT real", "DFT complex", "IDFT real", "IDFT complex", "Quadrature",
            "DFrFT", "Power real", "Power complex"}

Nothing == [size |-> 0, done |-> 0, of |-> 0, angle |-> 0]
Null    == [n |-> 0, a |-> 0]

Init ==
  /\ filter \in Filters
  /\ ctx = [REAL |-> 0, COMPLEX |-> 0]
  /\ a = 0 /\ Ec = 0 /\ Fa = Null /\ out = Nothing /\ end = "none"

Throw(why) == end' = why /\ out' = Nothing /\ UNCHANGED <<ctx, a, Ec, Fa>>

(* A result of size doubles, for which `done' of the `of' points of the     *)
(* input were transformed.                                                  *)
Result(size, done, of, angle) == out' = [size |-> size, done |-> done, of |-> of, angle |-> angle]

-----------------------------------------------------------------------------
(* class DFT *)

Types(type) == IF type = "ALL" THEN {"REAL", "COMPLEX"} ELSE {type}

is_initialized(c, n, type) == n > 0 /\ \A t \in Types(type) : c[t] = n

(* A mutant of initialize: a table once made is kept. *)
initializeOnce(c, n, type) == [t \in DOMAIN c |-> IF t \in Types(type) /\ c[t] = 0 THEN n ELSE c[t]]

initialize(c, n, type) == [t \in DOMAIN c |-> IF t \in Types(type) THEN n ELSE c[t]]

(* The tables after "if(!is_initialized(N, type)) initialize(N, type)".     *)
Prepared(n, type) == IF is_initialized(ctx, n, type) THEN ctx ELSE initialize(ctx, n, type)

(* The points and the doubles of the result; 0 points when a table of       *)
(* another size makes the transform throw.                                  *)
dft(c, size, type) ==
  LET n == IF type = "REAL" THEN size ELSE size \div 2
  IN  IF is_initialized(c, n, type) THEN [points |-> n, size |-> 2 * n] ELSE [points |-> 0, size |-> 0]

ift(c, size, type) ==
  LET n == size \div 2
  IN  IF is_initialized(c, n, "COMPLEX")
        THEN [points |-> n, size |-> IF type = "REAL" THEN n ELSE 2 * n]
        ELSE [points |-> 0, size |-> 0]

-----------------------------------------------------------------------------
(* The filters of class DFT *)

DFTFilter(size) ==
  LET type == IF filter = "DFT real" THEN "REAL" ELSE "COMPLEX"
      n    == IF type = "REAL" THEN size ELSE size \div 2
      ft   == dft(Prepared(n, type), size, type)
  IN  /\ filter \in {"DFT real", "DFT complex"}
      /\ IF n = 0 \/ (type = "COMPLEX" /\ size % 2 # 0) THEN Throw("input")
         ELSE IF ft.points = 0 THEN Throw("tables")
         ELSE /\ ctx' = Prepared(n, type)
              /\ Result(ft.size, ft.points, n, 0)
              /\ UNCHANGED <<a, Ec, Fa, end>>

IDFTFilter(size) ==
  LET type == IF filter = "IDFT real" THEN "REAL" ELSE "COMPLEX"
      n    == size \div 2
      ft   == ift(Prepared(n, "COMPLEX"), size, type)
  IN  /\ filter \in {"IDFT real", "IDFT complex"}
      /\ IF n = 0 \/ size % 2 # 0 THEN Throw("input")
         ELSE IF ft.points = 0 THEN Throw("tables")
         ELSE /\ ctx' = Prepared(n, "COMPLEX")
              /\ Result(ft.size, ft.points, n, 0)
              /\ UNCHANGED <<a, Ec, Fa, end>>

(* The loops read and write ft[0 .. 2N - 1].                                *)
FilterQuadrature(n) ==
  LET c  == Prepared(n, "ALL")
      ft == dft(c, n, "REAL")
      s  == ift(c, ft.size, "COMPLEX")
  IN  /\ filter = "Quadrature"
      /\ IF n = 0 THEN Throw("input")
         ELSE IF ft.points = 0 \/ s.points = 0 \/ s.size # 2 * n THEN Throw("tables")
         ELSE /\ ctx' = c
              /\ Result(n, s.points, n, 0)
              /\ UNCHANGED <<a, Ec, Fa, end>>

-----------------------------------------------------------------------------
(* The fractional transform *)

create_basis(n) == n   \* of n > 3 points; throws otherwise

init_transform(n, angle) == [n |-> n, a |-> angle]

(* A mutant of tUsrCmdRotate: the matrix is left for the next size change.  *)
tUsrCmdRotateLazy(angle) == [a |-> angle, Fa |-> Fa]

(* The angle and the matrix after the command is applied. *)
tUsrCmdRotate(angle) == [a |-> angle, Fa |-> IF angle = a THEN Fa ELSE Null]

dfrft(m, n) == IF m.n = n THEN 2 * n ELSE 0   \* 0: it throws

(* A message of n samples and, with cmd = USER, the command to turn to      *)
(* `angle' (which may be the present one: as if there was no command).      *)
DFrFTFilter(n, angle) ==
  LET turned == tUsrCmdRotate(angle)
      m      == IF turned.Fa = Null THEN init_transform(n, turned.a) ELSE turned.Fa
  IN  /\ filter = "DFrFT"
      /\ \/ /\ n = 0
            /\ a' = turned.a /\ Fa' = turned.Fa /\ out' = Nothing
            /\ UNCHANGED <<ctx, Ec, end>>
         \/ /\ n \in 1 .. 3 \ {Ec}
            /\ Throw("input")
         \/ /\ n > 3 /\ dfrft(m, n) = 0
            /\ Throw("tables")
         \/ /\ n > 3 /\ dfrft(m, n) > 0
            /\ a' = turned.a
            /\ Ec' = IF Ec = n THEN Ec ELSE create_basis(n)
            /\ Fa' = m
            /\ Result(dfrft(m, n), m.n, n, m.a)
            /\ UNCHANGED <<ctx, end>>

-----------------------------------------------------------------------------
(* PowerFilter *)

(* The vector is moved to the result before the loop asks for its size:     *)
(* the loop over real data visits nothing, whatever the mode.               *)
proc_r(size) == Result(size, 0, size, 0)

proc_c(size) == Result(size \div 2, size \div 2, size \div 2, 0)

PowerFilter(size) ==
  /\ filter \in {"Power real", "Power complex"}
  /\ IF filter = "Power complex" THEN proc_c(size) ELSE proc_r(size)
  /\ UNCHANGED <<ctx, a, Ec, Fa, end>>

-----------------------------------------------------------------------------
internal_filter(size, angle) ==
  \/ DFTFilter(size)
  \/ IDFTFilter(size)
  \/ FilterQuadrature(size)
  \/ DFrFTFilter(size, angle)
  \/ PowerFilter(size)

Next ==
  /\ end = "none"
  /\ UNCHANGED filter
  /\ \E size \in 0 .. MaxSize, angle \in Angles : internal_filter(size, angle)

Spec == Init /\ [][Next]_vars

-----------------------------------------------------------------------------
(* Correctness. *)

TypeOK ==
  /\ filter \in Filters /\ end \in {"none", "input", "tables"}
  /\ ctx \in [{"REAL", "COMPLEX"} -> 0 .. MaxSize]
  /\ a \in Angles /\ Ec \in 0 .. MaxSize /\ Fa \in [n : 0 .. MaxSize, a : Angles]
  /\ out \in [size : 0 .. 2 * MaxSize, done : 0 .. MaxSize, of : 0 .. MaxSize, angle : Angles]

(* The tables of the Fourier filters follow the size of the messages; they  *)
(* never stop the program.  A DFrFT is stopped by its own matrix alone, one *)
(* that no command has invalidated since the size changed.                  *)
StopsOnlyStale == end = "tables" => filter = "DFrFT" /\ Fa # Null

(* The matrix of the DFrFT, while there is one, is that of the present      *)
(* basis and of the angle last asked for, and so is the result.             *)
MatrixCurrent ==
  filter = "DFrFT" /\ end = "none" =>
    /\ Fa # Null => Fa = [n |-> Ec, a |-> a]
    /\ out # Nothing => out.of = Ec /\ out.angle = a

(* Every point of a message is transformed and the result has the size the  *)
(* next filter takes it for: two doubles per point of a complex signal, one *)
(* per point of a real one.  Only PowerFilter over real data is excepted.   *)
BuffersFit ==
  out # Nothing /\ filter # "Power real" =>
    /\ out.done = out.of
    /\ out.size = IF filter \in {"IDFT real", "Quadrature", "Power complex"} THEN out.of ELSE 2 * out.of

CachesCurrent == StopsOnlyStale /\ MatrixCurrent /\ BuffersFit

=============================================================================
