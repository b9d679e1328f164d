----------------------------- MODULE FrFTBasis ------------------------------
(***************************************************************************)
(* The matrices from which src/dsp/fractional_fourier/dfrft_gsl.cpp makes  *)
(* the basis of the discrete fractional Fourier transform, without their   *)
(* eigenvectors.                                                           *)
(*                                                                         *)
(* A matrix of n x n is a function on Idx(n) \X Idx(n).  The elements of   *)
(* even_odd_decomp() are 0, 1 and +-1/sqrt(2): an element stands for       *)
(* one + half / sqrt(2).  Of the cosines on the diagonal of first_order_HG *)
(* all that counts is that cos(2 Pi i/n) = cos(2 Pi (n-i)/n): the number   *)
(* for a cosine is the distance of i from 0 on the circle of n indexes.    *)
(***************************************************************************)
EXTENDS Integers

Idx(n) == 0 .. n - 1

Distance(n, i) == IF 2 * i <= n THEN i ELSE n - i

first_order_HG(n) ==
  [p \in Idx(n) \X Idx(n) |->
     IF p[1] = p[2] THEN -4 - Distance(n, p[1])
     ELSE IF p[1] - p[2] \in {1, -1, n - 1, 1 - n} THEN 1 ELSE 0]

(* The size of the unit and anti-unit blocks. *)
R(n) == IF n % 2 = 1 THEN (n - 1) \div 2 ELSE (n - 2) \div 2

even_odd_decomp(n) ==
  [p \in Idx(n) \X Idx(n) |->
     IF p = <<0, 0>> \/ (n % 2 = 0 /\ p = <<R(n) + 1, R(n) + 1>>)
       THEN [one |-> 1, half |-> 0]
     ELSE IF p[1] + p[2] = n THEN [one |-> 0, half |-> 1]
     ELSE IF p[1] = p[2] THEN [one |-> 0, half |-> IF p[1] >= n - R(n) THEN -1 ELSE 1]
     ELSE [one |-> 0, half |-> 0]]

(* A mutant of EvenSize: as for odd n, where N/2 is rounded down. *)
EvenSizeOdd(n) == (n + 1) \div 2

(* The sizes of the even and of the odd block. *)
EvenSize(n) == n \div 2 + 1
OddSize(n)  == (n - 1) \div 2

(* k_vec before it is sorted: the indexes of the Hermite-Gauss functions to *)
(* which the columns belong.                                                *)
KVec(n) == [k \in Idx(n) |-> IF k < EvenSize(n) THEN 2 * k ELSE 2 * (k - EvenSize(n)) + 1]

Mirror(n, i) == (n - i) % n

(* The sum of f over the indexes at which row i of P is not zero. *)
OverRow(n, i, f(_)) == IF Mirror(n, i) = i THEN f(i) ELSE f(i) + f(Mirror(n, i))

(* Element (i, j) of P A Transpose(P), the result of congruence_transform:  *)
(* the rational part, doubled, and the part with 1/sqrt(2).                 *)
Congruent(n, A, i, j) ==
  LET P == even_odd_decomp(n)
      rational(p, q)   == (2 * P[<<i, p>>].one * P[<<j, q>>].one + P[<<i, p>>].half * P[<<j, q>>].half) * A[<<p, q>>]
      irrational(p, q) == (P[<<i, p>>].one * P[<<j, q>>].half + P[<<i, p>>].half * P[<<j, q>>].one) * A[<<p, q>>]
      sum(f(_, _)) == OverRow(n, i, LAMBDA p : OverRow(n, j, LAMBDA q : f(p, q)))
  IN  [rational |-> sum(rational), irrational |-> sum(irrational)]

Nought == [rational |-> 0, irrational |-> 0]

Unit(n) == [p \in Idx(n) \X Idx(n) |-> IF p[1] = p[2] THEN 1 ELSE 0]

-----------------------------------------------------------------------------
(* Correctness. *)

(* The matrix of even_odd_decomp() is its own inverse; its first EvenSize   *)
(* rows are even in the column, the others odd.                             *)
DecompositionSplits(n) ==
  LET P == even_odd_decomp(n)
  IN  /\ \A i, j \in Idx(n) :
           /\ P[<<i, j>>] = P[<<j, i>>]
           /\ Congruent(n, Unit(n), i, j) = [Nought EXCEPT !.rational = IF i = j THEN 2 ELSE 0]
      /\ \A i \in Idx(n), j \in 1 .. n - 1 :
           P[<<i, n - j>>] = IF i < EvenSize(n) THEN P[<<i, j>>] ELSE [P[<<i, j>>] EXCEPT !.half = -@]

(* create_basis() sets the blocks that join the even and the odd part to    *)
(* zero as "numeric errors".  Nothing is lost: they are zero exactly.       *)
CleanupLosesNothing(n) ==
  /\ EvenSize(n) + OddSize(n) = n
  /\ \A i \in 0 .. EvenSize(n) - 1, j \in EvenSize(n) .. n - 1 :
       /\ Congruent(n, first_order_HG(n), i, j) = Nought
       /\ Congruent(n, first_order_HG(n), j, i) = Nought

(* The indexes of the functions: 0 .. n - 1, but n in place of n - 1 when n *)
(* is even, each once.                                                      *)
IndexesDistinct(n) ==
  /\ {KVec(n)[k] : k \in Idx(n)} = IF n % 2 = 0 THEN (0 .. n - 2) \cup {n} ELSE 0 .. n - 1
  /\ \A k, l \in Idx(n) : KVec(n)[k] = KVec(n)[l] => k = l

=============================================================================
