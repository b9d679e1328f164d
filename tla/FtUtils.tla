------------------------------ MODULE FtUtils -------------------------------
(***************************************************************************)
(* Index arithmetic of spectra (src/dsp/fourier/ft_utils.cpp) and of the   *)
(* Hilbert transform in src/dsp/quadrature_filter.hpp.                     *)
(*                                                                         *)
(* A packed vector of n complex samples is a function on 0 .. n - 1, one   *)
(* element for the two doubles.  Frequencies are counted in units of       *)
(* 2 Pi / T.  n is at least 1: for n = 0 the second loop of dft_freq_map   *)
(* counts an unsigned number down past 0 and never ends.                   *)
(***************************************************************************)
EXTENDS Integers

Types == {"DFT_STANDARD", "FT_STANDARD"}

Samples(n) == 0 .. n - 1

(* std::rotate(): the element at pos becomes the first one. *)
Rotate(data, n, pos) == [i \in Samples(n) |-> data[(i + pos) % n]]

(* A mutant of NegativeIdx: the middle of an odd spectrum is rounded down. *)
NegativeIdxDown(n) == n \div 2

(* The place of the maximum negative frequency in DFT order. *)
NegativeIdx(n) == IF n % 2 = 0 THEN n \div 2 ELSE (n + 1) \div 2

(* The place of frequency zero. *)
get_w0_idx(n, type) ==
  IF type = "DFT_STANDARD" THEN 0
  ELSE IF n % 2 = 0 THEN n \div 2 ELSE (n - 1) \div 2

(* From DFT order to FT order and back. *)
shift_dft_right(data, n) == Rotate(data, n, NegativeIdx(n))
shift_dft_left(data, n)  == Rotate(data, n, get_w0_idx(n, "FT_STANDARD"))

(* The frequency of each element. *)
dft_freq_map(n, type) ==
  IF type = "DFT_STANDARD"
    THEN [i \in Samples(n) |-> IF i < NegativeIdx(n) THEN i ELSE i - (n - 1) - 1]
    ELSE [i \in Samples(n) |-> i - get_w0_idx(n, "FT_STANDARD")]

(* The sign of the imaginary unit that FilterQuadrature multiplies element  *)
(* i of a spectrum in DFT order with.                                       *)
HilbertSign(n, i) == IF i < n \div 2 THEN 1 ELSE -1

-----------------------------------------------------------------------------
(* Correctness. *)

(* The two shifts undo each other, whatever the parity of the length.       *)
ShiftsInvert(n) ==
  \A data \in {dft_freq_map(n, type) : type \in Types} :
    /\ shift_dft_left(shift_dft_right(data, n), n) = data
    /\ shift_dft_right(shift_dft_left(data, n), n) = data

(* Shifting a spectrum and asking for the frequencies of the other standard *)
(* go together: an element keeps its frequency, and the frequency zero is   *)
(* where get_w0_idx says.                                                   *)
FrequenciesAgree(n) ==
  /\ shift_dft_right(dft_freq_map(n, "DFT_STANDARD"), n) = dft_freq_map(n, "FT_STANDARD")
  /\ \A type \in Types : dft_freq_map(n, type)[get_w0_idx(n, type)] = 0

(* A spectrum of a real signal stays one when each element and its mirror   *)
(* image are multiplied by opposite signs.  This is so for all elements but *)
(* the middle one of an even and the middle two of an odd spectrum.         *)
HilbertMirrors(n) ==
  \A i \in 1 .. n - 1 :
    HilbertSign(n, i) = -HilbertSign(n, n - i) <=> i \notin {n \div 2, (n + 1) \div 2}

=============================================================================
