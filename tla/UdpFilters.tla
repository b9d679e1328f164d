----------------------------- MODULE UdpFilters -----------------------------
(***************************************************************************)
(* The two filters of src/executables/demo/udp/main.cpp and the one of     *)
(* demo/redpitaya/main.cpp: how they cut a block of bytes into numbers.    *)
(* A block of the UDP demo is a sequence of samples [v, t] of six bytes    *)
(* and up to five bytes more; t is an unsigned counter that wraps at Wrap. *)
(***************************************************************************)
EXTENDS Integers, Sequences, SequencesExt

CONSTANTS Wrap,       \* 2^32
          MaxSamples  \* bound: the samples of a block

(* What MCDemos assumes of the constants. *)
UdpFiltersAssumption == Wrap \in Nat \ {0} /\ MaxSamples \in Nat

(* The blocks, of at least one sample: resize(len - 1) of none would ask    *)
(* for 2^64 - 1 elements.                                                   *)
Blocks == SeqOf([v : {0, 1}, t : 0 .. Wrap - 1], MaxSamples) \ {<<>>}

filter_proc_dt(block) ==
  [i \in 1 .. Len(block) - 1 |-> (block[i + 1].t - block[i].t) % Wrap]

filter_proc_adc(block) == [i \in 1 .. Len(block) |-> block[i].v]

(* Four bytes to a float: network byte order is undone, every bit is used.  *)
ieee754_1985_to_float(bytes) == Reverse(bytes)

(* bin_frame.size()/4 numbers; up to three bytes at the end are left.       *)
bin_float_proc(bytes) ==
  [i \in 1 .. Len(bytes) \div 4 |-> ieee754_1985_to_float(SubSeq(bytes, 4 * i - 3, 4 * i))]

-----------------------------------------------------------------------------
(* Correctness. *)

(* Whoever adds the differences up, from the first time stamp on and modulo *)
(* the width of the counter, has the time stamps of the block, also when    *)
(* the counter wraps in it; no difference is negative; and there is one     *)
(* less of them than there are values.                                      *)
StampsRestored(block) ==
  LET dt == filter_proc_dt(block)
  IN  /\ Len(filter_proc_adc(block)) = Len(dt) + 1
      /\ \A i \in 1 .. Len(dt) : dt[i] >= 0
      /\ \A stamps \in [1 .. Len(block) -> 0 .. Wrap - 1] :
           /\ stamps[1] = block[1].t
           /\ \A i \in 1 .. Len(dt) : stamps[i + 1] = (stamps[i] + dt[i]) % Wrap
           => \A i \in 1 .. Len(block) : stamps[i] = block[i].t

(* Each whole group of four bytes is one number, and none is used twice.    *)
BytesUsedOnce(n) ==
  LET floats == bin_float_proc([i \in 1 .. n |-> i])
  IN  /\ 4 * Len(floats) \in n - 3 .. n
      /\ \A i \in 1 .. Len(floats) : floats[i] = [j \in 1 .. 4 |-> 4 * i + 1 - j]

=============================================================================
