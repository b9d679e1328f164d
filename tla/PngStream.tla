----------------------------- MODULE PngStream ------------------------------
(* What gnuplot writes to its standard output for a PlotScope: one PNG      *)
(* image after the other (src/graphics/plotscope.cpp, plotscope.h).         *)
EXTENDS Integers, Sequences

CONSTANT
  Bodies (* how many bytes each image has between its PNG_HEAD and its PNG_FOOT *)

ASSUME PngStreamAssumption == Bodies \in Seq(Nat)

HeadSize == 8 \* PNG_HEAD
FootSize == 4 \* PNG_FOOT
TailSize == 8 \* PNG_FOOT and the CRC

Images == 1 .. Len(Bodies)

HeadAt[k \in 1 .. Len(Bodies) + 1] ==
  IF k = 1 THEN 0 ELSE HeadAt[k - 1] + HeadSize + Bodies[k - 1] + TailSize
FootAt(k) == HeadAt[k] + HeadSize + Bodies[k]
EndAt(k)  == FootAt(k) + TailSize

=============================================================================
