---------------------------- MODULE MCSequential ----------------------------
(* The classes that one thread drives, for TLC.  A behaviour is that of one *)
(* interpolation object, of one transform filter, of one join of messages,  *)
(* of one PlotScope that cuts images, or a walk through the lengths n for   *)
(* which index arithmetic is compared with its reference; the variables of  *)
(* the parts that do not run keep their initial values.                     *)
EXTENDS JoinMessages, PngStream, TLC

CONSTANTS s1, s2, s3,    \* the sources of the join, interchangeable
          Kinds, Xs, Ys, InterpolSize, Far, Angles, TransformSize,
          MaxN           \* bound: the longest spectrum of the index arithmetic

VARIABLES part, n,
          kind, x, y, T, interval, ws, given, strayed, outcome,
          filter, ctx, a, Ec, Fa, out, end,
          src_list, next, queues, msg_sets, arrived, joined, joins,
          asked, reading, first, last, head_found, curr_png, rubbish, sliced, rough

I  == INSTANCE Interpol WITH MaxSize <- InterpolSize
F  == INSTANCE Transforms WITH MaxSize <- TransformSize
U  == INSTANCE FtUtils
B  == INSTANCE FrFTBasis
(* These two with their theorems, which are about the same instances.       *)
J  == INSTANCE SyncJoinProofs WITH out <- joins
Png == INSTANCE PngSlicerProofs

ASSUME SequentialAssumption == I!InterpolAssumption /\ F!TransformsAssumption /\ MaxN \in Nat

interpolVars  == <<kind, x, y, T, interval, ws, given, strayed, outcome>>
transformVars == <<filter, ctx, a, Ec, Fa, out, end>>
joinVars      == <<src_list, next, queues, msg_sets, arrived, joined, joins>>
slicerVars    == <<asked, reading, first, last, head_found, curr_png, rubbish, sliced, rough>>

vars == <<part, n, interpolVars, transformVars, joinVars, slicerVars>>

Init ==
  /\ part \in {"interpol", "transforms", "indexes", "join", "slicer"}
  /\ n = 1 /\ I!Init /\ F!Init /\ J!Init /\ Png!Init
  /\ part # "interpol" => kind = "RR"
  /\ part # "transforms" => filter = "DFrFT"

Interpolate ==
  part = "interpol" /\ I!Next /\ UNCHANGED <<part, n, transformVars, joinVars, slicerVars>>
Transform ==
  part = "transforms" /\ F!Next /\ UNCHANGED <<part, n, interpolVars, joinVars, slicerVars>>
Longer ==
  part = "indexes" /\ n < MaxN /\ n' = n + 1
    /\ UNCHANGED <<part, interpolVars, transformVars, joinVars, slicerVars>>
Join ==
  part = "join" /\ J!Next /\ UNCHANGED <<part, n, interpolVars, transformVars, slicerVars>>
Slice ==
  part = "slicer" /\ Png!Next /\ UNCHANGED <<part, n, interpolVars, transformVars, joinVars>>

Next == Interpolate \/ Transform \/ Longer \/ Join \/ Slice

Spec == Init /\ [][Next]_vars

(* Bounds: four images of 17, 28, 21 and 16 bytes, cut anywhere.            *)
MCBodies == <<1, 12, 5, 0>>

MCSymmetry == Permutations(Srcs)

TypeOK == I!TypeOK /\ F!TypeOK /\ J!TypeOK /\ Png!TypeOK

(* The calls of an interpolation object keep what they promise each other,  *)
(* see Interpol.                                                            *)
InterpolContract == I!InterpolContract

(* The tables a filter keeps are those of its message, see Transforms.      *)
CachesCurrent == F!CachesCurrent

(* The index arithmetic of spectra and of the basis of the fractional       *)
(* transform agrees with its definitions, for every length up to MaxN.      *)
IndexMaps ==
  /\ U!ShiftsInvert(n) /\ U!FrequenciesAgree(n) /\ U!HilbertMirrors(n)
  /\ n > 3 => B!DecompositionSplits(n) /\ B!CleanupLosesNothing(n) /\ B!IndexesDistinct(n)

(* Of joining messages: the search for a uid ends, exactly the uids that    *)
(* have come from every source are joined, and nothing that can never be    *)
(* joined stays behind, see SyncJoin.                                       *)
SetsBacked   == J!SetsBacked
JoinsExactly == J!JoinsExactly
NothingStale == J!NothingStale

(* What is stored is one image, whole, and no image is missed but those a   *)
(* read cuts roughly, see PngSlicer.                                        *)
CurrIsImage    == Png!CurrIsImage
SmoothIsSliced == Png!SmoothIsSliced

=============================================================================
