----------------------------- MODULE MCPipeline -----------------------------
(* Pipeline for TLC: split -> {filt, dev}, filt -> dev, the diamond that is *)
(* split and joined again in the tutorials, with inboxes of two places.     *)
(* The program's messages go straight to the splitter, one thread fewer     *)
(* than with a source in front of it.                                       *)
EXTENDS Pipeline

CONSTANTS split, filt, dev

MCTargets ==
  [n \in {split, filt, dev} |->
     CASE n = split -> <<filt, dev>> [] n = filt -> <<dev>> [] n = dev -> <<>>]

(* All WAIT, all DROP, and the two mixes of a lossy and a lossless sender. *)
MCPolicies ==
  {[n \in {split, filt, dev} |-> IF n \in W THEN "WAIT" ELSE "DROP"] :
     W \in {{}, {split, filt, dev}, {split}, {filt}}}

=============================================================================
