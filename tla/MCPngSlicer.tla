----------------------------- MODULE MCPngSlicer -----------------------------
(* PngSlicer for TLC: four images of 17, 28, 21 and 16 bytes, cut anywhere. *)
EXTENDS PngSlicer

MCBodies == <<1, 12, 5, 0>>

=============================================================================
