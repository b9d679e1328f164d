----------------------------- MODULE MCRenderer -----------------------------
(* Renderer for TLC: one window, three frames, two changes of size. *)
EXTENDS Renderer

=============================================================================
