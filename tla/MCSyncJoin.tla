----------------------------- MODULE MCSyncJoin -----------------------------
(* SyncJoin for TLC: sources that send any two of three uids in any order,  *)
(* registered before, between or after the first messages.  The sources are *)
(* interchangeable.                                                         *)
EXTENDS SyncJoin, TLC

CONSTANTS s1, s2, s3

MCSymmetry == Permutations(Srcs)

=============================================================================
