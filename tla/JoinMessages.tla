---------------------------- MODULE JoinMessages ----------------------------
(* The messages that a BaseSyncJoin may be sent (src/core/base_sync_join.hpp). *)
EXTENDS Integers, Sequences, FiniteSets

CONSTANTS
  Srcs,       (* the nodes that send to this one                              *)
  Uids,       (* message uids; a source numbers its messages in their order   *)
  MaxArrivals (* bound of the model: how many messages each source sends      *)

ASSUME JoinMessagesAssumption ==
  IsFiniteSet(Srcs) /\ Uids \subseteq Nat /\ MaxArrivals \in Nat

=============================================================================
