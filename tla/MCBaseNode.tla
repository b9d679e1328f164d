----------------------------- MODULE MCBaseNode -----------------------------
(* BaseNode for TLC: WAIT senders p1, p2 and the owner against an inbox of  *)
(* two places (Limit = 1), and a node that sends to itself with DROP.       *)
(* Senders + 1 = 4 = 2 * (Limit + 1): the tightest case in which no wake-up *)
(* can be lost.                                                             *)
EXTENDS BaseNode

CONSTANTS p1, p2

MCPol == [t \in {p1, p2, Main, Self} |-> IF t = Self THEN "DROP" ELSE "WAIT"]

MCMaxMsgs ==
  [t \in {p1, p2, Main, Self} |->
     CASE t = p1 -> 3 [] t = p2 -> 3 [] t = Main -> 1 [] t = Self -> 1]

=============================================================================
