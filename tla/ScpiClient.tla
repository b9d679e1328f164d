----------------------------- MODULE ScpiClient -----------------------------
(***************************************************************************)
(* SCPIClient::main_loop(), src/executables/demo/redpitaya/scpi_cli.hpp:   *)
(* the acquisition loop, the server at the other end of the connection and *)
(* the external trigger the server waits for.  The server is modelled from *)
(* how the client uses it: it answers requests in order.                   *)
(***************************************************************************)
EXTENDS Integers, Sequences

CONSTANT Room         \* places of the client's inbox: 11

(* What MCDemos assumes of the constant. *)
ScpiClientAssumption == Room \in Nat

VARIABLES pc,         \* where the loop is
          inbox,      \* commands for the client
          stop,       \* the local flag
          requests_pending,
          line,       \* the last answer that was read as a line
          requests,   \* what the server has not answered yet
          replies,    \* what the client has not read yet
          trigger,    \* the server's: "off", "armed" or "TD"
          link,       \* "up", or "down" for good
          asked       \* history: STOP is in the inbox or was read

vars == <<pc, inbox, stop, requests_pending, line, requests, replies, trigger, link, asked>>

Init ==
  /\ pc = "top" /\ inbox = <<>> /\ stop = FALSE /\ requests_pending = 0 /\ line = "8192"
  /\ requests = <<>> /\ replies = <<>> /\ trigger = "off"
  /\ link \in {"up", "down"}    \* connect() may fail, which is not looked at
  /\ asked = FALSE

(* Writing to a connection that is down does nothing. *)
Send(cmds) == requests' = IF link = "up" THEN requests \o cmds ELSE requests

(* Another node puts a command. *)
put(cmd) ==
  /\ Len(inbox) < Room /\ ~asked
  /\ inbox' = Append(inbox, cmd) /\ asked' = (cmd = "STOP")
  /\ UNCHANGED <<pc, stop, requests_pending, line, requests, replies, trigger, link>>

(* The loop is left at its top only (requests_pending is 0 there: the       *)
(* request queue of "old code" has a length of one).                        *)
Leaves(stopped) == stopped /\ requests_pending = 0

(* The top of a turn: one command is pulled, if there is one; then the      *)
(* server is told to start and to wait for the trigger.                     *)
Turn ==
  LET stopped == stop \/ (inbox # <<>> /\ Head(inbox) = "STOP")
  IN  /\ pc = "top"
      /\ inbox' = IF inbox = <<>> THEN inbox ELSE Tail(inbox)
      /\ stop' = stopped
      /\ IF Leaves(stopped) THEN pc' = "closed" /\ UNCHANGED requests
         ELSE IF stopped THEN pc' = "read" /\ UNCHANGED requests
         ELSE pc' = "poll" /\ Send(<<"START", "STAT">>)
      /\ UNCHANGED <<requests_pending, line, replies, trigger, link, asked>>

(* A mutant of Again: the state of the trigger is asked for once. *)
AgainNot == <<>>

Again == <<"STAT">>

(* ACQ:TRIG:STAT? is repeated until the line is TD.  Of a connection that   *)
(* is down nothing is read and the line stays what it was: the loop goes on *)
(* for ever, or is left at once for the TD of the last acquisition.         *)
Poll ==
  /\ pc = "poll"
  /\ replies # <<>> \/ link = "down"
  /\ line' = IF replies = <<>> THEN line ELSE Head(replies)
  /\ replies' = IF replies = <<>> THEN replies ELSE Tail(replies)
  /\ IF line' = "TD"
       THEN pc' = "read" /\ requests_pending' = requests_pending + 1 /\ Send(<<"DATA">>)
       ELSE UNCHANGED <<pc, requests_pending>> /\ Send(Again)
  /\ UNCHANGED <<inbox, stop, trigger, link, asked>>

(* All up to a '#' is skipped; the length, the points, and put(.., DROP).   *)
(* It is waited for a '#' for ever when the connection is down.             *)
Read ==
  /\ pc = "read"
  /\ \E i \in 1 .. Len(replies) :
       /\ replies[i] = "block" /\ \A j \in 1 .. i - 1 : replies[j] # "block"
       /\ replies' = SubSeq(replies, i + 1, Len(replies))
  /\ requests_pending' = requests_pending - 1
  /\ pc' = "top"
  /\ UNCHANGED <<inbox, stop, line, requests, trigger, link, asked>>

(* The server. *)
Serve ==
  /\ link = "up" /\ pc # "closed" /\ requests # <<>>
  /\ requests' = Tail(requests)
  /\ LET cmd == Head(requests)
     IN  /\ replies' = IF cmd = "START" THEN replies
                       ELSE Append(replies, IF cmd = "DATA" THEN "block"
                                            ELSE IF trigger = "TD" THEN "TD" ELSE "WAIT")
         /\ trigger' = IF cmd = "START" THEN "armed" ELSE trigger
  /\ UNCHANGED <<pc, inbox, stop, requests_pending, line, link, asked>>

Trigger ==
  /\ link = "up" /\ trigger = "armed" /\ trigger' = "TD"
  /\ UNCHANGED <<pc, inbox, stop, requests_pending, line, requests, replies, link, asked>>

Break ==
  /\ link = "up" /\ link' = "down"
  /\ UNCHANGED <<pc, inbox, stop, requests_pending, line, requests, replies, trigger, asked>>

Loop == Turn \/ Poll \/ Read

Next == (\E cmd \in {"STOP", "other"} : put(cmd)) \/ Loop \/ Serve \/ Trigger \/ Break

(* The thread of the client runs and the server answers.  Nobody owes the   *)
(* client a trigger, or a connection that holds.                            *)
Fairness == WF_vars(Loop) /\ WF_vars(Serve)

Spec == Init /\ [][Next]_vars /\ Fairness

-----------------------------------------------------------------------------
(* Correctness. *)

TypeOK ==
  /\ pc \in {"top", "poll", "read", "closed"} /\ inbox \in Seq({"STOP", "other"}) /\ Len(inbox) <= Room
  /\ stop \in BOOLEAN /\ requests_pending \in 0 .. 1 /\ line \in {"8192", "WAIT", "TD"} /\ trigger \in {"off", "armed", "TD"}
  /\ link \in {"up", "down"} /\ asked \in BOOLEAN

(* A client that is asked to stop does so although it reads one command per *)
(* acquisition.  It looks at no command while it waits for the trigger: if  *)
(* the trigger does not come, or the connection breaks, it may never stop.  *)
StopReturns ==
  []<>(trigger # "armed") => (asked ~> (pc = "closed" \/ link = "down"))

(* The client and the server do not get out of step: what the client reads  *)
(* is the answer to what it asked, and the connection is not closed with a  *)
(* block under way.                                                         *)
InStep ==
  /\ pc = "read" => requests_pending = 1 /\ \A i \in 1 .. Len(replies) : replies[i] = "block"
  /\ pc = "poll" => \A i \in 1 .. Len(replies) : replies[i] # "block"
  /\ pc = "closed" => requests_pending = 0 /\ requests = <<>> /\ replies = <<>>

=============================================================================
