--------------------------- MODULE SerialParsers ---------------------------
(***************************************************************************)
(* Two filters that find messages in the blocks of bytes of a serial port: *)
(*   Receiver        src/executables/demo/arduino/host/main.cpp, frames    *)
(*                   BEGIN .. END written by ../board/main.cpp;            *)
(*   HWStateTracker  src/executables/demo/thermostat, lines Txxx\n.        *)
(*                                                                         *)
(* The host joins the stream anywhere, a block ends anywhere, and a block  *)
(* is lost when the inbox of the filter is full (QUEUE_POLICY::DROP).  A   *)
(* byte is <<its role, the number of its message>>; a delimiter has two    *)
(* bytes here, so that it can be cut, a frame one sample, a line one       *)
(* letter and two digits.                                                  *)
(***************************************************************************)
EXTENDS Integers, Sequences, FiniteSets

CONSTANTS Messages,   \* bound: the messages in the stream
          MaxBlock,   \* the longest block
          MaxQueue,   \* how long byte_queue may be: 1e6 bytes
          MaxLost     \* bound: how many blocks are lost

(* What MCDemos assumes of the constants. *)
SerialParsersAssumption ==
  Messages \in Nat \ {0} /\ MaxBlock \in Nat /\ MaxQueue \in Nat /\ MaxLost \in Nat

VARIABLES parser,     \* "Receiver" or "HWStateTracker"
          pos,        \* how much of the stream was sent
          buffer,     \* byte_queue or curr_line
          seen,       \* history: what the filter made of each message it recognised
          lost,       \* history: how many blocks were lost
          threw       \* internal_filter() threw: the program ended

vars == <<parser, pos, buffer, seen, lost, threw>>

(* loop() of the board, and a line of the thermostat's board. *)
loop == <<"B", "EGIN", "low", "high", "E", "ND">>
Line == <<"T", "ten", "one", "\n">>

Roles == IF parser = "Receiver" THEN loop ELSE Line

Stream ==
  [i \in 1 .. Messages * Len(Roles) |-> <<Roles[1 + ((i - 1) % Len(Roles))], 1 + ((i - 1) \div Len(Roles))>>]

Init ==
  /\ parser \in {"Receiver", "HWStateTracker"}
  /\ pos \in 0 .. Len(Roles) - 1
  /\ buffer = <<>> /\ seen = <<>> /\ lost = 0 /\ threw = FALSE

(* The least of some places, or 0. *)
First(places) == IF places = {} THEN 0 ELSE CHOOSE i \in places : \A j \in places : i <= j

(* search(): where two bytes of these roles follow each other, or 0. *)
search(bytes, r1, r2) ==
  First({i \in 1 .. Len(bytes) - 1 : bytes[i][1] = r1 /\ bytes[i + 1][1] = r2})

From(bytes, i) == SubSeq(bytes, i, Len(bytes))

-----------------------------------------------------------------------------
(* Receiver::internal_filter(): one frame at most is taken from a block,    *)
(* which may hold more, and the length of the queue is looked at only when  *)
(* both delimiters are there.                                               *)
Receiver(block) ==
  LET byte_queue == buffer \o block
      head  == search(byte_queue, "B", "EGIN")
      foot  == search(byte_queue, "E", "ND")
      data  == SubSeq(byte_queue, head + 2, foot - 1)
      found == head > 0 /\ foot > 0
      long  == Len(byte_queue) > MaxQueue
      odd   == foot >= head + 2 /\ Len(data) % 2 = 1
  IN  /\ parser = "Receiver"
      /\ CASE ~found -> buffer' = byte_queue /\ UNCHANGED <<seen, threw>>
           [] found /\ (long \/ odd) -> buffer' = byte_queue /\ threw' = TRUE /\ UNCHANGED seen
           [] found /\ ~long /\ foot < head + 2 ->
                buffer' = From(byte_queue, foot + 2) /\ UNCHANGED <<seen, threw>>
           [] found /\ ~long /\ foot = head + 2 -> buffer' = byte_queue /\ UNCHANGED <<seen, threw>>
           [] OTHER -> /\ buffer' = From(byte_queue, foot + 2)
                       /\ seen' = Append(seen, data)
                       /\ UNCHANGED threw

-----------------------------------------------------------------------------
(* HWStateTracker *)

(* A mutant of Rest: curr_line is not cleared. *)
RestGlued(line, part, end) == line \o From(part, end + 1)

(* curr_line after a line was taken: all that follows the first newline,    *)
(* with the newlines in it.                                                 *)
Rest(line, part, end) == From(part, end + 1)

(* ss >> adc: the digits after the letter. *)
Number(line) ==
  LET other == First({i \in 2 .. Len(line) : line[i][1] \notin {"ten", "one"}})
  IN  SubSeq(line, 2, IF other = 0 THEN Len(line) ELSE other - 1)

(* process_raw() and internal_filter() *)
HWStateTracker(block) ==
  LET end  == First({i \in 1 .. Len(block) : block[i][1] = "\n"})
      line == buffer \o SubSeq(block, 1, end - 1)
  IN  /\ parser = "HWStateTracker"
      /\ IF end = 0
           THEN buffer' = buffer \o block /\ UNCHANGED seen
           ELSE /\ buffer' = Rest(line, block, end)
                /\ seen' = IF line # <<>> /\ line[1][1] = "T" THEN Append(seen, Number(line)) ELSE seen
      /\ UNCHANGED threw

-----------------------------------------------------------------------------
Blocks == {n \in 1 .. MaxBlock : pos + n <= Len(Stream)}

Arrive(n) ==
  LET block == SubSeq(Stream, pos + 1, pos + n)
  IN  /\ Receiver(block) \/ HWStateTracker(block)
      /\ pos' = pos + n
      /\ UNCHANGED <<parser, lost>>

Lose(n) ==
  /\ lost < MaxLost
  /\ pos' = pos + n /\ lost' = lost + 1
  /\ UNCHANGED <<parser, buffer, seen, threw>>

Next == ~threw /\ \E n \in Blocks : Arrive(n) \/ Lose(n)

Spec == Init /\ [][Next]_vars

-----------------------------------------------------------------------------
(* Correctness. *)

TypeOK ==
  /\ parser \in {"Receiver", "HWStateTracker"} /\ pos \in 0 .. Len(Stream)
  /\ Len(buffer) <= Len(Stream) /\ Len(seen) <= Messages
  /\ lost \in 0 .. MaxLost /\ threw \in BOOLEAN

Whole(bytes) == \E k \in 1 .. Messages :
  bytes = IF parser = "Receiver" THEN <<<<"low", k>>, <<"high", k>>>> ELSE <<<<"ten", k>>, <<"one", k>>>>

(* However the stream is cut and wherever the host joins it, what the       *)
(* filters make of it are whole messages in the order they were sent.  A    *)
(* lost block spoils one message at most, and the Receiver throws after a   *)
(* lost block only, or when more frames arrived than it took, one per       *)
(* block, so that its queue is too long.                                    *)
MessagesInOrder ==
  /\ \A i, j \in 1 .. Len(seen) :
       i < j /\ Whole(seen[i]) /\ Whole(seen[j]) => seen[i][1][2] < seen[j][1][2]
  /\ Cardinality({i \in 1 .. Len(seen) : ~Whole(seen[i])}) <= lost
  /\ threw => lost > 0 \/ Len(buffer) > MaxQueue

(* While no block is lost the Receiver misses no frame that began after it  *)
(* joined: what it has not recognised is still in its queue, also when the  *)
(* queue is too long.  (The tracker may miss lines: all but the first of    *)
(* those that end within one block.)                                        *)
FramesKept ==
  parser = "Receiver" /\ lost = 0 =>
    \A k \in 2 .. Messages :
      (\E i \in 1 .. pos : Stream[i] = <<"low", k>>) =>
        \/ \E i \in 1 .. Len(seen) : seen[i][1][2] = k
        \/ \E i \in 1 .. Len(buffer) : buffer[i] = <<"low", k>>

(* "1 Mb of data received without delimiters, check the board code",        *)
(* host/main.cpp:56: when the Receiver throws because its queue is too long *)
(* there is no pair of delimiters in it.                                    *)
LongWithoutDelimiters ==
  threw /\ Len(buffer) > MaxQueue => search(buffer, "B", "EGIN") = 0 \/ search(buffer, "E", "ND") = 0

=============================================================================
