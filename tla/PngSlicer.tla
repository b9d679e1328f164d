----------------------------- MODULE PngSlicer ------------------------------
(***************************************************************************)
(* PlotScope (src/graphics/plotscope.cpp): gnuplot draws frames and writes *)
(* PNG images to its standard output, one after the other;                 *)
(* handle_read_stdout() gets this stream in reads of any length and cuts   *)
(* the images out of it.                                                   *)
(*                                                                         *)
(* part_png is always a contiguous part of the stream: reads extend it at  *)
(* the end, erase() shortens it at the front.  It is the interval          *)
(* [first, last) here and its bytes are known by their places in the       *)
(* stream: image k starts with PNG_HEAD at HeadAt[k] and ends 8 bytes      *)
(* after FootAt(k), where its PNG_FOOT, "IEND", starts; nowhere else are   *)
(* there bytes that look like either.                                      *)
(***************************************************************************)
EXTENDS PngStream, FiniteSetsExt

VARIABLES
  asked,      \* how many frames have been sent to gnuplot
  reading,    \* TRUE while a read of gnuplot's output is pending
  first,      \* part_png holds the bytes first .. last - 1 of the stream
  last,
  head_found,
  curr_png,   \* the place in the stream of the image at the front of curr_png
  rubbish,    \* history: TRUE once bytes were erased as rubbish
  sliced,     \* history: what has been stored in curr_png
  rough       \* history: the images that reads have cut roughly

vars == <<asked, reading, first, last, head_found, curr_png, rubbish, sliced, rough>>

Nothing == [from |-> 0, to |-> 0]

Init ==
  /\ asked = 0 /\ reading = TRUE
  /\ first = 0 /\ last = 0
  /\ head_found = FALSE
  /\ curr_png = Nothing
  /\ rubbish = FALSE
  /\ sliced = {} /\ rough = {}

-----------------------------------------------------------------------------
(* draw_memory(): sends the newest frame to gnuplot. *)
Ask ==
  /\ asked < Len(Bodies)
  /\ asked' = asked + 1
  /\ UNCHANGED <<reading, first, last, head_found, curr_png, rubbish, sliced, rough>>

(* A read fails, or the destructor has set `stopped`: no further read.  *)
ReadEnds ==
  /\ reading
  /\ reading' = FALSE
  /\ UNCHANGED <<asked, first, last, head_found, curr_png, rubbish, sliced, rough>>

(* A mutant of SearchFrom: only the bytes the read has brought are searched. *)
SearchFromLast == last

(* Where the searches begin: some bytes before those the read has brought. *)
SearchFrom == last - (IF last - first > 8 THEN 7 ELSE last - first)

HeadsIn(from, to) == {HeadAt[k] : k \in {j \in Images : HeadAt[j] >= from /\ HeadAt[j] + HeadSize <= to}}
FeetIn(from, to)  == {FootAt(k) : k \in {j \in Images : FootAt(j) >= from /\ FootAt(j) + FootSize <= to}}

(* Without a head in part_png: search one and erase what precedes it. *)
FindHead(end) ==
  LET heads == HeadsIn(SearchFrom, end)
  IN  /\ head_found' = (heads # {})
      /\ first' = IF heads = {} THEN first ELSE Min(heads)
      /\ rubbish' = (rubbish \/ first' # first)
      /\ UNCHANGED <<curr_png, sliced>>

(* A mutant of LastHead: the loop over duplicates of the head is left out. *)
LastHeadFirst(foot) == first

(* The last head before the foot; what precedes it is erased. *)
LastHead(foot) == Max({first} \cup {h \in HeadsIn(first + 1, foot) : h < foot})

SliceAt(foot) ==
  /\ curr_png' = [from |-> LastHead(foot), to |-> foot + TailSize]
  /\ first' = foot + TailSize
  /\ rubbish' = (rubbish \/ LastHead(foot) # first)
  /\ head_found' = FALSE

(* A mutant of FindFoot: does not wait for the CRC. *)
FindFootOnly(end) ==
  LET feet == FeetIn(SearchFrom, end)
  IN  IF feet # {}
        THEN SliceAt(Min(feet)) /\ sliced' = sliced \cup {curr_png'}
        ELSE UNCHANGED <<first, head_found, curr_png, rubbish, sliced>>

(* With a head at the front of part_png: search the first foot; the image   *)
(* is complete once the CRC is there, too.                                  *)
FindFoot(end) ==
  LET feet == FeetIn(SearchFrom, end)
  IN  IF feet # {} /\ end - Min(feet) >= 8
        THEN SliceAt(Min(feet)) /\ sliced' = sliced \cup {curr_png'}
        ELSE UNCHANGED <<first, head_found, curr_png, rubbish, sliced>>

(* What a read may do to an image: bring the end of its head together with  *)
(* bytes from before it, or together with the image's own end.              *)
CutsRoughly(k, end) ==
  /\ last < HeadAt[k] + HeadSize
  /\ \/ last < HeadAt[k] /\ end >= HeadAt[k] + HeadSize
     \/ end >= EndAt(k)

(* A read brings the bytes up to `end` of what gnuplot has written. *)
Read(end) ==
  /\ reading
  /\ IF head_found THEN FindFoot(end) ELSE FindHead(end)
  /\ last' = end
  /\ rough' = rough \cup {k \in Images : CutsRoughly(k, end)}
  /\ UNCHANGED <<asked, reading>>

Next ==
  \/ Ask
  \/ ReadEnds
  \/ asked > 0 /\ \E end \in last + 1 .. EndAt(asked) : Read(end)

Spec == Init /\ [][Next]_vars

-----------------------------------------------------------------------------
(* Correctness. *)

(* The type invariant. *)
Places == 0 .. (IF Images = {} THEN 0 ELSE EndAt(Len(Bodies)))

TypeOK ==
  /\ asked \in 0 .. Len(Bodies) /\ reading \in BOOLEAN
  /\ first \in Places /\ last \in Places /\ first <= last
  /\ head_found \in BOOLEAN /\ rubbish \in BOOLEAN
  /\ curr_png \in [from : Places, to : Places]
  /\ sliced \subseteq [from : Places, to : Places]
  /\ rough \subseteq Images

Image(k) == [from |-> HeadAt[k], to |-> EndAt(k)]

(* "If not empty - contain a complete PNG image" (plotscope.h:85): however  *)
(* the stream is cut into reads and whatever was missed before, what is     *)
(* stored at its front is one image of gnuplot, whole                       *)
(* (plotscope.cpp:158-197).                                                 *)
CurrIsImage == curr_png = Nothing \/ \E k \in Images : curr_png = Image(k)

(* Every image is found that reads do not cut roughly, whatever they did to *)
(* those before it: after lost images the slicer finds into step again      *)
(* (plotscope.cpp:142-197).                                                 *)
SmoothIsSliced ==
  \A k \in Images : EndAt(k) <= last => Image(k) \in sliced \/ k \in rough

(* "ERASED RUBUSH (shell never happen)", plotscope.cpp:153, 169: all that   *)
(* gnuplot writes belongs to an image, so nothing is erased.                *)
NoRubbish == ~rubbish

=============================================================================
