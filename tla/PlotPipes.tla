----------------------------- MODULE PlotPipes ------------------------------
(***************************************************************************)
(* PlotScope (src/graphics/plotscope.cpp) and the gnuplot process at the   *)
(* other end of its three pipes: the constructor, the destructor, the      *)
(* drawing thread that sends frames and the asio thread that reads images  *)
(* and messages.  Cutting the images out of what is read is PngSlicer.     *)
(*                                                                         *)
(* A pipe holds Room units, a command is one of them, an image is Image.   *)
(* Who writes to a full pipe waits.  gnuplot answers a frame with an image *)
(* or, when it does not accept the command, with a message; it reads its   *)
(* next command when that is written.                                      *)
(***************************************************************************)
EXTENDS Integers, Sequences

CONSTANTS Room,      \* units a pipe holds
          Image,     \* units of an image
          MaxFrames  \* bound: how many frames are drawn

(* What MCDemos assumes of the constants. *)
PlotPipesAssumption == Room \in Nat \ {0} /\ Image \in Nat \ {0} /\ MaxFrames \in Nat

VARIABLES pc,        \* where the thread of the program is in PlotScope() or ~PlotScope()
          drawer,    \* "idle", or "pushing" while it is in push_gp_in()
          frames,    \* history: how many frames were drawn
          stdin,     \* the commands in the pipe to gnuplot
          pipes,     \* the units in the pipes from gnuplot
          gnuplot,   \* [to, left]: what it still has to write, and where; to = "exited"
          io,        \* ios->run(): "unborn", "starting", "running" or "ended"
          armed,     \* the pipes for which a read is pending
          handler,   \* the handler that runs: [pipe, at], pipe = "none"
          stopped,
          fits       \* history: when `stopped' was set gnuplot owed no more than its pipes hold

vars == <<pc, drawer, frames, stdin, pipes, gnuplot, io, armed, handler, stopped, fits>>

Outputs == {"out", "err"}
Idle    == [to |-> "out", left |-> 0]
None    == [pipe |-> "none", at |-> "none"]

Init ==
  /\ pc = "thread" /\ drawer = "idle" /\ frames = 0
  /\ stdin = <<>> /\ pipes = [p \in Outputs |-> 0] /\ gnuplot = Idle
  /\ io = "unborn" /\ armed = {} /\ handler = None
  /\ stopped = FALSE /\ fits = TRUE

(* push_gp_in(): a write that waits for room. *)
push_gp_in(cmd) == Len(stdin) < Room /\ stdin' = Append(stdin, cmd)

(* read_some_wrapper() *)
read_some_wrapper(p) == armed' = IF stopped THEN armed ELSE armed \cup {p}

-----------------------------------------------------------------------------
(* PlotScope() from where it starts the asio thread *)

StartThread ==
  /\ pc = "thread" /\ pc' = "arm out" /\ io' = "starting"
  /\ UNCHANGED <<drawer, frames, stdin, pipes, gnuplot, armed, handler, stopped, fits>>

Arm ==
  /\ \/ pc = "arm out" /\ pc' = "arm err" /\ read_some_wrapper("out")
     \/ pc = "arm err" /\ pc' = "header" /\ read_some_wrapper("err")
  /\ UNCHANGED <<drawer, frames, stdin, pipes, gnuplot, io, handler, stopped, fits>>

Header ==
  /\ pc = "header" /\ pc' = "alive" /\ push_gp_in("set")
  /\ UNCHANGED <<drawer, frames, pipes, gnuplot, io, armed, handler, stopped, fits>>

(* draw_memory() of a frame of the device, which has one. *)
draw_memory ==
  /\ pc = "alive" /\ drawer = "idle" /\ frames < MaxFrames
  /\ frames' = frames + 1 /\ drawer' = "pushing"
  /\ UNCHANGED <<pc, stdin, pipes, gnuplot, io, armed, handler, stopped, fits>>

Push ==
  /\ drawer = "pushing" /\ push_gp_in("plot") /\ drawer' = "idle"
  /\ UNCHANGED <<pc, frames, pipes, gnuplot, io, armed, handler, stopped, fits>>

-----------------------------------------------------------------------------
(* ~PlotScope() *)

Plots == SelectSeq(stdin, LAMBDA cmd : cmd = "plot")

(* What will be in a pipe from gnuplot when it comes to the end of stdin,   *)
(* if it answers every frame there.                                         *)
Owed(p, answer) == pipes[p] + (IF gnuplot.to = p THEN gnuplot.left ELSE 0) + answer * Len(Plots)

(* The window is closed: no frame is drawn any more. *)
Close ==
  /\ pc = "alive" /\ pc' = "closing"
  /\ UNCHANGED <<drawer, frames, stdin, pipes, gnuplot, io, armed, handler, stopped, fits>>

(* Renderer::detach() has joined the drawing thread. *)
Stop ==
  /\ pc = "closing" /\ drawer = "idle" /\ pc' = "quit"
  /\ stopped' = TRUE /\ fits' = (Owed("out", Image) <= Room /\ Owed("err", 1) <= Room)
  /\ UNCHANGED <<drawer, frames, stdin, pipes, gnuplot, io, armed, handler>>

(* in.reset() *)
Quit ==
  /\ pc = "quit" /\ push_gp_in("quit") /\ pc' = "join gnuplot"
  /\ UNCHANGED <<drawer, frames, pipes, gnuplot, io, armed, handler, stopped, fits>>

(* gp.reset(): after three seconds it waits without a limit. *)
JoinGnuplot ==
  /\ pc = "join gnuplot" /\ gnuplot.to = "exited" /\ pc' = "join io"
  /\ UNCHANGED <<drawer, frames, stdin, pipes, gnuplot, io, armed, handler, stopped, fits>>

(* ioth.reset() *)
JoinIo ==
  /\ pc = "join io" /\ io = "ended" /\ pc' = "done"
  /\ UNCHANGED <<drawer, frames, stdin, pipes, gnuplot, io, armed, handler, stopped, fits>>

Program == StartThread \/ Arm \/ Header \/ Stop \/ Quit \/ JoinGnuplot \/ JoinIo

-----------------------------------------------------------------------------
(* The asio thread *)

(* run() returns when no read is pending - also before the first one is. *)
Run ==
  /\ io = "starting" \/ (io = "running" /\ handler = None /\ armed = {})
  /\ io' = IF armed = {} THEN "ended" ELSE "running"
  /\ UNCHANGED <<pc, drawer, frames, stdin, pipes, gnuplot, armed, handler, stopped, fits>>

(* A read ends with some of what there is, or with the end of the file. *)
Complete(p) ==
  /\ io = "running" /\ handler = None /\ p \in armed
  /\ \/ \E n \in 1 .. pipes[p] : pipes' = [pipes EXCEPT ![p] = @ - n] /\ handler' = [pipe |-> p, at |-> "data"]
     \/ pipes[p] = 0 /\ gnuplot.to = "exited" /\ handler' = [pipe |-> p, at |-> "error"] /\ UNCHANGED pipes
  /\ armed' = armed \ {p}
  /\ UNCHANGED <<pc, drawer, frames, stdin, gnuplot, io, stopped, fits>>

(* handle_read_stdout(), handle_read_stderr(): the test of `stopped'.  On an *)
(* error nothing is read any more.                                           *)
Handle ==
  /\ handler.at \in {"data", "error"}
  /\ handler' = IF stopped \/ handler.at = "error" THEN None ELSE [handler EXCEPT !.at = "taken"]
  /\ UNCHANGED <<pc, drawer, frames, stdin, pipes, gnuplot, io, armed, stopped, fits>>

ReadOn ==
  /\ handler.at = "taken" /\ read_some_wrapper(handler.pipe) /\ handler' = None
  /\ UNCHANGED <<pc, drawer, frames, stdin, pipes, gnuplot, io, stopped, fits>>

Asio == Run \/ (\E p \in Outputs : Complete(p)) \/ Handle \/ ReadOn

-----------------------------------------------------------------------------
(* gnuplot *)

TakeCommand ==
  /\ gnuplot = Idle /\ stdin # <<>> /\ stdin' = Tail(stdin)
  /\ gnuplot' \in CASE Head(stdin) = "set"  -> {Idle}
                    [] Head(stdin) = "quit" -> {[to |-> "exited", left |-> 0]}
                    [] Head(stdin) = "plot" -> {[to |-> "out", left |-> Image], [to |-> "err", left |-> 1]}
  /\ UNCHANGED <<pc, drawer, frames, pipes, io, armed, handler, stopped, fits>>

Write ==
  /\ gnuplot.left > 0 /\ pipes[gnuplot.to] < Room
  /\ pipes' = [pipes EXCEPT ![gnuplot.to] = @ + 1]
  /\ gnuplot' = IF gnuplot.left = 1 THEN Idle ELSE [gnuplot EXCEPT !.left = @ - 1]
  /\ UNCHANGED <<pc, drawer, frames, stdin, io, armed, handler, stopped, fits>>

Gnuplot == TakeCommand \/ Write

-----------------------------------------------------------------------------
Next == Program \/ Close \/ draw_memory \/ Push \/ Asio \/ Gnuplot

(* The threads and the process run; nobody has to draw or to close. *)
Fairness == WF_vars(Program) /\ WF_vars(Push) /\ WF_vars(Asio) /\ WF_vars(Gnuplot)

Spec == Init /\ [][Next]_vars /\ Fairness

-----------------------------------------------------------------------------
(* Correctness. *)

TypeOK ==
  /\ pc \in {"thread", "arm out", "arm err", "header", "alive", "closing", "quit", "join gnuplot", "join io", "done"}
  /\ drawer \in {"idle", "pushing"} /\ frames \in 0 .. MaxFrames
  /\ Len(stdin) <= Room /\ pipes \in [Outputs -> 0 .. Room]
  /\ gnuplot \in [to : Outputs \cup {"exited"}, left : 0 .. Image]
  /\ io \in {"unborn", "starting", "running", "ended"} /\ armed \subseteq Outputs
  /\ handler.pipe \in Outputs \cup {"none"} /\ stopped \in BOOLEAN /\ fits \in BOOLEAN

(* The asio thread has ended although reads are pending: nothing that       *)
(* gnuplot writes is ever read.                                             *)
Deaf == io = "ended" /\ armed # {}

(* The drawing thread, which waits for gnuplot to read, and gnuplot, which  *)
(* waits for its images to be read, wait for each other for ever in one     *)
(* case only: the asio thread was faster than the constructor, which does   *)
(* not wait for it, and has ended before there was anything to read.        *)
FramesTaken == drawer = "pushing" ~> (drawer = "idle" \/ Deaf)

(* ~PlotScope() comes to its end in all cases but one: nobody reads the     *)
(* images any more, so that gnuplot never reads "quit" when those it still  *)
(* owed did not fit into the pipe.                                          *)
ScopeDestroyed == pc = "quit" ~> (pc = "done" \/ ~fits)

(* The end of a scope leaves nothing behind: gnuplot has exited, no read is *)
(* pending and no handler runs when the pipes and buffers are destroyed.    *)
NothingPending == pc = "done" /\ ~Deaf => gnuplot.to = "exited" /\ armed = {} /\ handler = None

=============================================================================
