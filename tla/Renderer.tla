------------------------------ MODULE Renderer ------------------------------
(***************************************************************************)
(* A window with an oscilloscope in it: Window (src/graphics/window.hpp),  *)
(* Bitmap2DRenderer (renderer.hpp), SimpleScope::draw_memory() and the     *)
(* device node it takes its frames from (genoscdevice.hpp).                *)
(*                                                                         *)
(* Three threads.  The window's thread runs the message loop and render(); *)
(* the drawer, mem_update_proc(), paints frames on mem_bmp; the program    *)
(* creates the window and destroys it.  The first two hand mem_bmp over    *)
(* through the atomic flag update_req alone, there is no mutex; detach()   *)
(* ends the drawer through the flag `terminate` and destroys the bitmaps.  *)
(*                                                                         *)
(* A picture is told apart by the number of the frame it shows, 0 for the  *)
(* bare grid.  A step is one access to what the threads share.             *)
(*                                                                         *)
(* The program leaves its loop when this window has closed or, if it has   *)
(* two (tutorial/07_chirp.cpp:74, demo/thermostat/pid.cpp:62, demo/udp/    *)
(* main.cpp:93, demo/redpitaya/main.cpp:71), when the other has: then it   *)
(* destroys a window whose thread still renders.  What C++ leaves          *)
(* undefined, the use of a bitmap that was destroyed and two threads that  *)
(* join a third, ends the program here.                                    *)
(***************************************************************************)
EXTENDS Integers

CONSTANTS
  MaxFrames,   (* bound of the model: how many frames the device receives    *)
  MaxResizes   (* bound of the model: how often the display changes its size *)

ASSUME RendererAssumption == MaxFrames \in Nat /\ MaxResizes \in Nat

VARIABLES
  program,     \* where the program stands: its loop, ~Window() and detach() there
  window,      \* where the window's thread stands
  reattach,    \* TRUE while the window's thread detaches in order to attach again
  drawer,      \* the drawing thread; "ended" is not joined yet
  frame,       \* the frame the drawer has got from the device
  last_msg,    \* the newest frame in the device, 0 before the first
  update_req,  \* TRUE: the drawer may use mem_bmp, FALSE: render() may
  terminate,   \* the renderer's flag that ends the drawer
  closing,     \* Window::terminate
  is_running,  \* Window::running
  mem_bmp,     \* the bitmaps: NoBitmap or the number of the frame on it
  video_bmp,
  resized,     \* the size of the display differs from what attach() has stored
  resizes,
  shown,       \* the frame on the display
  early,       \* history: the program left its loop while this window was running
  crashed      \* something undefined has happened

vars == <<program, window, reattach, drawer, frame, last_msg, update_req, terminate,
          closing, is_running, mem_bmp, video_bmp, resized, resizes, shown, early, crashed>>

deviceVars == <<last_msg, resized, resizes>>
windowVars == <<window, reattach, shown>>
drawerVars == <<drawer, frame>>
bitmapVars == <<mem_bmp, video_bmp>>

NoBitmap == -1
Bitmaps == {NoBitmap} \cup 0 .. MaxFrames

Detaching == {"terminate", "join", "drop"}
ProgramStates == {"new", "looping", "closing", "joining", "closed"} \cup Detaching
WindowStates ==
  {"unborn", "attach", "spawn", "loop", "render", "again", "copying", "exit", "dead"} \cup Detaching
DrawerStates == {"none", "top", "work", "drawing", "drawn", "ended", "joined"}

(* std::thread::joinable(): a thread was started and not joined yet. *)
Joinable == drawer \notin {"none", "joined"}

Init ==
  /\ program = "new"
  /\ window = "unborn" /\ reattach = FALSE
  /\ drawer = "none" /\ frame = 0
  /\ last_msg = 0
  /\ update_req = FALSE /\ terminate = TRUE
  /\ closing = FALSE /\ is_running = FALSE
  /\ mem_bmp = NoBitmap /\ video_bmp = NoBitmap
  /\ resized = FALSE /\ resizes = 0
  /\ shown = 0 /\ early = FALSE /\ crashed = FALSE

-----------------------------------------------------------------------------
(* detach(), called by the window's thread and by the program. *)

(* A mutant of SetTerminate: the drawer is not told to end. *)
TellNobody == UNCHANGED <<terminate, drawer, mem_bmp, video_bmp>>

SetTerminate == terminate' = TRUE /\ UNCHANGED <<drawer, mem_bmp, video_bmp>>

JoinDrawer ==
  /\ Joinable => drawer = "ended"
  /\ drawer' = IF Joinable THEN "joined" ELSE drawer
  /\ UNCHANGED <<terminate, mem_bmp, video_bmp>>

DropBitmaps ==
  /\ mem_bmp' = NoBitmap /\ video_bmp' = NoBitmap
  /\ UNCHANGED <<terminate, drawer>>

(* One step of detach() and the place in it that follows, `done` after the last. *)
Detach(at, next, done) ==
  \/ at = "terminate" /\ next = "join" /\ SetTerminate
  \/ at = "join" /\ next = "drop" /\ JoinDrawer
  \/ at = "drop" /\ next = done /\ DropBitmaps

-----------------------------------------------------------------------------
(* The window's thread: run(), initialize(), start_msg_queue(), cleanup(). *)

(* attach(): stores the size of the display and creates both bitmaps. *)
Attach ==
  /\ window = "attach"
  /\ window' = "spawn"
  /\ resized' = FALSE
  /\ mem_bmp' = 0 /\ video_bmp' = 0
  /\ UNCHANGED <<program, reattach, drawerVars, last_msg, update_req, terminate, closing,
                 is_running, resizes, shown>>

(* A mutant of Spawn: `terminate` is not taken back. *)
SpawnTerminated ==
  /\ window = "spawn"
  /\ window' = IF reattach THEN "render" ELSE "loop"
  /\ drawer' = IF Joinable THEN drawer ELSE "top"
  /\ UNCHANGED <<program, reattach, frame, deviceVars, update_req, terminate, closing,
                 is_running, bitmapVars, shown>>

(* attach() goes on: it starts the drawer unless one is joinable. *)
Spawn ==
  /\ window = "spawn"
  /\ window' = IF reattach THEN "render" ELSE "loop"
  /\ terminate' = FALSE
  /\ drawer' = IF Joinable THEN drawer ELSE "top"
  /\ UNCHANGED <<program, reattach, frame, deviceVars, update_req, closing, is_running,
                 bitmapVars, shown>>

(* The head of the message loop: ends when Window::terminate is set or the  *)
(* user has closed the window, else the guard in render() decides whether   *)
(* the renderer has to be attached anew.                                    *)
Leave ==
  /\ window = "loop"
  /\ window' = "terminate" /\ reattach' = FALSE
  /\ UNCHANGED <<program, drawerVars, deviceVars, update_req, terminate, closing, is_running,
                 bitmapVars, shown>>

ParamsGuard ==
  /\ window = "loop" /\ ~closing
  /\ window' = IF resized THEN "terminate" ELSE "render"
  /\ reattach' = resized
  /\ UNCHANGED <<program, drawerVars, deviceVars, update_req, terminate, closing, is_running,
                 bitmapVars, shown>>

DetachWindow ==
  /\ Detach(window, window', IF reattach THEN "attach" ELSE "exit")
  /\ UNCHANGED <<program, reattach, frame, deviceVars, update_req, closing, is_running, shown>>

(* A mutant of Render: it does not test whether there are bitmaps. *)
RenderUntested ==
  /\ window = "render"
  /\ window' = IF update_req THEN "loop" ELSE "copying"
  /\ shown' = IF update_req THEN video_bmp ELSE shown
  /\ UNCHANGED <<program, reattach, drawerVars, deviceVars, update_req, terminate, closing,
                 is_running, bitmapVars>>

(* render(): without bitmaps nothing; while the drawer has mem_bmp the last *)
(* picture again; else a copy of mem_bmp, which takes time.                 *)
Render ==
  /\ window = "render"
  /\ window' = IF NoBitmap \in {mem_bmp, video_bmp} THEN "loop"
               ELSE IF update_req THEN "again" ELSE "copying"
  /\ UNCHANGED <<program, reattach, drawerVars, deviceVars, update_req, terminate, closing,
                 is_running, bitmapVars, shown>>

Again ==
  /\ window = "again" /\ video_bmp # NoBitmap
  /\ window' = "loop"
  /\ shown' = video_bmp
  /\ UNCHANGED <<program, reattach, drawerVars, deviceVars, update_req, terminate, closing,
                 is_running, bitmapVars>>

(* A mutant of Copied: mem_bmp is drawn on the display itself, video_bmp stays. *)
CopiedToDisplay ==
  /\ window = "copying" /\ NoBitmap \notin {mem_bmp, video_bmp}
  /\ window' = "loop"
  /\ shown' = mem_bmp
  /\ update_req' = TRUE
  /\ UNCHANGED <<program, reattach, drawerVars, deviceVars, terminate, closing, is_running,
                 bitmapVars>>

Copied ==
  /\ window = "copying" /\ NoBitmap \notin {mem_bmp, video_bmp}
  /\ window' = "loop"
  /\ video_bmp' = mem_bmp /\ shown' = mem_bmp
  /\ update_req' = TRUE
  /\ UNCHANGED <<program, reattach, drawerVars, deviceVars, terminate, closing, is_running,
                 mem_bmp>>

(* cleanup() has destroyed queue and display; run() ends. *)
Exit ==
  /\ window = "exit"
  /\ window' = "dead"
  /\ is_running' = FALSE
  /\ UNCHANGED <<program, reattach, drawerVars, deviceVars, update_req, terminate, closing,
                 bitmapVars, shown>>

-----------------------------------------------------------------------------
(* The drawer: mem_update_proc() and SimpleScope::draw_memory(). *)

TestTerminate ==
  /\ drawer = "top"
  /\ drawer' = IF terminate THEN "ended" ELSE "work"
  /\ UNCHANGED <<program, windowVars, frame, deviceVars, update_req, terminate, closing,
                 is_running, bitmapVars>>

(* draw_memory() clears the bitmap and takes the newest frame, under the    *)
(* mutex of the device; without a request the drawer sleeps for a while.    *)
TestUpdate ==
  /\ drawer = "work"
  /\ \/ update_req /\ drawer' = "drawing" /\ frame' = last_msg
     \/ ~update_req /\ drawer' = "top" /\ UNCHANGED frame
  /\ UNCHANGED <<program, windowVars, deviceVars, update_req, terminate, closing, is_running,
                 bitmapVars>>

(* A mutant of Draw: the request is taken back before the picture is complete. *)
DrawAndReturn ==
  /\ drawer = "drawing" /\ mem_bmp # NoBitmap
  /\ drawer' = "drawn"
  /\ mem_bmp' = frame
  /\ update_req' = FALSE
  /\ UNCHANGED <<program, windowVars, frame, deviceVars, terminate, closing, is_running, video_bmp>>

Draw ==
  /\ drawer = "drawing" /\ mem_bmp # NoBitmap
  /\ drawer' = "drawn"
  /\ mem_bmp' = frame
  /\ UNCHANGED <<program, windowVars, frame, deviceVars, update_req, terminate, closing,
                 is_running, video_bmp>>

HandOver ==
  /\ drawer = "drawn"
  /\ drawer' = "top"
  /\ update_req' = FALSE
  /\ UNCHANGED <<program, windowVars, frame, deviceVars, terminate, closing, is_running,
                 bitmapVars>>

-----------------------------------------------------------------------------
(* The device, process_usr_msg(): a newer frame replaces the one it holds. *)
Arrive ==
  /\ last_msg < MaxFrames
  /\ last_msg' = last_msg + 1
  /\ UNCHANGED <<program, windowVars, drawerVars, update_req, terminate, closing, is_running,
                 bitmapVars, resized, resizes>>

(* The display gets another size. *)
Resize ==
  /\ window \notin {"unborn", "dead"}
  /\ resizes < MaxResizes
  /\ resizes' = resizes + 1
  /\ resized' = TRUE
  /\ UNCHANGED <<program, windowVars, drawerVars, last_msg, update_req, terminate, closing,
                 is_running, bitmapVars>>

-----------------------------------------------------------------------------
(* The program: create_window(), a loop until a window has closed, ~Window(). *)

CreateWindow ==
  /\ program = "new"
  /\ program' = "looping"
  /\ window' = "attach"
  /\ is_running' = TRUE
  /\ UNCHANGED <<reattach, drawerVars, deviceVars, update_req, terminate, closing, bitmapVars, shown>>

(* This window has closed, or another one. *)
Poll ==
  /\ program = "looping"
  /\ program' = "terminate"
  /\ UNCHANGED <<windowVars, drawerVars, deviceVars, update_req, terminate, closing, is_running,
                 bitmapVars>>

DetachProgram ==
  /\ Detach(program, program', "closing")
  /\ UNCHANGED <<windowVars, frame, deviceVars, update_req, closing, is_running>>

(* close(), and after its join the members' destructors, among them that of *)
(* the renderer, whose detach() finds nothing left to do.                   *)
Close ==
  /\ program = "closing"
  /\ program' = "joining"
  /\ closing' = TRUE
  /\ UNCHANGED <<windowVars, drawerVars, deviceVars, update_req, terminate, is_running, bitmapVars>>

Joined ==
  /\ program = "joining"
  /\ window = "dead"
  /\ program' = "closed"
  /\ UNCHANGED <<windowVars, drawerVars, deviceVars, update_req, terminate, closing, is_running,
                 bitmapVars>>

-----------------------------------------------------------------------------
(* What is undefined. *)

UsesDestroyed ==
  \/ window = "again" /\ video_bmp = NoBitmap
  \/ window = "copying" /\ NoBitmap \in {mem_bmp, video_bmp}
  \/ drawer = "drawing" /\ mem_bmp = NoBitmap

JoinedTwice == window = "join" /\ program = "join" /\ Joinable

Crash ==
  /\ UsesDestroyed \/ JoinedTwice
  /\ crashed' = TRUE
  /\ UNCHANGED <<program, windowVars, drawerVars, deviceVars, update_req, terminate, closing,
                 is_running, bitmapVars>>

-----------------------------------------------------------------------------
WindowNext == Attach \/ Spawn \/ ParamsGuard \/ DetachWindow \/ Render \/ Again \/ Copied \/ Exit
DrawerNext == TestTerminate \/ TestUpdate \/ Draw \/ HandOver
ProgramNext == DetachProgram \/ Close \/ Joined
Others == WindowNext \/ Leave \/ DrawerNext \/ ProgramNext \/ CreateWindow \/ Arrive \/ Resize

Next ==
  /\ ~crashed
  /\ \/ Others /\ UNCHANGED <<early, crashed>>
     \/ Poll /\ early' = is_running /\ UNCHANGED crashed
     \/ Crash /\ UNCHANGED early

Spec == Init /\ [][Next]_vars

(* Threads are scheduled and the program polls its window.  The user need   *)
(* not close a window, this one has to close once Window::terminate is set; *)
(* frames and new sizes need not come.                                      *)
Fairness ==
  /\ WF_vars(Next /\ WindowNext) /\ WF_vars(Next /\ closing /\ Leave)
  /\ WF_vars(Next /\ DrawerNext)
  /\ WF_vars(Next /\ ProgramNext) /\ WF_vars(Next /\ ~is_running /\ Poll)
  /\ WF_vars(Next /\ UsesDestroyed /\ Crash)

FairSpec == Spec /\ Fairness

-----------------------------------------------------------------------------
(* Correctness. *)

(* The type invariant. *)
FlagTypes ==
  /\ reattach \in BOOLEAN /\ update_req \in BOOLEAN /\ terminate \in BOOLEAN
  /\ closing \in BOOLEAN /\ is_running \in BOOLEAN /\ resized \in BOOLEAN
  /\ early \in BOOLEAN /\ crashed \in BOOLEAN

DataTypes ==
  /\ program \in ProgramStates /\ window \in WindowStates /\ drawer \in DrawerStates
  /\ frame \in 0 .. MaxFrames /\ last_msg \in 0 .. MaxFrames /\ shown \in 0 .. MaxFrames
  /\ mem_bmp \in Bitmaps /\ video_bmp \in Bitmaps
  /\ resizes \in 0 .. MaxResizes

TypeOK == FlagTypes /\ DataTypes

(* The flag alone keeps the two threads apart: they never use mem_bmp at    *)
(* once, also while the program ends the drawer and the window restarts it. *)
(* A destroyed bitmap is used only when the program destroys a window that  *)
(* is still open, and then not before ~Window() has left detach(); of that  *)
(* no text says that it may be done (renderer.hpp:77-81, 88-104, 117-123).  *)
DrawerHasBitmap == drawer \in {"drawing", "drawn"}
WindowHasBitmap == window = "copying"

Overtaken == early /\ program \in {"closing", "joining"}

BitmapOwned ==
  /\ ~(DrawerHasBitmap /\ WindowHasBitmap)
  /\ DrawerHasBitmap \/ WindowHasBitmap \/ window = "again" => NoBitmap \notin {mem_bmp, video_bmp} \/ Overtaken
  /\ crashed => early

(* The display never falls back to an older frame, although pictures pass   *)
(* through two bitmaps and the drawer may be started anew; a change of size *)
(* may only show the bare grid for a moment (renderer.hpp:65-69, 88-104).   *)
NeverBackwards == [][shown' >= shown \/ (shown' = 0 /\ resizes > 0)]_vars

(* The most recent frame is shown, however slow the scope is, unless the    *)
(* window is left: genoscdevice.hpp:13-20, renderer.hpp:88-104, 118-123.    *)
FrameShown ==
  \A n \in 1 .. MaxFrames :
    (last_msg >= n /\ window = "loop") ~> (shown >= n \/ window = "exit" \/ crashed)

(* Once the window's thread leaves its loop the destruction of the window   *)
(* is completed: both threads can be joined, whichever of them and the      *)
(* program detaches the renderer first (renderer.hpp:76-82,                 *)
(* window.hpp:65-77).                                                       *)
CloseReturns == (window \in Detaching /\ ~reattach) ~> (program = "closed" \/ crashed)

=============================================================================
