--------------------------- MODULE RendererProofs ---------------------------
(***************************************************************************)
(* For any number of frames and of changes of size, and whenever the       *)
(* program destroys the window: mem_bmp has one user at a time, a bitmap   *)
(* is used after its destruction only if the program destroyed a window    *)
(* that was open, and the display never falls back to an older frame.      *)
(*                                                                         *)
(* FlagInv says what the flag and the place of each thread allow; OrderInv *)
(* compares the frames on the way from the device to the display.          *)
(***************************************************************************)
EXTENDS Renderer, TLAPS

(* The window's thread is dead before the program goes on, unless it left early. *)
ProgramInv ==
  /\ program = "new" <=> window = "unborn"
  /\ program = "new" => ~is_running
  /\ program = "looping" => (is_running <=> window # "dead")
  /\ program \notin {"new", "looping"} /\ ~early => window = "dead"
  /\ early => program \notin {"new", "looping"}

(* Where the flag and the window's thread stand tells who has the bitmaps. *)
Attached == window \in {"spawn", "loop", "render", "again", "copying", "terminate", "join"}

FlagInv ==
  /\ DrawerHasBitmap => update_req
  /\ WindowHasBitmap => ~update_req
  /\ Attached => NoBitmap \notin {mem_bmp, video_bmp} \/ Overtaken
  /\ window \in {"unborn", "attach", "spawn", "drop", "exit", "dead"} => ~Joinable
  /\ crashed => early

(* Frames only get older from the device to the drawer to the display. *)
OrderInv ==
  /\ shown <= last_msg /\ frame <= last_msg /\ mem_bmp <= last_msg
  /\ DrawerHasBitmap => shown <= frame
  /\ mem_bmp \in {NoBitmap, 0} \/ shown <= mem_bmp
  /\ video_bmp \in {NoBitmap, 0, shown}
  /\ resizes = 0 /\ Attached => video_bmp \in {NoBitmap, shown} /\ (mem_bmp = NoBitmap \/ shown <= mem_bmp)
  /\ resizes = 0 => ~resized /\ ~reattach
  /\ window \in {"unborn", "attach"} /\ resizes = 0 => shown = 0

IInv == TypeOK /\ ProgramInv /\ FlagInv

(* The flags stay Booleans. *)
LEMMA FlagTypesStep ==
  ASSUME FlagTypes, [Next]_vars
  PROVE  FlagTypes'
<1> USE DEF FlagTypes,
      deviceVars, windowVars, drawerVars, bitmapVars
<1>1. CASE Attach /\ UNCHANGED <<early, crashed>>
  BY <1>1, Zenon DEF Attach
<1>2. CASE Spawn /\ UNCHANGED <<early, crashed>>
  BY <1>2, Zenon DEF Spawn, Joinable
<1>3. CASE ParamsGuard /\ UNCHANGED <<early, crashed>>
  BY <1>3, Zenon DEF ParamsGuard
<1>4. CASE Leave /\ UNCHANGED <<early, crashed>>
  BY <1>4, Zenon DEF Leave
<1>5. CASE Exit /\ UNCHANGED <<early, crashed>>
  BY <1>5, Zenon DEF Exit
<1>6. CASE DetachWindow /\ UNCHANGED <<early, crashed>>
  BY <1>6, Zenon DEF DetachWindow, Detach, SetTerminate, JoinDrawer, DropBitmaps, Joinable
<1>7. CASE Render /\ UNCHANGED <<early, crashed>>
  BY <1>7, Zenon DEF Render
<1>8. CASE Copied /\ UNCHANGED <<early, crashed>>
  BY <1>8, Zenon DEF Copied
<1>9. CASE TestTerminate /\ UNCHANGED <<early, crashed>>
  BY <1>9, Zenon DEF TestTerminate
<1>10. CASE TestUpdate /\ UNCHANGED <<early, crashed>>
  BY <1>10, Zenon DEF TestUpdate
<1>11. CASE Draw /\ UNCHANGED <<early, crashed>>
  BY <1>11, Zenon DEF Draw
<1>12. CASE HandOver /\ UNCHANGED <<early, crashed>>
  BY <1>12, Zenon DEF HandOver
<1>13. CASE CreateWindow /\ UNCHANGED <<early, crashed>>
  BY <1>13, Zenon DEF CreateWindow
<1>14. CASE Poll /\ early' = is_running /\ UNCHANGED crashed
  BY <1>14, Zenon DEF Poll
<1>15. CASE DetachProgram /\ UNCHANGED <<early, crashed>>
  BY <1>15, Zenon DEF DetachProgram, Detach, SetTerminate, JoinDrawer, DropBitmaps, Joinable
<1>16. CASE Close /\ UNCHANGED <<early, crashed>>
  BY <1>16, Zenon DEF Close
<1>17. CASE Joined /\ UNCHANGED <<early, crashed>>
  BY <1>17, Zenon DEF Joined
<1>18. CASE Arrive /\ UNCHANGED <<early, crashed>>
  BY <1>18, Zenon DEF Arrive
<1>19. CASE Resize /\ UNCHANGED <<early, crashed>>
  BY <1>19, Zenon DEF Resize
<1>20. CASE UNCHANGED vars
  BY <1>20, Zenon DEF vars
<1>21. CASE Again /\ UNCHANGED <<early, crashed>>
  BY <1>21, Zenon DEF Again
<1>22. CASE Crash /\ UNCHANGED early
  BY <1>22, Zenon DEF Crash, UsesDestroyed, JoinedTwice
<1>23. QED
  BY <1>1, <1>2, <1>3, <1>4, <1>5, <1>6, <1>7, <1>8, <1>9,
     <1>10, <1>11, <1>12, <1>13, <1>14, <1>15, <1>16, <1>17, <1>18, <1>19, <1>20, <1>21, <1>22
     DEF Next, Others, WindowNext, DrawerNext, ProgramNext

(* The rest of the state keeps its types; a copied picture is one that exists. *)
LEMMA DataTypesStep ==
  ASSUME DataTypes, FlagInv, [Next]_vars
  PROVE  DataTypes'
<1> USE RendererAssumption
    DEF DataTypes, Bitmaps, NoBitmap, Detaching, ProgramStates, WindowStates,
        DrawerStates, deviceVars, windowVars, drawerVars, bitmapVars,
        FlagInv, Attached, WindowHasBitmap
<1>1. CASE Attach /\ UNCHANGED <<early, crashed>>
  BY <1>1 DEF Attach
<1>2. CASE Spawn /\ UNCHANGED <<early, crashed>>
  BY <1>2 DEF Spawn, Joinable
<1>3. CASE ParamsGuard /\ UNCHANGED <<early, crashed>>
  BY <1>3 DEF ParamsGuard
<1>4. CASE Leave /\ UNCHANGED <<early, crashed>>
  BY <1>4 DEF Leave
<1>5. CASE Exit /\ UNCHANGED <<early, crashed>>
  BY <1>5 DEF Exit
<1>6. CASE DetachWindow /\ UNCHANGED <<early, crashed>>
  BY <1>6 DEF DetachWindow, Detach, SetTerminate, JoinDrawer, DropBitmaps, Joinable
<1>7. CASE Render /\ UNCHANGED <<early, crashed>>
  BY <1>7 DEF Render
<1>8. CASE Copied /\ UNCHANGED <<early, crashed>>
  BY <1>8 DEF Copied
<1>9. CASE TestTerminate /\ UNCHANGED <<early, crashed>>
  BY <1>9 DEF TestTerminate
<1>10. CASE TestUpdate /\ UNCHANGED <<early, crashed>>
  BY <1>10 DEF TestUpdate
<1>11. CASE Draw /\ UNCHANGED <<early, crashed>>
  BY <1>11 DEF Draw
<1>12. CASE HandOver /\ UNCHANGED <<early, crashed>>
  BY <1>12 DEF HandOver
<1>13. CASE CreateWindow /\ UNCHANGED <<early, crashed>>
  BY <1>13 DEF CreateWindow
<1>14. CASE Poll /\ early' = is_running /\ UNCHANGED crashed
  BY <1>14 DEF Poll
<1>15. CASE DetachProgram /\ UNCHANGED <<early, crashed>>
  BY <1>15 DEF DetachProgram, Detach, SetTerminate, JoinDrawer, DropBitmaps, Joinable
<1>16. CASE Close /\ UNCHANGED <<early, crashed>>
  BY <1>16 DEF Close
<1>17. CASE Joined /\ UNCHANGED <<early, crashed>>
  BY <1>17 DEF Joined
<1>18. CASE Arrive /\ UNCHANGED <<early, crashed>>
  BY <1>18 DEF Arrive
<1>19. CASE Resize /\ UNCHANGED <<early, crashed>>
  BY <1>19 DEF Resize
<1>20. CASE UNCHANGED vars
  BY <1>20 DEF vars
<1>21. CASE Again /\ UNCHANGED <<early, crashed>>
  BY <1>21 DEF Again
<1>22. CASE Crash /\ UNCHANGED early
  BY <1>22 DEF Crash, UsesDestroyed, JoinedTwice
<1>23. QED
  BY <1>1, <1>2, <1>3, <1>4, <1>5, <1>6, <1>7, <1>8, <1>9,
     <1>10, <1>11, <1>12, <1>13, <1>14, <1>15, <1>16, <1>17, <1>18, <1>19, <1>20, <1>21, <1>22
     DEF Next, Others, WindowNext, DrawerNext, ProgramNext

(* The program stays out of the way of the window's thread. *)
LEMMA ProgramStep ==
  ASSUME TypeOK, ProgramInv, FlagInv, [Next]_vars
  PROVE  ProgramInv'
<1> USE DEF TypeOK, FlagTypes, DataTypes, ProgramInv, Detaching,
            deviceVars, windowVars, drawerVars, bitmapVars
<1>1. CASE Attach /\ UNCHANGED <<early, crashed>>
  BY <1>1 DEF Attach
<1>2. CASE Spawn /\ UNCHANGED <<early, crashed>>
  BY <1>2 DEF Spawn, Joinable
<1>3. CASE ParamsGuard /\ UNCHANGED <<early, crashed>>
  BY <1>3 DEF ParamsGuard
<1>4. CASE Leave /\ UNCHANGED <<early, crashed>>
  BY <1>4 DEF Leave
<1>5. CASE Exit /\ UNCHANGED <<early, crashed>>
  BY <1>5 DEF Exit
<1>6. CASE DetachWindow /\ UNCHANGED <<early, crashed>>
  BY <1>6 DEF DetachWindow, Detach, SetTerminate, JoinDrawer, DropBitmaps, Joinable
<1>7. CASE Render /\ UNCHANGED <<early, crashed>>
  BY <1>7 DEF Render
<1>8. CASE Copied /\ UNCHANGED <<early, crashed>>
  BY <1>8 DEF Copied
<1>9. CASE TestTerminate /\ UNCHANGED <<early, crashed>>
  BY <1>9 DEF TestTerminate
<1>10. CASE TestUpdate /\ UNCHANGED <<early, crashed>>
  BY <1>10 DEF TestUpdate
<1>11. CASE Draw /\ UNCHANGED <<early, crashed>>
  BY <1>11 DEF Draw
<1>12. CASE HandOver /\ UNCHANGED <<early, crashed>>
  BY <1>12 DEF HandOver
<1>13. CASE CreateWindow /\ UNCHANGED <<early, crashed>>
  BY <1>13 DEF CreateWindow
<1>14. CASE Poll /\ early' = is_running /\ UNCHANGED crashed
  BY <1>14 DEF Poll
<1>15. CASE DetachProgram /\ UNCHANGED <<early, crashed>>
  BY <1>15 DEF DetachProgram, Detach, SetTerminate, JoinDrawer, DropBitmaps, Joinable
<1>16. CASE Close /\ UNCHANGED <<early, crashed>>
  BY <1>16 DEF Close
<1>17. CASE Joined /\ UNCHANGED <<early, crashed>>
  BY <1>17 DEF Joined
<1>18. CASE Arrive /\ UNCHANGED <<early, crashed>>
  BY <1>18 DEF Arrive
<1>19. CASE Resize /\ UNCHANGED <<early, crashed>>
  BY <1>19 DEF Resize
<1>20. CASE UNCHANGED vars
  BY <1>20 DEF vars
<1>21. CASE Again /\ UNCHANGED <<early, crashed>>
  BY <1>21 DEF Again
<1>22. CASE Crash /\ UNCHANGED early
  BY <1>22 DEF Crash, UsesDestroyed, JoinedTwice
<1>23. QED
  BY <1>1, <1>2, <1>3, <1>4, <1>5, <1>6, <1>7, <1>8, <1>9,
     <1>10, <1>11, <1>12, <1>13, <1>14, <1>15, <1>16, <1>17, <1>18, <1>19, <1>20, <1>21, <1>22
     DEF Next, Others, WindowNext, DrawerNext, ProgramNext

(* Flag and places stay in step. *)
LEMMA FlagStep ==
  ASSUME TypeOK, ProgramInv, FlagInv, [Next]_vars
  PROVE  FlagInv'
<1> USE RendererAssumption
    DEF TypeOK, FlagTypes, DataTypes, ProgramInv, FlagInv, Attached, Joinable, Detaching, Overtaken,
        DrawerHasBitmap, WindowHasBitmap, Bitmaps, NoBitmap, DrawerStates, WindowStates,
        deviceVars, windowVars, drawerVars, bitmapVars
<1>1. CASE Attach /\ UNCHANGED <<early, crashed>>
  BY <1>1 DEF Attach
<1>2. CASE Spawn /\ UNCHANGED <<early, crashed>>
  BY <1>2 DEF Spawn, Joinable
<1>3. CASE ParamsGuard /\ UNCHANGED <<early, crashed>>
  BY <1>3 DEF ParamsGuard
<1>4. CASE Leave /\ UNCHANGED <<early, crashed>>
  BY <1>4 DEF Leave
<1>5. CASE Exit /\ UNCHANGED <<early, crashed>>
  BY <1>5 DEF Exit
<1>6. CASE DetachWindow /\ UNCHANGED <<early, crashed>>
  BY <1>6 DEF DetachWindow, Detach, SetTerminate, JoinDrawer, DropBitmaps, Joinable
<1>7. CASE Render /\ UNCHANGED <<early, crashed>>
  BY <1>7 DEF Render
<1>8. CASE Copied /\ UNCHANGED <<early, crashed>>
  BY <1>8 DEF Copied
<1>9. CASE TestTerminate /\ UNCHANGED <<early, crashed>>
  BY <1>9 DEF TestTerminate
<1>10. CASE TestUpdate /\ UNCHANGED <<early, crashed>>
  BY <1>10 DEF TestUpdate
<1>11. CASE Draw /\ UNCHANGED <<early, crashed>>
  BY <1>11 DEF Draw
<1>12. CASE HandOver /\ UNCHANGED <<early, crashed>>
  BY <1>12 DEF HandOver
<1>13. CASE CreateWindow /\ UNCHANGED <<early, crashed>>
  BY <1>13 DEF CreateWindow
<1>14. CASE Poll /\ early' = is_running /\ UNCHANGED crashed
  BY <1>14 DEF Poll
<1>15. CASE DetachProgram /\ UNCHANGED <<early, crashed>>
  BY <1>15 DEF DetachProgram, Detach, SetTerminate, JoinDrawer, DropBitmaps, Joinable
<1>16. CASE Close /\ UNCHANGED <<early, crashed>>
  BY <1>16 DEF Close
<1>17. CASE Joined /\ UNCHANGED <<early, crashed>>
  BY <1>17 DEF Joined
<1>18. CASE Arrive /\ UNCHANGED <<early, crashed>>
  BY <1>18 DEF Arrive
<1>19. CASE Resize /\ UNCHANGED <<early, crashed>>
  BY <1>19 DEF Resize
<1>20. CASE UNCHANGED vars
  BY <1>20 DEF vars
<1>21. CASE Again /\ UNCHANGED <<early, crashed>>
  BY <1>21 DEF Again
<1>22. CASE Crash /\ UNCHANGED early
  BY <1>22 DEF Crash, UsesDestroyed, JoinedTwice
<1>23. QED
  BY <1>1, <1>2, <1>3, <1>4, <1>5, <1>6, <1>7, <1>8, <1>9,
     <1>10, <1>11, <1>12, <1>13, <1>14, <1>15, <1>16, <1>17, <1>18, <1>19, <1>20, <1>21, <1>22
     DEF Next, Others, WindowNext, DrawerNext, ProgramNext

(* Frames keep their order. *)
LEMMA OrderStep ==
  ASSUME IInv, OrderInv, [Next]_vars
  PROVE  OrderInv'
<1> USE RendererAssumption
    DEF IInv, TypeOK, FlagTypes, DataTypes, ProgramInv, FlagInv, Attached, OrderInv, Joinable,
        Detaching,
        DrawerHasBitmap, WindowHasBitmap, Bitmaps, NoBitmap,
        deviceVars, windowVars, drawerVars, bitmapVars
<1>1. CASE Attach /\ UNCHANGED <<early, crashed>>
  BY <1>1 DEF Attach
<1>2. CASE Spawn /\ UNCHANGED <<early, crashed>>
  BY <1>2 DEF Spawn, Joinable
<1>3. CASE ParamsGuard /\ UNCHANGED <<early, crashed>>
  BY <1>3 DEF ParamsGuard
<1>4. CASE Leave /\ UNCHANGED <<early, crashed>>
  BY <1>4 DEF Leave
<1>5. CASE Exit /\ UNCHANGED <<early, crashed>>
  BY <1>5 DEF Exit
<1>6. CASE DetachWindow /\ UNCHANGED <<early, crashed>>
  BY <1>6 DEF DetachWindow, Detach, SetTerminate, JoinDrawer, DropBitmaps, Joinable
<1>7. CASE Render /\ UNCHANGED <<early, crashed>>
  BY <1>7 DEF Render
<1>8. CASE Copied /\ UNCHANGED <<early, crashed>>
  BY <1>8 DEF Copied
<1>9. CASE TestTerminate /\ UNCHANGED <<early, crashed>>
  BY <1>9 DEF TestTerminate
<1>10. CASE TestUpdate /\ UNCHANGED <<early, crashed>>
  BY <1>10 DEF TestUpdate
<1>11. CASE Draw /\ UNCHANGED <<early, crashed>>
  BY <1>11 DEF Draw
<1>12. CASE HandOver /\ UNCHANGED <<early, crashed>>
  BY <1>12 DEF HandOver
<1>13. CASE CreateWindow /\ UNCHANGED <<early, crashed>>
  BY <1>13 DEF CreateWindow
<1>14. CASE Poll /\ early' = is_running /\ UNCHANGED crashed
  BY <1>14 DEF Poll
<1>15. CASE DetachProgram /\ UNCHANGED <<early, crashed>>
  BY <1>15 DEF DetachProgram, Detach, SetTerminate, JoinDrawer, DropBitmaps, Joinable
<1>16. CASE Close /\ UNCHANGED <<early, crashed>>
  BY <1>16 DEF Close
<1>17. CASE Joined /\ UNCHANGED <<early, crashed>>
  BY <1>17 DEF Joined
<1>18. CASE Arrive /\ UNCHANGED <<early, crashed>>
  BY <1>18 DEF Arrive
<1>19. CASE Resize /\ UNCHANGED <<early, crashed>>
  BY <1>19 DEF Resize
<1>20. CASE UNCHANGED vars
  BY <1>20 DEF vars
<1>21. CASE Again /\ UNCHANGED <<early, crashed>>
  BY <1>21 DEF Again
<1>22. CASE Crash /\ UNCHANGED early
  BY <1>22 DEF Crash, UsesDestroyed, JoinedTwice
<1>23. QED
  BY <1>1, <1>2, <1>3, <1>4, <1>5, <1>6, <1>7, <1>8, <1>9,
     <1>10, <1>11, <1>12, <1>13, <1>14, <1>15, <1>16, <1>17, <1>18, <1>19, <1>20, <1>21, <1>22
     DEF Next, Others, WindowNext, DrawerNext, ProgramNext

-----------------------------------------------------------------------------
(* Initial states satisfy all of it, each step keeps it. *)
LEMMA InitAll ==
  Init => IInv /\ OrderInv
<1> SUFFICES ASSUME Init PROVE IInv /\ OrderInv
  OBVIOUS
<1>1. FlagTypes
  BY Zenon DEF Init, FlagTypes
<1>2. DataTypes
  BY RendererAssumption
     DEF Init, DataTypes, Bitmaps, NoBitmap, ProgramStates, WindowStates, DrawerStates
<1>3. ProgramInv
  BY DEF Init, ProgramInv
<1>4. FlagInv
  BY DEF Init, FlagInv, DrawerHasBitmap, WindowHasBitmap, Attached, Joinable
<1>5. OrderInv
  BY DEF Init, OrderInv, DrawerHasBitmap, Attached, NoBitmap
<1>6. QED
  BY <1>1, <1>2, <1>3, <1>4, <1>5 DEF IInv, TypeOK

LEMMA StepAll ==
  ASSUME IInv, OrderInv, [Next]_vars
  PROVE  IInv' /\ OrderInv'
<1>1. TypeOK /\ ProgramInv /\ FlagInv
  BY DEF IInv
<1>2. FlagTypes' /\ DataTypes'
  BY <1>1, FlagTypesStep, DataTypesStep DEF TypeOK
<1>3. ProgramInv' /\ FlagInv'
  BY <1>1, ProgramStep, FlagStep
<1>4. OrderInv'
  BY OrderStep
<1>5. QED
  BY <1>2, <1>3, <1>4 DEF IInv, TypeOK

(* The types are kept: no destroyed bitmap is ever taken for a picture. *)
THEOREM RendererTypeCorrect == Spec => []TypeOK
<1>1. IInv /\ OrderInv /\ [Next]_vars => (IInv /\ OrderInv)'
  BY StepAll
<1>2. IInv => TypeOK
  BY DEF IInv
<1>3. QED
  BY InitAll, <1>1, <1>2, PTL DEF Spec

(* mem_bmp has one user at a time, and unless the program has left detach() *)
(* while the window was open, none once it is destroyed, whenever the       *)
(* program does so (renderer.hpp:77-81, 88-104, 117-123).                   *)
THEOREM BitmapHasOneUser == Spec => []BitmapOwned
<1>1. IInv /\ OrderInv /\ [Next]_vars => (IInv /\ OrderInv)'
  BY StepAll
<1>2. IInv => BitmapOwned
  <2> SUFFICES ASSUME IInv PROVE BitmapOwned
    OBVIOUS
  <2>1. FlagInv /\ DataTypes
    BY DEF IInv, TypeOK
  <2>2. WindowHasBitmap \/ window = "again" => Attached
    BY DEF WindowHasBitmap, Attached
  <2>3. DrawerHasBitmap => Attached
    BY <2>1 DEF FlagInv, DataTypes, DrawerHasBitmap, Attached, Joinable, WindowStates, Detaching
  <2>4. ~(DrawerHasBitmap /\ WindowHasBitmap)
    BY <2>1, Zenon DEF FlagInv
  <2>5. Attached => NoBitmap \notin {mem_bmp, video_bmp} \/ Overtaken
    BY <2>1, Zenon DEF FlagInv
  <2>6. crashed => early
    BY <2>1, Zenon DEF FlagInv
  <2>7. QED
    BY <2>2, <2>3, <2>4, <2>5, <2>6, Zenon DEF BitmapOwned
<1>3. QED
  BY InitAll, <1>1, <1>2, PTL DEF Spec

(* The display never falls back to an older frame; only a change of size    *)
(* may clear it (renderer.hpp:65-69, 88-104).                               *)
THEOREM DisplayNeverBackwards == Spec => NeverBackwards
<1>1. IInv /\ OrderInv /\ [Next]_vars => (IInv /\ OrderInv)'
  BY StepAll
<1>2. IInv /\ OrderInv /\ [Next]_vars => [shown' >= shown \/ (shown' = 0 /\ resizes > 0)]_vars
  <2> SUFFICES ASSUME IInv, OrderInv, Next
               PROVE  shown' >= shown \/ (shown' = 0 /\ resizes > 0)
    OBVIOUS
  <2> USE DEF IInv, TypeOK, DataTypes, OrderInv, FlagInv, Attached, Bitmaps, NoBitmap
  <2>1. CASE Again
    BY <2>1, RendererAssumption DEF Again
  <2>2. CASE Copied
    BY <2>2, RendererAssumption DEF Copied
  <2>3. CASE UNCHANGED shown
    BY <2>3, RendererAssumption
  <2>4. Again \/ Copied \/ UNCHANGED shown
    BY DEF Next, Others, WindowNext, DrawerNext, ProgramNext, Attach, Spawn, ParamsGuard,
       DetachWindow, Exit, Leave, Render, TestTerminate, TestUpdate, Draw, HandOver, Poll,
       DetachProgram, Close, Joined, CreateWindow, Arrive, Resize, Crash, windowVars
  <2>5. QED
    BY <2>1, <2>2, <2>3, <2>4
<1>3. QED
  BY InitAll, <1>1, <1>2, PTL DEF Spec, NeverBackwards

=============================================================================
