# A TLA+ model of DistPipelineFWK2

DistPipelineFWK2 is a C++ framework for signal-processing pipelines. A program creates *nodes*
through a factory; every node is a thread with a bounded inbox; nodes are wired into a graph along
which messages flow; sources get their data from devices, sinks draw them in windows. This
directory models the parts whose correctness depends on threads, order and shutdown, on what is kept
between calls, and on index arithmetic, checks the models with TLC on small instances and proves the central results with TLAPS for all parameters.

All paths below are relative to the repository; `core/` stands for `src/core/` and so on.

## 1. The system

| Part | State | Operations | Talks to |
|---|---|---|---|
| `BaseNode` (`core/base_node.hpp`) | inbox `in`, flag `v_running`, one mutex, one condition variable, own thread | `start`, `stop`, `put`, `pull_msg`, `main_loop`, destructor | every other node, by `put()` |
| `BaseSource`, `BaseFilter`, `BaseSplitter` | target(s), policy | `process_usr_msg`, `set_target`, `add_target` | the next node(s), by `put()` with WAIT or DROP |
| `NodeFactory` | registry of nodes by random uid | `create`, `get_node`, destructor stops all | owns all nodes |
| messages (`core/data_packet_types.h`) | command, uid, sender, attached data | copy, `init_attached_data` | |
| `BaseSyncJoin` | a queue per source, a set of sources per uid | `reg_source_uid`, `process_usr_msg` | receives from several nodes, sends to one |
| `SerialPortSRC`, `UDPSource` (`sources/`) | `blocks`, the port, `asio_async_mtx`, asio thread | own `main_loop`, `on_receive`, `async_read_some` | Boost.Asio, next node |
| `MidiSource` | | callback thread of the MIDI library | next node |
| `GenOscDevice`, `Bitmap2DRenderer`, `Window`, `SimpleScope` (`graphics/`) | last frame; flags `update_req`, `terminate`; bitmaps; event loop | `get_frame`, `attach`, `detach`, `render`, `mem_update_proc`, window thread | scopes read frames; renderer thread and window thread share the flags |
| `PlotScope`, its messages | pipes to gnuplot, flag `stopped`, partial PNG, current PNG | constructor, `handle_read_stdout`, `draw_memory`, `get_data`, destructor | a gnuplot process, asio thread |
| transform filters (`dsp/`) | GSL tables, fractional basis and matrix, each for one size (and angle) | `internal_filter`, `initialize`, the command ROTATE | nodes they are part of |
| `GSL1DInterpolRR`, `..CR` (`dsp/interpolation/`) | axis, samples, period, interval, GSL workspaces | `set_data`, `set_periodic`, `set_interval`, `evaluate`, `restore_orig_*`, copy | whoever calls |
| thermostat (`executables/demo/thermostat/`) | loop buffer, measured pairs, `calibrate.dat`, control value, temperature | `SysMonitorFilter`, `PIDFilter`, `PeltierModelFilter`, `HWStateTracker` | each other in a circle, a file, a serial port |
| other demos (`executables/demo/`) | frame buffer, SCPI connection, packet being filled | own loops, filters and callbacks | boards, ngspice, an SCPI server |

What each part has to get right, and what is hard about it:

* **Node.** Senders and the node's thread share a mutex and *one* condition variable with
  `notify_one()`; a wake-up may reach the wrong waiter. The inbox must stay bounded, FIFO per sender,
  lossless for WAIT; `stop()` must return; a message must not be handled after STOP.
* **Graph.** FIFO along every edge, no loss with WAIT, no deadlock of a running pipeline, a shutdown
  that ends although nodes are stopped in the random order of their uids.
* **Join.** Exactly the messages that came from all sources are joined, in order; nothing old piles up;
  the uid survives.
* **Asynchronous sources.** Two threads, two mutexes, notifications that may be dropped: no block may
  be stranded, lost or reordered; the asio thread must end at shutdown and not use a closed port.
* **Graphics.** Hand-over of a bitmap through flags while the window is resized or closed.
* **Stream slicers** (PlotScope, Arduino receiver, line tracker). Frames must be found however the
  stream is cut into reads.
* **PlotScope.** Its destructor must get gnuplot to quit and the asio thread to end, over pipes that can be full.
* **DSP.** Index arithmetic at the borders and for both parities, tables that must be refreshed with their parameters, calls in
  any order that keep axis, samples, period and workspace together.
* **Thermostat.** A circle with two waiting edges must not lock up; messages under way must not be taken for measurements of the
  next point; a kill while the file is written must not leave half a table.
* **Callbacks and foreign protocols** (MIDI, ngspice, SCPI). They do not know the life of the node they belong to.

## 2. Modules

```
Inbox  <-- implemented by --  BaseNode  <-- BaseNodeProofs
  ^                              ^
  | assumed of the inbox         | one per node
AsyncSource <-- AsyncSourceProofs   Pipeline <-- PipelineProofs -- its FIFO edges are assumed by --> SyncJoin
                                       | the device at the end of a graph
                                    Renderer <-- RendererProofs
JoinMessages, SyncJoin <-- SyncJoinProofs
PngStream, PngSlicer <-- PngSlicerProofs      PngSlicer -- reads what comes out of --> PlotPipes

MCSequential = Interpol | Transforms | FtUtils, FrFTBasis
             | SyncJoinProofs | PngSlicerProofs                            <-- SequentialProofs
MCDemos      = Thermostat | SerialParsers | NgSpice | ScpiClient | MidiPort
             | UdpFilters | PlotPipes, PlotMessages                        <-- DemosProofs
```

| Module | Models | Code |
|---|---|---|
| `BaseNode` | one node, its senders, its owner | `core/base_node.hpp` |
| `Inbox` | what an inbox promises, without queue, lock or thread | abstract |
| `Pipeline` | a graph of nodes, the program that feeds and stops it | `base_node.hpp`, `base_source/filter/splitter.hpp`, `node_factory.hpp`, tutorial 01 |
| `JoinMessages`, `SyncJoin` | what a join is sent; the join node | `core/base_sync_join.hpp` |
| `AsyncSource` | serial and UDP source | `sources/src_serial.hpp`, `src_udp.hpp` |
| `Renderer` | a window, its oscilloscope, the device the frames come from | `graphics/window.hpp`, `renderer.hpp`, `genoscdevice.hpp`, `simplescope.cpp` |
| `PngStream`, `PngSlicer` | what gnuplot writes; cutting images out of it | `graphics/plotscope.cpp`, `plotscope.h` |
| `PlotPipes`, `PlotMessages` | a PlotScope and its gnuplot process; the texts it sends | `graphics/plotscope.cpp`, `graphics/scope_messages/` |
| `Interpol` | an interpolation object through its calls | `dsp/interpolation/` |
| `Transforms` | the tables the transform filters keep | `dsp/*_filter.hpp`, `dft_periodic.cpp`, `dfrft_gsl.cpp` |
| `FtUtils`, `FrFTBasis` | index arithmetic of spectra and of the fractional basis | `ft_utils.cpp`, `quadrature_filter.hpp`, `dfrft_gsl.cpp` |
| `Thermostat` | the circle of three nodes and the calibration file | `demo/thermostat/`, `dsp/pid_filter.hpp` |
| `SerialParsers` | finding frames and lines in blocks of bytes | `demo/arduino/`, `hw_state_tracker.cpp` |
| `NgSpice` | the callbacks of a simulation | `demo/ngspice/` |
| `ScpiClient` | the acquisition loop and its server | `demo/redpitaya/scpi_cli.hpp` |
| `MidiPort` | a source whose callback has a life of its own | `sources/src_midi.hpp` |
| `UdpFilters` | cutting blocks into numbers | `demo/udp/main.cpp`, `demo/redpitaya/` |
| `MC*` | the instances TLC checks; `MCSequential` and `MCDemos` hold several components, of which one runs in each behaviour | |
| `BaseNodeProofs`, `PipelineProofs`, `SyncJoinProofs`, `AsyncSourceProofs`, `RendererProofs`, `PngSlicerProofs`, `SequentialProofs`, `DemosProofs` | theorems about `BaseNode` and `Inbox`, the modules of the same names, and the modules of `MCSequential` and `MCDemos` | |

Some definitions are wrong on purpose: each is marked *a mutant of X*, stands before X, and nothing
refers to it. Replacing the body of X by it makes the property that is paired with it in
`PROJECT.json` fail; this is how we know that each property can tell right code from wrong.

### BaseNode

A step is one critical section, or one access outside the mutex. `put()` is two steps: `Offer`, the
unlocked test of `v_running` (line 90), and `Put`, the critical section (100-123), taken again after
each wake-up. `event.wait()` is the set `waiting`; `NotifyOne` removes any one member, a sender or the
node; `SpuriousWake` removes one nobody notified. The node's thread is `Begin` (v_running = true), `Pull`
(`pull_msg`), `Handle` (`process_usr_msg` returns; on STOP the loop ends), `Clear` (`in.clear()`, outside the
mutex, no notify) and `Exit`. The owner is `Start`, `Started` (the poll in `start()`), `Stop`, `Join`, `Destroy`.
The node may send to itself from its handler, as sources that clock themselves do.

Data are abstracted to the pair sender and number; the one command the loop acts on, STOP, is the one
message of the owner. `taken` is a history variable.

### Inbox

Per sender a set of accepted numbers. `Accept`, `Refuse` (only for DROP senders, or when closed), `Deliver`
(the oldest of a sender; none after STOP) and `Close`. `BaseNode!InboxSpec` is the instance with the
refinement mapping: the channel of a sender is what `in` holds of it, offers are the finished calls of
`put()`, the inbox is open until `Clear`.

### Pipeline

Every node has the variables of `BaseNode`, indexed by node; `todo` lists the targets still to be served by
the handler, so a splitter blocks on one target while the others have the message. `Feed` and `Quit` are
the program, `StopNode`/`Join` the loop in `~NodeFactory()`, over the nodes in any order since uids are
random. A source, a filter and a splitter differ only in how many targets they have; the message a
filter produces has the uid of the one it was made from. Spurious wake-ups and the start are left to `BaseNode`.
Policies are a variable so that one run covers several mixes.

### SyncJoin

One step per message (the class runs in its node's thread only), with the early returns, the collection
in `queues` and `msg_sets`, the join with its discarding of older messages, and what is then sent on.
Payloads are left out; uids are numbers. Arrivals are *arbitrary*: any uid from any registered source in any
order, repetitions included. The predicate `Fifo` picks out the arrivals that the code's comment demands, and
`Pipeline!EdgeFifo` is the evidence that a graph of nodes provides them.

### AsyncSource

The asio thread: a read completes (`ReadData`, `ReadError`, `ReadAborted`), `LockReceive`, `Store`, `Notify`
(put ACQUIRE with DROP), `UnlockReceive`, `CheckPort` and `ArmRead` (the two unguarded halves of
`async_read_some`), `EndRun`. The node: `Open`/`OpenFails`, `FirstRead`, `Pull`, `Lock`, `Drain` one block at a
time, `Drained`, and the shutdown `ClosePort`, `ResetPort`, `EndService` (three steps: delete work, stop,
reset), `JoinAsio`. `kind` selects the class where they differ: a failed open, the `||` of `src_udp.hpp:146`,
the reset of the port. The inbox is the atomic channel that `Inbox` describes. Using a null port is undefined;
here the thread stops dead (`crashed`). A UDP socket that opens but does not bind is `Open` with no data.

### Renderer

Three threads. The *window's* thread is `Attach`, `Spawn` (the two halves of `attach()`), the loop (`Leave` or
`ParamsGuard`, then `Render` and `Again` or `Copied`), the three steps of `detach()` and `Exit`. The *drawer* is `TestTerminate`,
`TestUpdate` (which takes the newest frame from the device, under the device's mutex), `Draw`, `HandOver`. The *program* is
`CreateWindow`, `Poll` (the loop of a tutorial is left) and `~Window()`: the same `detach()`,
then `Close` and `Joined`. `detach()` is one operator, `Detach`, that both callers instantiate with their own places. A step is one
access to what threads share; a picture is the number of the frame on it.

The program leaves its loop when the window has closed, or, where it has two, when the other has (`tutorial/07_chirp.cpp:74`,
`thermostat/pid.cpp:62`, `demo/udp/main.cpp:93`, `demo/redpitaya/main.cpp:71`): then `~Window()` calls `detach()` while the window's thread is still
rendering, and `early` records it. `Poll` may happen at any moment, so that every run and theorem has both. What C++ leaves undefined there is
`UsesDestroyed` (a bitmap is destroyed under `render()` or `draw_memory()`) and `JoinedTwice` (two threads join the drawer); `Crash` ends the program.
`BitmapOwned` says that the flag keeps the two threads apart in any case, and that the undefined is reached in that case and in no other. No text of
the repository says that a window may be destroyed while it is open, so it is not counted as a finding.

### PngSlicer

The stream is a line of bytes; `part_png` is the interval `first .. last - 1` of it, a search is a set of the places where heads
or feet begin. `Read(end)` is one call of `handle_read_stdout` with everything it does: search, erase, slice. How long a read is, is
arbitrary, up to what gnuplot has written for the frames `Ask` has sent. `CutsRoughly` describes the reads that can lose an image:
those that bring the end of its head together with bytes before it, or with the end of the image itself.

### PlotPipes and PlotMessages

Threads: the one that constructs and destroys the scope (`Program`), the drawing thread (`draw_memory`, `Push`), the asio thread (`Run`,
`Complete`, then the two accesses of a handler to `stopped`: `Handle` and `ReadOn`) and the gnuplot process. A pipe is a number of units,
a full one makes its writer wait. `Run` ends when no read is pending, also when that is so at its start: the constructor starts the
thread (line 70) before it arms a read (76). `Deaf` names what follows from that. `fits` records whether what gnuplot owed at the moment
`stopped` was set had room in its pipes; if not, nobody reads it any more and gnuplot never comes to the `quit` behind it. A drawing
thread that finds no message in the device would dereference null (`plotscope.cpp:235`); that is left out.

`PlotMessages` has the texts as lines, and says how gnuplot reads them. The x-axis of `PSMsgNSigTxt` starts at 0 although
`psmsgnsig_txt.h:67` and 128 have it start at `x_min`, which is why `MatrixIsRead` speaks of an axis from 0 only; the refusal of `x_min >= x_max` (`psmsgnsig_txt.cpp:45`) makes an exception without
throwing it.

### Interpol

One object of either class, a step per call. An axis is its number of points, where it comes from and its length; samples are
a name, their number and whether the closing one was added. The GSL workspace is a size, and `outcome` tells whether a call threw or
GSL aborted the program because the sizes differ. `given` is the history of what the *calls* gave, whatever the code made of it: the axis named,
or without one that of the calls before and their period as long as the number of points is the same (`Give`, after `i_interpol.h:45-55` and 80-83).
The code differs from it in two places. A CR compares the *doubles* of its samples with the points of the axis (`gsl_1d_interpol.cpp:106`), so that
samples without an axis do not reuse the range, or meet a workspace that does not fit and abort. After `set_periodic()` the axis has one point more
(72), so that samples of the old size drop axis and period, and those of the size of the closed axis are taken for closed ones. `strayed` marks a
call of these kinds; `WorkspaceFits` and `RestoresGiven` hold as long as there was none, and `AxisKept`, which has no such exception, is refuted.
`set_interval()` of a finite function is checked but not set.

### Transforms, FtUtils, FrFTBasis

`Transforms` keeps sizes and angles only: of wavetables, the basis, the matrix, the input and the result. Exceptions leave the node's
thread and end the program (`end`). A DFrFT ends it when the size of its messages changes without a new angle, because only the command
drops the matrix (`dfrft_filter.hpp:53`). `PowerFilter` moves its real input away before it loops over it (`power_filter.hpp:41`) and so does nothing.
`FtUtils` and `FrFTBasis` are operators that `MCSequential` compares with their definitions, length by length: shifts, frequency map, Hilbert
signs, the even-odd decomposition (over the numbers a + b/sqrt(2)) and the blocks `create_basis()` sets to zero, which are zero exactly.

### Thermostat

`Model` is a turn of the model's loop: it takes a control value if there is one, puts its state with DROP, and moves the temperature.
`Calibrate`, `save_calibration`, `Operate` and `MonitorPuts` are the monitor: handling one message, the file between truncation and
close, normal operation, and the waiting put. `internal_filter` and `PidPuts` are the PID node. `Kill` restarts the program with the file as it is.
Temperatures are settled ones or `Moving`; a loop buffer is the run of equal temperatures at its end.
A full loop buffer must not come from messages that were under way when the control value changed. Three inboxes and two hands have room for
3 `Room` + 2, but there are never more than 2 `Room` + 2 under way (`UnderWay`, a part of `PairsSound`): messages come to be in the model only, and it takes a
control value each time it makes a report, if there is one, so that its own inbox fills only as the others drain. One temperature more is in its state. Hence
the assumption `BufSize > 2 * Room + 3`; the code meets it (`loop_buffer_sz` is 30, inboxes of 11: 30 > 25). It is tight: with inboxes of two places
TLC refutes `PairsSound` for a buffer of 7 and not for one of 8. A complete exploration of two control values at the code's own sizes, 11.5 million states, finds no violation either.
The value above `U_max` is sent once after the last point. The I and D terms of the PID never apply, as its history is
extended only when it is not empty (`pid_filter.hpp:100`); its correction is not modelled at all.

### SerialParsers

A stream of messages, cut into blocks anywhere, blocks lost anywhere, joined anywhere. A byte is its role and the number of
its message; delimiters of frames have two bytes, so that they can be cut. `Receiver` finds one frame per block and throws on
a frame of odd length, and on a queue of more than `MaxQueue` bytes (1e6 in the code), but only if it has both delimiters. As a block may bring more
than one frame (`board/main.cpp` sends 408 bytes, a block has up to 1024), the queue may pass the limit without a lost block; `HWStateTracker` takes the text to the first line end and keeps the rest with the line ends in it, so that lines
that end within one block are lost. The letter it looks for is `T`; the other one is `C` in the code and `G` in its header.

### NgSpice, ScpiClient, MidiPort, UdpFilters

`NgSpice`: the callbacks come from one thread, one after the other; a packet is the simulation, its points and how many points there were when it was put;
`produced` is the history of what ngspice has handed over; `locked` is the mutex that stays locked when `stof()` throws. `init_data.vectors`
grows with each simulation; a last packet may be empty, which the console device does not survive (`dev_proc`). `ScpiClient`: the loop at its three
places, the server, the trigger and a connection that breaks for good. The loop pulls one command per acquisition and ignores all
while it waits for the trigger. `MidiPort`: the callback runs from `openPort()` in the constructor on, and after `stop()`. `UdpFilters` are
operators; a block with less than one sample, for which `resize(len - 1)` throws, is not among their inputs.

## 3. What TLC checks

| Run | Instance | Shows |
|---|---|---|
| `base_node` | 2 WAIT producers of 3 messages, the owner, the node itself (DROP), Limit = 1 | `QueueBounded`, `NoLostWakeup`, `WakeupInv`, implements `Inbox`, `StopReturns`, `BlockedSenderReturns` |
| `pipeline` | split -> {filt, dev}, filt -> dev; 4 policy mixes; 2 messages; Limit = 1 | `EdgeFifo`, `WaitLosesNothing`, `EverythingArrives`, `DropShutdown`, `OrderedShutdown` |
| `pipeline_shutdown` | same | **violated**: `ShutdownCompletes` |
| `sync_join_uid` | the join of `sequential` | **violated**: `UidKept` |
| `async_source` | both kinds, Limit = 1, 3 reads, 2 foreign messages | `NothingStranded`, `BlocksContiguous`, `BlocksSentOn`, `StopReturns` |
| `async_source_port` | serial | **violated**: `PortGuarded` |
| `renderer` | 3 frames, 2 changes of size, the window destroyed at any moment | `BitmapOwned`, `NeverBackwards`, `FrameShown`, `CloseReturns` |
| `png_slicer_rubbish` | the slicer of `sequential` | **violated**: `NoRubbish` |
| `sequential` | samples of up to 6 doubles; messages of up to 9, 3 angles; spectra of up to 11 points; 3 sources, 3 uids, 3 arrivals each in any order, symmetry; images of 17, 28, 21 and 16 bytes, every cut into reads | `InterpolContract`, `CachesCurrent`, `IndexMaps`, `SetsBacked`, `JoinsExactly`, `NothingStale`, `CurrIsImage`, `SmoothIsSliced` |
| `interpol_axis` | a real interpolation | **violated**: `AxisKept` |
| `demos` | 3 control values, inboxes of 2, a loop buffer of 8, 1 kill; 4 messages in blocks of up to 7 bytes, 2 lost, a queue of 12; packets of 2 points; 5 frames, pipes of 2 units | `PairsSound`, `TableComplete`, `CalibrationEnds`, `StreamInOrder`, `StopReturns` |
| `receiver_queue` | 3 frames in blocks of up to 9 bytes, none lost, a queue of 12 | **violated**: `LongWithoutDelimiters` |

Each run also checks the `TypeOK` of its modules. `StreamInOrder` and `InterpolContract`, `CachesCurrent`, `IndexMaps` are conjunctions of the
properties stated in the modules, one for each component: `MessagesInOrder` and `FramesKept`, `PointsInOrder` and `RemainderLast`,
`EventsInOrder`, `InStep`, `NothingPending`, `StampsRestored` and `BytesUsedOnce`; `WorkspaceFits`, `EvaluatesInside` and
`RestoresGiven`; `StopsOnlyStale`, `MatrixCurrent` and `BuffersFit`; `ShiftsInvert`, `FrequenciesAgree`, `HilbertMirrors`, `DecompositionSplits`, `CleanupLosesNothing` and
`IndexesDistinct`. `StopReturns` of `demos` is that of `ScpiClient` with `FramesTaken` and `ScopeDestroyed` of `PlotPipes`, and with `MatrixIsRead` and `ListIsRead` of
`PlotMessages`: `PlotPipes` takes a frame to be read as a whole, which would be wrong of a text that left gnuplot waiting for data.

**Bounds.** `Limit` is 10 in the code and 1 here: two places, the least for which a full inbox can hold
messages of different senders. In `base_node` senders + 1 = 4 = 2 (Limit + 1), the tightest case the theorem
`NoWakeupIsLost` allows; with Limit = 0 TLC finds a lost wake-up, so the assumption is needed. Three
messages per producer fill the inbox and block both. In `pipeline` two fed messages become four at `dev`, twice
its inbox, and the STOPs come on top. In `async_source` three reads and two foreign messages overflow the inbox, so ACQUIREs
are dropped. In the join of `sequential` three sources and three uids allow a uid to be missing at one source, late at a second
and joined over at the third. In `renderer`
two changes of size let an `attach()` follow a `detach()` that followed an `attach()`, and three frames are one on each
bitmap and one in the device. Its images are shorter, as long as, and longer than the 7 bytes a search looks back, and
four of them let the slicer lose two in a row and recover. Its six doubles are three complex points, one more than GSL's
minimum, and seven points of an axis that is closed; nine samples let a DFrFT change between sizes of both parities above its minimum of four; the
index arithmetic depends on parity and on n mod 4, which eleven lengths cover more than twice. In `demos` inboxes of two places and
three control values are the least for which a stale message can meet the next point and both waiting edges of the circle can be full, a loop buffer of eight the shortest that is sound with them;
a queue of two frames is passed by four that come faster than one per block; a block of
seven bytes can hold the end of a frame, a whole one and the head of the next; five frames fill both pipes of a scope that reads nothing.

**Deadlock** is not checked by TLC as such (`CHECK_DEADLOCK FALSE`): all these systems stop when their bounded input is used up or the
owner has stopped them; a stream, a simulation or a walk through lengths comes to its end, and an exception ends a program. That nobody hangs is what the liveness properties say.

**Fairness.** Weak fairness for each step a thread can take outside `event.wait()`: threads are scheduled, handlers
return. Nobody is obliged to call `put()`, `stop()`, to feed, to quit, to wake spuriously or to deliver data. `AsyncSource`
needs strong fairness for the node's `lock()`, because a port that fails over and over lets the asio thread take the mutex
again and again; this is the usual assumption that a mutex serves a waiting thread at last. In `Renderer` each of the three threads is
scheduled; the user need not close the window, frames and new sizes need not come, and the message loop must end only once
`Window::terminate` is set. In `demos` the three nodes of the thermostat, the loop of the SCPI client and its server, and the
threads of a scope and gnuplot get weak fairness; the trigger need not come and the connection need not hold, and nobody has to draw, close or kill. `StopReturns` of the SCPI client
therefore speaks of behaviours in which the client does not wait for a trigger for ever.

**Starvation.** The producers of `base_node` send finitely many messages. `StopReturns` and `BlockedSenderReturns` find lost wake-ups; a sender that is overtaken
for ever by others who never stop is not among the behaviours, and the code, whose condition variable has no queue, does not exclude it.

## 4. What the violated properties show

* `ShutdownCompletes`. `main_loop()` clears the inbox at its end without a notify (`base_node.hpp:169`). A WAIT
  sender asleep at that inbox stays asleep; when the factory's destructor reaches the sender, its STOP is never handled and
  `join()` hangs. Tutorial 01 (`01_core.cpp:128`) promises the opposite for WAIT nodes. `DropShutdown` and `OrderedShutdown` show
  when the promise does hold: no WAIT nodes, or senders stopped before their receivers.
* `UidKept`. `BaseSyncJoin` gives the uid to the result of one `func_join()` call and sends the result of another
  (`base_sync_join.hpp:138`), contrary to the comment at 130.
* `PortGuarded`. The asio thread tests and uses the serial port without `asio_async_mtx` (`src_serial.hpp:118`), the mutex that is
  "needed to sync data access"; at shutdown it may use a pointer that has been reset.

* `NoRubbish`. The slicer looks only 7 bytes back from what a read has brought (`plotscope.cpp:145`) and does not search
  the foot in the read that brings the head. A read with the end of one image and the head of the next loses the next one; its
  bytes are erased by the two branches whose messages say that this never happens. `CurrIsImage` and `SmoothIsSliced` show that this is
  the worst: nothing broken is stored, and the next image that is not cut roughly is found.
* `AxisKept`. `set_data(y, x)`, `set_periodic()`, `set_data(y2)` with as many samples leaves a uniform axis without a period, against
  `i_interpol.h:51-55` and 80-83: the code compares with the axis that `set_periodic()` has closed (`gsl_1d_interpol.cpp:72`).
* `LongWithoutDelimiters`. The Receiver's test of 1e6 bytes stands in the branch that has found both delimiters (`host/main.cpp:55`): it throws
  "1 Mb of data received without delimiters" when frames come faster than one per block, and without delimiters its queue grows on.

## 5. What is proved

Every safety property of the passing runs is a theorem, for every value of the constants within the named assumptions: every set of
producers, graph and policy mix, every inbox limit, size, capacity and bound.

* **Node** (`BaseNodeProofs`). `TypeCorrect`, `InboxBound`: types and `QueueBounded`.
  `NoWakeupIsLost`, `EnoughWoken`, under `FewSenders`: the node sends to itself only with DROP and there are at most
  2 (Limit + 1) - 1 other senders, 21 with the code's limit. The inductive invariant is `WakeInv`: `Sleepers` (who can be
  asleep at all) and `WakeupInv`. `NoLostWakeup` alone is not inductive: a wake-up may be spent on another sender, so one has
  to *count*. While the node is awake, sleeping senders mean that messages plus woken senders make up a full inbox; once the node
  sleeps, at least Limit + 1 senders are woken, and more than the inbox holds are awake.
  `NodeImplementsInbox`: every step of a node is a step of `Inbox` or stutters. The invariant `FifoInv` behind it keeps the numbers of
  each sender increasing through `taken` and `in`, and ties STOP to the end of the loop.
* **Graph** (`PipelineProofs`). `PipelineTypeCorrect` in every graph. `EdgesAreFifo`, in every graph that lists no target twice (`TargetsOnce`)
  and in which a node that sends on is fed by one other (`OneFeeder`). The last is needed: the uid of a message is that of the one
  it was made from, so a filter that is fed on two ways sends each uid twice. That is the graph a `BaseSyncJoin` is made for. The
  invariant is `FlowInv`: `TodoInv` (what is left to be served is a part of the targets, and the put in progress is not of it), `FeedInv` (the
  same for the program), `SentInv` (what has arrived was passed on by its sender) and `OrderInv` (it arrived with growing uids, and what is
  being put is newer). `WaitIsLossless` needs only `TargetsOnce`: `RunInv`, that a node in its loop is running, so that no put to it
  is refused, and `CountInv`: what a target has got and what is in its sender's hands are together as many as its sender has passed on.
* **Join** (`SyncJoinProofs`, stated of the run's specification in `SequentialProofs`). `SearchEnds`, `JoinIsExact`, `NothingStays`, the last two for a non-empty set of sources. The
  first step is that a uid in a queue has a first place there (`FirstFound`; the library's induction cannot be used, so it is
  got from the well-founded inclusion of the intervals `1 .. n`). `Ordered` is the core of the invariant: with FIFO channels whatever has
  arrived is still queued, or not newer than a joined message, and whatever has arrived everywhere is joined. That rests on `NoneComplete`:
  between two messages no uid is complete.
* **Asynchronous sources** (`AsyncSourceProofs`). `SourceTypeCorrect`, `NoBlockStranded`, `NoBlockLost`: from who holds the mutex, when the asio
  thread lives, and that blocks and what was sent are numbered through.
* **Window** (`RendererProofs`). `RendererTypeCorrect`, `BitmapHasOneUser`, `DisplayNeverBackwards`, without a hypothesis about when the program
  destroys the window. The invariant `FlagInv` says what `update_req` and the places of both threads have to do with each other and with the existence of
  the bitmaps; `ProgramInv`, that a program which has left its loop finds the window's thread dead, unless it left early;
  `OrderInv`, that the frames on display,
  video bitmap, memory bitmap, in the drawer and in the device follow each other in this order.
* **PNG slicer** (`PngSlicerProofs`, stated of the run's specification in `SequentialProofs`), for images of every size. `SlicedIsWhole`, `SmoothIsNeverMissed`. The places of the images are
  a recursive function; that they follow each other without overlap is got from a least counterexample. The invariant is `SlicerInv`, with
  `AtImage` at its core: between two reads `part_png` begins where an image begins (or at the end of them all), and when a head was found it is that
  image's. `SmoothIsSliced` follows: a smooth image that comes in finds the slicer with a head at or before it.
* **DSP** (`SequentialProofs`, with `SequentialTypeCorrect` for the whole run). `InterpolKeepsContract`, for samples of every size: `AxisInv` (a period is the place of the last
  point), `IntervalInv`, `GivenInv` (axis, samples and period are those the calls gave unless there was one that strayed, with one point more when they were closed) and `WorkspaceFits`; that
  `evaluate()` looks nothing up outside the data follows because an argument is reduced by whole periods.
  `TablesAreCurrent`, for messages of every size and every set of angles: `TypeOK` and `CachesCurrent` of `Transforms` are inductive together.
  Class DFT needs no history (`PreparedFits`: after the check every table has the size of the message); the DFrFT does: a matrix that
  no command has invalidated has the angle asked for, and one of another size is the only way to end in `dfrft()`. `IndexMapsAgree`, for every
  length: the two roundings of the middle make up the length, a sum of two indexes is reduced once or not at all, a row of the even-odd
  matrix has one element or two, and the blocks that `create_basis()` clears are zero because the starting matrix is mirrored.
* **Demos** (`DemosProofs`). `DemosTypeCorrect`. `CalibrationIsSound` and `TableIsWhole`, for sizes that the code's meet. `PairsSound` needs the bound on what is under way, and an
  account of what is under way round the circle: either the model has not got the control value (`NotArrived`) and a value is still under
  way for every report in the loop buffer; or it has (`HasArrived`), and what the buffer and the monitor's inbox hold of the old temperature is too little to
  fill the buffer. `PeersKeepStep`: `MidiInv`, `ScpiInv` and `PipesInv`. `PacketsInOrder`: `NgInv`. `MessagesAreWhole`: `PaInv`, by which what the
  parser keeps lies in the stream with gaps that are counted (`Placed`), what it has recognised came from the bytes before (`Told`), and each frame that is not
  in the queue was recognised (`Kept`). `EverythingInOrder` is `StreamInOrder`: these three, and that whoever adds up the differences of
  time stamps has the stamps, also when the counter wraps.

**What this rests on.** The named `ASSUME`s of the modules and of `MCSequential` and `MCDemos`: constants are numbers, sets are finite,
what must not be empty is not, and `BufSize > 2 * Room + 3`, see Thermostat. Beyond them, as hypotheses of single theorems: `FewSenders`, `TargetsOnce`, `OneFeeder` and a join with a source.
The theorems about `MCSequential` and `MCDemos` are about all the modules in them, as each behaviour
runs one part and leaves the others alone.

**What is only model-checked.** All liveness properties, which are out of the prover's reach; among them `BlocksSentOn`, `FrameShown`, `EverythingArrives` and the
shutdown properties, which need fairness. With `StopReturns` of `demos` TLC checks `MatrixIsRead` and `ListIsRead`: gnuplot's texts are put together by a fold, and what a fold
computes needs induction over data. The violated properties are refuted by TLC and have no theorem.

## 6. Plan

Done: all modules above and the theorems of section 5. Next:

1. A safety theorem behind each liveness property: the state in which a thread waits for ever is unreachable (as `NoWakeupIsLost` is for `StopReturns`), first for the circle of the thermostat.
2. The hazards that have no property yet, listed with their reasons in `PROJECT.json`.

### Not modelled

* Floating-point results: the sums of `dft_periodic`, `dfrft_gsl` and `analytic_num_ft`, eigenvectors, the PID's correction, physics of the Peltier element.
* `dfrft_cublas.cpp`: needs CUDA, is unfinished and used by nothing. `net_cdf.cpp`: commented out of the build.
* `PeltierHardwareFilter`: only in builds with `EXPERIMENT`.
* Drawing, decoding of images, keys and mouse of the scopes, printing of messages.
* The `main()` functions in `executables/tutorial` and `branches` beyond their wiring, which the instances of `Pipeline`, `SyncJoin` and `Renderer` follow,
  and the build files in `modules/`.
* `NodeFactory`'s random uids (any order of stopping is allowed instead); null results of user functions; calls of `set_target()` while messages flow.
