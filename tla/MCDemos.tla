------------------------------ MODULE MCDemos ------------------------------
(* The demonstration programs, the MIDI source and what goes between a      *)
(* PlotScope and gnuplot, for TLC.  A behaviour is that of one of them; the *)
(* variables of the others keep their initial values.                       *)
EXTENDS Integers, Sequences

CONSTANTS Steps, BufSize, ThermostatRoom, MaxKills,
          Messages, MaxBlock, MaxQueue, MaxLost,
          Slice, MaxPoints, MaxRuns,
          ScpiRoom,
          MaxPorts, MaxEvents,
          Wrap, MaxSamples,
          PipeRoom, Image, MaxFrames

VARIABLES part,
          monIn, pidIn, modIn, monPut, pidPut, E, T, mode, val, run, measured, file, kills,
          parser, pos, buffer, seen, lost, threw,
          thread, is_loaded, vectors, produced, out_msg, packets, locked,
          pc, inbox, stop, requests_pending, line, requests, replies, trigger, link, asked,
          node, opened, uid, next, events, put,
          block,
          at, drawer, frames, stdin, pipes, gnuplot, io, armed, handler, stopped, fits

Th == INSTANCE Thermostat WITH Room <- ThermostatRoom
Pa == INSTANCE SerialParsers
Ng == INSTANCE NgSpice
Sc == INSTANCE ScpiClient WITH Room <- ScpiRoom
Mi == INSTANCE MidiPort
Ud == INSTANCE UdpFilters
Pl == INSTANCE PlotPipes WITH Room <- PipeRoom, pc <- at
Ms == INSTANCE PlotMessages

thVars == <<monIn, pidIn, modIn, monPut, pidPut, E, T, mode, val, run, measured, file, kills>>
paVars == <<parser, pos, buffer, seen, lost, threw>>
ngVars == <<thread, is_loaded, vectors, produced, out_msg, packets, locked>>
scVars == <<pc, inbox, stop, requests_pending, line, requests, replies, trigger, link, asked>>
miVars == <<node, opened, uid, next, events, put>>
plVars == <<at, drawer, frames, stdin, pipes, gnuplot, io, armed, handler, stopped, fits>>
all    == <<part, thVars, paVars, ngVars, scVars, miVars, plVars, block>>

ASSUME DemosAssumption ==
  /\ Th!ThermostatAssumption /\ Pa!SerialParsersAssumption /\ Ng!NgSpiceAssumption
  /\ Sc!ScpiClientAssumption /\ Mi!MidiPortAssumption /\ Pl!PlotPipesAssumption
  /\ Ud!UdpFiltersAssumption

Init ==
  /\ part \in {"thermostat", "parsers", "ngspice", "scpi", "midi", "udp", "plot"}
  /\ Th!Init /\ Pa!Init /\ Ng!Init /\ Sc!Init /\ Mi!Init /\ Pl!Init
  /\ part # "parsers" => parser = "Receiver" /\ pos = 0
  /\ part # "scpi" => link = "up"
  /\ block \in IF part = "udp" THEN Ud!Blocks ELSE {<<>>}

Thermostat == part = "thermostat" /\ Th!Next /\ UNCHANGED <<part, paVars, ngVars, scVars, miVars, plVars, block>>
Parsers    == part = "parsers"    /\ Pa!Next /\ UNCHANGED <<part, thVars, ngVars, scVars, miVars, plVars, block>>
NgSpice    == part = "ngspice"    /\ Ng!Next /\ UNCHANGED <<part, thVars, paVars, scVars, miVars, plVars, block>>
Scpi       == part = "scpi"       /\ Sc!Next /\ UNCHANGED <<part, thVars, paVars, ngVars, miVars, plVars, block>>
Midi       == part = "midi"       /\ Mi!Next /\ UNCHANGED <<part, thVars, paVars, ngVars, scVars, plVars, block>>
Plot       == part = "plot"       /\ Pl!Next /\ UNCHANGED <<part, thVars, paVars, ngVars, scVars, miVars, block>>

Next == Thermostat \/ Parsers \/ NgSpice \/ Scpi \/ Midi \/ Plot

(* The fairness of each part asks nothing of the behaviours of the others.  *)
Others      == UNCHANGED <<part, paVars, ngVars, miVars, block>>
FairModel   == part = "thermostat" /\ Th!Model /\ Others /\ UNCHANGED <<scVars, plVars>>
FairMonitor == part = "thermostat" /\ Th!Monitor /\ Others /\ UNCHANGED <<scVars, plVars>>
FairPid     == part = "thermostat" /\ Th!Pid /\ Others /\ UNCHANGED <<scVars, plVars>>
FairLoop    == part = "scpi" /\ Sc!Loop /\ Others /\ UNCHANGED <<thVars, plVars>>
FairServe   == part = "scpi" /\ Sc!Serve /\ Others /\ UNCHANGED <<thVars, plVars>>
FairProgram == part = "plot" /\ Pl!Program /\ Others /\ UNCHANGED <<thVars, scVars>>
FairPush    == part = "plot" /\ Pl!Push /\ Others /\ UNCHANGED <<thVars, scVars>>
FairAsio    == part = "plot" /\ Pl!Asio /\ Others /\ UNCHANGED <<thVars, scVars>>
FairGnuplot == part = "plot" /\ Pl!Gnuplot /\ Others /\ UNCHANGED <<thVars, scVars>>

Spec ==
  /\ Init /\ [][Next]_all
  /\ WF_all(FairModel) /\ WF_all(FairMonitor) /\ WF_all(FairPid)
  /\ WF_all(FairLoop) /\ WF_all(FairServe)
  /\ WF_all(FairProgram) /\ WF_all(FairPush) /\ WF_all(FairAsio) /\ WF_all(FairGnuplot)

TypeOK == Th!TypeOK /\ Pa!TypeOK /\ Ng!TypeOK /\ Sc!TypeOK /\ Mi!TypeOK /\ Pl!TypeOK

(* See Thermostat.                                                          *)
PairsSound      == Th!PairsSound
TableComplete   == Th!TableComplete
CalibrationEnds == part = "thermostat" => Th!CalibrationEnds

(* What comes in blocks, packets or events arrives whole and in order, and  *)
(* what is lost is what the code says: see SerialParsers, NgSpice, MidiPort,*)
(* UdpFilters, ScpiClient and PlotPipes.                                    *)
StreamInOrder ==
  /\ Pa!MessagesInOrder /\ Pa!FramesKept
  /\ Ng!PointsInOrder /\ Ng!RemainderLast
  /\ Mi!EventsInOrder
  /\ Sc!InStep
  /\ Pl!NothingPending
  /\ part = "udp" => Ud!StampsRestored(block) /\ \A n \in 0 .. 9 : Ud!BytesUsedOnce(n)

(* What is asked to end ends but in the cases that ScpiClient and PlotPipes *)
(* name. For a scope that takes gnuplot to be at its prompt behind every    *)
(* frame, as the texts leave it: a text cut short would have it wait for    *)
(* data, and read quit as such.                                             *)
StopReturns ==
  /\ Sc!StopReturns /\ Pl!FramesTaken /\ Pl!ScopeDestroyed
  /\ [](part = "plot" /\ at = "thread" => Ms!MatrixIsRead /\ Ms!ListIsRead)

=============================================================================
