\* Three control values and inboxes of two places, hence a buffer of eight
\* temperatures; four messages on the serial line, two lost blocks, a queue of
\* two frames; packets of two points; a counter that wraps at five; pipes of two
\* units and images of two.
CONSTANTS
  Steps = 2
  BufSize = 8
  ThermostatRoom = 2
  MaxKills = 1
  Messages = 4
  MaxBlock = 7
  MaxQueue = 12
  MaxLost = 2
  Slice = 2
  MaxPoints = 5
  MaxRuns = 2
  ScpiRoom = 3
  MaxPorts = 2
  MaxEvents = 4
  Wrap = 5
  MaxSamples = 3
  PipeRoom = 2
  Image = 2
  MaxFrames = 5
SPECIFICATION Spec
INVARIANTS
  TypeOK
  
  
  StreamInOrder
PROPERTIES
  CalibrationEnds
  StopReturns
\* A simulation, a stream and a list of events come to an end.
CHECK_DEADLOCK FALSE
