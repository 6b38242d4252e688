CONSTANTS
  Base = 256
  FifoDepth = 8
  PpuCtrl = 8192
  ClkPhases = 4
  SamplePhase = 2
  LastByte = 3
  Instructions <- IndexedProgram
  HostPackets <- Run
  HostBreaks = FALSE
SPECIFICATION BusSpec
INVARIANTS PpuSeesWrites
