CONSTANTS
  Base = 256
  FifoDepth = 8
  PpuCtrl = 8192
  ClkPhases = 4
  SamplePhase = 2
  LastByte = 3
  Instructions <- StoppedProgram
  HostPackets <- Run
  HostBreaks = TRUE
SPECIFICATION BusSpec
INVARIANTS CpuReadsOwnAddress OneCopyPerWrite HltBreaksOnce
PROPERTIES DmaCopiesPage CpuProceeds
