CONSTANTS
  Base = 256
  FifoDepth = 8
  PpuCtrl = 8192
  ClkPhases = 4
  SamplePhase = 2
  LastByte = 3
  Instructions <- PictureProgram
  HostPackets <- Session
  HostBreaks = TRUE
SPECIFICATION BusSpec
INVARIANTS PpuObeysOnce
PROPERTIES PpuDisableTakesEffect
