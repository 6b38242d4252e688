CONSTANTS
  Base = 16
  FifoDepth = 4
  PpuCtrl = 32
  TickClks = 12
  TxTicks = 1
  RxGaps = {1, 2}
  RamSize = 2
  VramSize = 2
  RegSels = {2, 6}
  Packets <- SomePackets
SPECIFICATION LinkSpec
INVARIANTS AnswersMatch BuffersKeepUp FlagsHonest StopBelieved
PROPERTIES GuardedSendsAccepted EveryPacketCompletes ImplementsConsole
