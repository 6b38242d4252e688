\* Sessions of scripts: two to a run, and runs behind the boxes of others.  The
\* program may be killed and started again, and the console reset.
CONSTANTS
  Base = 256
  CpuCells = {1}
  PpuCells = {1}
  CpuCell <- SameCell
  PpuCell <- SameCell
  MaxCount = 4
  CpuResults = {3}
  MaxDepth = 6
  Menu = {"TestScripts"}
  Junk = {0, 1}
  MaxLine = 2
  RawTexts = {}
  Roms = {}
  BlockSize = 2
  PrgBank = 4
  ChrBank = 2
  MaxStarts = 1
  Addrs = {}
  Counts = {}
  Tables = {}
  RegSels = {2}
  Values = {3}
  AsmFiles = {}
  MaxScripts = 2
  Faults = {"kill", "reset"}
SPECIFICATION ScriptsSpec
INVARIANTS TallyAddsUp
PROPERTIES WaitEndsHalted RunsEnd RefusalMeansLost
CHECK_DEADLOCK FALSE
