\* Scripts, the raw debugger and ROM files, with a user who resets the console.
CONSTANTS
  Base = 256
  CpuCells <- SomeCpuCells
  PpuCells <- SomePpuCells
  CpuCell <- SameCell
  PpuCell <- SameCell
  MaxCount = 6
  CpuResults = {3}
  MaxDepth = 3
  Menu = {"LoadRom", "RawDebug", "TestScripts"}
  Junk = {1}
  MaxLine = 4
  RawTexts <- SomeTexts
  Roms <- SomeRoms
  BlockSize = 2
  PrgBank = 4
  ChrBank = 2
  MaxStarts = 1
  Addrs = {32768}
  Counts = {1}
  Tables <- SomeTables
  RegSels = {2}
  Values = {3}
  AsmFiles <- SomeAsmFiles
  MaxScripts = 1
  Faults = {"reset"}
SPECIFICATION HostSpec
INVARIANTS AnswersBelong InStep
PROPERTIES RomRuns
