CONSTANTS
  ChrByte <- Chr
  CiramByte <- Ciram
  Vertical = FALSE
  CycleClks = 2
  Accesses <- Program
  MaxRun = 2
  MayCross = FALSE
SPECIFICATION Spec
PROPERTIES ImplementsVideoPort
