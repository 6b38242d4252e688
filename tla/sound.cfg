CONSTANTS
  Marks <- ShortSequence
  LowBits = 2
  HighBits = 1
  Lowest = 2
  NoiseBits = 5
  NoiseTap = 3
  NoisePeriods <- ShortPeriods
  CycleClks = 2
  Scenes <- AllScenes
  MaxWrites = 2
  Held = TRUE
SPECIFICATION Spec
INVARIANTS QuartersAlternate EnvelopeDecays NoiseNeverDies
PROPERTIES SweepGoesOneWay NoClicks NotesEnd
