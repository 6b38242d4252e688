CONSTANTS
  ClkPhases = 3
  SamplePhase = 2
  HoldPhases = {1, 2}
  Scenes <- SomeScenes
  Background <- SomeBackground
SPECIFICATION Spec
PROPERTIES ImplementsIsa StoresFollowReads
