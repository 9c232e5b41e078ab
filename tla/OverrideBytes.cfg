SPECIFICATION Spec
CONSTANTS
  Versions <- MCVersions
  None = None
  TargetTemperatures <- MCTemperatures
  Times <- MCTimes
  Frames <- MCFrames
  Combinations <- MCCombinations
PROPERTIES
  OnlyOverriddenChanges
  SelectedIsShown
  TimeIsShown
  ImplementsOverrides
