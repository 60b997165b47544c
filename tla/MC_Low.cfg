SPECIFICATION Spec
CONSTANTS
  Defs <- ThreeDefs
  FileOf <- OneFile
  Habits <- Texts
  None = None
  All = All
INVARIANTS ProgramIsCurrent InferenceIsCurrent PlacesAreCurrent
