SPECIFICATION Spec
CONSTANTS
  Name <- MCName
  Files <- MCFiles
CHECK_DEADLOCK FALSE
INVARIANTS IdIsIndex OnlyOptionalTouched OptionalIsReachable
PROPERTIES MeaningStays
