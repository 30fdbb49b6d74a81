CONSTANTS
  Setups <- AllSetups
  Retargets <- OtherContainers
  Names <- Strings
  Variables <- NewVariables
  BackupDir <- Directories
  MaxEdits = 3
SPECIFICATION Spec
INVARIANTS RoundTrip PathsAreFound PodIsAccepted
CHECK_DEADLOCK FALSE
