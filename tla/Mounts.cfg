CONSTANTS
  Setups <- OneContainer
  Retargets <- OtherContainers
  Names <- Strings
  Variables <- NewVariables
  BackupDir <- Directories
  MaxEdits = 0
SPECIFICATION Spec
INVARIANT MountedInSidecar
CHECK_DEADLOCK FALSE
