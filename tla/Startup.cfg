CONSTANTS
  NoneValue = None
  BadLine = BadLine
  NoAccess = NoAccess
  None = None
  Malformed = BadLine
  Unreadable = NoAccess
  Shells <- MCShells
  DotEnvs <- MCDotEnvs
  CommandLines <- MCCommandLines
  Disks <- MCDisks
SPECIFICATION Spec
INVARIANTS
  SettingsRanked
  ExecutionOptedIn
  NoFileIsMinimalFile
  OverridesKeepItValid
