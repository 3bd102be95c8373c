CONSTANTS
  Configs <- VersionSeven
  Clouds <- CloudNames
  UserKeys = {"k1"}
  MaxStarts = 2
SPECIFICATION ConfigSpec
CHECK_DEADLOCK FALSE
INVARIANT MigratedAreAliases
