CONSTANTS
  Settings <- MCSettings
  Kind <- MCKind
  Default <- MCDefault
  Written <- MCWritten
  Order <- MCOrder
  Setters = {"a"}
  DockerMode = FALSE
SPECIFICATION ConfigSpec
INVARIANT SettingsAsDemanded
CHECK_DEADLOCK FALSE
