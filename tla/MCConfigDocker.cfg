CONSTANTS
  Settings <- MCSettings
  Kind <- MCKind
  Default <- MCDefault
  Written <- MCWritten
  Order <- MCOrder
  Setters = {"a"}
  DockerMode = TRUE
SPECIFICATION ConfigSpec
PROPERTY SetTakesEffect
CHECK_DEADLOCK FALSE
