CONSTANTS
  Settings <- MCSettings
  Kind <- MCKind
  Default <- MCDefault
  Written <- MCWritten
  Order <- MCOrder
  Setters = {"a", "b"}
  DockerMode = FALSE
SPECIFICATION ConfigSpec
 
PROPERTY SetTakesEffect
PROPERTY SetKeepsOthers
CHECK_DEADLOCK FALSE
