CONSTANTS
  MaxDumps = 3
  SendMayFail = FALSE
SPECIFICATION Spec
PROPERTY UprightIsNotDumped
