SPECIFICATION Spec
CONSTANTS
  Requests = {r1, r2}
  MaxUrls = 1
INVARIANT ArmedFilesExist
CHECK_DEADLOCK FALSE
