SPECIFICATION Spec
CONSTANT MaxLines = 2
INVARIANT TextFollowsOptions
CHECK_DEADLOCK FALSE
