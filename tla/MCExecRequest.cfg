SPECIFICATION Spec
CONSTANT Req = {x1}
INVARIANT ZeroMeansDone
CHECK_DEADLOCK FALSE
