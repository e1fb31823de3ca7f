SPECIFICATION Ps2Spec
CONSTANT ATTEMPTS = 3
INVARIANT KeyboardSurvives
CHECK_DEADLOCK FALSE
