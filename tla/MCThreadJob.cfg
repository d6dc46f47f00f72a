CONSTANT Runs <- MCRuns
SPECIFICATION Spec
CHECK_DEADLOCK FALSE
INVARIANT Outcome
PROPERTY Terminates
