CONSTANT Jobs <- MCJobs
SPECIFICATION Spec
CHECK_DEADLOCK FALSE
INVARIANTS TypeOK Outcome SeparatorSplits CollectivesAgree TasksConserved DeadlockIsCertain
PROPERTY Terminates
