CONSTANT MaxRuns = 4
SPECIFICATION RunnerSpec
INVARIANTS AslrOffWhileRunning ResultsOfThisRun
CHECK_DEADLOCK FALSE
