\* The example programs, and applications that may wait or not, in two lives.
SPECIFICATION FairSpec
CONSTANTS
    Tasks <- MCTasks
    Transfers <- MCTransfers
    Commands <- MCCommands
    Labels <- MCLabels
    Programs <- MCPrograms
    FreeCalls <- MCFreeCalls
    MaxLives = 2
    MaxTimers = 3
INVARIANTS TypeOK Defined TraceExact
PROPERTIES OwnDomain ExampleEnds
CHECK_DEADLOCK FALSE
