\* All kinds of command lines, ten loops (one to warm up), both builds; up to
\* three kinds of accidents in a run.
SPECIFICATION FairSpec
CONSTANTS
    Commands <- MCCommands
    Builds = {TRUE, FALSE}
    LOOPS = 10
    MEM_SIZES <- MCMemSizes
    CREATE_LOOPS = 3
    MAX_FAULTS = 3
INVARIANTS HandleValid NothingOutlivesMain LinesMeanWhatTheySay
PROPERTY Terminates
