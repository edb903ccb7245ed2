SPECIFICATION Spec
CONSTANTS
    MaxRESPDepth = 2
    Commands <- MCCommands
    Answers <- MCAnswers
    MaxWrites = 3
CHECK_DEADLOCK FALSE
INVARIANTS
    IntactFirst
    ReadsWhatIsComplete
