CONSTANTS
    Inputs <- StartInputs
    Durations <- StartDurations
    Numbers <- MCNumbers
    Words <- AnyWord
    Subcommands <- AllSubcommands
    NotPositive <- StartNever
    StartLines = 5
SPECIFICATION StartSpec
INVARIANTS
    ConfigTypeOK
    DevicesAsWritten
    NotifiersAsWritten
    
    PollsTheFile
    OpenIsPolled
CHECK_DEADLOCK FALSE
