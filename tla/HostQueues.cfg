SPECIFICATION HqSpec
CONSTANTS
    None = None
    Host = {"h1", "h2"}
    Msg = {"m1", "m2", "m3"}
    Unexpanded = "unexpanded"
    HostOf <- MCHostOf
    MinWait = 1
    MaxWait = 2
    PuntRules = {"h2"}
    QueueWait <- MCQueueWait
    JailSeconds = 2
    MailJail = TRUE
    Jails = {"PAROLEE"}
    MaxLag = 0
    HqCommands <- MCCommands
    MaxJailed = 2
CHECK_DEADLOCK FALSE
INVARIANTS LaunchListSound TrapOnlyWithoutWait
