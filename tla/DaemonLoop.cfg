SPECIFICATION Spec
CONSTANTS
    None = None
    Host = {"h1"}
    Msg = {"m1", "m3"}
    Unexpanded = "unexpanded"
    HostOf <- MCHostOf
    MinWait = 2
    MaxWait = 2
    PuntRules = {}
    QueueWait <- MCQueueWait
    JailSeconds = 1
    MailJail = TRUE
    Jails = {"PRISONER"}
    MaxLag = 0
    MaxJailed = 2
    Pid = {1, 2}
    Ip = {"i1"}
    MaxEvents = 2
    MaxMail = 1
    HqCommands <- MCCommands
    LocalMax = 1
    SlowMax = 1
    LaunchLimit = 0
    DiskEntries = 2
    CommandEntries = 1
    WorkTime = 1
    UnexpandedTime = 1
    ThrottleSec = 0
CHECK_DEADLOCK FALSE
INVARIANTS CountersAgree
PROPERTIES SignalsHeeded MailTried
