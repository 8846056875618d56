SPECIFICATION Spec
CONSTANTS
    N = 2
    NRcpt = 2
    Dns <- MCDns
    Aggressive = TRUE
    None = None
CHECK_DEADLOCK FALSE
INVARIANTS WithinContract OnceUnlessLost AddressesTried
PROPERTIES Ends
