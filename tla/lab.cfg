SPECIFICATION FairSpec
CONSTANTS
    Nodes = {1, 2}
    Sessions = {1, 2}
    Setups <- MCSetups
    MaxFired = 1
    MaxInjected = 1
    MaxRounds = 1
INVARIANTS TypeOK ExchangedBothWays
PROPERTIES EventuallyQuiesced
CHECK_DEADLOCK FALSE
