SPECIFICATION FairSpec
CONSTANTS
    MaxLost = 2
    MaxDisturbed = 3
    MaxStarts = 2
CHECK_DEADLOCK FALSE
INVARIANTS ExchangeInFlight
PROPERTY RecoveredUnlessInterrupted
