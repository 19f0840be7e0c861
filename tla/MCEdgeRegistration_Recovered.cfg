SPECIFICATION UdpSpec
CONSTANTS
    MaxLost = 0
    MaxDisturbed = 2
    MaxStarts = 1
CHECK_DEADLOCK FALSE
PROPERTY Recovered
