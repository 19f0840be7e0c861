SPECIFICATION Spec
CONSTANTS
    IPs <- MCIPs
    IPv4 <- MCIPv4
    Names <- MCNames
    Files <- MCFiles
    Lines <- MCLines
    NameLists <- MCNameLists
    Widths <- MCWidths
    MaxOps = 3
CHECK_DEADLOCK FALSE
 
PROPERTIES AddOnlyAdds  CleanNormal PairsKept ResolutionKept 
