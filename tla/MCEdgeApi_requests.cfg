SPECIFICATION FairSpec
CONSTANTS
    Me = "me"
    Macs <- MCMacs
    Desc <- MCDesc
    Requests = {1, 2}
    Lossy = TRUE
    Plans <- MCPlans
    None = None
CHECK_DEADLOCK FALSE
INVARIANTS   FreshWhenAlone 
PROPERTIES GraphsAnswered 
