SPECIFICATION FairSpec
CONSTANTS
    Callers = {rd, wr}
    Events = {e1, e2, e3, e4}
    IPs = {i, j}
    MaxAttempts = 1
    Budgets <- MCBudgets
    None = None
INVARIANTS  NothingStaysOpen  MacCurrent
PROPERTY CloseUnblocks
