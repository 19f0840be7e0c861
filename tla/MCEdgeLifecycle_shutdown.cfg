SPECIFICATION FairSpec
CONSTANTS
    Conns = {c1}
    Early = {heartbeat}
    Late = {infos}
CHECK_DEADLOCK FALSE
INVARIANTS CleanExit StopIsComplete NoUseAfterClose  PanicAfterRun
 
