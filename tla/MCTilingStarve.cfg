\* One more processor than NumFileProcessors: they may all wait for a buffer for ever.
SPECIFICATION FairSpec
CONSTANTS
    p1 = p1  p2 = p2  p3 = p3  w1 = w1  w2 = w2
    k1 = k1  k2 = k2  k3 = k3  scratch = scratch
    Procs <- Procs2
    Writers <- Writers1
    Keys <- Keys2
    Scratch <- scratch
    MaxBuffers = 3
    NumFileProcessors = 1
    BufPoints = 2
    NumFiles = 2
    MaxPoints = 6
    MaxWriteErrors = 0
    MaxReadErrors = 0
PROPERTIES EveryClaimIsServed
CHECK_DEADLOCK FALSE
