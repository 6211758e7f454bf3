\* A failed write may leave a processor waiting for a buffer for ever.
SPECIFICATION FairSpec
CONSTANTS
    p1 = p1  p2 = p2  p3 = p3  w1 = w1  w2 = w2
    k1 = k1  k2 = k2  k3 = k3  scratch = scratch
    Procs <- Procs2
    Writers <- Writers1
    Keys <- Keys1
    Scratch <- scratch
    MaxBuffers = 3
    NumFileProcessors = 2
    BufPoints = 1
    NumFiles = 2
    MaxPoints = 4
    MaxWriteErrors = 1
    MaxReadErrors = 0
PROPERTIES Termination
CHECK_DEADLOCK FALSE
