\* A write and a reader may fail; no more processors than NumFileProcessors.
\* The system may really stop for ever: see MCTilingHang.cfg.
SPECIFICATION FairSpec
CONSTANTS
    p1 = p1  p2 = p2  p3 = p3  w1 = w1  w2 = w2
    k1 = k1  k2 = k2  k3 = k3  scratch = scratch
    Procs <- Procs2
    Writers <- Writers2
    Keys <- Keys2
    Scratch <- scratch
    MaxBuffers = 3
    NumFileProcessors = 2
    BufPoints = 2
    NumFiles = 2
    MaxPoints = 3
    MaxWriteErrors = 1
    MaxReadErrors = 1
INVARIANTS SuccessIsComplete
PROPERTIES ServedUnlessWriteFails
CHECK_DEADLOCK FALSE
