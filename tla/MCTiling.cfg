\* Three processors, so that two can sleep while a third one takes a buffer, and two
\* writer threads; every safety property, and the abstract specification.
SPECIFICATION Spec
CONSTANTS
    p1 = p1  p2 = p2  p3 = p3  w1 = w1  w2 = w2
    k1 = k1  k2 = k2  k3 = k3  scratch = scratch
    Procs <- Procs3
    Writers <- Writers2
    Keys <- Keys2
    Scratch <- scratch
    MaxBuffers = 4
    NumFileProcessors = 3
    BufPoints = 2
    NumFiles = 3
    MaxPoints = 4
    MaxWriteErrors = 0
    MaxReadErrors = 0
SYMMETRY Symmetric
INVARIANTS
    TypeOK BufferConservation OneWriterPerFile SourceCellKept
    NoLostBufferWakeup NoLostWriterWakeup StopDrains
PROPERTIES
    ImplementsTileStore
