\* An unbounded queue to which two clients add, or one of length 1 with its owner alone.
SPECIFICATION FairSpec
CONSTANTS
    w1 = w1  w2 = w2  owner = owner  c2 = c2
    t1 = t1  t2 = t2  t3 = t3  t4 = t4  none = none
    Workers <- Workers2
    Clients <- Clients2
    Owner <- owner
    Tasks <- Tasks4
    NoTask <- none
    QueueSizes <- Sizes
    SharedBounded = FALSE
    MaxRestarts = 1
INVARIANTS
    TypeOK EachTaskOnce JoinRunsAll ErrorsReachOwner NoLostWakeup
PROPERTIES
    CallsReturn
