\* Two transactions against the probe, and pages routed by its fence.
SPECIFICATION Spec
CONSTANTS
    t1 = t1
    t2 = t2
    t3 = t3
    Txs <- TwoTxs
    Floor = 1
    Margin = 1
    Limit = 1
    Closed = Closed
    MaxClock = 3
INVARIANTS
    FenceComplete
    WindowPageComplete
SYMMETRY Symmetry
CHECK_DEADLOCK FALSE
