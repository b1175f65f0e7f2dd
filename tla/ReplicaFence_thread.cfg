\* The fence is looked at again after the replica was read.
SPECIFICATION Spec
CONSTANTS
    t1 = t1
    t2 = t2
    t3 = t3
    Txs <- TwoTxs
    Floor = 1
    Margin = 1
    Limit = 1
    Closed = Closed
    MaxClock = 3
INVARIANTS
    ThreadPageComplete
SYMMETRY Symmetry
CHECK_DEADLOCK FALSE
