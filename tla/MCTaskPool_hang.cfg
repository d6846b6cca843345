\* Execute: the first block fails while later blocks are still queued;
\* workChan and doneChan of one place stand for their Workers*10 places
\* being fewer than the units still to finish after the error.
CONSTANTS
    w1 = w1  w2 = w2
    Workers = {w1, w2}
    N = 3
    Failing = {0}
    Setups <- OnlyTight
SPECIFICATION Spec
PROPERTY PoolReturns
CHECK_DEADLOCK FALSE
