\* Both drivers, two workers, three units the second of which fails:
\* ExecuteWithTx with channels of one place, and Execute with a doneChan
\* that has room for every unit, so that its error path returns.
CONSTANTS
    w1 = w1  w2 = w2
    Workers = {w1, w2}
    N = 3
    Failing = {1}
    Setups <- BothCalls
SPECIFICATION Spec
INVARIANT TypeOK
PROPERTY ImplementsDriver
CHECK_DEADLOCK FALSE
