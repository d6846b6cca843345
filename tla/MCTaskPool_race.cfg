\* ExecuteWithTx: two workers extracting at once into the shared
\* ActionInfoList.
CONSTANTS
    w1 = w1  w2 = w2
    Workers = {w1, w2}
    N = 3
    Failing = {1}
    Setups <- OnlyWithTx
SPECIFICATION Spec
INVARIANT NoLostUpdate
CHECK_DEADLOCK FALSE
