----------------------------- MODULE MCTaskPool -----------------------------
(* Model values for the worker goroutines of TaskPool, and the calls of   *)
(* the driver the runs check.                                              *)
EXTENDS TaskPool

CONSTANTS w1, w2

\* ExecuteWithTx (replay_with_tx): the error is dropped; workChan and
\* doneChan of one place, so that every send and receive can block.
WithTx == [report |-> FALSE, cap |-> 1, extract |-> TRUE]

\* Execute (replay-hunter, seed-generation) and ExecuteTest (test-hunter):
\* the error is returned, the task writes no shared map; doneChan with room for
\* every unit.
ExecRoomy == [report |-> TRUE, cap |-> 3, extract |-> FALSE]

\* Execute with channels of one place: fewer places than the units still
\* to finish after the error.
ExecTight == [report |-> TRUE, cap |-> 1, extract |-> FALSE]

BothCalls  == {WithTx, ExecRoomy}
OnlyWithTx == {WithTx}
OnlyTight  == {ExecTight}
=============================================================================
