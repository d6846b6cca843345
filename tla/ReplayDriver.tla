---------------------------- MODULE ReplayDriver ----------------------------
(***************************************************************************)
(* What the stage-1 driver promises its caller (research/substate_task.go, *)
(* SubstateTaskPool.Execute and ExecuteWithTx): every task is run at most  *)
(* once, the call returns nil only after every task has run, an error is   *)
(* returned only after a task that reports one has run, and the call does  *)
(* return.  Which tasks report their error depends on the task wrapper:    *)
(* ExecuteBlock passes the error on, ExecuteBlockTx drops it.              *)
(***************************************************************************)
EXTENDS FiniteSets

CONSTANTS
    Tasks,          \* work units: blocks, or indices into blockTxList
    Failing         \* tasks whose TaskFunc returns an error

VARIABLES
    todo,           \* tasks not yet run to completion
    res,            \* "none" while the call runs, then "nil" or "err"
    reportErrors    \* TRUE when the wrapper passes that error to doneChan;
                    \* fixed for the call

vars == <<todo, res, reportErrors>>

Init == todo = Tasks /\ res = "none" /\ reportErrors \in BOOLEAN

\* one task runs to completion
Finish(i) ==
    /\ res = "none"
    /\ i \in todo
    /\ todo' = todo \ {i}
    /\ UNCHANGED <<res, reportErrors>>

\* the call returns nil: every task has run and none reported an error
Return ==
    /\ res = "none"
    /\ todo = {}
    /\ reportErrors => (Tasks \ todo) \cap Failing = {}
    /\ res' = "nil"
    /\ UNCHANGED <<todo, reportErrors>>

\* the call returns an error reported by a task that has run
Fail ==
    /\ res = "none"
    /\ reportErrors
    /\ (Tasks \ todo) \cap Failing # {}
    /\ res' = "err"
    /\ UNCHANGED <<todo, reportErrors>>

Next == (\E i \in Tasks : Finish(i)) \/ Return \/ Fail

Spec == Init /\ [][Next]_vars /\ WF_vars(Next)
=============================================================================
