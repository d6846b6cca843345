------------------------------ MODULE TaskPool ------------------------------
(***************************************************************************)
(* The worker pool of research/substate_task.go (SubstateTaskPool.Execute  *)
(* and ExecuteWithTx; the two differ only in the task wrapper they call).  *)
(*                                                                         *)
(* Goroutines: the workers, one producer and the calling (main) goroutine. *)
(* Channels: workChan and doneChan are buffered with ChanCap places (the   *)
(* code gives each Workers*10), stopChan with one place per worker.  A     *)
(* channel is a sequence (or, for stopChan, a count of empty structs); a   *)
(* send blocks while it is full and a receive while it is empty.           *)
(*                                                                         *)
(* The replay-txs task is abstracted to its two writes into the extractor *)
(* that all workers share (extractInTxInfo, hunter/defi/extractor.go):     *)
(*     AddressCountMap[tokenTx.Sender] += 1          (line 293)            *)
(*     ActionInfoList[len(ActionInfoList)] = actionInfo   (line 309)       *)
(* each a read of the map followed by a store, with no lock.  The tasks of *)
(* Execute (replay-hunter, seed-generation) write no shared map.           *)
(***************************************************************************)
EXTENDS Naturals, Sequences, FiniteSets, Functions

CONSTANTS
    Workers,        \* worker goroutines (pool.Workers of them)
    N,              \* number of work units (blocks, or len(blockTxList))
    Failing,        \* work units whose TaskFunc returns an error
    Setups          \* the calls the driver may make: a set of records
                    \*   [report |-> TRUE: ExecuteBlock returns that error
                    \*                     (Execute);
                    \*               FALSE: ExecuteBlockTx drops it
                    \*                     (ExecuteWithTx),
                    \*    cap    |-> capacity of workChan and of doneChan,
                    \*    extract |-> the task writes the shared extractor]

ASSUME /\ N \in Nat \ {0} /\ Failing \subseteq 0 .. N - 1
       /\ Setups \subseteq [report : BOOLEAN, cap : Nat \ {0}, extract : BOOLEAN] /\ Setups # {}

Tasks    == 0 .. N - 1
StopCap  == Cardinality(Workers)
NoTask   == N

VARIABLES
    workQ,      \* workChan buffer
    doneQ,      \* doneChan buffer: [i |-> unit, err |-> is it an error]
    stopQ,      \* number of stop tokens buffered in stopChan
    wpc,        \* worker: "select", "count", "add", "read", "write", "send", "exited"
    wtask,      \* the unit a worker is executing
    wcount,     \* AddressCountMap[a] as that worker read it
    wslot,      \* len(ActionInfoList) as that worker read it
    next,       \* producer's loop index
    ppc,        \* producer: "run", "exited"
    mpc,        \* main: "loop", "stop" (deferred stop sends), "wait", "returned"
    mindex,     \* main's loop index: units counted in order
    waitMap,    \* units done but not yet counted
    stopsSent,  \* stop tokens the deferred function has sent
    retval,     \* the value main returns: "nil" or "err"
    count,      \* txExtractor.AddressCountMap[a], a the address every
                \* action's transfer names
    actions,    \* txExtractor.ActionInfoList: slot -> unit that stored it
    setup       \* which call runs (a member of Setups); it never changes

vars == <<workQ, doneQ, stopQ, wpc, wtask, wcount, wslot, next, ppc, mpc, mindex,
          waitMap, stopsSent, retval, count, actions, setup>>

ChanCap      == setup.cap
ReportErrors == setup.report

\* the replay-txs task (replayActionTxList's executeRegularMsgs) calls
\* ExtractTokenTx on the shared extractor; the other tasks do not
Extracts == setup.extract

Init ==
    /\ workQ = <<>> /\ doneQ = <<>> /\ stopQ = 0
    /\ wpc = [w \in Workers |-> "select"]
    /\ wtask = [w \in Workers |-> NoTask]
    /\ wcount = [w \in Workers |-> 0]
    /\ wslot = [w \in Workers |-> 0]
    /\ next = 0 /\ ppc = "run"
    /\ mpc = "loop" /\ mindex = 0 /\ waitMap = {}
    /\ stopsSent = 0 /\ retval = "nil"
    /\ count = 0
    /\ actions = <<>>
    /\ setup \in Setups

(***************************************************************************)
(* Worker goroutine: for { select { case u := <-workChan: ...             *)
(*                                   case <-stopChan: return } }          *)
(***************************************************************************)
TakeWork(w) ==
    /\ wpc[w] = "select" /\ workQ # <<>>
    /\ wtask' = [wtask EXCEPT ![w] = Head(workQ)]
    /\ workQ' = Tail(workQ)
    /\ wpc' = [wpc EXCEPT ![w] = IF Extracts THEN "count" ELSE "send"]
    /\ UNCHANGED <<doneQ, stopQ, wcount, wslot, next, ppc, mpc, mindex, waitMap,
                   stopsSent, retval, actions, count>>

TakeStop(w) ==
    /\ wpc[w] = "select" /\ stopQ > 0
    /\ stopQ' = stopQ - 1
    /\ wpc' = [wpc EXCEPT ![w] = "exited"]
    /\ UNCHANGED <<workQ, doneQ, wtask, wcount, wslot, next, ppc, mpc, mindex, waitMap,
                   stopsSent, retval, actions, count>>

\* the task reads AddressCountMap[a] ...
CountRead(w) ==
    /\ wpc[w] = "count"
    /\ wcount' = [wcount EXCEPT ![w] = count]
    /\ wpc' = [wpc EXCEPT ![w] = "add"]
    /\ UNCHANGED <<workQ, doneQ, stopQ, wtask, wslot, next, ppc, mpc, mindex, waitMap,
                   stopsSent, retval, count, actions>>

\* ... and stores it plus one over whatever another worker stored meanwhile
CountWrite(w) ==
    /\ wpc[w] = "add"
    /\ count' = wcount[w] + 1
    /\ wpc' = [wpc EXCEPT ![w] = "read"]
    /\ UNCHANGED <<workQ, doneQ, stopQ, wtask, wcount, wslot, next, ppc, mpc, mindex,
                   waitMap, stopsSent, retval, actions>>

\* then reads len(ActionInfoList) ...
ReadSlot(w) ==
    /\ wpc[w] = "read"
    /\ wslot' = [wslot EXCEPT ![w] = Len(actions)]
    /\ wpc' = [wpc EXCEPT ![w] = "write"]
    /\ UNCHANGED <<workQ, doneQ, stopQ, wtask, wcount, next, ppc, mpc, mindex, waitMap,
                   stopsSent, retval, actions, count>>

\* ... and stores its action under it; the slot read may have been taken
\* meanwhile by another worker, whose entry is then overwritten.
WriteSlot(w) ==
    /\ wpc[w] = "write"
    /\ actions' = IF wslot[w] < Len(actions)
                  THEN [actions EXCEPT ![wslot[w] + 1] = wtask[w]]
                  ELSE Append(actions, wtask[w])
    /\ wpc' = [wpc EXCEPT ![w] = "send"]
    /\ UNCHANGED <<workQ, doneQ, stopQ, wtask, wcount, wslot, next, ppc, mpc, mindex,
                   waitMap, stopsSent, retval, count>>

\* ExecuteBlock, the wrapper of Execute: it runs the block's substates in
\* order, skips the filtered ones, counts a "not inner" error as no tx and
\* goes on, and returns the first other error with the rest of the block
\* left unrun.  Failing are the units that meet such an error.
BlockErr(u) == u \in Failing

\* variant: the wrapper drops the task's error and sends the unit
DoneMsgDropErr(u) == [i |-> u, err |-> FALSE]

\* the wrapper's result: ExecuteBlock's error (Execute); ExecuteBlockTx
\* assigns the task's error to err but returns nil (ExecuteWithTx)
DoneMsg(u) == [i |-> u, err |-> ReportErrors /\ BlockErr(u)]

SendDone(w) ==
    /\ wpc[w] = "send" /\ Len(doneQ) < ChanCap
    /\ doneQ' = Append(doneQ, DoneMsg(wtask[w]))
    /\ wpc' = [wpc EXCEPT ![w] = "select"]
    /\ wtask' = [wtask EXCEPT ![w] = NoTask]
    /\ UNCHANGED <<workQ, stopQ, wcount, wslot, next, ppc, mpc, mindex, waitMap,
                   stopsSent, retval, actions, count>>

(***************************************************************************)
(* Producer goroutine: for u := range units { select {                     *)
(*     case workChan <- u: continue   case <-stopChan: return } }          *)
(***************************************************************************)
\* variant: the loop runs one unit past the end (index <= len)
ProduceOffByOne ==
    /\ ppc = "run" /\ Len(workQ) < ChanCap
    /\ workQ' = Append(workQ, next)
    /\ next' = next + 1
    /\ ppc' = IF next = N THEN "exited" ELSE "run"
    /\ UNCHANGED <<doneQ, stopQ, wpc, wtask, wcount, wslot, mpc, mindex, waitMap,
                   stopsSent, retval, actions, count>>

Produce ==
    /\ ppc = "run" /\ Len(workQ) < ChanCap
    /\ workQ' = Append(workQ, next)
    /\ next' = next + 1
    /\ ppc' = IF next + 1 = N THEN "exited" ELSE "run"
    /\ UNCHANGED <<doneQ, stopQ, wpc, wtask, wcount, wslot, mpc, mindex, waitMap,
                   stopsSent, retval, actions, count>>

ProducerStop ==
    /\ ppc = "run" /\ stopQ > 0
    /\ stopQ' = stopQ - 1
    /\ ppc' = "exited"
    /\ UNCHANGED <<workQ, doneQ, wpc, wtask, wcount, wslot, next, mpc, mindex, waitMap,
                   stopsSent, retval, actions, count>>

(***************************************************************************)
(* Main goroutine: count the units in order from waitMap, else block on   *)
(* doneChan; an error ends the loop with that error.  The deferred        *)
(* function then sends Workers+1 stops and waits for every goroutine.     *)
(***************************************************************************)
MainCount ==
    /\ mpc = "loop" /\ mindex < N /\ mindex \in waitMap
    /\ waitMap' = waitMap \ {mindex}
    /\ mindex' = mindex + 1
    /\ UNCHANGED <<workQ, doneQ, stopQ, wpc, wtask, wcount, wslot, next, ppc, mpc,
                   stopsSent, retval, actions, count>>

MainReceiveDone ==
    /\ mpc = "loop" /\ mindex < N /\ mindex \notin waitMap /\ doneQ # <<>>
    /\ ~Head(doneQ).err
    /\ waitMap' = waitMap \cup {Head(doneQ).i}
    /\ doneQ' = Tail(doneQ)
    /\ UNCHANGED <<workQ, stopQ, wpc, wtask, wcount, wslot, next, ppc, mpc, mindex,
                   stopsSent, retval, actions, count>>

MainReceiveErr ==
    /\ mpc = "loop" /\ mindex < N /\ mindex \notin waitMap /\ doneQ # <<>>
    /\ Head(doneQ).err
    /\ doneQ' = Tail(doneQ)
    /\ mpc' = "stop" /\ retval' = "err"
    /\ UNCHANGED <<workQ, stopQ, wpc, wtask, wcount, wslot, next, ppc, mindex, waitMap,
                   stopsSent, actions, count>>

\* variant: the counting loop stops one unit early (index < len - 1)
MainLoopExitEarly ==
    /\ mpc = "loop" /\ mindex = N - 1
    /\ mpc' = "stop"
    /\ UNCHANGED <<workQ, doneQ, stopQ, wpc, wtask, wcount, wslot, next, ppc, mindex,
                   waitMap, stopsSent, retval, actions, count>>

MainLoopExit ==
    /\ mpc = "loop" /\ mindex = N
    /\ mpc' = "stop"
    /\ UNCHANGED <<workQ, doneQ, stopQ, wpc, wtask, wcount, wslot, next, ppc, mindex,
                   waitMap, stopsSent, retval, actions, count>>

SendStop ==
    /\ mpc = "stop" /\ stopQ < StopCap
    /\ stopQ' = stopQ + 1
    /\ stopsSent' = stopsSent + 1
    /\ mpc' = IF stopsSent + 1 = StopCap + 1 THEN "wait" ELSE "stop"
    /\ UNCHANGED <<workQ, doneQ, wpc, wtask, wcount, wslot, next, ppc, mindex, waitMap,
                   retval, actions, count>>

\* wg.Wait() returns once every worker and the producer have exited
WaitGroup ==
    /\ mpc = "wait"
    /\ ppc = "exited" /\ \A w \in Workers : wpc[w] = "exited"
    /\ mpc' = "returned"
    /\ UNCHANGED <<workQ, doneQ, stopQ, wpc, wtask, wcount, wslot, next, ppc, mindex,
                   waitMap, stopsSent, retval, actions, count>>

\* the goroutines of the call: a worker, the producer, the main loop and
\* the deferred stop-and-wait of the main goroutine
Worker(w) ==
    TakeWork(w) \/ TakeStop(w) \/ CountRead(w) \/ CountWrite(w) \/ ReadSlot(w) \/ WriteSlot(w)
    \/ SendDone(w)

Producer == Produce \/ ProducerStop

MainLoop == MainCount \/ MainReceiveDone \/ MainReceiveErr \/ MainLoopExit

Deferred == SendStop \/ WaitGroup

Step == (\E w \in Workers : Worker(w)) \/ Producer \/ MainLoop \/ Deferred

Next == Step /\ UNCHANGED setup

\* The Go scheduler runs every goroutine that can run, so each goroutine's
\* steps are weakly fair.
Fairness ==
    /\ \A w \in Workers : WF_vars(Worker(w) /\ UNCHANGED setup)
    /\ WF_vars(Producer /\ UNCHANGED setup)
    /\ WF_vars((MainLoop \/ Deferred) /\ UNCHANGED setup)

Spec == Init /\ [][Next]_vars /\ Fairness

-----------------------------------------------------------------------------
(***************************************************************************)
(* Refinement: the units run to completion are those handed out that are *)
(* neither queued nor still inside a worker; the call's result is known   *)
(* once the deferred function has finished.                                *)
(***************************************************************************)
Running == {wtask[w] : w \in {v \in Workers : wpc[v] \in {"count", "add", "read", "write"}}}

Completed == {u \in 0 .. next - 1 : u \notin Range(workQ) \cup Running}

Driver == INSTANCE ReplayDriver
              WITH Tasks <- Tasks,
                   todo  <- Tasks \ Completed,
                   reportErrors <- setup.report,
                   res   <- IF mpc = "returned" THEN retval ELSE "none"

TypeOK ==
    /\ workQ \in Seq(Tasks) /\ Len(workQ) <= ChanCap
    /\ doneQ \in Seq([i : Tasks, err : BOOLEAN]) /\ Len(doneQ) <= ChanCap
    /\ stopQ \in 0 .. StopCap
    /\ wpc \in [Workers -> {"select", "count", "add", "read", "write", "send", "exited"}]
    /\ wtask \in [Workers -> Tasks \cup {NoTask}]
    /\ wcount \in [Workers -> 0 .. N] /\ wslot \in [Workers -> 0 .. N]
    /\ next \in 0 .. N /\ ppc \in {"run", "exited"}
    /\ mpc \in {"loop", "stop", "wait", "returned"}
    /\ mindex \in 0 .. N /\ waitMap \subseteq Tasks
    /\ stopsSent \in 0 .. StopCap + 1 /\ retval \in {"nil", "err"}
    /\ count \in 0 .. N /\ actions \in Seq(Tasks) /\ Len(actions) <= N
    /\ setup \in Setups

\* The pool implements the driver's promise (ReplayDriver): main returns,
\* nil only after every unit's task has completed, an error only after a
\* unit that reports one completed.
ImplementsDriver == Driver!Spec

\* The caller of Execute/ExecuteWithTx eventually gets control back: the
\* deferred stop sends and wg.Wait() finish.
PoolReturns == <>(mpc = "returned")

\* ExecuteWithTx: every task that ran to completion left its action in
\* ActionInfoList, which stage 2 (ExtractActionInfoListNew) reads, and its
\* increment in AddressCountMap, which UpdateCommonAddressMap compares with
\* 30% of the actions to mark common addresses.
NoLostUpdate ==
    Extracts => /\ Completed \subseteq Range(actions)
                /\ Cardinality(Completed) <= count
=============================================================================
