# TLA+ models of DeFiWarder

These modules model the detection pipeline of DeFiWarder and check it
with TLC. The pipeline runs in two drivers:

- `replay-txs` (`cmd/substate-cli/replay/replay_with_tx.go`, and
  `hunter/main.go`);
- `test-hunter` (`cmd/substate-cli/replay/test_hunter.go`).

The models follow the Go source. `spec.md` is used only to say what the
code is meant to do; the findings below are the places where code and
spec disagree.

## 1. The system

1. **Stage 1: parallel replay and extraction**
   (`research/substate_task.go`, `hunter/defi/extractor.go`).
   - `SubstateTaskPool.ExecuteWithTx` and `Execute` start `Workers`
     worker goroutines, one producer and the calling goroutine.
   - They talk over three buffered channels:
     - `workChan` carries unit indices, with `Workers*10` places;
     - `doneChan` carries an index or an error, with `Workers*10` places;
     - `stopChan` carries stop tokens, with `Workers` places.
   - The calling goroutine counts finished units in order through
     `waitMap`. An error from `doneChan` ends its loop with that error.
     The deferred function sends `Workers+1` stops and waits on
     `wg.Wait()`.
   - `ExecuteWithTx` wraps each unit in `ExecuteBlockTx`, which drops the
     task's error. `Execute` wraps each block in `ExecuteBlock`, which
     returns it.
   - The `replay-txs` task replays one tx. If the EVM did not fail, it
     calls `ExtractTokenTx` and then `ExtractStakeTokenTx` on a single
     extractor that all workers share, with no lock.
   - `ExtractTokenTx` walks the call tree (`extractInTxInfo`):
     - it grows two partitions of addresses, user-supplied and
       proxy-related;
     - it collects ether and ERC-20 transfers;
     - when a user-supplied address calls a proxy, it stores an
       `ActionInfo` in `ActionInfoList`;
     - it counts addresses in `AddressCountMap`;
     - it links users through LP-token transfers in `UserRelatedMap`.
   - `ExtractStakeTokenTx` walks the tree again for the LP-token links.
2. **Stage 2: classification** (single-threaded).
   - `UpdateCommonAddressMap` marks infrastructure addresses.
   - `replay-txs` then runs `UpdateCommonRelatedUser` and
     `ExtractActionInfoListNew`. These turn the actions into the per-user
     ledger `UserTokenTxMap` and into further links.
   - `test-hunter` runs the older `ExtractActionInfoList` instead.
3. **Stage 3: detection** (`hunter/defi/check.go`, single-threaded).
   - `GenerateUserFlow` folds each user's ledger into flow lists. It
     builds one list per token, plus three special slots:
     - the per-tx merged list `0x5`, priced in ETH: ETH and WETH at 1, a
       stable token folded to its anchor's decimals and priced through DAI
       or WBTC, any other token by its own rate table at the block's
       500-block bucket (`ExistToken` loads the tables lazily);
     - the single-token list `0x6`;
     - the marker `0x7`, for several tokens one of which is unpriced.
   - **`replay-txs`** runs `RecordRate` over every user and then
     `AbnormalDetection`:
     - at every withdraw flow, `RecordRate` absorbs related users
       (`GetRelatedTokenFlow`, recursively);
     - it appends a `RateRecord` of totals;
     - `AbnormalDetection` prints records whose rate is above 1 and is
       either single-tx or above `mean + 5 std`.
   - **`test-hunter`** (and `hunter/main.go`, for one user) runs
     `CheckAttack` per user. This is the same scan, judged at once by
     `abnormalDetection` with fixed rates.

The stages interact only through the extractor's maps. Each stage reads
them after the previous one has finished.

## 2. Modules

| Module | Models | Source |
|---|---|---|
| `TaskPool` | The goroutines and channels of `ExecuteWithTx` and `Execute` (and so `ExecuteTest`) with their wrappers, and the unlocked `AddressCountMap` increment and `ActionInfoList` store of the task. It refines `ReplayDriver`. | `substate_task.go` 120-455, `extractor.go` 286-309 |
| `ReplayDriver` | The abstract driver: every task runs at most once; the call returns, nil only after every task ran, an error only after a failing task that reports it ran. | `substate_task.go` (the contract of both calls) |
| `Extractor` | Stages 1 and 2 of one extractor, tx by tx: the tree walk, `ExtractStakeTokenTx`, the common-address filter and both classifiers. | `extractor.go` 169-672, `replay_with_tx.go` 99-134 |
| `UserFlow` | `GenerateUserFlow`'s per-token flow, the merged 0x5 list with its pricing (`Priced`, `RateAt`, `DecimalsRate`, `ExistToken`), LP-token skipping and the slot choice, as pure operators over a ledger and the price tables. | `check.go` 30-73, 136-407, `token.go` 212-229 |
| `Detector` | Stage 3 as one state machine. Init is every ledger and related graph within the bounds. Then `GenerateUserFlow`, then one of two drivers, one flow per step: `RecordRate` with `AbnormalDetection`, or `CheckAttack` per user. | `check.go` 136-915 |
| `MCTaskPool`, `MCExtractor`, `MCDetector` | Model values, feeds, rate tables and setups for TLC. | |

### TaskPool

**State.**
- `workQ` and `doneQ` are the channel buffers: sequences of at most
  `ChanCap` elements.
- `stopQ` counts the stop tokens, at most `Workers`.
- The per-goroutine program counters are `wpc`, `ppc` and `mpc`.
- `setup` is the call made, chosen in Init and never changed. It holds
  whether the wrapper returns the task's error, the channel capacity, and
  whether the task writes the shared extractor (`Extracts`). Only the
  replay-txs task of `ExecuteWithTx` does. `Execute`'s tasks
  (replay-hunter, seed-generation) only dump files. `ExecuteTest`
  (test-hunter) is the same machine as `Execute`: its workers send
  `TestBlock`'s error or the round, and its tasks build their own
  extractor.
- `count` is `AddressCountMap[a]` for an address every action's transfer
  names. `actions` is `ActionInfoList`. `wcount` and `wslot` are what a
  worker read before its store.

**Actions.** One action per goroutine step, grouped as the code's
goroutines:
- `Worker(w)`:
  - `TakeWork` and `TakeStop` are its `select`. When both branches are
    ready, either may be taken, as in Go.
  - `CountRead` and `CountWrite` are `AddressCountMap[...] += 1`
    (`extractor.go:293`), split into its read and its store.
  - `ReadSlot` and `WriteSlot` are
    `ActionInfoList[len(ActionInfoList)] = actionInfo`, split at the read
    of `len`.
  - These four steps run only when `Extracts`. Otherwise a worker goes
    from taking a unit straight to sending its result.
  - `SendDone` sends `DoneMsg`: the unit, or the wrapper's error (`BlockErr`).
- `Producer`: `Produce` and `ProducerStop`.
- `MainLoop`: `MainCount`, `MainReceiveDone`, `MainReceiveErr` and
  `MainLoopExit`.
- `Deferred`: `SendStop` and `WaitGroup`.

**Refinement mapping.**
- `Completed` is the set of units that were handed out and are neither
  queued nor inside a worker.
- The abstract `todo` is `Tasks \ Completed`.
- The abstract `res` is the return value once the deferred function has
  finished.

### Extractor

**Generating the call tree.** The call tree is generated while it is
walked:
- `StartTx` is `ExtractTokenTx` on a tree with one outer call.
  `IgnoreTx` is any other tree.
- `Call` enters a child call. It chooses the callee, the kind, whether
  the call carries value, and the decoded address argument (proxies
  only). This is the part of `extractInTxInfo` before the recursion:
  `RolesAfter`, `SetsAfter` and `EtherTx`. `ArgUser` tests the
  argument against the roles as they were before the call's own manager
  update, as line 213 reads `RoleMap` before line 217 writes it.
- `Return` and `FinishTx` leave a frame. They choose the frame's
  Transfer event (`Events`), and then:
  - record the LP links (`LPLinks`);
  - for an action, count its transfers (`CountAfter`) and store the
    `ActionInfo`;
  - otherwise, hand the frame's list to the caller (`Returned`).
- The caller of a frame is the address whose code runs the parent
  frame. For a `DelegateCall` that is the delegating frame.
- `FinishTx` copies `proxyRelated`. It may also run the second walk,
  `ExtractStakeTokenTx`, over the tree's transfers (`TreeTransfers`):
  - the replay worker makes that call;
  - `InitTokenUserTxMap` (test-hunter, `hunter/main.go`) does not.

**Stage 2.**
- `UpdateCommonAddressMap` applies the 0.3 threshold over more than
  `MinActions` actions. It then chooses the driver:
  - replay: `UpdateCommonRelatedUser` (over `MaxRelated` related users),
    then `ExtractActionInfoListNew`;
  - test: `ExtractActionInfoList`.
- Each classifier is one step. Its effects are set unions, counts and
  the minimum kept by `updateUserRelatedMap`, so they do not depend on
  Go's map order.

**Sharing of maps.** Every `ActionInfo` of a tx refers to that tx's
final `userSupplied`/`proxyRelated` maps (`txSets`), as the Go maps are
shared by reference.

### Detector

**Variables.**
- `ledger` and `rel` are `UserTokenTxMap` and `UserRelatedMap`; they
  are constant after Init.
- `flows` is `userTokenFlowMap`.
- `todo` and `cur` stand for the outer `range userTokenFlowMap`; Go's map
  order becomes the choice of the next user.
- `idx`, `fd`, `lastBal` and `unsup` are the loop variables `index`,
  `firstDeposit`, `lastBalance` and `existUnSupportToken`.
- `records` is `TokenRateMap`, `reported` is what `AbnormalDetection`
  prints, and `attacks` holds the `AttackInfo`s `CheckAttack` returns.

**Actions.**
- `GenerateUserFlow` builds the flows and chooses the driver.
- **RecordRate path:**
  - `SkipUser` skips manager, common, token and 0x7 users;
  - `StartUser` starts a user;
  - `PassFlow` handles a non-withdraw flow;
  - `CheckWithdraw` absorbs related users through the RECURSIVE
    operators `MainLoop` and `GetRelatedTokenFlow`, appends a record,
    and sets lastBalance;
  - `EndUser` ends the user, and `AbnormalDetection` ends the run.
- **CheckAttack path:**
  - `SkipCheck` skips common and 0x7 users only;
  - `StartCheck` starts a user;
  - `PassFlow` is shared with RecordRate. Under CheckAttack, the
    firstDeposit reset is `CheckReset`, a balance under 10^18.
  - `CheckAttackWithdraw` absorbs as RecordRate does, then judges with
    `abnormalDetection`. A flagged flow breaks out of the scan.
  - `CheckedAll` ends the run.

**Iteration order.** `MainLoop` and `GetRelatedTokenFlow` return the
*set* of results over every order in which Go's map iteration can visit
related users. The order matters because `usedAddress` is shared across
the walk.

**Rates.** `float64` rates are exact rationals. `AboveRateLimit` tests
`rate > mean + 5 std` in integers over a common denominator, without
taking square roots.

## 3. Runs

| Run | Expect | What it shows |
|---|---|---|
| `flow` | pass | One user and two tokens, with zero amounts and two transfers per tx; both drivers. tA is a USD stable token priced through DAI (rates 1 and 2 in the two buckets); tB has a rate in the first bucket only. `FlowTotalsMatchLedger`: every 0x5/0x6 flow carries the ledger's totals up to it, priced as the spec prices them (`NumeraireValue`). `UnpricedUserSuppressed`: a user of several tokens with a transfer that has no rate in its bucket gets no record and no flag. `DrainReported`: every single-tx drain and every withdraw without deposit is printed. `AttackFlagsDrain`: under CheckAttack, a withdraw with no deposit or at 3x the deposits is flagged no later than its flow. |
| `absorb` | pass | Three users, every related-link graph, symmetry over users. `AcyclicAbsorbedTotalsMatchReach`: where no cycle leads back to the user, a record's totals are the sum over the users reachable by links no later than the withdraw, in every visiting order. |
| `pool` | pass | Both calls: `ExecuteWithTx` with channels of one place, and `Execute` with room for every unit. There are 2 workers and 3 units, one failing. `ImplementsDriver` checks that each refines `ReplayDriver`; this covers `Execute`'s error return and the producer's stop branch. |
| `extract_walk` | pass | Every call tree of up to three calls and depth three, with both drivers of stage 2. `PartitionsDisjoint`: no address is both user-supplied and proxy-related. |
| `unsup` | violation | `UnsupportedNeverRecorded`, finding 1. |
| `cycle` | violation | `AbsorbedTotalsMatchReach`, finding 2. |
| `single` | violation | `SingleTxStartsFromZero`, finding 3. |
| `merge` | violation | `RecordAtWithdrawTx`, finding 4. |
| `multitx` | violation | `MultiTxDrainReported`, finding 5. |
| `pool_hang` | violation | `PoolReturns`, finding 6. |
| `pool_race` | violation | `NoLostUpdate`, finding 7. |
| `extract_alias` | violation | `ClassifiedAtActionEnd`, finding 8. |

### Findings (TLC counterexamples)

1. **Unsupported users two links away do not suppress a record**
   (`check.go:906`). `GetRelatedTokenFlow` tests its own
   `existUnSupportToken`, which nothing sets, instead of the child's
   flag.
2. **Cycles count the checked user twice** (`check.go:656`).
   `usedAddress` never holds the checked user, so on `u -> v -> u` the
   user's totals are absorbed a second time.
3. **A stale `lastBalance` marks multi-tx withdrawals single-tx**
   (`check.go:647`, `700`). `lastBalance` moves only at withdraw flows,
   so after deposits in (1,0) and (2,0) firstDeposit resets to (2,0).
4. **0x5 merges the txs of a block** (`check.go:285`). A deposit in tx 0
   and a withdraw in tx 1 of one block become one single-tx flow.
5. **A multi-tx drain of 3x is not reported** (`check.go:576`). The only
   multi-tx threshold is `mean + 5 std`. With one record of rate 3 the
   limit is 3, and `3 > 3` is false.
6. **`Execute` can hang after an error** (`substate_task.go:357`).
   - After main returns the error, a worker can still take a queued
     block and then block on the full `doneChan`.
   - Its stop is never taken, so `wg.Wait()` never returns.
   - `ExecuteTest` returns the error the same way (`substate_task.go:653`)
     and can hang the same way.
7. **Concurrent extraction loses actions and counts**
   (`extractor.go:309`, `293`).
   - Two workers read the same `len(ActionInfoList)` and store under the
     same key.
   - Two workers read the same `AddressCountMap` value and both store it
     plus one. An address can then fall under the 30% threshold of
     `UpdateCommonAddressMap`.
   - Go may instead abort with a concurrent-map-write fault.
   - TLC's shortest counterexample loses an action. A run of the count
     conjunct alone also fails.
8. **Actions are classified with the tx's final maps**
   (`extractor.go:306`).
   - A later call of the same tx can make an address user-supplied.
     Example: a router passes u2 to the proxy.
   - That turns u2's transfer in an earlier action into a deposit.
   - Spec 4.1 step 6 classifies an action when its sub-tree completes.

### Hazards with no run

`PROJECT.json` lists every hazard, with its line and the properties
that cover it. Those without a property include:
- **test-hunter can never report an attack.** Its classifier
  `ExtractActionInfoList` branches on `ActionInfo.Action`, which
  `extractInTxInfo` always sets to `"none"` (`extractor.go:300`).
  - The Extractor model shows the consequence: on the test driver, the
    ledger stays empty.
  - The initial check keeps only the last user's verdict
    (`test_hunter.go:245`).
- **The fuzzer's seed selection can panic.**
  - `SelectSender` panics once `RemoveSender` has emptied the list.
  - The seed-pool selectors panic when the fixed attacker has no old tx.
- **Two crashes outside the models.**
  - `replay_with_tx.go:246` reads `msgResult.Err` before it tests `err`.
    `ApplyMessage` returns a nil result when a message fails its
    pre-checks, so the worker panics. `replay_hunter.go:200` does the
    same.
  - test-hunter's `TxExtractor` (`test_hunter.go:115`) has no
    `ProxyRelatedAddresses` or `RoleMap`. `ExtractTokenTx` then writes
    into a nil map at `extractor.go:183` on the first history tx with
    one outer call, and panics.
- **Two pricing edges** (`check.go` 305-324), modelled in `UserFlow`
  but not shown by a run.
  - A stable token is priced only when it has a rate file of its own,
    although its rate is then read from DAI or WBTC. Without that file it
    is unsupported, and its holders of several tokens are dropped.
    `UnpricedUserSuppressed` checks only the safe direction.
  - A stable token with more decimals than its anchor gets
    `decimalsRate` 0. Its transfers then count with value 0, and the user
    is not marked unsupported.
- **`ExecuteBlockTx` drops `TaskFunc`'s error.**
  - `ExecuteBlockTx`: `substate_task.go:175-178`.
  - `replay_with_tx.go:128` ignores the pool's result.

### Mutants

Each property of a passing run is broken by a plausible code change of
a definition it depends on:

| Run | Mutant | Change | Property it breaks |
|---|---|---|---|
| `flow` | `SlotMixed` | A mixed user is checked on 0x4. | `TypeOK` |
| `flow` | `OpenEntryZeroTotals` | A new 0x5 entry starts at zero totals. | `FlowTotalsMatchLedger` |
| `flow` | `MergeTokenTxZeroRate` | The `rate > 0` test is dropped: an unpriced transfer counts at value 0. | `UnpricedUserSuppressed` |
| `flow` | `calRateNoInfinity` | No `-1` rate for a withdraw without deposit. | `DrainReported` |
| `flow` | `abnormalDetectionStrict` | The multi-tx rate must exceed 3. | `AttackFlagsDrain` |
| `absorb` | `SkipLinkStrict` | `<` instead of `<=` on the link block. | `AcyclicAbsorbedTotalsMatchReach` |
| `pool` | `ProduceOffByOne` | The producer loop runs to `<= len`. | `TypeOK` |
| `pool` | `MainLoopExitEarly` | The counting loop stops one unit early. | `ImplementsDriver` |
| `extract_walk` | `FlowMergeModeClassName` | The mode is the class name, even for one "others" token. | `TypeOK` |
| `extract_walk` | `ArgUserNoProxyCheck` | A proxy-related argument becomes user-supplied. | `PartitionsDisjoint` |

## 4. Bounds and why they are enough

**Detector.**
- Blocks {1,2} and tx indices {0,1} give the same-block/other-tx and
  other-block cases.
- Transfer indices {0,1} give two transfers in one tx.
- Amounts {0,1,2}, and at most 3 transfers per user. These reach rates
  of 0, 1/2, 1, 2 and withdraw-without-deposit.
- Link blocks {2}, so a link can be later than a block-1 withdraw and no
  later than a block-2 one.
- Three users make both a two-hop chain and a cycle possible.
- `OneEther = 2` lets both 10^18 tests go both ways.
- Prices in `flow`: `BucketWidth = 2` stands for 500, so blocks 1 and 2
  fall in different buckets. `UsdDecimals = 1` stands for 18, so the
  stable token's amounts are scaled by 10. This reaches a stable token, a
  token priced in one bucket and unpriced in the next, and a missing rate
  next to a priced one. The other Detector runs keep the rates they had
  before: tA is ETH, and tB has no file (or, in `merge`, a rate of 2).

**TaskPool.**
- Two workers and three units, with channel capacities of 1
  (`ExecuteWithTx` and the hang) or 3 (`Execute`, roomy).
- The capacities stand for `Workers*10`. The code depends only on
  whether a channel is full. With capacity 1, every full and empty case
  is reached with three units.

**Extractor.**
- One tx of up to three calls, depth three.
- Accounts u1 and u2, a contract c1 (a USD stablecoin and a router), and
  a proxy p1 that is its own LP token.
- Events name u2, p1 or the zero address.
- Self-transfers are left out. A self-transfer is never a deposit or a
  withdraw and makes no link. It only adds to a count, which the other
  transfers also reach.
- This reaches:
  - a router calling the proxy twice;
  - delegate frames;
  - argument-supplied users;
  - LP mints, burns and transfers;
  - every deposit/withdraw direction.
- `MinActions = 1` and `MaxRelated = 0` stand for the code's 100 and 50,
  so that both branches of each threshold are taken.
- A second tx would interleave nothing: txs are walked one after
  another, and the concurrent case is `TaskPool`'s.

## 5. Fairness

**Detector.** `WF_vars(Next)`. Stage 3 is one sequential loop, so an
enabled step is always eventually taken.
- Termination of the two scans is not checked: TLC's liveness check
  over the `flow` graph takes more than ten minutes, and the loops of
  `RecordRate` and `CheckAttack` are `for` loops over a finite map, so
  they end by their shape. The recursion of `GetRelatedTokenFlow` ends
  in every step TLC evaluates, since each visit adds a user to
  `usedAddress`.

**TaskPool.**
- Weak fairness per goroutine (`Worker(w)`, `Producer`, the main
  goroutine's `MainLoop` and `Deferred`), since the Go scheduler runs
  every runnable goroutine.
- No fairness between the two `select` branches: Go picks at random, and
  the hang does not depend on an unfair scheduler.

**Extractor.** No liveness is checked: the walk is bounded and each
stage-2 step is one action.

## 6. Not modelled, and why

- **The fuzzer** (`hunter/fuzz`) and test-hunter's fuzzing rounds
  (`test_hunter.go` 252-345). A round's outcome is the EVM's result on a
  random message. The ledger a round checks cannot change (see above).
- **`ExecuteTest` as a setup of its own.** It is `Execute`'s machine
  (setup `ExecRoomy`/`ExecTight`). Each round's task, `TestTask`, runs
  on its own extractor and fuzzer.
- **The file loops.** `InitTokenUserTxMap` and
  `InitUserRelatedMapWithStake` read tx files. They are the feed of
  `Extractor`, except for the LP-token files, which only add links.
- **`FindCommonAddress`, `MergeFlowInTx`, `CheckAttackInTx` and
  `GetRelatedTokenFlowInTx`.** No driver calls them.
- **Loading the price tables.** `LoadRateMap`, `LoadTokenSwapInfo` and
  `LoadStableTokenInfo` are JSON and CSV I/O. `PriceTable` is the table
  after every lazy load. `ExistToken` only decides whether a file exists,
  so the order of the loads does not matter.
- **ETH-anchored stable tokens.** `decimalsRate` stays nil and `Mul`
  panics (`check.go:324`). An ASSUME keeps them out of the tables.
- **Stable decimals above the anchor's.** `DecimalsRate` models the
  truncation to 0, but the `flow` instance keeps decimals within the
  anchor's. Both this case and a stable token without its own rate
  file are hazards; showing either would need a violation run, and
  none is left.
- **The stable-anchor lists and 0x4**, which no detector reads.
- **The collectors, loaders, seed generation and the EVM.** These are
  file and JSON I/O, or upstream of the pipeline.
- **float64 rounding.**
