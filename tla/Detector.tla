------------------------------ MODULE Detector ------------------------------
(***************************************************************************)
(* Stage 3 of the replay-txs pipeline (hunter/defi/check.go):              *)
(*   GenerateUserFlow -> RecordRate -> AbnormalDetection.                  *)
(* The input is what stages 1 and 2 leave in the TxExtractor: the ledger   *)
(* (UserTokenTxMap), the related-user graph (UserRelatedMap, one link      *)
(* block per ordered pair, the minimum kept by updateUserRelatedMap), the  *)
(* common addresses, the managers and the addresses that are tokens.       *)
(*                                                                         *)
(* RecordRate walks the users in Go map order (a nondeterministic choice)  *)
(* and, for each, the flows of its slot one index per step.  At a          *)
(* withdraw flow it absorbs the related users through GetRelatedTokenFlow, *)
(* a depth-first walk over UserRelatedMap sharing one usedAddress set; the *)
(* walk iterates Go maps, so every order of visiting is a possible result. *)
(***************************************************************************)
EXTENDS Integers, Sequences, FiniteSets, UserFlow

CONSTANTS
    Users,          \* user addresses (model values)
    Blocks,         \* block numbers a transfer or a link can carry
    TxIdxs,         \* tx indexes inside a block
    TransferIdxs,   \* transfer indexes inside a tx
    Amounts,        \* raw transfer amounts
    MaxLedger,      \* bound: transfers per user
    LinkBlocks,     \* blocks a related link may carry
    OneEther,       \* 10^18 in the units of Amounts (GetRelatedTokenFlow)
    Common,         \* CommonAddressMap restricted to users
    Managers,       \* users with RoleMap "manager"
    TokenUsers,     \* users whose address is a token with RelatedToken # 0
    Drivers         \* the stage-3 drivers that may run: "record" for
                    \* RecordRate and AbnormalDetection (replay_with_tx),
                    \* "attack" for CheckAttack on every user (test_hunter)

VARIABLES
    ledger,     \* ledger[u]: the TokenTx set of u
    rel,        \* rel[u][r]: link block of r in UserRelatedMap[u], NoLink if absent
    flows,      \* userTokenFlowMap built by GenerateUserFlow
    phase,      \* "flow", then "record" -> "done" or "attack" -> "checked"
    todo,       \* users RecordRate has not reached yet
    cur,        \* the user RecordRate is scanning, or NoUser
    idx,        \* index of the next flow of cur to scan
    fd,         \* firstDeposit of cur: [blk, tx]
    lastBal,    \* lastBalance of the slot scan
    unsup,      \* existUnSupportToken of cur
    records,    \* TokenRateMap: the RateRecords appended so far
    reported,   \* records AbnormalDetection prints, with the reason
    attacks     \* the AttackInfos CheckAttack returns, one per flagged user

vars == <<ledger, rel, flows, phase, todo, cur, idx, fd, lastBal, unsup, records, reported,
          attacks>>

NoUser == "none"
NoLink == 0
S5 == "0x5"
S6 == "0x6"
NoDeposit == [blk |-> 0, tx |-> 0]

TokenTxs == [blk : Blocks, tx : TxIdxs, ti : TransferIdxs, tok : Tokens,
             act : {Deposit, Withdraw}, amt : Amounts]
Key(t) == <<t.blk, t.tx, t.ti>>

\* A ledger the extractor can produce: a user's transfers have distinct
\* (block, tx, transfer) keys.  Transfer indexes of different users are
\* never compared by the code, so a key shared by two users stands for the
\* same ledger with their indexes renumbered.
UserLedgers ==
    LET Keys     == Blocks \X TxIdxs \X TransferIdxs
        Payloads == [tok : Tokens, act : {Deposit, Withdraw}, amt : Amounts]
        Mk(k, p) == [blk |-> k[1], tx |-> k[2], ti |-> k[3],
                     tok |-> p.tok, act |-> p.act, amt |-> p.amt]
        OfSize(n) ==
            { {Mk(k, f[k]) : k \in DOMAIN f}
              : f \in UNION {[K -> Payloads] : K \in kSubset(n, Keys)} }
        UpTo[n \in 0..MaxLedger] == IF n = 0 THEN {{}} ELSE UpTo[n - 1] \cup OfSize(n)
    IN  UpTo[MaxLedger]

Related(u) == {r \in Users : rel[u][r] # NoLink}
InFlowMap(u) == ledger[u] # {}

\* variant: the mixed user is checked on the per-transfer list 0x4
SlotMixed(u) == IF flows[u].has6 THEN S6 ELSE "0x4"

Slot(u) == IF flows[u].has6 THEN S6 ELSE S5
SlotFlow(u, s) == IF ~InFlowMap(u) THEN <<>>
                  ELSE IF s = S6 THEN flows[u].f6 ELSE flows[u].f5

\* flow g lies after the flow f being checked: later block, or later tx
After(g, f) == g.blk > f.blk \/ (g.blk = f.blk /\ g.tx > f.tx)

\* firstDeposit takes the related user's one when strictly earlier
EarlierOf(a, b) ==
    IF a.blk < b.blk \/ (a.blk = b.blk /\ a.tx < b.tx)
    THEN [blk |-> a.blk, tx |-> a.tx] ELSE b

(***************************************************************************)
(* GetRelatedTokenFlow's scan of the related user's own list: totals of    *)
(* the last flow not after f; firstDeposit moves on a deposit while the    *)
(* balance is under 10^18, and is updated before the break on a later     *)
(* flow.                                                                   *)
(***************************************************************************)
PrefixScan(fl, f) ==
    LET Step(acc, g) ==
          IF acc.stop THEN acc
          ELSE LET fd1 == IF acc.fd.blk = 0 \/ (acc.bal < OneEther /\ Deposit \in g.act)
                          THEN [blk |-> g.blk, tx |-> g.tx] ELSE acc.fd
               IN  IF After(g, f) THEN [acc EXCEPT !.fd = fd1, !.stop = TRUE]
                   ELSE [acc EXCEPT !.fd = fd1, !.dep = g.dep, !.wd = g.wd, !.bal = g.bal]
        base == [dep |-> 0, wd |-> 0, bal |-> 0, fd |-> NoDeposit, stop |-> FALSE]
    IN  IF fl = <<>> THEN base ELSE FoldLeft(Step, base, Tail(fl))

\* variant: a link must be strictly older than the checked flow
SkipLinkStrict(x, r, acc, f) ==
    r \in Common \/ r \in acc.used \/ rel[x][r] >= f.blk

\* a related user r of x is passed over: common, already used, or linked
\* after the checked flow's block
Skip(x, r, acc, f) ==
    r \in Common \/ r \in acc.used \/ rel[x][r] > f.blk

Unsupported(v, s) ==
    \/ InFlowMap(v) /\ flows[v].has7
    \/ s = S6 /\ InFlowMap(v) /\ ~flows[v].has6

(***************************************************************************)
(* GetRelatedTokenFlow(v): the set of results over all visiting orders, as *)
(* [dep, wd, fd, unsup, used].  The loop over UserRelatedMap[v] tests the  *)
(* function's own result flag, which nothing sets, before adding a child's *)
(* totals, so a child's unsupported flag is dropped (line 906).            *)
(***************************************************************************)
RECURSIVE GetRelatedTokenFlow(_, _, _, _), RelatedLoop(_, _, _, _, _)

GetRelatedTokenFlow(v, s, used, f) ==
    IF Unsupported(v, s)
    THEN {[dep |-> 0, wd |-> 0, fd |-> NoDeposit, unsup |-> TRUE, used |-> used]}
    ELSE LET p == PrefixScan(SlotFlow(v, s), f)
         IN  RelatedLoop(v, s, Related(v),
                         [dep |-> p.dep, wd |-> p.wd, fd |-> p.fd, unsup |-> FALSE,
                          used |-> used], f)

RelatedLoop(v, s, R, acc, f) ==
    IF R = {} THEN {acc}
    ELSE UNION {
      IF Skip(v, r, acc, f)
      THEN RelatedLoop(v, s, R \ {r}, acc, f)
      ELSE UNION {
        LET a1 == [acc EXCEPT !.used = res.used, !.fd = EarlierOf(res.fd, acc.fd)]
        IN  IF acc.unsup
            THEN {[a1 EXCEPT !.unsup = res.unsup]}
            ELSE RelatedLoop(v, s, R \ {r},
                             [a1 EXCEPT !.dep = @ + res.dep, !.wd = @ + res.wd], f)
        : res \in GetRelatedTokenFlow(r, s, acc.used \cup {r}, f) }
      : r \in R }

(***************************************************************************)
(* RecordRate's own loop over UserRelatedMap[u] (lines 659-684): the same  *)
(* walk, but a child's unsupported flag sets existUnSupportToken and       *)
(* breaks.  usedAddress starts empty: u itself is not in it.               *)
(***************************************************************************)
RECURSIVE MainLoop(_, _, _, _, _)
MainLoop(u, s, R, acc, f) ==
    IF R = {} THEN {acc}
    ELSE UNION {
      IF Skip(u, r, acc, f)
      THEN MainLoop(u, s, R \ {r}, acc, f)
      ELSE UNION {
        LET a1 == [acc EXCEPT !.used = res.used, !.fd = EarlierOf(res.fd, acc.fd)]
        IN  IF res.unsup
            THEN {[a1 EXCEPT !.unsup = TRUE]}
            ELSE MainLoop(u, s, R \ {r},
                          [a1 EXCEPT !.dep = @ + res.dep, !.wd = @ + res.wd], f)
        : res \in GetRelatedTokenFlow(r, s, acc.used \cup {r}, f) }
      : r \in R }

(***************************************************************************)
(* float64 rates as exact rationals [n, d], d > 0.  calRate: W/D when D is *)
(* positive, -1 when only W is, 0 otherwise.  Rounding of float64 is not   *)
(* modelled: with equal rates the computed std is 0 or of the order of the *)
(* rounding error, and neither flips a comparison against mean + 5 std.   *)
(***************************************************************************)
RECURSIVE GCD(_, _)
GCD(a, b) == IF b = 0 THEN a ELSE GCD(b, a % b)
Rat(n, d) == LET g == GCD(IF n < 0 THEN -n ELSE n, d)
             IN  [n |-> n \div g, d |-> d \div g]
RatLess(a, b) == a.n * b.d < b.n * a.d
RatInt(k) == [n |-> k, d |-> 1]
LCM(a, b) == (a * b) \div GCD(a, b)

\* variant: no -1 for a withdraw without deposit
calRateNoInfinity(rec) ==
    IF rec.dep > 0 THEN Rat(rec.wd, rec.dep) ELSE RatInt(0)

calRate(rec) ==
    CASE rec.dep > 0                 -> Rat(rec.wd, rec.dep)
      [] rec.dep = 0 /\ rec.wd > 0   -> RatInt(-1)
      [] OTHER                       -> RatInt(0)

\* the records whose rate lies strictly between 1 and 5 (allRate)
AllRate(R) == {rec \in R : RatLess(RatInt(1), calRate(rec)) /\ RatLess(calRate(rec), RatInt(5))}

\* rate > mean + 5 * std over A; false when A is empty (the limit is NaN).
\* With D a common denominator, a_i = rate_i * D and T = sum of a_i, it is
\*   n * r * D - T > 0  /\  n * (n * r * D - T)^2 > 25 * sum (n * a_i - T)^2
AboveRateLimit(r, A) ==
    /\ A # {}
    /\ LET n  == Cardinality(A)
           D  == FoldSet(LAMBDA a, acc : LCM(calRate(a).d, acc), r.d, A)
           Sc(q) == q.n * (D \div q.d)
           T  == MapThenSumSet(LAMBDA a : Sc(calRate(a)), A)
           x  == n * Sc(r) - T
       IN  /\ x > 0
           /\ 25 * MapThenSumSet(LAMBDA a : (n * Sc(calRate(a)) - T) * (n * Sc(calRate(a)) - T), A)
                < n * x * x

\* The printed lines of AbnormalDetection (lines 563-593).
Printed(R) ==
    LET A == AllRate(R) IN
    { [rec |-> rec, why |-> IF rec.single THEN "within one tx" ELSE "multiple tx"] :
        rec \in {q \in R :
                   /\ q.slot \in {S5, S6}
                   /\ \/ RatLess(RatInt(1), calRate(q)) /\ (q.single \/ AboveRateLimit(calRate(q), A))
                      \/ calRate(q) = RatInt(-1)} }

-----------------------------------------------------------------------------
(* Actions *)

NoFlows == [f5 |-> <<>>, has6 |-> FALSE, f6 |-> <<>>, has7 |-> FALSE]

Init ==
    /\ ledger \in [Users -> UserLedgers]
    /\ rel \in {R \in [Users -> [Users -> {NoLink} \cup LinkBlocks]] :
                  \A u \in Users : R[u][u] = NoLink}
    /\ flows = [u \in Users |-> NoFlows]
    /\ phase = "flow"
    /\ todo = {}
    /\ cur = NoUser
    /\ idx = 0
    /\ fd = NoDeposit
    /\ lastBal = 0
    /\ unsup = FALSE
    /\ records = {}
    /\ reported = {}
    /\ attacks = {}

\* GenerateUserFlow over every user of UserTokenTxMap
GenerateUserFlow ==
    /\ phase = "flow"
    /\ flows' = [u \in Users |-> IF InFlowMap(u) THEN UserFlows(ledger[u]) ELSE NoFlows]
    /\ phase' \in Drivers
    /\ todo' = {u \in Users : InFlowMap(u)}
    /\ UNCHANGED <<ledger, rel, cur, idx, fd, lastBal, unsup, records, reported, attacks>>

Excluded(u) ==
    u \in Managers \/ u \in Common \/ u \in TokenUsers \/ flows[u].has7

\* RecordRate: a manager, common, token or 0x7 user is passed over
SkipUser(u) ==
    /\ phase = "record" /\ cur = NoUser /\ u \in todo
    /\ Excluded(u)
    /\ todo' = todo \ {u}
    /\ UNCHANGED <<ledger, rel, flows, phase, cur, idx, fd, lastBal, unsup, records, reported, attacks>>

\* RecordRate: any other user has its slot scanned from index 1 (index 0
\* is the sentinel), with firstDeposit and lastBalance zero
StartUser(u) ==
    /\ phase = "record" /\ cur = NoUser /\ u \in todo
    /\ ~Excluded(u)
    /\ todo' = todo \ {u}
    /\ cur' = u
    /\ idx' = 2
    /\ fd' = NoDeposit
    /\ lastBal' = 0
    /\ unsup' = FALSE
    /\ UNCHANGED <<ledger, rel, flows, phase, records, reported, attacks>>

CurFlow == SlotFlow(cur, Slot(cur))

\* the balance at which a deposit reopens the position: zero in RecordRate,
\* under 10^18 in CheckAttack
RecordReset(b) == b = 0
CheckReset(b) == b < OneEther

\* firstDeposit moves to flow g when unset or on a deposit after a reset
FirstDepositAt(g) ==
    IF fd.blk = 0 \/ (Deposit \in g.act /\ IF phase = "attack" THEN CheckReset(lastBal)
                                                            ELSE RecordReset(lastBal))
    THEN [blk |-> g.blk, tx |-> g.tx] ELSE fd

\* a flow without a withdraw: only firstDeposit may move
PassFlow ==
    /\ cur # NoUser /\ idx <= Len(CurFlow)
    /\ Withdraw \notin CurFlow[idx].act
    /\ fd' = FirstDepositAt(CurFlow[idx])
    /\ idx' = idx + 1
    /\ UNCHANGED <<ledger, rel, flows, phase, todo, cur, lastBal, unsup, records, reported, attacks>>

\* a withdraw flow: absorb related users, append a RateRecord unless an
\* unsupported user was met, then lastBalance takes the flow's balance
CheckWithdraw ==
    /\ phase = "record" /\ cur # NoUser /\ idx <= Len(CurFlow)
    /\ LET g == CurFlow[idx]
           s == Slot(cur)
       IN  /\ Withdraw \in g.act
           /\ \E res \in MainLoop(cur, s, Related(cur),
                                  [dep |-> g.dep, wd |-> g.wd, fd |-> FirstDepositAt(g),
                                   unsup |-> unsup, used |-> {}], g) :
                /\ fd' = res.fd
                /\ unsup' = res.unsup
                /\ records' = IF res.unsup THEN records
                              ELSE records \cup
                                   {[user |-> cur, slot |-> s, dep |-> res.dep, wd |-> res.wd,
                                     single |-> (g.blk = res.fd.blk /\ g.tx = res.fd.tx),
                                     blk |-> g.blk, tx |-> g.tx, idx |-> idx]}
           /\ lastBal' = g.bal
           /\ idx' = idx + 1
    /\ UNCHANGED <<ledger, rel, flows, phase, todo, cur, reported, attacks>>

EndUser ==
    /\ cur # NoUser /\ idx > Len(CurFlow)
    /\ cur' = NoUser
    /\ UNCHANGED <<ledger, rel, flows, phase, todo, idx, fd, lastBal, unsup, records, reported, attacks>>

AbnormalDetection ==
    /\ phase = "record" /\ todo = {} /\ cur = NoUser
    /\ reported' = Printed(records)
    /\ phase' = "done"
    /\ UNCHANGED <<ledger, rel, flows, todo, cur, idx, fd, lastBal, unsup, records, attacks>>

(***************************************************************************)
(* CheckAttack (lines 743-844), called for every user of userTokenFlowMap *)
(* by test_hunter: the same scan of the slot and the same loop over the   *)
(* related users, but no manager or token user is passed over, the       *)
(* position reopens under 10^18, and abnormalDetection judges each        *)
(* withdraw flow at once with the fixed rates; the first flagged flow     *)
(* ends the user's check.                                                  *)
(***************************************************************************)

\* variant: the multi-tx rate must exceed ABNORMAL_RATE
abnormalDetectionStrict(dep, wd, single) ==
    \/ dep > 0 /\ single /\ 10000 * wd >= 10001 * dep
    \/ dep > 0 /\ ~single /\ wd > 3 * dep
    \/ dep = 0 /\ wd > 0

\* abnormalDetection, 706-741: rate >= SINGLE_ABNORMAL_RATE (1.0001) within
\* one tx, >= ABNORMAL_RATE (3) over several, or withdraws with no deposit
abnormalDetection(dep, wd, single) ==
    \/ dep > 0 /\ single /\ 10000 * wd >= 10001 * dep
    \/ dep > 0 /\ ~single /\ wd >= 3 * dep
    \/ dep = 0 /\ wd > 0

\* a common or 0x7 user returns at once
SkipCheck(u) ==
    /\ phase = "attack" /\ cur = NoUser /\ u \in todo
    /\ u \in Common \/ flows[u].has7
    /\ todo' = todo \ {u}
    /\ UNCHANGED <<ledger, rel, flows, phase, cur, idx, fd, lastBal, unsup, records, reported,
                   attacks>>

StartCheck(u) ==
    /\ phase = "attack" /\ cur = NoUser /\ u \in todo
    /\ ~(u \in Common \/ flows[u].has7)
    /\ todo' = todo \ {u}
    /\ cur' = u
    /\ idx' = 2
    /\ fd' = NoDeposit
    /\ lastBal' = 0
    /\ unsup' = FALSE
    /\ UNCHANGED <<ledger, rel, flows, phase, records, reported, attacks>>

\* a withdraw flow: absorb related users as RecordRate does, then judge;
\* a flagged flow stores the AttackInfo and breaks out of the scan
CheckAttackWithdraw ==
    /\ phase = "attack" /\ cur # NoUser /\ idx <= Len(CurFlow)
    /\ LET g == CurFlow[idx]
           s == Slot(cur)
       IN  /\ Withdraw \in g.act
           /\ \E res \in MainLoop(cur, s, Related(cur),
                                  [dep |-> g.dep, wd |-> g.wd, fd |-> FirstDepositAt(g),
                                   unsup |-> unsup, used |-> {}], g) :
                LET single == g.blk = res.fd.blk /\ g.tx = res.fd.tx
                    hit == ~res.unsup /\ abnormalDetection(res.dep, res.wd, single)
                IN  /\ fd' = res.fd
                    /\ unsup' = res.unsup
                    /\ attacks' = IF hit
                                  THEN attacks \cup
                                       {[user |-> cur, slot |-> s, dep |-> res.dep, wd |-> res.wd,
                                         single |-> single, blk |-> g.blk, tx |-> g.tx]}
                                  ELSE attacks
                    /\ IF hit
                       THEN cur' = NoUser /\ UNCHANGED <<lastBal, idx>>
                       ELSE lastBal' = g.bal /\ idx' = idx + 1 /\ UNCHANGED cur
    /\ UNCHANGED <<ledger, rel, flows, phase, todo, records, reported>>

\* every user has been checked
CheckedAll ==
    /\ phase = "attack" /\ todo = {} /\ cur = NoUser
    /\ phase' = "checked"
    /\ UNCHANGED <<ledger, rel, flows, todo, cur, idx, fd, lastBal, unsup, records, reported,
                   attacks>>

Next ==
    \/ GenerateUserFlow
    \/ \E u \in Users : SkipUser(u) \/ StartUser(u) \/ SkipCheck(u) \/ StartCheck(u)
    \/ PassFlow
    \/ CheckWithdraw
    \/ CheckAttackWithdraw
    \/ EndUser
    \/ AbnormalDetection
    \/ CheckedAll

\* RecordRate is a sequential loop: every enabled step is eventually taken
Spec == Init /\ [][Next]_vars /\ WF_vars(Next)

-----------------------------------------------------------------------------
(* Reference definitions the properties compare the code against *)

\* users reachable from the frontier over links no later than block b whose
\* target is not common; a start user reached again through a cycle is in it
RECURSIVE ReachFrom(_, _, _)
ReachFrom(front, seen, b) ==
    LET nxt == {r \in Users \ Common :
                  \E x \in front : rel[x][r] # NoLink /\ rel[x][r] <= b} \ seen
    IN  IF nxt = {} THEN seen ELSE ReachFrom(nxt, seen \cup nxt, b)

Absorbable(u, b) == ReachFrom({u}, {}, b) \ {u}
OnCycle(u, b) == u \in ReachFrom({u}, {}, b)

\* the totals of v's slot list at the end of tx (b, t)
PrefixTotals(v, s, b, t) ==
    LET fl == SlotFlow(v, s)
        upto == {i \in 2..Len(fl) : ~After(fl[i], [blk |-> b, tx |-> t])}
    IN  IF upto = {} THEN [dep |-> 0, wd |-> 0]
        ELSE [dep |-> fl[Max(upto)].dep, wd |-> fl[Max(upto)].wd]

\* the totals the record of flow rec.idx should carry: the user's own
\* running totals plus every absorbable user's totals up to its tx
ExpectedTotals(rec) ==
    LET own == SlotFlow(rec.user, rec.slot)[rec.idx]
        A   == Absorbable(rec.user, rec.blk)
    IN  [dep |-> own.dep + MapThenSumSet(LAMBDA v : PrefixTotals(v, rec.slot, rec.blk, rec.tx).dep, A),
         wd  |-> own.wd  + MapThenSumSet(LAMBDA v : PrefixTotals(v, rec.slot, rec.blk, rec.tx).wd, A)]

\* A transfer in the numeraire, as the spec (section 5) prices it: ETH and
\* WETH at 1; a stable token normalised to its anchor's decimals and priced
\* by DAI or WBTC; any other token by its own table at the block's bucket
\* floor(block / 500) * 500; no rate counts 0.
TableRate(a, b) ==
    LET k == b - (b % BucketWidth)
    IN  IF a \in DOMAIN PriceTable /\ k \in DOMAIN PriceTable[a] THEN PriceTable[a][k] ELSE 0
NumeraireValue(t) ==
    IF t.tok \in EthTokens THEN t.amt
    ELSE IF t.tok \in DOMAIN StableTokenMap
    THEN LET s == StableTokenMap[t.tok]
         IN  IF s.x = "USD" THEN t.amt * 10 ^ (UsdDecimals - s.dec) * TableRate(Dai, t.blk)
             ELSE t.amt * 10 ^ (BtcDecimals - s.dec) * TableRate(Wbtc, t.blk)
    ELSE t.amt * TableRate(t.tok, t.blk)

\* the user's own balance at the end of the last tx before (b, t)
BalanceBefore(u, s, b, t) ==
    LET fl == SlotFlow(u, s)
        before == {i \in 2..Len(fl) : fl[i].blk < b \/ (fl[i].blk = b /\ fl[i].tx < t)}
    IN  IF before = {} THEN 0 ELSE fl[Max(before)].bal

-----------------------------------------------------------------------------
(* Properties *)

\* RateRecord, check.go 113-122: the user and the token (the slot), the
\* totals, IsSingleTx and the block and tx of the withdraw flow; idx is the
\* flow's index, kept to tell records of one tx apart
RateRecord ==
    [user : Users, slot : {S5, S6}, dep : Nat, wd : Nat, single : BOOLEAN,
     blk : Blocks, tx : TxIdxs, idx : Nat]

\* AttackInfo under UserTokenAttackMap[user][token], check.go 74-84: the
\* block, the totals; the flow lists it also carries are left out
AttackInfo ==
    [user : Users, slot : {S5, S6}, dep : Nat, wd : Nat, single : BOOLEAN,
     blk : Blocks, tx : TxIdxs]

TypeOK ==
    /\ ledger \in [Users -> SUBSET TokenTxs]
    /\ phase \in {"flow", "record", "done", "attack", "checked"}
    /\ todo \subseteq Users
    /\ cur \in Users \cup {NoUser}
    /\ fd \in [blk : {0} \cup Blocks, tx : {0} \cup TxIdxs]
    /\ unsup \in BOOLEAN
    /\ records \subseteq RateRecord
    /\ \A p \in reported : p.rec \in records
    /\ attacks \subseteq AttackInfo

\* GenerateUserFlow: every entry of the per-tx list (0x5) carries exactly
\* the deposits and withdraws of the user's ledger up to its block, priced
\* from the price tables (stable tokens through their anchor, the rate of
\* the block's bucket), and every entry of the single-token list (0x6) the raw ones up to its
\* transfer: the running totals survive the opening of a new per-tx entry
\* and the transfers that are unpriced or of amount zero.
FlowTotalsMatchLedger ==
    LET Sum(u, a, V(_), In(_)) ==
          MapThenSumSet(V, {t \in ledger[u] : t.act = a /\ In(t)})
    IN
    phase # "flow" =>
    \A u \in Users : InFlowMap(u) =>
      /\ \A i \in 2..Len(flows[u].f5) :
           LET e == flows[u].f5[i]
               V(t) == NumeraireValue(t)
               In(t) == t.blk <= e.blk
           IN  e.dep = Sum(u, Deposit, V, In) /\ e.wd = Sum(u, Withdraw, V, In)
      /\ \A i \in 2..Len(flows[u].f6) :
           LET e == flows[u].f6[i]
               V(t) == t.amt
               In(t) == ~TxBefore(e, t)
           IN  e.dep = Sum(u, Deposit, V, In) /\ e.wd = Sum(u, Withdraw, V, In)

\* GenerateUserFlow with RecordRate and CheckAttack (spec section 8,
\* unsupported-token suppression): a user of several tokens with a
\* transfer the price tables give no rate for, in the bucket of its block,
\* gets no RateRecord and is never flagged.
UnpricedUserSuppressed ==
    \A u \in Users :
        /\ Cardinality({t.tok : t \in ledger[u]}) > 1
        /\ \E t \in ledger[u] : t.amt > 0 /\ NumeraireValue(t) = 0
        => /\ \A rec \in records : rec.user # u
           /\ \A a \in attacks : a.user # u

NoUnsupportedIn(rec) == \A v \in Absorbable(rec.user, rec.blk) : ~Unsupported(v, rec.slot)

\* RecordRate with GetRelatedTokenFlow: a RateRecord carries the user's
\* running totals plus, once each, the totals up to the record's tx of every
\* user reachable over related links no later than its block, when none of
\* those is unsupported and the user is not on a cycle of links.
AcyclicAbsorbedTotalsMatchReach ==
    \A rec \in records :
        NoUnsupportedIn(rec) /\ ~OnCycle(rec.user, rec.blk) =>
            ExpectedTotals(rec) = [dep |-> rec.dep, wd |-> rec.wd]

\* The same without the cycle condition: a walk that comes back to the
\* checked user must stop there and not add the user's totals a second time.
AbsorbedTotalsMatchReach ==
    \A rec \in records :
        NoUnsupportedIn(rec) => ExpectedTotals(rec) = [dep |-> rec.dep, wd |-> rec.wd]

\* RecordRate: no RateRecord is appended for a user that absorbs, at any
\* distance over the related links, a user holding an unpriced token.
UnsupportedNeverRecorded ==
    \A rec \in records : NoUnsupportedIn(rec)

\* RecordRate: a record is single-tx only when the user's position was
\* opened in that tx, i.e. the user's own balance was zero before it.
SingleTxStartsFromZero ==
    \A rec \in records :
        rec.single => BalanceBefore(rec.user, rec.slot, rec.blk, rec.tx) = 0

\* RecordRate over the per-tx list: a RateRecord names a tx in which the
\* user withdrew.
RecordAtWithdrawTx ==
    \A rec \in records :
        \E t \in ledger[rec.user] :
            t.blk = rec.blk /\ t.tx = rec.tx /\ t.act = Withdraw /\ t.amt > 0

\* AbnormalDetection: a single-tx record whose withdraws exceed its deposits
\* by the factor 1.0001, and a record with withdraws and no deposits, are
\* always printed.
DrainReported ==
    phase = "done" =>
    \A rec \in records :
        \/ rec.single /\ rec.dep > 0 /\ 10000 * rec.wd >= 10001 * rec.dep
        \/ rec.dep = 0 /\ rec.wd > 0
        => \E p \in reported : p.rec = rec

\* AbnormalDetection: a multi-tx record whose withdraws are at least three
\* times its deposits (ABNORMAL_RATE) is printed.
MultiTxDrainReported ==
    phase = "done" =>
    \A rec \in records :
        ~rec.single /\ rec.dep > 0 /\ rec.wd >= 3 * rec.dep
        => \E p \in reported : p.rec = rec

\* CheckAttack (test_hunter): a checked user whose own slot shows, at some
\* withdraw flow, withdraws with no deposit or at least three times its
\* deposits (spec laws ii and iii), and who has no related user to absorb up
\* to that flow, is flagged at that flow or at an earlier one.
AttackFlagsDrain ==
    phase = "checked" =>
    \A u \in {v \in Users : InFlowMap(v) /\ v \notin Common /\ ~flows[v].has7} :
      \A i \in 2..Len(SlotFlow(u, Slot(u))) :
        LET g == SlotFlow(u, Slot(u))[i] IN
        /\ Withdraw \in g.act /\ Absorbable(u, g.blk) = {}
        /\ \/ g.dep = 0 /\ g.wd > 0
           \/ g.dep > 0 /\ g.wd >= 3 * g.dep
        => \E a \in attacks : a.user = u /\ ~After([blk |-> a.blk, tx |-> a.tx], g)
=====
