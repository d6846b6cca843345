------------------------------ MODULE UserFlow ------------------------------
(***************************************************************************)
(* GenerateUserFlow (hunter/defi/check.go): turns one user's ledger, the   *)
(* set of classified token transfers the extractor recorded for it, into   *)
(* the flow lists the detector reads.                                      *)
(*                                                                         *)
(* A ledger entry is a TokenTx abstracted to its sort key (block, tx index,*)
(* transfer index), its token, its action and its raw amount.  A flow      *)
(* entry keeps block, tx index, the set of actions it carries (the code    *)
(* concatenates "deposit"/"withdraw" and only ever tests strings.Contains) *)
(* and the running totals and balance.                                     *)
(*                                                                         *)
(* The merged list prices each transfer from the price tables the way    *)
(* lines 299-335 do; the tables are constants, the state tokenSwapMap     *)
(* reaches once ExistToken has loaded every file it is asked for.         *)
(*                                                                         *)
(* Slots: the per-tx merged list 0x5 is always built; 0x6 is the flow of  *)
(* the user's only token when it touched exactly one; 0x7 marks a user     *)
(* with several tokens one of which has no price.  The per-transfer merged *)
(* list 0x4 and the stable-anchor lists are never read by the detector and *)
(* are left out.                                                           *)
(***************************************************************************)
EXTENDS Integers, Sequences, SequencesExt, FiniteSets

CONSTANTS
    Tokens,         \* token addresses that occur in ledgers
    LPTokens,       \* LPTokenMap: the stake (LP) tokens of the applications
    EthTokens,      \* 0x0 and WETH, priced at rate 1 (line 303)
    StableTokenMap, \* StableTokenMap[t] = [x, dec]: the anchor ("USD", "BTC")
                    \* and decimals of a stable token (LoadStableTokenInfo)
    PriceTable,     \* tokenSwapMap once loaded: PriceTable[a][k] is the rate
                    \* of a at bucket k; DOMAIN PriceTable holds the addresses
                    \* with a rate file, DOMAIN PriceTable[a] its buckets
    Dai, Wbtc,      \* the tokens that price the USD and BTC anchors
    UsdDecimals,    \* 18 in the code (line 318), scaled down for TLC
    BtcDecimals,    \* 8 in the code (line 322), scaled down for TLC
    BucketWidth     \* 500: rates are kept per bucket of blocks (line 330)

\* stableTokenToETH (XToken 0x1) leaves decimalsRate nil and Mul panics
\* (line 324); the tables given to the model carry only USD and BTC anchors.
ASSUME \A t \in DOMAIN StableTokenMap : StableTokenMap[t].x \in {"USD", "BTC"}

Deposit  == "deposit"
Withdraw == "withdraw"

\* TokenTxList.Less and TokenFlowList.Less: block, then tx, then transfer
TxBefore(a, b) ==
    \/ a.blk < b.blk
    \/ a.blk = b.blk /\ a.tx < b.tx
    \/ a.blk = b.blk /\ a.tx = b.tx /\ a.ti < b.ti

SortTokenTx(S) == SetToSortSeq(S, TxBefore)

\* The entry every list starts with: block 0, action "deposit", all zero.
Sentinel == [blk |-> 0, tx |-> 0, ti |-> 0, act |-> {Deposit}, dep |-> 0, wd |-> 0, bal |-> 0]

\* balance is TotalDeposit - TotalWithdraw, or 0 when not positive
BalanceOf(d, w) == IF d > w THEN d - w ELSE 0

(***************************************************************************)
(* Per-token flow: one entry per transfer of positive amount, in sorted    *)
(* order, carrying running totals in raw token units.                      *)
(***************************************************************************)
AppendTokenFlow(fl, t) ==
    IF t.amt > 0
    THEN LET last == fl[Len(fl)]
             d == last.dep + (IF t.act = Deposit THEN t.amt ELSE 0)
             w == last.wd + (IF t.act = Withdraw THEN t.amt ELSE 0)
         IN  Append(fl, [blk |-> t.blk, tx |-> t.tx, ti |-> t.ti, act |-> {t.act},
                         dep |-> d, wd |-> w, bal |-> BalanceOf(d, w)])
    ELSE fl

TokenFlowList(txs) == FoldLeft(AppendTokenFlow, <<Sentinel>>, SortTokenTx(txs))

(***************************************************************************)
(* Per-tx merged flow (slot 0x5).  All transfers of all tokens, sorted; a  *)
(* new entry is opened when a transfer's block is greater than the open    *)
(* entry's block, and it takes the tx index of that first transfer and the *)
(* running totals.  A transfer of positive amount in a priced token adds   *)
(* amount * rate; one in an unpriced token only marks the user.            *)
(***************************************************************************)
\* variant: the new entry starts its totals at zero instead of the running ones
OpenEntryZeroTotals(acc, t) ==
    IF t.blk > acc.cur.blk
    THEN [acc EXCEPT !.list = Append(@, acc.cur),
                     !.cur  = [blk |-> t.blk, tx |-> t.tx, ti |-> 0, act |-> {},
                               dep |-> 0, wd |-> 0, bal |-> 0]]
    ELSE acc

OpenEntry(acc, t) ==
    IF t.blk > acc.cur.blk
    THEN [acc EXCEPT !.list = Append(@, acc.cur),
                     !.cur  = [blk |-> t.blk, tx |-> t.tx, ti |-> 0, act |-> {},
                               dep |-> acc.dep, wd |-> acc.wd, bal |-> 0]]
    ELSE acc

(***************************************************************************)
(* The price of a transfer in the merged lists (lines 299-335): the amount *)
(* after the decimals of a stable token are folded in, and the rate.  A    *)
(* rate of 0 makes the transfer unsupported.                               *)
(***************************************************************************)
\* tokenSwapMap[xToken].RateMap[strconv(block / 500 * 500)]; a missing
\* file or bucket reads as 0
Bucket(b) == (b \div BucketWidth) * BucketWidth
RateAt(a, b) ==
    IF a \in DOMAIN PriceTable /\ Bucket(b) \in DOMAIN PriceTable[a]
    THEN PriceTable[a][Bucket(b)] ELSE 0

\* ExistToken (token.go 212-229): in tokenSwapMap, or its rate file loads
ExistToken(a) == a \in DOMAIN PriceTable

\* int64(math.Pow(10, d - dec)): a negative exponent truncates to 0
DecimalsRate(d, dec) == IF dec <= d THEN 10 ^ (d - dec) ELSE 0

Priced(t) ==
    CASE t.tok \in EthTokens        -> [amt |-> t.amt, rate |-> 1]
      [] ~ExistToken(t.tok)         -> [amt |-> t.amt, rate |-> 0]
      [] t.tok \in DOMAIN StableTokenMap ->
           LET s == StableTokenMap[t.tok]
               a == IF s.x = "USD" THEN Dai ELSE Wbtc
               d == IF s.x = "USD" THEN UsdDecimals ELSE BtcDecimals
           IN  [amt |-> t.amt * DecimalsRate(d, s.dec), rate |-> RateAt(a, t.blk)]
      [] OTHER                      -> [amt |-> t.amt, rate |-> RateAt(t.tok, t.blk)]

\* variant: a transfer without a rate is added at value 0 (no rate > 0 test)
MergeTokenTxZeroRate(acc, t) ==
    LET o == OpenEntry(acc, t)
        p == Priced(t)
        v == p.amt * p.rate
        d == o.dep + (IF t.act = Deposit THEN v ELSE 0)
        w == o.wd + (IF t.act = Withdraw THEN v ELSE 0)
    IN  IF t.amt = 0 THEN o
        ELSE [o EXCEPT !.dep = d, !.wd = w,
                       !.cur = [@ EXCEPT !.act = @ \cup {t.act}, !.dep = d,
                                         !.wd = w, !.bal = BalanceOf(d, w)]]

MergeTokenTx(acc, t) ==
    LET o == OpenEntry(acc, t)
        p == Priced(t)
        v == p.amt * p.rate
        d == o.dep + (IF t.act = Deposit THEN v ELSE 0)
        w == o.wd + (IF t.act = Withdraw THEN v ELSE 0)
    IN  CASE t.amt = 0          -> o
          [] p.rate = 0         -> [o EXCEPT !.unsup = TRUE]
          [] OTHER              ->
               [o EXCEPT !.dep = d, !.wd = w,
                         !.cur = [@ EXCEPT !.act = @ \cup {t.act}, !.dep = d,
                                           !.wd = w, !.bal = BalanceOf(d, w)]]

MergedFlow(txs) ==
    FoldLeft(MergeTokenTx,
             [list |-> <<>>, cur |-> Sentinel, dep |-> 0, wd |-> 0, unsup |-> FALSE],
             SortTokenTx(txs))

\* the flow of a token is built unless it is an LP token and not stable
\* (lines 153-162); 0x6 of a user whose one token is skipped holds nil
FlowBuilt(k) == k \in DOMAIN StableTokenMap \/ k \notin LPTokens

\* The tokenFlowMap of one user with a non-empty ledger.
UserFlows(txs) ==
    LET m      == MergedFlow(txs)
        toks   == {t.tok : t \in txs}
        single == Cardinality(toks) = 1
    IN  [f5   |-> Append(m.list, m.cur),
         has6 |-> single,
         f6   |-> IF single /\ \A k \in toks : FlowBuilt(k) THEN TokenFlowList(txs) ELSE <<>>,
         has7 |-> ~single /\ m.unsup]
=============================================================================
