----------------------------- MODULE Extractor -----------------------------
(***************************************************************************)
(* The extractor of hunter/defi/extractor.go.  Stage 1 replays every tx of *)
(* the feed (in the task pool's order, i.e. any order) and walks its call  *)
(* tree: ExtractTokenTx seeds the two address partitions, extractInTxInfo  *)
(* descends the tree, collects the ether and ERC-20 transfers and stores   *)
(* an ActionInfo when a user-supplied address calls a proxy.  Stage 2      *)
(* (hunter/main.go 44-46, replay_with_tx.go 132-134) computes the common   *)
(* addresses and the common related users, then ExtractActionInfoListNew   *)
(* turns the actions' transfers into the ledger and the related graph.    *)
(*                                                                         *)
(* The call tree is generated while it is walked: entering a call chooses *)
(* its callee, kind, value and decoded address argument, leaving it       *)
(* chooses the event it emitted.  The emitter of an event, and the caller *)
(* of a child call, is the address whose code runs the frame: the callee, *)
(* or for a DelegateCall the frame that delegated.                        *)
(***************************************************************************)
EXTENDS Naturals, Sequences, FiniteSets, FiniteSetsExt

CONSTANTS
    Users,          \* externally owned accounts: the senders of txs
    Contracts,      \* contract addresses
    Proxies,        \* keys of ProxyABIMap
    LPTokens,       \* keys of LPTokenMap
    Zero,           \* the zero address
    None,           \* no decoded address argument
    Feed,           \* the txs replayed: records [blk, idx]
    Kinds,          \* call kinds the traces contain
    Ends,           \* addresses, the zero address included, that Transfer
                    \* events name as sender or recipient
    MaxCalls,       \* bound: calls in each tx of the feed, a function on Feed
    MaxDepth,       \* bound: depth of the call tree
    MinActions,     \* UpdateCommonAddressMap's 100 actions
    MaxRelated,     \* UpdateCommonRelatedUser's 50 related users
    StableClass,    \* StableTokenMap[token].XToken as "eth", "usd", "btc", "others"
    Drivers         \* the stage-2 sequences that may run: "replay" (replay_with_tx,
                    \* hunter/main.go) or "test" (test_hunter.go 234-235)

Addrs == Users \cup Contracts

ASSUME /\ Proxies \subseteq Contracts /\ LPTokens \subseteq Contracts
       /\ Users \cap Contracts = {} /\ Zero \notin Addrs /\ None \notin Addrs
       /\ Ends \subseteq Addrs \cup {Zero}

VARIABLES
    feed,           \* txs not yet replayed
    stack,          \* extractInTxInfo's recursion: one frame per open call
    calls,          \* calls entered in the current tx
    us,             \* userSuppliedAddress of the current tx
    pr,             \* proxyRelatedAddress of the current tx
    tidx,           \* *transferIndex of the current tx
    roles,          \* addresses with RoleMap "manager"
    proxyRelated,   \* ProxyRelatedAddresses
    actions,        \* ActionInfoList, in order of storing
    txSets,         \* the maps us and pr of each replayed tx, which every
                    \* ActionInfo of the tx references
    addrCount,      \* AddressCountMap
    rel,            \* UserRelatedMap: rel[m][r] is the block, 0 when absent
    common,         \* CommonAddressMap
    commonRelated,  \* CommonRelatedUser
    ledger,         \* UserTokenTxMap as a set of [owner, action, tx, init]
    relatedToken,   \* RelatedToken
    mode,           \* FlowMergeMode
    stage           \* "extract", then "related" -> "classify" -> "done"
                    \* (replay) or "classifyOld" -> "done" (test)

vars == <<feed, stack, calls, us, pr, tidx, roles, proxyRelated, actions,
          txSets, addrCount, rel, common, commonRelated, ledger,
          relatedToken, mode, stage>>

walk == <<feed, stack, calls, us, pr, tidx, roles, proxyRelated, actions,
          txSets, addrCount>>

TokenTx == [token : Addrs \cup {Zero}, sender : Addrs \cup {Zero}, to : Addrs \cup {Zero},
            ti : Nat, blk : Nat, txi : Nat]

\* the tx a TokenTx was collected in
TxOf(x) == [blk |-> x.blk, idx |-> x.txi]

\* ActionInfo, extractor.go 102-111: the Action label, the initiator, the
\* tx, its TokenTxList and the tx's userSupplied map (usEnd, as it was when
\* the action was stored; the map itself is shared, see txSets); the
\* method name is left out
ActionInfo ==
    [init : Addrs, t : Feed, list : SUBSET TokenTx, usEnd : SUBSET Addrs,
     label : {"none", "deposit", "withdraw", "borrow", "swap"}]

-----------------------------------------------------------------------------
(* updateUserRelatedMap, extractor.go 628-639: no self-link, and a link    *)
(* keeps the smallest block it was updated with.                          *)
updateUserRelatedMap(g, links) ==
    IF links = {} THEN g ELSE
    [m \in Addrs |-> [r \in Addrs |->
        LET new == {l[3] : l \in {k \in links : k[1] = m /\ k[2] = r}}
            old == IF g[m][r] = 0 THEN {} ELSE {g[m][r]}
        IN  IF m # r /\ new # {} THEN Min(new \cup old) ELSE g[m][r]]]

-----------------------------------------------------------------------------
(* Entering a call: the part of extractInTxInfo before the recursion,      *)
(* extractor.go 189-255.  f is the frame of the caller's code.            *)

\* the decoded method's address argument may be mined: ABI args, 211-221
ArgUserNoProxyCheck(from, arg, rl, u, p) ==
    /\ arg # None /\ from \in u /\ arg \notin rl

ArgUser(from, arg, rl, u, p) ==
    /\ arg # None /\ from \in u /\ arg \notin p /\ arg \notin rl

\* the roles after the call, lines 195-197 and 219-221
RolesAfter(from, to, kind, arg, isTransfer) ==
    LET rl == IF to \in Proxies /\ kind = "Create" THEN roles \cup {from} ELSE roles
    IN  IF to \in Proxies /\ kind # "StaticCall" /\ arg # None
           /\ from \in rl /\ ~isTransfer
        THEN rl \cup {arg} ELSE rl

\* userSupplied and proxyRelated after the proxy block (193-226) and the
\* flow of unknown addresses into the caller's partition (228-236)
SetsAfter(from, to, kind, arg, rl, u, p) ==
    LET boundary == to \in Proxies /\ kind # "StaticCall"
        \* line 213 reads RoleMap[arg] before line 217 may make arg a manager
        rl0 == RolesAfter(from, to, kind, None, FALSE)
        u1 == IF boundary /\ ArgUser(from, arg, rl0, u, p) THEN u \cup {arg} ELSE u
        p1 == IF boundary THEN p \cup {to} ELSE p
        flow == kind \notin {"StaticCall", "DelegateCall"} /\ to \notin u1 /\ to \notin p1
    IN  IF flow /\ from \in u1 /\ to \notin rl THEN <<u1 \cup {to}, p1>>
        ELSE IF flow /\ from \in p1 THEN <<u1, p1 \cup {to}>>
        ELSE <<u1, p1>>

\* the ether transfer of a call with value, 240-252
EtherTx(from, to, value, ti, t) ==
    IF value THEN {[token |-> Zero, sender |-> from, to |-> to, ti |-> ti,
                    blk |-> t.blk, txi |-> t.idx]}
    ELSE {}

\* the choices a call offers: only proxies have a decoded ABI, only Call and
\* Create carry value, accounts have no code and are only paid; whether the
\* method is transfer or transferFrom matters only for a manager's call
CallChoice(from, to, kind, value, arg, isTransfer) ==
    /\ kind \in Kinds
    /\ to \in Users => kind = "Call"
    /\ value \in (IF kind \in {"Call", "Create"} THEN BOOLEAN ELSE {FALSE})
    /\ arg \in (IF to \in Proxies /\ kind # "StaticCall" THEN Addrs \cup {None} ELSE {None})
    /\ isTransfer \in (IF arg # None /\ from \in RolesAfter(from, to, kind, None, FALSE)
                       THEN BOOLEAN ELSE {FALSE})

\* the part of one call that runs before its children, from the sets u and
\* p and transfer index ti; the frame remembers whose code runs (ctx)
Enter(from, to, kind, value, arg, isTransfer, ctx, t, u, p, ti) ==
    LET rl == RolesAfter(from, to, kind, arg, isTransfer)
        s  == SetsAfter(from, to, kind, arg, rl, u, p)
    IN  /\ roles' = rl
        /\ us' = s[1]
        /\ pr' = s[2]
        /\ tidx' = ti + (IF value THEN 1 ELSE 0)
        /\ stack' = Append(stack,
              [from |-> from, ctx |-> ctx, t |-> t,
               action |-> to \in Proxies /\ kind # "StaticCall" /\ from \in u,
               list |-> EtherTx(from, to, value, ti, t)])

\* ExtractTokenTx with one outer call, 169-181: the partitions are seeded
\* with the sender and the proxies, and the walk enters the root.  An
\* account sends a Call or a Create to a contract (a payment to another
\* account reaches no proxy and records nothing)
StartTx(t) ==
    /\ stage = "extract" /\ stack = <<>> /\ t \in feed
    /\ \E from \in Users, to \in Contracts, kind \in Kinds \ {"StaticCall", "DelegateCall"},
          value \in BOOLEAN, arg \in Addrs \cup {None}, isTransfer \in BOOLEAN :
        /\ CallChoice(from, to, kind, value, arg, isTransfer)
        /\ Enter(from, to, kind, value, arg, isTransfer, to, t, {from}, Proxies, 0)
    /\ feed' = feed \ {t}
    /\ calls' = 1
    /\ UNCHANGED <<proxyRelated, actions, txSets, addrCount, rel,
                   common, commonRelated, ledger, relatedToken, mode, stage>>

\* ExtractTokenTx on a tree whose root is not a single outer call: the walk
\* is skipped and the empty proxyRelated map adds nothing, 176 and 182-184
IgnoreTx(t) ==
    /\ stage = "extract" /\ stack = <<>> /\ t \in feed
    /\ feed' = feed \ {t}
    /\ UNCHANGED <<stack, calls, us, pr, tidx, roles, proxyRelated, actions,
                   txSets, addrCount, rel, common, commonRelated,
                   ledger, relatedToken, mode, stage>>

\* the recursion into a child call, 253-256: the caller is the address
\* whose code runs the parent frame
Call ==
    /\ stage = "extract" /\ stack # <<>>
    /\ LET f == stack[Len(stack)] IN
       /\ calls < MaxCalls[f.t] /\ Len(stack) < MaxDepth
       /\ f.ctx \in Contracts
       /\ \E to \in Addrs, kind \in Kinds, value \in BOOLEAN,
             arg \in Addrs \cup {None}, isTransfer \in BOOLEAN :
            /\ CallChoice(f.ctx, to, kind, value, arg, isTransfer)
            /\ Enter(f.ctx, to, kind, value, arg, isTransfer,
                     IF kind = "DelegateCall" THEN f.ctx ELSE to, f.t, us, pr, tidx)
    /\ calls' = calls + 1
    /\ UNCHANGED <<feed, proxyRelated, actions, txSets, addrCount, rel,
                   common, commonRelated, ledger, relatedToken, mode, stage>>

-----------------------------------------------------------------------------
(* Leaving a call: the events of the frame and the ActionInfo, 258-313.   *)

\* the event a frame emits: none, or a Transfer of the token whose code
\* runs the frame (extractEvent, 673-703); accounts emit nothing.  An event
\* that is not a Transfer only advances transferIndex (262-263), and the
\* index is only ever compared, so such events are left out.  A Transfer
\* from an address to itself is left out too: it is never a deposit or a
\* withdraw (both need one side user-supplied and the other not), makes no
\* link (updateUserRelatedMap drops self-links), and only adds to the
\* address's count, which its transfers with other addresses also do
Events(f) ==
    {[kind |-> "none", sender |-> Zero, to |-> Zero]} \cup
    IF f.ctx \in Users THEN {}
    ELSE {[kind |-> "transfer", sender |-> s, to |-> r] :
             <<s, r>> \in {<<s, r>> \in Ends \X Ends : s # r}}

\* the TokenTx a Transfer event yields, with the current transfer index
EventTx(f, ev) ==
    IF ev.kind = "transfer"
    THEN {[token |-> f.ctx, sender |-> ev.sender, to |-> ev.to, ti |-> tidx,
           blk |-> f.t.blk, txi |-> f.t.idx]}
    ELSE {}

\* an LP token moved between two addresses that are not proxies, 272-284
LPLinks(f, ev) ==
    IF /\ ev.kind = "transfer" /\ f.ctx \in LPTokens
       /\ ev.sender # Zero /\ ev.to # Zero
       /\ ev.sender \notin Proxies /\ ev.to \notin Proxies
    THEN {<<ev.to, ev.sender, f.t.blk>>}
    ELSE {}

\* AddressCountMap after an action's list is counted, 288-296: transfers of
\* tokens that are not proxies, between non-zero addresses
Counted(L) ==
    {x \in L : x.token \notin Proxies /\ x.sender # Zero /\ x.to # Zero}

CountAfter(L) ==
    [a \in Addrs |-> addrCount[a] + Cardinality({x \in Counted(L) : x.sender = a})
                                  + Cardinality({x \in Counted(L) : x.to = a})]

\* the list a frame returns to its caller: an action returns none, 310-313;
\* a stored ActionInfo's Action is always "none" (line 300)
Returned(f, ev) == IF f.action THEN {} ELSE f.list \cup EventTx(f, ev)

\* ExtractStakeTokenTx, 641-672: for a tree with one outer call, a second
\* walk of every frame passes each Transfer of an LP token between two
\* non-zero addresses that are not proxies to updateUserRelatedMap, at the
\* tx's block.  The Transfers of the tree are those in the lists of the open
\* frames and of the tx's stored actions: an action keeps its sub-tree's
\* list, any other frame passes its list up (310-313)
TreeTransfers(t) ==
    UNION {stack[i].list : i \in 1..Len(stack)}
    \cup UNION {actions[j].list : j \in {k \in 1..Len(actions) : actions[k].t = t}}

ExtractStakeTokenTx(T, t) ==
    {<<x.to, x.sender, t.blk>> :
        x \in {y \in T : /\ y.token \in LPTokens /\ y.sender # Zero /\ y.to # Zero
                        /\ y.sender \notin Proxies /\ y.to \notin Proxies}}

\* the post-order part shared by every frame: events, links (with those of
\* the second walk, when it runs), and for an action the count and the
\* stored ActionInfo
Leave(f, ev, again) ==
    LET L == f.list \cup EventTx(f, ev) IN
    /\ rel' = updateUserRelatedMap(rel, LPLinks(f, ev) \cup again)
    /\ IF f.action
       THEN /\ addrCount' = CountAfter(L)
            /\ actions' = Append(actions, [init |-> f.from, t |-> f.t, list |-> L, usEnd |-> us,
                                             label |-> "none"])
       ELSE UNCHANGED <<addrCount, actions>>

\* a child call returns its list to its caller, 253-256
Return ==
    /\ stage = "extract" /\ Len(stack) > 1
    /\ LET n == Len(stack) f == stack[n] p == stack[n - 1] IN
       \E ev \in Events(f) :
        /\ Leave(f, ev, {})
        /\ tidx' = tidx + (IF ev.kind = "none" THEN 0 ELSE 1)
        /\ stack' = Append(SubSeq(stack, 1, n - 2), [p EXCEPT !.list = @ \cup Returned(f, ev)])
    /\ UNCHANGED <<feed, calls, us, pr, roles, proxyRelated, txSets, common,
                   commonRelated, ledger, relatedToken, mode, stage>>

\* the root returns: ExtractTokenTx copies proxyRelated, 182-184.  The
\* replay worker then calls ExtractStakeTokenTx on the same tx
\* (replay_with_tx.go 248-249); test_hunter's InitTokenUserTxMap does not
\* (extractor.go 727), so whether the second walk runs is a choice
FinishTx ==
    /\ stage = "extract" /\ Len(stack) = 1
    /\ LET f == stack[1] IN
       \E ev \in Events(f), second \in BOOLEAN :
        /\ Leave(f, ev, IF second THEN ExtractStakeTokenTx(TreeTransfers(f.t) \cup EventTx(f, ev), f.t)
                         ELSE {})
        /\ txSets' = [txSets EXCEPT ![f.t] = [us |-> us, pr |-> pr]]
    /\ proxyRelated' = proxyRelated \cup pr
    /\ stack' = <<>> /\ us' = {} /\ pr' = {} /\ calls' = 0 /\ tidx' = 0
    /\ UNCHANGED <<feed, roles, common, commonRelated, ledger, relatedToken, mode, stage>>

-----------------------------------------------------------------------------
(* Stage 2, run once after every tx has been replayed.                     *)

\* UpdateCommonAddressMap, 324-340: the proxies, and once there are more
\* than MinActions actions the addresses counted in over 0.3 of them; the
\* replay drivers go on with UpdateCommonRelatedUser, test_hunter with the
\* old ExtractActionInfoList
UpdateCommonAddressMap ==
    /\ stage = "extract" /\ feed = {} /\ stack = <<>>
    /\ common' = Proxies \cup
          IF Len(actions) > MinActions
          THEN {a \in Addrs : 10 * addrCount[a] > 3 * Len(actions)}
          ELSE {}
    /\ \E d \in Drivers : stage' = IF d = "replay" THEN "related" ELSE "classifyOld"
    /\ UNCHANGED <<walk, rel, commonRelated, ledger, relatedToken, mode>>

\* UpdateCommonRelatedUser, 316-322
UpdateCommonRelatedUser ==
    /\ stage = "related"
    /\ commonRelated' = {u \in Addrs : Cardinality({r \in Addrs : rel[u][r] # 0}) > MaxRelated}
    /\ stage' = "classify"
    /\ UNCHANGED <<walk, rel, common, ledger, relatedToken, mode>>

(* ExtractActionInfoListNew, 342-481.  Every action is classified with the *)
(* maps its tx's walk left behind (the ActionInfo holds references to      *)
(* them), and with the common addresses.  The loop runs over a Go map, but *)
(* its effects (set unions, the minimum of updateUserRelatedMap, counts)   *)
(* do not depend on the order, so the whole loop is one step.              *)

\* the LP mints and burns of an action, 356-365
DepositTo(a) ==
    {x.to : x \in {y \in a.list : y.token \in LPTokens /\ y.to \notin common /\ y.sender = Zero}}

WithdrawFrom(a) ==
    {x.sender : x \in {y \in a.list : /\ y.token \in LPTokens
                                      /\ ~(y.to \notin common /\ y.sender = Zero)
                                      /\ y.sender \notin common /\ y.to = Zero}}

\* the other transfers between non-zero addresses, 366-368
WithoutLP(a) ==
    {x \in a.list : x.token \notin LPTokens /\ x.sender # Zero /\ x.to # Zero}

\* the deposit and withdraw conditions, 406 and 425
IsDeposit(a, x) ==
    LET S == txSets[a.t] IN
    /\ x.sender \in S.us /\ x.sender \notin common /\ x.to \notin S.us
    /\ (x.to \in common \/ x.to \in S.pr \/ x.sender = a.init)

IsWithdraw(a, x) ==
    LET S == txSets[a.t] IN
    /\ ~IsDeposit(a, x)
    /\ x.to \in S.us /\ x.to \notin common /\ x.sender \notin S.us
    /\ (x.sender \in common \/ x.sender \in S.pr \/ x.to = a.init)

\* the owner o of a transfer is linked with the initiator, 417 and 436
RouterLinked(a, o) ==
    LET S == txSets[a.t] IN o \in S.us /\ o \notin S.pr /\ o \notin roles

Deposits(a) == {x \in WithoutLP(a) : IsDeposit(a, x)}
Withdraws(a) == {x \in WithoutLP(a) : IsWithdraw(a, x)}

\* the ledger entries of an action, 408-412 and 427-431
Entries(a) ==
    {[owner |-> x.sender, action |-> "deposit", tx |-> x, init |-> a.init] : x \in Deposits(a)}
    \cup {[owner |-> x.to, action |-> "withdraw", tx |-> x, init |-> a.init] : x \in Withdraws(a)}

\* the updateUserRelatedMap calls of an action, 414-419 and 433-438
Links(a) ==
    LET b == a.t.blk IN
    {<<d, x.sender, b>> : d \in DepositTo(a), x \in Deposits(a)}
    \cup {<<a.init, x.sender, b>> : x \in {y \in Deposits(a) : RouterLinked(a, y.sender)}}
    \cup {<<x.to, w, b>> : w \in WithdrawFrom(a), x \in Withdraws(a)}
    \cup {<<x.to, a.init, b>> : x \in {y \in Withdraws(a) : RouterLinked(a, y.to)}}

\* FlowMergeMode from the stable classes of the RelatedToken keys, 447-474
FlowMergeModeClassName(rt) ==
    LET classes == {StableClass[t] : t \in {k \in DOMAIN rt : rt[k] > 0}}
    IN  IF Cardinality(classes) = 1 THEN CHOOSE c \in classes : TRUE ELSE "mix"

FlowMergeMode(rt) ==
    LET keys == {t \in DOMAIN rt : rt[t] > 0}
        classes == {StableClass[t] : t \in keys}
    IN  IF Cardinality(classes) = 1
        THEN CASE classes = {"eth"} -> "eth"
               [] classes = {"usd"} -> "usd"
               [] classes = {"btc"} -> "btc"
               [] OTHER -> IF Cardinality(keys) > 1 THEN "mix" ELSE "single"
        ELSE "mix"

ExtractActionInfoListNew ==
    /\ stage = "classify"
    /\ LET A == {actions[i] : i \in 1..Len(actions)}
           new == UNION {Entries(a) : a \in A}
           links == UNION {Links(a) : a \in A}
           rt == [t \in DOMAIN relatedToken |->
                    relatedToken[t] + Cardinality({e \in new : e.tx.token = t})]
       IN  /\ ledger' = ledger \cup new
           /\ rel' = updateUserRelatedMap(rel, links)
           /\ relatedToken' = rt
           /\ mode' = FlowMergeMode(rt)
    /\ stage' = "done"
    /\ UNCHANGED <<walk, common, commonRelated>>

(* ExtractActionInfoList, 483-626, the classification test_hunter runs.    *)
(* The LP mints and burns are taken without the common check (496-506),   *)
(* every other transfer is kept, zero address included (507-509), and the *)
(* transfers are classified by the action's label against the common      *)
(* addresses only.                                                         *)

OldDepositTo(a) == {x.to : x \in {y \in a.list : y.token \in LPTokens /\ y.sender = Zero}}

OldWithdrawFrom(a) ==
    {x.sender : x \in {y \in a.list : y.token \in LPTokens /\ y.sender # Zero /\ y.to = Zero}}

OldWithoutLP(a) == {x \in a.list : x.token \notin LPTokens}

\* a transfer into the application, and one out of it, 518, 537, 555, 575
IntoCommon(x) == x.to \in common /\ x.sender # Zero
OutOfCommon(x) == x.sender \in common /\ x.to # Zero

\* the ledger entries of an action by its label, 513-593
OldEntries(a) ==
    LET E(o, k, x) == [owner |-> o, action |-> k, tx |-> x, init |-> a.init]
        W == OldWithoutLP(a)
    IN  CASE a.label = "deposit" -> {E(x.sender, "deposit", x) : x \in {y \in W : IntoCommon(y)}}
          [] a.label = "withdraw" -> {E(x.to, "withdraw", x) : x \in {y \in W : OutOfCommon(y)}}
          [] a.label \in {"borrow", "swap"} ->
                {E(x.sender, a.label \o "-in", x) : x \in {y \in W : IntoCommon(y)}}
                \cup {E(x.to, a.label \o "-out", x) : x \in {y \in W : ~IntoCommon(y) /\ OutOfCommon(y)}}
          [] OTHER -> {}

\* its updateUserRelatedMap calls, 526-528 and 545-547
OldLinks(a) ==
    LET W == OldWithoutLP(a) b == a.t.blk IN
    IF a.label = "deposit"
    THEN {<<d, x.sender, b>> : d \in OldDepositTo(a), x \in {y \in W : IntoCommon(y)}}
    ELSE IF a.label = "withdraw"
    THEN {<<x.to, w, b>> : w \in OldWithdrawFrom(a), x \in {y \in W : OutOfCommon(y)}}
    ELSE {}

ExtractActionInfoList ==
    /\ stage = "classifyOld"
    /\ LET A == {actions[i] : i \in 1..Len(actions)}
           new == UNION {OldEntries(a) : a \in A}
           rt == [t \in DOMAIN relatedToken |->
                    relatedToken[t] + Cardinality({e \in new : e.tx.token = t})]
       IN  /\ ledger' = ledger \cup new
           /\ rel' = updateUserRelatedMap(rel, UNION {OldLinks(a) : a \in A})
           /\ relatedToken' = rt
           /\ mode' = FlowMergeMode(rt)
    /\ stage' = "done"
    /\ UNCHANGED <<walk, common, commonRelated>>

-----------------------------------------------------------------------------
Init ==
    /\ feed = Feed
    /\ stack = <<>> /\ calls = 0 /\ us = {} /\ pr = {} /\ tidx = 0
    /\ roles = {} /\ proxyRelated = {}
    /\ actions = <<>>
    /\ txSets = [t \in Feed |-> [us |-> {}, pr |-> {}]]
    /\ addrCount = [a \in Addrs |-> 0]
    /\ rel = [m \in Addrs |-> [r \in Addrs |-> 0]]
    /\ common = {} /\ commonRelated = {}
    /\ ledger = {}
    /\ relatedToken = [t \in Addrs \cup {Zero} |-> 0]
    /\ mode = "single"
    /\ stage = "extract"

Next ==
    \/ \E t \in Feed : StartTx(t) \/ IgnoreTx(t)
    \/ Call \/ Return \/ FinishTx
    \/ UpdateCommonAddressMap \/ UpdateCommonRelatedUser
    \/ ExtractActionInfoListNew
    \/ ExtractActionInfoList

Spec == Init /\ [][Next]_vars

-----------------------------------------------------------------------------
TypeOK ==
    /\ feed \subseteq Feed
    /\ us \subseteq Addrs /\ pr \subseteq Addrs /\ roles \subseteq Addrs
    /\ calls \in Nat /\ Len(stack) \in 0..MaxDepth
    /\ actions \in Seq(ActionInfo)
    /\ addrCount \in [Addrs -> Nat]
    /\ rel \in [Addrs -> [Addrs -> Nat]]
    /\ common \subseteq Addrs /\ commonRelated \subseteq Addrs
    /\ \A e \in ledger : e.owner \in Addrs /\ e.action \in {"deposit", "withdraw", "borrow-in", "borrow-out",
                                                        "swap-in", "swap-out"}
    /\ mode \in {"single", "eth", "usd", "btc", "mix"}
    /\ stage \in {"extract", "related", "classify", "classifyOld", "done"}

\* extractInTxInfo adds an address to userSupplied only when it is not
\* proxy-related and to proxyRelated only when it is not user-supplied, so
\* along any walk through arguments, value calls and delegate frames no
\* address is both the user's and the application's
PartitionsDisjoint ==
    /\ us \cap pr = {}
    /\ \A t \in Feed : txSets[t].us \cap txSets[t].pr = {}

\* the spec (4.1, step 6) classifies an action's transfers when its sub-tree
\* completes: every ledger owner was user-supplied at that moment.  The
\* ActionInfo holds the tx's maps by reference (extractor.go 306-307), so
\* later calls of the same tx change the sets the action is classified with
ClassifiedAtActionEnd ==
    \A i \in 1..Len(actions), e \in ledger :
        e.tx \in actions[i].list => e.owner \in actions[i].usEnd
=============================================================================
