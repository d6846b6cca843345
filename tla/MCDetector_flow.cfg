\* One user, a USD stable token and a token priced in one bucket only, zero
\* and unpriced transfers: the flow lists
\* and what AbnormalDetection prints for the user's records.
CONSTANTS
    u1 = u1  u2 = u2  u3 = u3  tA = tA  tB = tB
    Users = {u1}
    Tokens = {tA, tB}
    LPTokens = {}
    EthTokens = {}
    StableTokenMap <- StableUsdTA
    PriceTable <- TablesDaiAndTB
    Dai = Dai  Wbtc = Wbtc
    UsdDecimals = 1  BtcDecimals = 0
    BucketWidth = 2
    Blocks = {1, 2}
    TxIdxs = {0, 1}
    TransferIdxs = {0, 1}
    Amounts = {0, 1, 2}
    MaxLedger = 3
    LinkBlocks = {2}
    OneEther = 2
    Common = {}
    Managers = {}
    TokenUsers = {}
    Drivers = {"record", "attack"}
SPECIFICATION Spec
INVARIANT TypeOK FlowTotalsMatchLedger UnpricedUserSuppressed DrainReported AttackFlagsDrain
CHECK_DEADLOCK FALSE
