\* One user draining its deposit over several txs: what AbnormalDetection
\* prints in multi-tx mode.
CONSTANTS
    u1 = u1  u2 = u2  u3 = u3  tA = tA  tB = tB
    Users = {u1}
    Tokens = {tA}
    LPTokens = {}
    EthTokens = {tA}
    StableTokenMap <- NoStableTokens
    PriceTable <- NoRateFiles
    Dai = Dai  Wbtc = Wbtc
    UsdDecimals = 1  BtcDecimals = 0
    BucketWidth = 500
    Blocks = {1, 2}
    TxIdxs = {0, 1}
    TransferIdxs = {0}
    Amounts = {1, 3}
    MaxLedger = 2
    LinkBlocks = {1}
    OneEther = 2
    Common = {}
    Managers = {}
    TokenUsers = {}
    Drivers = {"record"}
SPECIFICATION Spec
INVARIANT MultiTxDrainReported
CHECK_DEADLOCK FALSE
