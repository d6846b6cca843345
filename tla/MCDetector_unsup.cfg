\* Three users with every related-link graph, one token unpriced: whether a
\* user marked unsupported two links away still suppresses the record.
CONSTANTS
    u1 = u1  u2 = u2  u3 = u3  tA = tA  tB = tB
    Users = {u1, u2, u3}
    Tokens = {tA, tB}
    LPTokens = {}
    EthTokens = {tA}
    StableTokenMap <- NoStableTokens
    PriceTable <- NoRateFiles
    Dai = Dai  Wbtc = Wbtc
    UsdDecimals = 1  BtcDecimals = 0
    BucketWidth = 500
    Blocks = {1, 2}
    TxIdxs = {0}
    TransferIdxs = {0}
    Amounts = {1}
    MaxLedger = 2
    LinkBlocks = {2}
    OneEther = 2
    Common = {}
    Managers = {}
    TokenUsers = {}
    Drivers = {"record"}
SPECIFICATION Spec
INVARIANT UnsupportedNeverRecorded
CHECK_DEADLOCK FALSE
