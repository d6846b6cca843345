\* Two users, three transfers each over two blocks, two transfers per tx: when
\* RecordRate marks a record single-tx.
CONSTANTS
    u1 = u1  u2 = u2  u3 = u3  tA = tA  tB = tB
    Users = {u1, u2}
    Tokens = {tA}
    LPTokens = {}
    EthTokens = {tA}
    StableTokenMap <- NoStableTokens
    PriceTable <- NoRateFiles
    Dai = Dai  Wbtc = Wbtc
    UsdDecimals = 1  BtcDecimals = 0
    BucketWidth = 500
    Blocks = {1, 2}
    TxIdxs = {0}
    TransferIdxs = {0, 1}
    Amounts = {1}
    MaxLedger = 3
    LinkBlocks = {1}
    OneEther = 2
    Common = {}
    Managers = {}
    TokenUsers = {}
    Drivers = {"record"}
SPECIFICATION Spec
INVARIANT SingleTxStartsFromZero
CHECK_DEADLOCK FALSE
