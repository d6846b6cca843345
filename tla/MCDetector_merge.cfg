\* One user with two tokens in two txs of one block: the per-tx list 0x5.
CONSTANTS
    u1 = u1  u2 = u2  u3 = u3  tA = tA  tB = tB
    Users = {u1}
    Tokens = {tA, tB}
    LPTokens = {}
    EthTokens = {tA}
    StableTokenMap <- NoStableTokens
    PriceTable <- TBPricedAtTwo
    Dai = Dai  Wbtc = Wbtc
    UsdDecimals = 1  BtcDecimals = 0
    BucketWidth = 500
    Blocks = {1, 2}
    TxIdxs = {0, 1}
    TransferIdxs = {0}
    Amounts = {1}
    MaxLedger = 2
    LinkBlocks = {1}
    OneEther = 2
    Common = {}
    Managers = {}
    TokenUsers = {}
    Drivers = {"record"}
SPECIFICATION Spec
INVARIANT RecordAtWithdrawTx
CHECK_DEADLOCK FALSE
