\* The walk of one tx of up to three calls: a router contract of the user
\* calls the proxy twice.
CONSTANTS
    u1 = u1  u2 = u2  c1 = c1  p1 = p1  zero = zero  none = none
    Users = {u1, u2}
    Contracts = {c1, p1}
    Proxies = {p1}
    LPTokens = {p1}
    Zero = zero
    None = none
    Feed <- FeedOne
    Kinds = {"Call", "StaticCall", "DelegateCall", "Create"}
    Ends = {u2, p1, zero}
    MaxCalls <- CallsThree
    MaxDepth = 3
    MinActions = 1
    MaxRelated = 0
    StableClass <- Stable
    Drivers = {"replay", "test"}
SPECIFICATION Spec
INVARIANT ClassifiedAtActionEnd
CHECK_DEADLOCK FALSE
