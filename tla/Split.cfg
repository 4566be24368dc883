SPECIFICATION Spec
CONSTANTS
    Precision = 100
    Bucket = {b1, b2, b3}
    MaxAmount = 5
    MaxWeight = 3
    MaxCollateral = 14
    MaxDebt = 14
    MaxSize = 6
    Penalties = {0, 8, 50}
\* Each input is divided once.
CHECK_DEADLOCK FALSE
INVARIANTS
    SplitExact
    SplitClosest
    DepositFullyAuctioned
    AuctionsProportional
