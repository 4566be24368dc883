SPECIFICATION Spec
CONSTANTS
    Precision = 100
    alice = alice
    bob = bob
    bnba = bnba
    bnbb = bnbb
    User = {alice, bob}
    CollateralType = {bnba}
    CollateralDenom <- MCDenom
    CollateralUnit <- MCUnit
    DebtUnit = 100
    Market = {"spot"}
    Price = {100, 200}
    CollateralAmount = {3}
    StableAmount = {1, 2}
    AuctionAmount = {}
    Depositor <- MCAnyDeposits
    GenesisBank <- MCBank
    GenesisParams <- MCLargeReward
    ParamSets = {}
    BlockInterval = {1}
    MaxHeight = 4
    MaxCdps = 2
\* A rounding error may stop the chain, see CdpHalt.cfg.
CHECK_DEADLOCK FALSE
SYMMETRY MCSymmetry
INVARIANTS
    TypeOK
    CollateralBacked
    PositionsSound
PROPERTIES
    InterestSettled
    DrawsSafe
    SweptSafe
