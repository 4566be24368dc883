SPECIFICATION Spec
CONSTANTS
    Precision = 100
    alice = alice
    bob = bob
    bnba = bnba
    bnbb = bnbb
    User = {alice}
    CollateralType = {bnba, bnbb}
    CollateralDenom <- MCDenom
    CollateralUnit <- MCUnit
    DebtUnit = 100
    Market = {"spot", "liq"}
    Price = {400}
    CollateralAmount = {2}
    StableAmount = {4, 5}
    AuctionAmount = {}
    Depositor <- MCOwnDeposits
    GenesisBank <- MCBank
    GenesisParams <- MCTwoTypes
    ParamSets = {}
    BlockInterval = {0, 1}
    MaxHeight = 3
    MaxCdps = 2
\* Without a price no interest accrues and a restart is refused.
CHECK_DEADLOCK FALSE
PROPERTY GlobalDebtLimitKept
