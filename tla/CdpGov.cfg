SPECIFICATION Spec
CONSTANTS
    Precision = 100
    alice = alice
    bob = bob
    bnba = bnba
    bnbb = bnbb
    User = {alice}
    CollateralType = {bnba}
    CollateralDenom <- MCDenom
    CollateralUnit <- MCUnit
    DebtUnit = 100
    Market = {"spot", "liq"}
    Price = {100, 200}
    CollateralAmount = {4}
    StableAmount = {2}
    AuctionAmount = {2}
    Depositor <- MCOwnDeposits
    GenesisBank <- MCBank
    GenesisParams <- MCOneType
    ParamSets <- MCGovernance
    BlockInterval = {1}
    MaxHeight = 4
    MaxCdps = 2
\* A type that was switched off with open positions cannot be exported.
CHECK_DEADLOCK FALSE
INVARIANTS
    
    
    StableBacked
    
