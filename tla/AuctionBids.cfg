SPECIFICATION FairSpec
CONSTANTS
    alice = alice
    bob = bob
    liquidator = liquidator
    Macc = Macc
    NoBidder = NoBidder
    bnb = bnb
    usdx = usdx
    gov = gov
    udebt = udebt
    User = {alice, bob}
    Seller = {liquidator}
    Denom = {bnb, usdx, gov, udebt}
    Offer <- AllOffers
    Amount = {0, 1, 2, 3}
    GenesisBank <- MCBank
    GenesisParams <- MCParams
    ParamSets <- NoParamSets
    BlockInterval = {1, 2}
    DistantFuture = 99
    MaxAuctions = 2
    MaxTime = 5
INVARIANTS
    TypeOK
    ModuleAccountBacked
    NeverHalts
    DebtTracksBids
PROPERTIES
    BidsImprove
    ImplementsLedger
    BidLeadsToClose
