SPECIFICATION Spec
CONSTANTS
    alice = alice
    bob = bob
    liquidator = liquidator
    Macc = Macc
    NoBidder = NoBidder
    bnb = bnb
    usdx = usdx
    gov = gov
    udebt = udebt
    User = {alice, bob}
    Seller = {liquidator}
    Denom = {bnb, usdx, gov, udebt}
    Offer <- AllOffers
    Amount = {1, 2, 3}
    GenesisBank <- MCBank
    GenesisParams <- MCParams
    ParamSets <- MCParamSets
    BlockInterval = {1}
    DistantFuture = 99
    MaxAuctions = 2
    MaxTime = 4
INVARIANTS
    IndexConsistent
    WinnerKnown
    NoneOverdue
    
PROPERTIES
    ClosedForGood
