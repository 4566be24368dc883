\* Parameters never change; two swaps compete for one asset's supply.
SPECIFICATION Spec
CONSTANTS
    deputy = deputy
    user = user
    bnb = bnb
    btcb = btcb
    Denom = {bnb}
    Addr = {deputy, user}
    Maccs = {}
    RandomNumber = {r1, r2}
    OtherChainAddr = {x1}
    BlankAddr = blank
    Timestamp = {1}
    HeightSpan = {1, 2}
    Amount = {1, 2}
    BlockInterval = {1}
    ParamSets <- NoParamSets
    GenesisParams <- MCGenesisParams
    GenesisHolder = user
    GenesisSupply <- MCGenesisSupply
    PastLimit = 3
    FutureLimit = 1
    LongtermStorageDuration = 4
    Uint64 = 64
    MaxHeight = 4
INVARIANTS
    TypeOK
    SupplyBacked
    SupplyWithinLimit
    OpenClaimable
    
