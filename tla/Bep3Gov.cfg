\* Governance pauses, delists and re-limits the asset while swaps are pending.
SPECIFICATION Spec
CONSTANTS
    deputy = deputy
    user = user
    bnb = bnb
    btcb = btcb
    Denom = {bnb, btcb}
    Addr = {deputy, user}
    Maccs = {}
    RandomNumber = {r1}
    OtherChainAddr = {x1}
    BlankAddr = blank
    Timestamp = {1}
    HeightSpan = {1, 2}
    Amount = {1, 2}
    BlockInterval = {1}
    ParamSets <- MCParamSets
    GenesisParams <- MCGenesisParams
    GenesisHolder = user
    GenesisSupply <- MCGenesisSupply
    PastLimit = 2
    FutureLimit = 1
    LongtermStorageDuration = 3
    Uint64 = 64
    MaxHeight = 4
INVARIANTS
    IndexesConsistent
    SuppliesMatchSwaps
    ExpiredRefundable
