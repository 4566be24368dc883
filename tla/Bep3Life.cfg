\* Every open swap settles, completed swaps are deleted and their ids used again.
\* A swap whose span wraps to expire height 0 cannot be exported, so that the
\* bounded behaviour may end at MaxHeight with nothing left to do.
CHECK_DEADLOCK FALSE
SPECIFICATION FairSpec
CONSTANTS
    deputy = deputy
    user = user
    bnb = bnb
    btcb = btcb
    Denom = {bnb}
    Addr = {deputy, user}
    Maccs = {}
    RandomNumber = {r1}
    OtherChainAddr = {x1}
    BlankAddr = blank
    Timestamp = {1, 2}
    HeightSpan = {1, 63}
    Amount = {2}
    BlockInterval = {1, 2}
    ParamSets <- NoParamSets
    GenesisParams <- MCGenesisParams
    GenesisHolder = user
    GenesisSupply <- MCGenesisSupply
    PastLimit = 1
    FutureLimit = 1
    LongtermStorageDuration = 2
    Uint64 = 64
    MaxHeight = 5
INVARIANTS
    NoReplay
PROPERTIES
    SwapLifecycle
    OpenSwapsSettle
    CompletedSwapsDeleted
