-------------------------------- MODULE Bep3 --------------------------------
(***************************************************************************)
(* x/bep3: atomic swaps between this chain and another one, relayed by a   *)
(* deputy.  An INCOMING swap is opened by the deputy and mints pegged      *)
(* coins when its secret is shown; an OUTGOING swap escrows pegged coins   *)
(* in the module account and burns them when its secret is shown.  A swap  *)
(* that is not claimed before its expire height can only be refunded.      *)
(*                                                                         *)
(* A message that returns an error leaves no trace (the transaction is     *)
(* rolled back), so an erroring handler is a disabled action.  A block is  *)
(* one BeginBlock step followed by any number of message steps at the same *)
(* height and time.                                                        *)
(*                                                                         *)
(* Time is counted in units of the shortest interval between two blocks.   *)
(***************************************************************************)
EXTENDS Integers, FiniteSetsExt, KVStore

CONSTANTS
    Denom,          \* denominations an asset parameter may name
    Addr,           \* account addresses
    Maccs,          \* the addresses that belong to module accounts
    RandomNumber,   \* secrets
    OtherChainAddr, \* sender addresses on the other chain
    BlankAddr,      \* the member of OtherChainAddr that is the empty string
    Timestamp,      \* timestamps a message may carry
    HeightSpan,     \* height spans a message may carry (a uint64)
    Amount,         \* coin amounts a message may carry
    BlockInterval,  \* time that may pass between two blocks
    ParamSets,      \* parameter sets governance may choose
    GenesisParams,  \* the parameter set of the genesis file
    GenesisHolder,  \* the account that holds the genesis supply of each asset
    GenesisSupply,  \* the genesis supply of each asset
    PastLimit,      \* oldest accepted timestamp, relative to the block time
    FutureLimit,    \* first timestamp too far in the future
    LongtermStorageDuration, \* blocks a completed swap is kept for
    Uint64,         \* 2^64: expire heights are computed modulo this number
    MaxHeight       \* bound: the last block of a behaviour

VARIABLES
    height, time,      \* of the current block
    params,            \* Params.AssetParams, by denomination
    swaps,             \* AtomicSwapKeyPrefix store
    byBlock,           \* AtomicSwapByBlockPrefix index: <<expire height, id>>
    longterm,          \* AtomicSwapLongtermStoragePrefix index: <<deletion height, id>>
    supplies,          \* AssetSupplyPrefix store
    previousBlockTime, \* PreviousBlockTimeKey
    balances,          \* x/bank balances of the accounts, by denomination
    moduleBalance,     \* x/bank balance of the bep3 module account
    bankSupply,        \* x/bank total supply of each denomination
    claimed            \* history: the ids of the swaps claimed so far

vars == <<height, time, params, swaps, byBlock, longterm, supplies,
          previousBlockTime, balances, moduleBalance, bankSupply, claimed>>
chainVars == <<height, time, previousBlockTime, params>>
bankVars == <<balances, moduleBalance, bankSupply>>

(***************************************************************************)
(* The validity of an asset parameter.                                     *)
(***************************************************************************)
AssetParam ==
    [active : BOOLEAN, deputy : Addr, fixedFee : Nat,
     minSwapAmount : Nat, maxSwapAmount : Nat,
     minBlockLock : Nat, maxBlockLock : Nat,
     limit : Nat, timeLimited : BOOLEAN, timePeriod : Nat, timeBasedLimit : Nat]

validateAssetParam(p) ==
    /\ p \in AssetParam
    /\ p.timeBasedLimit <= p.limit
    /\ p.minBlockLock <= p.maxBlockLock
    /\ p.minSwapAmount > 0
    /\ p.minSwapAmount <= p.maxSwapAmount

ValidParams(ps) ==
    /\ ps = [d \in DOMAIN ps |-> ps[d]]
    /\ DOMAIN ps \subseteq Denom
    /\ \A d \in DOMAIN ps : validateAssetParam(ps[d])

ASSUME InputAssumption ==
    /\ Maccs \subseteq Addr
    /\ Timestamp \subseteq Nat \ {0}
    /\ HeightSpan \subseteq Nat \ {0}
    /\ Amount \subseteq Nat \ {0}
    /\ BlockInterval \subseteq Nat \ {0}
    /\ PastLimit \in Nat /\ FutureLimit \in Nat
    /\ MaxHeight \in Nat
    /\ Uint64 \in Nat /\ Uint64 > MaxHeight

ASSUME GenesisAssumption ==
    /\ GenesisHolder \in Addr
    /\ GenesisSupply \in [Denom -> Nat]
    /\ ValidParams(GenesisParams)
    /\ \A ps \in ParamSets : ValidParams(ps)
    /\ \A d \in DOMAIN GenesisParams : GenesisSupply[d] <= GenesisParams[d].limit

\* A completed swap is kept for 86400 blocks and a timestamp is accepted for
\* 45 minutes, so this holds when blocks are at least 32 milliseconds apart.
ASSUME RetentionAssumption == LongtermStorageDuration \in Nat
                              /\ LongtermStorageDuration >= PastLimit + FutureLimit

(***************************************************************************)
(* Identifiers.  SHA-256 is modelled as a free constructor: the hash of a  *)
(* random number and a timestamp is the pair of them, and the id of a swap *)
(* is the record of the hash and the two senders.                          *)
(***************************************************************************)
CalculateRandomHash(randomNumber, timestamp) == <<randomNumber, timestamp>>

CalculateSwapID(hash, sender, otherChain) ==
    [hash |-> hash, sender |-> sender, otherChain |-> otherChain]

SwapID == [hash : RandomNumber \X Timestamp, sender : Addr, otherChain : OtherChainAddr]

Unlocks(id, randomNumber) ==
    CalculateSwapID(CalculateRandomHash(randomNumber, swaps[id].timestamp),
                    id.sender, id.otherChain) = id

(***************************************************************************)
(* Asset supplies.  Each operation of keeper/asset.go is a guard, Can..., *)
(* and the new value of the supply.                                        *)
(***************************************************************************)
NewAssetSupply(current) ==
    [incoming |-> 0, outgoing |-> 0, current |-> current,
     timeLimited |-> 0, timeElapsed |-> 0]

\* Variant: the swaps that are still pending are not counted.
CanIncrementIncomingIgnoringPending(s, p, coin) ==
    /\ s.current + coin <= p.limit
    /\ p.timeLimited => s.timeLimited + coin <= p.timeBasedLimit
\* Variant: the time window is checked only when the swap is claimed.
CanIncrementIncomingIgnoringWindow(s, p, coin) ==
    s.current + s.incoming + coin <= p.limit
CanIncrementIncomingAssetSupply(s, p, coin) ==
    /\ s.current + s.incoming + coin <= p.limit
    /\ p.timeLimited => s.timeLimited + s.incoming + coin <= p.timeBasedLimit
IncrementIncomingAssetSupply(s, coin) == [s EXCEPT !.incoming = @ + coin]

CanDecrementIncomingAssetSupply(s, coin) == s.incoming - coin >= 0
\* Variant, of each of the decrements: the new supply is not saved.
SupplyNotSaved(s, coin) == s
DecrementIncomingAssetSupply(s, coin) == [s EXCEPT !.incoming = @ - coin]

CanIncrementOutgoingAssetSupply(s, coin) == s.outgoing + coin <= s.current
IncrementOutgoingAssetSupply(s, coin) == [s EXCEPT !.outgoing = @ + coin]

CanDecrementOutgoingAssetSupply(s, coin) == s.outgoing - coin >= 0
DecrementOutgoingAssetSupply(s, coin) == [s EXCEPT !.outgoing = @ - coin]

CanIncrementCurrentAssetSupply(s, p, coin) ==
    /\ s.current + coin <= p.limit
    /\ p.timeLimited => s.timeLimited + coin <= p.timeBasedLimit
IncrementCurrentAssetSupply(s, p, coin) ==
    [s EXCEPT !.current = @ + coin,
              !.timeLimited = IF p.timeLimited THEN @ + coin ELSE @]

CanDecrementCurrentAssetSupply(s, coin) == s.current - coin >= 0
DecrementCurrentAssetSupply(s, coin) == [s EXCEPT !.current = @ - coin]

(***************************************************************************)
(* Initial state: InitGenesis with no swap in the genesis file.  The       *)
(* genesis supply of each asset is held by GenesisHolder.                  *)
(***************************************************************************)
Init ==
    /\ height = 0 /\ time = 0
    /\ params = GenesisParams
    /\ swaps = << >> /\ byBlock = {} /\ longterm = {}
    /\ supplies = [d \in DOMAIN GenesisParams |-> NewAssetSupply(GenesisSupply[d])]
    /\ previousBlockTime = 0
    /\ balances = [a \in Addr |-> [d \in Denom |->
                      IF a = GenesisHolder /\ d \in DOMAIN GenesisParams
                      THEN GenesisSupply[d] ELSE 0]]
    /\ moduleBalance = [d \in Denom |-> 0]
    /\ bankSupply = [d \in Denom |->
                      IF d \in DOMAIN GenesisParams THEN GenesisSupply[d] ELSE 0]
    /\ claimed = {}

(***************************************************************************)
(* x/bank, as far as bep3 uses it.                                         *)
(***************************************************************************)
SendCoinsFromAccountToModule(a, d, coin) ==
    /\ balances[a][d] >= coin
    /\ balances' = [balances EXCEPT ![a][d] = @ - coin]
    /\ moduleBalance' = [moduleBalance EXCEPT ![d] = @ + coin]
    /\ UNCHANGED bankSupply

SendCoinsFromModuleToAccount(a, d, coin) ==
    /\ moduleBalance[d] >= coin
    /\ balances' = [balances EXCEPT ![a][d] = @ + coin]
    /\ moduleBalance' = [moduleBalance EXCEPT ![d] = @ - coin]
    /\ UNCHANGED bankSupply

\* MintCoins to the module account, then SendCoinsFromModuleToAccount.
MintAndSend(a, d, coin) ==
    /\ balances' = [balances EXCEPT ![a][d] = @ + coin]
    /\ bankSupply' = [bankSupply EXCEPT ![d] = @ + coin]
    /\ UNCHANGED moduleBalance

BurnCoins(d, coin) ==
    /\ moduleBalance[d] >= coin
    /\ moduleBalance' = [moduleBalance EXCEPT ![d] = @ - coin]
    /\ bankSupply' = [bankSupply EXCEPT ![d] = @ - coin]
    /\ UNCHANGED balances

(***************************************************************************)
(* MsgCreateAtomicSwap.                                                    *)
(***************************************************************************)
\* Variant: no lower bound on the timestamp.
ValidCreateAnyPast(id, timestamp, recipient, d, coin) ==
    /\ height > 0
    /\ id \notin DOMAIN swaps
    /\ recipient \notin Maccs
    /\ d \in DOMAIN params /\ params[d].active
    /\ coin >= params[d].minSwapAmount /\ coin <= params[d].maxSwapAmount
    /\ timestamp < time + FutureLimit
    /\ d \in DOMAIN supplies

\* The checks common to both directions, up to the choice of the direction.
ValidCreate(id, timestamp, recipient, d, coin) ==
    /\ height > 0
    /\ id \notin DOMAIN swaps
    /\ recipient \notin Maccs
    /\ d \in DOMAIN params /\ params[d].active
    /\ coin >= params[d].minSwapAmount /\ coin <= params[d].maxSwapAmount
    /\ timestamp >= time - PastLimit /\ timestamp < time + FutureLimit
    /\ d \in DOMAIN supplies

StoreNewSwap(id, timestamp, span, recipient, d, coin, direction) ==
    LET swap == [denom |-> d, amount |-> coin,
                 expireHeight |-> (height + span) % Uint64,
                 timestamp |-> timestamp, recipient |-> recipient,
                 closedBlock |-> 0, status |-> "OPEN", direction |-> direction]
    IN  /\ swaps' = Put(swaps, id, swap)
        /\ byBlock' = byBlock \cup {<<swap.expireHeight, id>>}

CreateIncomingSwap(id, timestamp, span, recipient, d, coin) ==
    /\ ValidCreate(id, timestamp, recipient, d, coin)
    /\ id.sender = params[d].deputy
    /\ recipient # params[d].deputy
    /\ CanIncrementIncomingAssetSupply(supplies[d], params[d], coin)
    /\ supplies' = [supplies EXCEPT ![d] = IncrementIncomingAssetSupply(@, coin)]
    /\ StoreNewSwap(id, timestamp, span, recipient, d, coin, "INCOMING")
    /\ UNCHANGED <<chainVars, bankVars, longterm, claimed>>

CreateOutgoingSwap(id, timestamp, span, recipient, d, coin) ==
    /\ ValidCreate(id, timestamp, recipient, d, coin)
    /\ id.sender # params[d].deputy
    /\ recipient = params[d].deputy
    /\ span >= params[d].minBlockLock /\ span <= params[d].maxBlockLock
    /\ coin > params[d].fixedFee + params[d].minSwapAmount
    /\ CanIncrementOutgoingAssetSupply(supplies[d], coin)
    /\ supplies' = [supplies EXCEPT ![d] = IncrementOutgoingAssetSupply(@, coin)]
    /\ SendCoinsFromAccountToModule(id.sender, d, coin)
    /\ StoreNewSwap(id, timestamp, span, recipient, d, coin, "OUTGOING")
    /\ UNCHANGED <<chainVars, longterm, claimed>>

(***************************************************************************)
(* MsgClaimAtomicSwap and MsgRefundAtomicSwap.                             *)
(***************************************************************************)
Completed(swap) == [swap EXCEPT !.status = "COMPLETED", !.closedBlock = height]

\* Variant: the closed swap is not indexed.
NoLongtermStorage(id) == UNCHANGED longterm
\* Variant: the index entry is one block early.
InsertIntoLongtermStorageEarly(id) ==
    longterm' = longterm \cup {<<height + LongtermStorageDuration - 1, id>>}
InsertIntoLongtermStorage(id) ==
    longterm' = longterm \cup {<<height + LongtermStorageDuration, id>>}

\* The guards of ClaimAtomicSwap that concern an INCOMING swap.
CanClaimIncoming(id) ==
    LET d == swaps[id].denom coin == swaps[id].amount
    IN  /\ d \in DOMAIN supplies
        /\ CanDecrementIncomingAssetSupply(supplies[d], coin)
        /\ d \in DOMAIN params
        /\ CanIncrementCurrentAssetSupply(supplies[d], params[d], coin)

ClaimIncomingSwap(id, randomNumber) ==
    LET d == swaps[id].denom coin == swaps[id].amount
    IN  /\ swaps[id].status = "OPEN" /\ swaps[id].direction = "INCOMING"
        /\ Unlocks(id, randomNumber)
        /\ CanClaimIncoming(id)
        /\ supplies' = [supplies EXCEPT ![d] = IncrementCurrentAssetSupply(
                            DecrementIncomingAssetSupply(@, coin), params[d], coin)]
        /\ MintAndSend(swaps[id].recipient, d, coin)

\* The guards of ClaimAtomicSwap that concern an OUTGOING swap.
CanClaimOutgoing(id) ==
    LET d == swaps[id].denom coin == swaps[id].amount
    IN  /\ d \in DOMAIN supplies
        /\ CanDecrementOutgoingAssetSupply(supplies[d], coin)
        /\ CanDecrementCurrentAssetSupply(supplies[d], coin)
        /\ moduleBalance[d] >= coin

ClaimOutgoingSwap(id, randomNumber) ==
    LET d == swaps[id].denom coin == swaps[id].amount
    IN  /\ swaps[id].status = "OPEN" /\ swaps[id].direction = "OUTGOING"
        /\ Unlocks(id, randomNumber)
        /\ CanClaimOutgoing(id)
        /\ supplies' = [supplies EXCEPT ![d] = DecrementCurrentAssetSupply(
                            DecrementOutgoingAssetSupply(@, coin), coin)]
        /\ BurnCoins(d, coin)

ClaimAtomicSwap(id, randomNumber) ==
    /\ id \in DOMAIN swaps
    /\ \/ ClaimIncomingSwap(id, randomNumber)
       \/ ClaimOutgoingSwap(id, randomNumber)
    /\ swaps' = [swaps EXCEPT ![id] = Completed(@)]
    /\ byBlock' = byBlock \ {<<swaps[id].expireHeight, id>>}
    /\ InsertIntoLongtermStorage(id)
    /\ claimed' = claimed \cup {id}
    /\ UNCHANGED chainVars

RefundIncomingSwap(id) ==
    LET d == swaps[id].denom coin == swaps[id].amount
    IN  /\ swaps[id].direction = "INCOMING"
        /\ d \in DOMAIN supplies
        /\ CanDecrementIncomingAssetSupply(supplies[d], coin)
        /\ supplies' = [supplies EXCEPT ![d] = DecrementIncomingAssetSupply(@, coin)]
        /\ UNCHANGED bankVars

RefundOutgoingSwap(id) ==
    LET d == swaps[id].denom coin == swaps[id].amount
    IN  /\ swaps[id].direction = "OUTGOING"
        /\ d \in DOMAIN supplies
        /\ CanDecrementOutgoingAssetSupply(supplies[d], coin)
        /\ supplies' = [supplies EXCEPT ![d] = DecrementOutgoingAssetSupply(@, coin)]
        /\ SendCoinsFromModuleToAccount(id.sender, d, coin)

RefundAtomicSwap(id) ==
    /\ id \in DOMAIN swaps
    /\ swaps[id].status = "EXPIRED"
    /\ \/ RefundIncomingSwap(id)
       \/ RefundOutgoingSwap(id)
    /\ swaps' = [swaps EXCEPT ![id] = Completed(@)]
    /\ InsertIntoLongtermStorage(id)
    /\ UNCHANGED <<chainVars, byBlock, claimed>>

(***************************************************************************)
(* BeginBlocker: time-based supply windows, expiry, deletion, in order.    *)
(***************************************************************************)
\* The supply of an asset after the block's share of the time window.
NextWindow(d, elapsed) ==
    LET s == IF d \in DOMAIN supplies THEN supplies[d] ELSE NewAssetSupply(0)
    IN  IF params[d].timeLimited /\ s.timeElapsed + elapsed < params[d].timePeriod
        THEN [s EXCEPT !.timeElapsed = @ + elapsed]
        ELSE [s EXCEPT !.timeElapsed = 0, !.timeLimited = 0]

\* Variant: the supplies of delisted assets are dropped.
NextSuppliesOfListed(elapsed) == [d \in DOMAIN params |-> NextWindow(d, elapsed)]
\* All supplies after the block; a denomination new to the parameters gets one.
NextSupplies(elapsed) ==
    [d \in DOMAIN supplies \cup DOMAIN params |->
        IF d \in DOMAIN params THEN NextWindow(d, elapsed) ELSE supplies[d]]

\* Variant: the elapsed time is subtracted the wrong way round.
UpdateTimeBasedSupplyLimitsSwapped(now) ==
    IF DOMAIN params = {}
    THEN UNCHANGED <<supplies, previousBlockTime>>
    ELSE /\ supplies' = NextSupplies(previousBlockTime - now)
         /\ previousBlockTime' = now

\* Without any asset the keeper returns before it records the block time.
UpdateTimeBasedSupplyLimits(now) ==
    IF DOMAIN params = {}
    THEN UNCHANGED <<supplies, previousBlockTime>>
    ELSE /\ supplies' = NextSupplies(now - previousBlockTime)
         /\ previousBlockTime' = now

\* The ids under an index up to and including a height, if they are stored.
DueBy(index, h) == {id \in DOMAIN swaps : \E e \in index : e[1] <= h /\ e[2] = id}

\* Variant: only the deputy's swaps expire.
ExpiredIncomingBy(h) == {id \in DueBy(byBlock, h) : swaps[id].direction = "INCOMING"}
ExpiredBy(h) == DueBy(byBlock, h)

UpdateExpiredAtomicSwaps(h) ==
    [id \in DOMAIN swaps |-> IF id \in ExpiredBy(h)
                             THEN [swaps[id] EXCEPT !.status = "EXPIRED"]
                             ELSE swaps[id]]

BeginBlock(interval) ==
    LET h       == height + 1
        deleted == DueBy(longterm, h)
    IN  /\ height < MaxHeight
        /\ height' = h
        /\ time' = time + interval
        /\ UpdateTimeBasedSupplyLimits(time + interval)
        /\ byBlock' = byBlock \ {<<swaps[id].expireHeight, id>> : id \in ExpiredBy(h)}
        /\ swaps' = Drop(UpdateExpiredAtomicSwaps(h), deleted)
        /\ longterm' = longterm \ {<<swaps[id].closedBlock + LongtermStorageDuration, id>>
                                     : id \in deleted}
        /\ UNCHANGED <<params, bankVars, claimed>>

(***************************************************************************)
(* A governance or committee proposal replaces the parameters.             *)
(***************************************************************************)
UpdateParams(ps) ==
    /\ ps # params
    /\ params' = ps
    /\ UNCHANGED <<height, time, previousBlockTime, swaps, byBlock, longterm,
                   supplies, bankVars, claimed>>

(***************************************************************************)
(* Genesis export and import.  Everything but the two indexes is exported; *)
(* InitGenesis checks the state, panics if a check fails and rebuilds the  *)
(* indexes.                                                                *)
(***************************************************************************)
Pending(direction) ==
    {id \in DOMAIN swaps : swaps[id].direction = direction
                           /\ swaps[id].status \in {"OPEN", "EXPIRED"}}

PendingAmount(direction, d) ==
    MapThenSumSet(LAMBDA id : swaps[id].amount,
                  {id \in Pending(direction) : swaps[id].denom = d})

ValidSwap(id) ==
    /\ swaps[id].expireHeight # 0
    /\ id.otherChain # BlankAddr
    /\ swaps[id].status = "COMPLETED" => swaps[id].closedBlock # 0

LiveAsset(d) == d \in DOMAIN params /\ params[d].active

GenesisValid ==
    /\ \A id \in DOMAIN swaps : ValidSwap(id) /\ LiveAsset(swaps[id].denom)
    /\ \A d \in DOMAIN supplies :
          /\ supplies[d].incoming = PendingAmount("INCOMING", d)
          /\ supplies[d].outgoing = PendingAmount("OUTGOING", d)
          /\ d \in DOMAIN params
          /\ supplies[d].current + supplies[d].incoming <= params[d].limit
          /\ supplies[d].outgoing <= params[d].limit

ExportImport ==
    /\ GenesisValid
    /\ byBlock' = {<<swaps[id].expireHeight, id>> :
                      id \in {i \in DOMAIN swaps : swaps[i].status = "OPEN"}}
    /\ longterm' = {<<swaps[id].closedBlock + LongtermStorageDuration, id>> :
                      id \in {i \in DOMAIN swaps : swaps[i].status = "COMPLETED"}}
    /\ UNCHANGED <<chainVars, swaps, supplies, bankVars, claimed>>

(***************************************************************************)
(* The specification.                                                      *)
(***************************************************************************)
Create ==
    \E id \in SwapID, timestamp \in Timestamp, span \in HeightSpan,
       recipient \in Addr, d \in Denom, coin \in Amount :
          \/ CreateIncomingSwap(id, timestamp, span, recipient, d, coin)
          \/ CreateOutgoingSwap(id, timestamp, span, recipient, d, coin)

Claim == \E id \in DOMAIN swaps, randomNumber \in RandomNumber :
            ClaimAtomicSwap(id, randomNumber)

Refund == \E id \in DOMAIN swaps : RefundAtomicSwap(id)

NewBlock == \E interval \in BlockInterval : BeginBlock(interval)

Govern == \E ps \in ParamSets : UpdateParams(ps)

Next == Create \/ Claim \/ Refund \/ NewBlock \/ Govern \/ ExportImport

Spec == Init /\ [][Next]_vars

\* Behaviours in which governance leaves the parameters alone.
FixedSpec == Init /\ [][Next /\ UNCHANGED params]_vars

\* The chain keeps producing blocks; nobody is obliged to claim or refund.
FairSpec == Spec /\ WF_vars(NewBlock)

(***************************************************************************)
(* Properties.                                                             *)
(***************************************************************************)
SwapStatus == {"OPEN", "COMPLETED", "EXPIRED"}
SwapDirection == {"INCOMING", "OUTGOING"}

Swap == [denom : Denom, amount : Amount, expireHeight : Nat, timestamp : Timestamp,
         recipient : Addr, closedBlock : Nat, status : SwapStatus,
         direction : SwapDirection]

AssetSupply == [incoming : Int, outgoing : Int, current : Int,
                timeLimited : Nat, timeElapsed : Nat]

\* Every store holds values of its type (types/bep3.pb.go, types/supply.go).
TypeOK ==
    /\ height \in 0..MaxHeight /\ time \in Nat
    /\ previousBlockTime \in Nat /\ previousBlockTime <= time
    /\ ValidParams(params)
    /\ swaps \in [DOMAIN swaps -> Swap] /\ DOMAIN swaps \subseteq SwapID
    /\ byBlock \subseteq Nat \X SwapID
    /\ longterm \subseteq Nat \X SwapID
    /\ supplies \in [DOMAIN supplies -> AssetSupply] /\ DOMAIN supplies \subseteq Denom
    /\ balances \in [Addr -> [Denom -> Nat]]
    /\ moduleBalance \in [Denom -> Int]
    /\ bankSupply \in [Denom -> Int]
    /\ claimed \subseteq SwapID

\* The byBlock index lists exactly the open swaps under their expire height and
\* the long-term index exactly the completed ones under their deletion height,
\* whatever the order of creation, claim, expiry, refund, deletion and restart.
IndexesConsistent ==
    /\ \A e \in byBlock : e[2] \in DOMAIN swaps
          /\ swaps[e[2]].status = "OPEN" /\ e[1] = swaps[e[2]].expireHeight
    /\ \A e \in longterm : e[2] \in DOMAIN swaps
          /\ swaps[e[2]].status = "COMPLETED"
          /\ e[1] = swaps[e[2]].closedBlock + LongtermStorageDuration
    /\ \A id \in DOMAIN swaps :
          /\ swaps[id].status = "OPEN" => <<swaps[id].expireHeight, id>> \in byBlock
          /\ swaps[id].status = "COMPLETED" =>
                <<swaps[id].closedBlock + LongtermStorageDuration, id>> \in longterm

\* The pegged coins in existence are the recorded current supply, the coins in
\* the module account are the recorded outgoing supply, and the coins promised
\* to the other chain never exceed the coins in existence.
SupplyBacked ==
    \A d \in Denom :
        IF d \in DOMAIN supplies
        THEN /\ bankSupply[d] = supplies[d].current
             /\ moduleBalance[d] = supplies[d].outgoing
             /\ 0 <= supplies[d].outgoing /\ supplies[d].outgoing <= supplies[d].current
             /\ 0 <= supplies[d].incoming
        ELSE bankSupply[d] = 0 /\ moduleBalance[d] = 0

\* The incoming and outgoing counters are the sums over the swaps that are
\* still unsettled, expired ones included (what InitGenesis insists on).
SuppliesMatchSwaps ==
    \A d \in DOMAIN supplies :
        /\ supplies[d].incoming = PendingAmount("INCOMING", d)
        /\ supplies[d].outgoing = PendingAmount("OUTGOING", d)

\* While the parameters stay as they are, the supply that exists plus the
\* supply that open swaps may still mint stays within the asset's limit, and
\* within the limit of the current time window.
SupplyWithinLimit ==
    \A d \in DOMAIN supplies : d \in DOMAIN params /\
        /\ supplies[d].current + supplies[d].incoming <= params[d].limit
        /\ params[d].timeLimited =>
              supplies[d].timeLimited + supplies[d].incoming <= params[d].timeBasedLimit

\* While the parameters stay as they are, whoever knows the secret of an open
\* swap can claim it: neither the supply limits, nor another swap, nor the
\* escrow balance can be in the way.
OpenClaimable ==
    \A id \in DOMAIN swaps : swaps[id].status = "OPEN" =>
        IF swaps[id].direction = "INCOMING" THEN CanClaimIncoming(id) ELSE CanClaimOutgoing(id)

\* Whatever governance does to the asset, an expired swap can be refunded: its
\* supply record and its escrow are still there.
ExpiredRefundable ==
    \A id \in DOMAIN swaps : swaps[id].status = "EXPIRED" =>
        LET d == swaps[id].denom coin == swaps[id].amount
        IN  /\ d \in DOMAIN supplies
            /\ IF swaps[id].direction = "INCOMING"
               THEN CanDecrementIncomingAssetSupply(supplies[d], coin)
               ELSE /\ CanDecrementOutgoingAssetSupply(supplies[d], coin)
                    /\ moduleBalance[d] >= coin

\* A revealed secret is worth nothing the second time: a swap that was claimed
\* is never open to a claim again, although its record is deleted after a while
\* and its id may be used once more.
NoReplay ==
    \A id \in DOMAIN swaps :
        swaps[id].status = "OPEN" /\ (\E r \in RandomNumber : Unlocks(id, r))
            => id \notin claimed

\* What a step may do to a stored swap.
LifecycleStep(id) ==
    IF id \in DOMAIN swaps'
    THEN /\ swaps[id].status = "COMPLETED" => swaps'[id] = swaps[id]
         /\ swaps[id].status = "EXPIRED" => swaps'[id].status # "OPEN"
         /\ swaps'[id] = [swaps[id] EXCEPT !.status = swaps'[id].status,
                                           !.closedBlock = swaps'[id].closedBlock]
    ELSE /\ swaps[id].status = "COMPLETED"
         /\ height' >= swaps[id].closedBlock + LongtermStorageDuration

\* A stored swap only moves from OPEN to EXPIRED or COMPLETED and from EXPIRED
\* to COMPLETED, and it leaves the store only once it has been COMPLETED for
\* LongtermStorageDuration blocks; its terms never change.
SwapLifecycle == [][\A id \in DOMAIN swaps : LifecycleStep(id)]_vars


\* An open swap does not stay open past its expire height: it is claimed, or
\* the chain expires it.  (Expire heights beyond the bound are left out.)
OpenSwapsSettle ==
    \A id \in SwapID :
        (id \in DOMAIN swaps /\ swaps[id].status = "OPEN"
             /\ swaps[id].expireHeight <= MaxHeight)
        ~> (id \notin DOMAIN swaps \/ swaps[id].status # "OPEN")

\* A completed swap is eventually deleted from the store.
CompletedSwapsDeleted ==
    \A id \in SwapID :
        (id \in DOMAIN swaps /\ swaps[id].status = "COMPLETED"
             /\ swaps[id].closedBlock + LongtermStorageDuration <= MaxHeight)
        ~> (id \notin DOMAIN swaps)
=============================================================================
