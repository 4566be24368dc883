----------------------------- MODULE Bep3Proofs -----------------------------
(***************************************************************************)
(* Theorems about Bep3, for every value of its constants.                  *)
(***************************************************************************)
EXTENDS Bep3, TLAPS

(***************************************************************************)
(* Facts about the operators the model is built from.                      *)
(***************************************************************************)
\* Expire heights wrap around but stay natural numbers.
LEMMA ExpireHeightType ==
    ASSUME NEW h \in Nat, NEW span \in Nat
    PROVE  (h + span) % Uint64 \in Nat
BY InputAssumption

\* A swap is unlocked by a random number only if the timestamp it was created
\* with is the one its id was hashed with.
LEMMA UnlocksTimestamp ==
    ASSUME NEW id \in SwapID, NEW r, Unlocks(id, r)
    PROVE  swaps[id].timestamp = id.hash[2]
BY DEF Unlocks, CalculateSwapID, CalculateRandomHash, SwapID

(***************************************************************************)
(* Type correctness.                                                       *)
(***************************************************************************)
LEMMA TypeInit == Init => TypeOK
BY InputAssumption, GenesisAssumption
   DEF Init, TypeOK, NewAssetSupply, AssetSupply, ValidParams


\* Every operation of keeper/asset.go maps a supply to a supply.
LEMMA SupplyOperationType ==
    ASSUME NEW s \in AssetSupply, NEW p, NEW coin \in Nat
    PROVE  /\ IncrementIncomingAssetSupply(s, coin) \in AssetSupply
           /\ DecrementIncomingAssetSupply(s, coin) \in AssetSupply
           /\ IncrementOutgoingAssetSupply(s, coin) \in AssetSupply
           /\ DecrementOutgoingAssetSupply(s, coin) \in AssetSupply
           /\ IncrementCurrentAssetSupply(s, p, coin) \in AssetSupply
           /\ DecrementCurrentAssetSupply(s, coin) \in AssetSupply
<1>1. IncrementIncomingAssetSupply(s, coin) \in AssetSupply
  BY DEF AssetSupply, IncrementIncomingAssetSupply
<1>2. DecrementIncomingAssetSupply(s, coin) \in AssetSupply
  BY DEF AssetSupply, DecrementIncomingAssetSupply
<1>3. IncrementOutgoingAssetSupply(s, coin) \in AssetSupply
  BY DEF AssetSupply, IncrementOutgoingAssetSupply
<1>4. DecrementOutgoingAssetSupply(s, coin) \in AssetSupply
  BY DEF AssetSupply, DecrementOutgoingAssetSupply
<1>5. IncrementCurrentAssetSupply(s, p, coin) \in AssetSupply
  <2>1. (IF p.timeLimited THEN s.timeLimited + coin ELSE s.timeLimited) \in Nat
    BY DEF AssetSupply
  <2>2. \A c \in Int, v \in Nat : [s EXCEPT !.current = c, !.timeLimited = v] \in AssetSupply
    BY DEF AssetSupply
  <2>3. s.current + coin \in Int
    BY DEF AssetSupply
  <2> QED
    BY <2>1, <2>2, <2>3 DEF IncrementCurrentAssetSupply
<1>6. DecrementCurrentAssetSupply(s, coin) \in AssetSupply
  BY DEF AssetSupply, DecrementCurrentAssetSupply
<1> QED
  BY <1>1, <1>2, <1>3, <1>4, <1>5, <1>6

\* Storing a new swap keeps the swap store and its index well typed.
LEMMA StoreNewSwapType ==
    ASSUME TypeOK, NEW id \in SwapID, NEW timestamp \in Timestamp,
           NEW span \in HeightSpan, NEW recipient \in Addr, NEW d \in Denom,
           NEW coin \in Amount, NEW direction \in SwapDirection,
           StoreNewSwap(id, timestamp, span, recipient, d, coin, direction)
    PROVE  /\ swaps' \in [DOMAIN swaps' -> Swap]
           /\ DOMAIN swaps' \subseteq SwapID
           /\ byBlock' \subseteq Nat \X SwapID
<1> DEFINE swap == [denom |-> d, amount |-> coin,
                    expireHeight |-> (height + span) % Uint64,
                    timestamp |-> timestamp, recipient |-> recipient,
                    closedBlock |-> 0, status |-> "OPEN", direction |-> direction]
<1>1. (height + span) % Uint64 \in Nat
  BY ExpireHeightType, InputAssumption DEF TypeOK
<1>2. swap \in Swap
  BY <1>1 DEF Swap, SwapStatus
<1>3. /\ swaps' = Put(swaps, id, swap)
      /\ byBlock' = byBlock \cup {<<(height + span) % Uint64, id>>}
  BY DEF StoreNewSwap
<1> HIDE DEF swap
<1>4. swaps' \in [DOMAIN swaps' -> Swap] /\ DOMAIN swaps' \subseteq SwapID
  BY <1>2, <1>3 DEF TypeOK, Put
<1> QED
  BY <1>1, <1>3, <1>4 DEF TypeOK

LEMMA TypeCreateIncoming ==
    ASSUME TypeOK, NEW id \in SwapID, NEW timestamp \in Timestamp,
           NEW span \in HeightSpan, NEW recipient \in Addr, NEW d \in Denom,
           NEW coin \in Amount,
           CreateIncomingSwap(id, timestamp, span, recipient, d, coin)
    PROVE  TypeOK'
<1>1. /\ swaps' \in [DOMAIN swaps' -> Swap] /\ DOMAIN swaps' \subseteq SwapID
      /\ byBlock' \subseteq Nat \X SwapID
  <2>1. StoreNewSwap(id, timestamp, span, recipient, d, coin, "INCOMING")
    BY DEF CreateIncomingSwap
  <2>2. "INCOMING" \in SwapDirection
    BY DEF SwapDirection
  <2> QED
    BY <2>1, <2>2, StoreNewSwapType
<1>2. supplies' \in [DOMAIN supplies' -> AssetSupply] /\ DOMAIN supplies' \subseteq Denom
  <2>1. d \in DOMAIN supplies /\ supplies[d] \in AssetSupply /\ coin \in Nat
    BY InputAssumption DEF TypeOK, CreateIncomingSwap, ValidCreate
  <2>2. supplies' = [supplies EXCEPT ![d] = IncrementIncomingAssetSupply(supplies[d], coin)]
    BY DEF CreateIncomingSwap
  <2>3. IncrementIncomingAssetSupply(supplies[d], coin) \in AssetSupply
    BY <2>1, SupplyOperationType
  <2> QED
    BY <2>1, <2>2, <2>3 DEF TypeOK
<1> QED
  BY <1>1, <1>2 DEF TypeOK, CreateIncomingSwap, chainVars, bankVars, ValidParams

LEMMA TypeCreateOutgoing ==
    ASSUME TypeOK, NEW id \in SwapID, NEW timestamp \in Timestamp,
           NEW span \in HeightSpan, NEW recipient \in Addr, NEW d \in Denom,
           NEW coin \in Amount,
           CreateOutgoingSwap(id, timestamp, span, recipient, d, coin)
    PROVE  TypeOK'
<1>1. /\ swaps' \in [DOMAIN swaps' -> Swap] /\ DOMAIN swaps' \subseteq SwapID
      /\ byBlock' \subseteq Nat \X SwapID
  <2>1. StoreNewSwap(id, timestamp, span, recipient, d, coin, "OUTGOING")
    BY DEF CreateOutgoingSwap
  <2>2. "OUTGOING" \in SwapDirection
    BY DEF SwapDirection
  <2> QED
    BY <2>1, <2>2, StoreNewSwapType
<1>2. supplies' \in [DOMAIN supplies' -> AssetSupply] /\ DOMAIN supplies' \subseteq Denom
  <2>1. d \in DOMAIN supplies /\ supplies[d] \in AssetSupply /\ coin \in Nat
    BY InputAssumption DEF TypeOK, CreateOutgoingSwap, ValidCreate
  <2>2. supplies' = [supplies EXCEPT ![d] = IncrementOutgoingAssetSupply(supplies[d], coin)]
    BY DEF CreateOutgoingSwap
  <2>3. IncrementOutgoingAssetSupply(supplies[d], coin) \in AssetSupply
    BY <2>1, SupplyOperationType
  <2> QED
    BY <2>1, <2>2, <2>3 DEF TypeOK
<1>3. id.sender \in Addr
  BY DEF SwapID
<1>4. /\ balances' \in [Addr -> [Denom -> Nat]]
      /\ moduleBalance' \in [Denom -> Int]
      /\ bankSupply' \in [Denom -> Int]
  BY <1>3, InputAssumption DEF TypeOK, CreateOutgoingSwap, SendCoinsFromAccountToModule
<1> QED
  BY <1>1, <1>2, <1>4 DEF TypeOK, CreateOutgoingSwap, chainVars, ValidParams

LEMMA TypeClaim ==
    ASSUME TypeOK, NEW id \in DOMAIN swaps, NEW r \in RandomNumber,
           ClaimAtomicSwap(id, r)
    PROVE  TypeOK'
<1> DEFINE d == swaps[id].denom
           coin == swaps[id].amount
<1>1. id \in SwapID /\ swaps[id] \in Swap /\ d \in Denom /\ coin \in Nat
      /\ swaps[id].recipient \in Addr /\ height \in Nat
  BY InputAssumption DEF TypeOK, Swap
<1>2. Completed(swaps[id]) \in Swap
  BY <1>1 DEF Completed, Swap, SwapStatus
<1>3. swaps' \in [DOMAIN swaps' -> Swap] /\ DOMAIN swaps' \subseteq SwapID
  BY <1>2 DEF ClaimAtomicSwap, TypeOK
<1>4. byBlock' \subseteq Nat \X SwapID /\ claimed' \subseteq SwapID
  BY <1>1 DEF ClaimAtomicSwap, TypeOK
<1>5. longterm' \subseteq Nat \X SwapID
  BY <1>1, RetentionAssumption DEF ClaimAtomicSwap, InsertIntoLongtermStorage, TypeOK
<1>6. /\ supplies' \in [DOMAIN supplies' -> AssetSupply] /\ DOMAIN supplies' \subseteq Denom
      /\ balances' \in [Addr -> [Denom -> Nat]]
      /\ moduleBalance' \in [Denom -> Int]
      /\ bankSupply' \in [Denom -> Int]
  <2>1. CASE ClaimIncomingSwap(id, r)
    <3> DEFINE s1 == DecrementIncomingAssetSupply(supplies[d], coin)
               s2 == IncrementCurrentAssetSupply(s1, params[d], coin)
    <3>1. d \in DOMAIN supplies /\ supplies[d] \in AssetSupply
      BY <2>1 DEF ClaimIncomingSwap, CanClaimIncoming, TypeOK
    <3>2. s2 \in AssetSupply
      BY <1>1, <3>1, SupplyOperationType
    <3>3. supplies' = [supplies EXCEPT ![d] = s2]
      BY <2>1 DEF ClaimIncomingSwap
    <3>4. supplies' \in [DOMAIN supplies' -> AssetSupply] /\ DOMAIN supplies' \subseteq Denom
      BY <3>2, <3>3 DEF TypeOK
    <3>5. /\ balances' \in [Addr -> [Denom -> Nat]]
          /\ moduleBalance' \in [Denom -> Int]
          /\ bankSupply' \in [Denom -> Int]
      BY <1>1, <2>1 DEF ClaimIncomingSwap, MintAndSend, TypeOK
    <3> QED
      BY <3>4, <3>5
  <2>2. CASE ClaimOutgoingSwap(id, r)
    <3> DEFINE s1 == DecrementOutgoingAssetSupply(supplies[d], coin)
               s2 == DecrementCurrentAssetSupply(s1, coin)
    <3>1. d \in DOMAIN supplies /\ supplies[d] \in AssetSupply
      BY <2>2 DEF ClaimOutgoingSwap, CanClaimOutgoing, TypeOK
    <3>2. s2 \in AssetSupply
      BY <1>1, <3>1, SupplyOperationType
    <3>3. supplies' = [supplies EXCEPT ![d] = s2]
      BY <2>2 DEF ClaimOutgoingSwap
    <3>4. supplies' \in [DOMAIN supplies' -> AssetSupply] /\ DOMAIN supplies' \subseteq Denom
      BY <3>2, <3>3 DEF TypeOK
    <3>5. /\ balances' \in [Addr -> [Denom -> Nat]]
          /\ moduleBalance' \in [Denom -> Int]
          /\ bankSupply' \in [Denom -> Int]
      BY <1>1, <2>2 DEF ClaimOutgoingSwap, BurnCoins, TypeOK
    <3> QED
      BY <3>4, <3>5
  <2> QED
    BY <2>1, <2>2 DEF ClaimAtomicSwap
<1> QED
  BY <1>3, <1>4, <1>5, <1>6 DEF TypeOK, ClaimAtomicSwap, chainVars, ValidParams

LEMMA TypeRefund ==
    ASSUME TypeOK, NEW id \in DOMAIN swaps, RefundAtomicSwap(id)
    PROVE  TypeOK'
<1> DEFINE d == swaps[id].denom
           coin == swaps[id].amount
<1>1. id \in SwapID /\ swaps[id] \in Swap /\ d \in Denom /\ coin \in Nat
      /\ id.sender \in Addr /\ height \in Nat
  BY InputAssumption DEF TypeOK, Swap, SwapID
<1>2. Completed(swaps[id]) \in Swap
  BY <1>1 DEF Completed, Swap, SwapStatus
<1>3. swaps' \in [DOMAIN swaps' -> Swap] /\ DOMAIN swaps' \subseteq SwapID
  BY <1>2 DEF RefundAtomicSwap, TypeOK
<1>4. longterm' \subseteq Nat \X SwapID
  BY <1>1, RetentionAssumption DEF RefundAtomicSwap, InsertIntoLongtermStorage, TypeOK
<1>5. /\ supplies' \in [DOMAIN supplies' -> AssetSupply] /\ DOMAIN supplies' \subseteq Denom
      /\ balances' \in [Addr -> [Denom -> Nat]]
      /\ moduleBalance' \in [Denom -> Int]
      /\ bankSupply' \in [Denom -> Int]
  <2>1. CASE RefundIncomingSwap(id)
    <3>1. DecrementIncomingAssetSupply(supplies[d], coin) \in AssetSupply
      BY <1>1, <2>1, SupplyOperationType DEF RefundIncomingSwap, TypeOK
    <3>2. supplies' = [supplies EXCEPT ![d] = DecrementIncomingAssetSupply(supplies[d], coin)]
      BY <2>1 DEF RefundIncomingSwap
    <3> QED
      BY <2>1, <3>1, <3>2 DEF RefundIncomingSwap, bankVars, TypeOK
  <2>2. CASE RefundOutgoingSwap(id)
    <3>1. DecrementOutgoingAssetSupply(supplies[d], coin) \in AssetSupply
      BY <1>1, <2>2, SupplyOperationType DEF RefundOutgoingSwap, TypeOK
    <3>2. supplies' = [supplies EXCEPT ![d] = DecrementOutgoingAssetSupply(supplies[d], coin)]
      BY <2>2 DEF RefundOutgoingSwap
    <3>3. /\ balances' \in [Addr -> [Denom -> Nat]]
          /\ moduleBalance' \in [Denom -> Int]
          /\ bankSupply' \in [Denom -> Int]
      BY <1>1, <2>2 DEF RefundOutgoingSwap, SendCoinsFromModuleToAccount, TypeOK
    <3> QED
      BY <3>1, <3>2, <3>3 DEF TypeOK
  <2> QED
    BY <2>1, <2>2 DEF RefundAtomicSwap
<1> QED
  BY <1>3, <1>4, <1>5 DEF TypeOK, RefundAtomicSwap, chainVars, ValidParams

\* The window update maps a supply to a supply.
LEMMA NextWindowType ==
    ASSUME TypeOK, NEW d \in DOMAIN params, NEW elapsed \in Nat
    PROVE  NextWindow(d, elapsed) \in AssetSupply
<1> DEFINE s == IF d \in DOMAIN supplies THEN supplies[d] ELSE NewAssetSupply(0)
<1>1. s \in AssetSupply
  BY DEF TypeOK, NewAssetSupply, AssetSupply
<1>2. \A t \in AssetSupply : [t EXCEPT !.timeElapsed = @ + elapsed] \in AssetSupply
  BY DEF AssetSupply
<1>3. \A t \in AssetSupply : [t EXCEPT !.timeElapsed = 0, !.timeLimited = 0] \in AssetSupply
  BY DEF AssetSupply
<1> QED
  BY <1>1, <1>2, <1>3 DEF NextWindow

LEMMA TypeBeginBlock ==
    ASSUME TypeOK, NEW interval \in BlockInterval, BeginBlock(interval)
    PROVE  TypeOK'
<1>1. height' \in 0..MaxHeight /\ time' \in Nat /\ time' = time + interval
      /\ interval \in Nat
  BY InputAssumption DEF TypeOK, BeginBlock
<1>2. /\ supplies' \in [DOMAIN supplies' -> AssetSupply] /\ DOMAIN supplies' \subseteq Denom
      /\ previousBlockTime' \in Nat /\ previousBlockTime' <= time'
  <2>1. CASE DOMAIN params = {}
    BY <1>1, <2>1 DEF BeginBlock, UpdateTimeBasedSupplyLimits, TypeOK
  <2>2. CASE DOMAIN params # {}
    <3> DEFINE elapsed == time + interval - previousBlockTime
    <3>1. elapsed \in Nat
      BY <1>1 DEF TypeOK
    <3>2. \A d \in DOMAIN params : NextWindow(d, elapsed) \in AssetSupply
      BY <3>1, NextWindowType
    <3>3. supplies' = NextSupplies(elapsed) /\ previousBlockTime' = time + interval
      <4>1. UpdateTimeBasedSupplyLimits(time + interval)
        BY DEF BeginBlock
      <4> QED
        BY <1>1, <2>2, <4>1 DEF UpdateTimeBasedSupplyLimits, TypeOK
    <3> QED
      BY <1>1, <3>2, <3>3 DEF NextSupplies, TypeOK, ValidParams
  <2> QED
    BY <2>1, <2>2
<1>3. swaps' \in [DOMAIN swaps' -> Swap] /\ DOMAIN swaps' \subseteq SwapID
  <2>1. \A id \in DOMAIN swaps : [swaps[id] EXCEPT !.status = "EXPIRED"] \in Swap
    BY DEF TypeOK, Swap, SwapStatus
  <2>2. \A h : UpdateExpiredAtomicSwaps(h) \in [DOMAIN swaps -> Swap]
    BY <2>1 DEF UpdateExpiredAtomicSwaps, TypeOK
  <2> QED
    BY <2>2 DEF BeginBlock, Drop, TypeOK
<1>4. byBlock' \subseteq Nat \X SwapID /\ longterm' \subseteq Nat \X SwapID
  BY DEF BeginBlock, TypeOK
<1> QED
  BY <1>1, <1>2, <1>3, <1>4 DEF TypeOK, BeginBlock, bankVars, ValidParams

LEMMA TypeExportImport == TypeOK /\ ExportImport => TypeOK'
<1> SUFFICES ASSUME TypeOK, ExportImport PROVE TypeOK'
  OBVIOUS
<1>1. \A id \in DOMAIN swaps : id \in SwapID /\ swaps[id].expireHeight \in Nat
                               /\ swaps[id].closedBlock + LongtermStorageDuration \in Nat
  BY RetentionAssumption DEF TypeOK, Swap
<1>2. byBlock' \subseteq Nat \X SwapID /\ longterm' \subseteq Nat \X SwapID
  BY <1>1 DEF ExportImport
<1> QED
  BY <1>2 DEF TypeOK, ExportImport, chainVars, bankVars, ValidParams

LEMMA TypeNext == TypeOK /\ [Next]_vars => TypeOK'
<1> SUFFICES ASSUME TypeOK, [Next]_vars PROVE TypeOK'
  OBVIOUS
<1>1. CASE Create
  BY <1>1, TypeCreateIncoming, TypeCreateOutgoing DEF Create
<1>2. CASE Claim
  BY <1>2, TypeClaim DEF Claim
<1>3. CASE Refund
  BY <1>3, TypeRefund DEF Refund
<1>4. CASE NewBlock
  BY <1>4, TypeBeginBlock DEF NewBlock
<1>5. CASE Govern
  BY <1>5, GenesisAssumption DEF Govern, UpdateParams, TypeOK, bankVars
<1>6. CASE ExportImport
  BY <1>6, TypeExportImport
<1>7. CASE UNCHANGED vars
  BY <1>7 DEF vars, TypeOK, ValidParams
<1> QED
  BY <1>1, <1>2, <1>3, <1>4, <1>5, <1>6, <1>7 DEF Next

\* Every reachable state is well typed.
THEOREM TypeCorrect == Spec => []TypeOK
BY TypeInit, TypeNext, PTL DEF Spec

(***************************************************************************)
(* The indexes.                                                            *)
(***************************************************************************)
\* What StoreNewSwap does to the store, in the terms the proofs need.
LEMMA StoreNewSwapEffect ==
    ASSUME TypeOK, NEW id \in SwapID, NEW timestamp, NEW span, NEW recipient, NEW d,
           NEW coin, NEW direction, id \notin DOMAIN swaps,
           StoreNewSwap(id, timestamp, span, recipient, d, coin, direction)
    PROVE  /\ DOMAIN swaps' = DOMAIN swaps \cup {id}
           /\ \A i \in DOMAIN swaps : i # id /\ swaps'[i] = swaps[i]
           /\ swaps'[id].status = "OPEN"
           /\ swaps'[id].timestamp = timestamp
           /\ byBlock' = byBlock \cup {<<swaps'[id].expireHeight, id>>}
BY DEF StoreNewSwap, Put

\* Creating a swap in either direction validates, stores and indexes it.
LEMMA CreateStores ==
    ASSUME Create
    PROVE  \E id \in SwapID, timestamp \in Timestamp, span \in HeightSpan,
              recipient \in Addr, d \in Denom, coin \in Amount, direction \in SwapDirection :
                 /\ ValidCreate(id, timestamp, recipient, d, coin)
                 /\ StoreNewSwap(id, timestamp, span, recipient, d, coin, direction)
                 /\ UNCHANGED <<height, time, longterm, claimed>>
<1>1. PICK id \in SwapID, timestamp \in Timestamp, span \in HeightSpan,
           recipient \in Addr, d \in Denom, coin \in Amount :
              \/ CreateIncomingSwap(id, timestamp, span, recipient, d, coin)
              \/ CreateOutgoingSwap(id, timestamp, span, recipient, d, coin)
  BY DEF Create
<1>2. /\ ValidCreate(id, timestamp, recipient, d, coin)
      /\ UNCHANGED <<height, time, longterm, claimed>>
      /\ \/ StoreNewSwap(id, timestamp, span, recipient, d, coin, "INCOMING")
         \/ StoreNewSwap(id, timestamp, span, recipient, d, coin, "OUTGOING")
  BY <1>1 DEF CreateIncomingSwap, CreateOutgoingSwap, chainVars
<1>3. {"INCOMING", "OUTGOING"} \subseteq SwapDirection
  BY DEF SwapDirection
<1> QED
  BY <1>2, <1>3

LEMMA IndexesCreate ==
    ASSUME TypeOK, IndexesConsistent, NEW id \in SwapID, NEW timestamp, NEW span,
           NEW recipient, NEW d, NEW coin, NEW direction, id \notin DOMAIN swaps,
           StoreNewSwap(id, timestamp, span, recipient, d, coin, direction),
           longterm' = longterm
    PROVE  IndexesConsistent'
<1>1. /\ DOMAIN swaps' = DOMAIN swaps \cup {id}
      /\ \A i \in DOMAIN swaps : i # id /\ swaps'[i] = swaps[i]
      /\ swaps'[id].status = "OPEN"
      /\ byBlock' = byBlock \cup {<<swaps'[id].expireHeight, id>>}
  BY StoreNewSwapEffect
<1>2. \A e \in byBlock' : /\ e[2] \in DOMAIN swaps' /\ swaps'[e[2]].status = "OPEN"
                          /\ e[1] = swaps'[e[2]].expireHeight
  BY <1>1 DEF IndexesConsistent
<1>3. \A e \in longterm' : /\ e[2] \in DOMAIN swaps' /\ swaps'[e[2]].status = "COMPLETED"
                           /\ e[1] = swaps'[e[2]].closedBlock + LongtermStorageDuration
  BY <1>1 DEF IndexesConsistent
<1>4. \A i \in DOMAIN swaps' :
         /\ swaps'[i].status = "OPEN" => <<swaps'[i].expireHeight, i>> \in byBlock'
         /\ swaps'[i].status = "COMPLETED" =>
               <<swaps'[i].closedBlock + LongtermStorageDuration, i>> \in longterm'
  BY <1>1 DEF IndexesConsistent
<1> QED
  BY <1>2, <1>3, <1>4 DEF IndexesConsistent

LEMMA IndexesClaim ==
    ASSUME TypeOK, IndexesConsistent, NEW id \in DOMAIN swaps, NEW r,
           ClaimAtomicSwap(id, r)
    PROVE  IndexesConsistent'
<1>1. /\ DOMAIN swaps' = DOMAIN swaps
      /\ \A i \in DOMAIN swaps : i # id => swaps'[i] = swaps[i]
      /\ swaps'[id].status = "COMPLETED" /\ swaps'[id].closedBlock = height
      /\ swaps[id].status = "OPEN"
  BY DEF ClaimAtomicSwap, ClaimIncomingSwap, ClaimOutgoingSwap, Completed, TypeOK, Swap
<1>2. /\ byBlock' = byBlock \ {<<swaps[id].expireHeight, id>>}
      /\ longterm' = longterm \cup {<<height + LongtermStorageDuration, id>>}
  BY DEF ClaimAtomicSwap, InsertIntoLongtermStorage
<1>3. ASSUME NEW e \in byBlock'
      PROVE  e[2] # id
  <2>1. e \in byBlock /\ e = <<e[1], e[2]>>
    BY <1>2 DEF TypeOK
  <2> QED
    BY <1>2, <2>1 DEF IndexesConsistent
<1> QED
  BY <1>1, <1>2, <1>3 DEF IndexesConsistent

LEMMA IndexesRefund ==
    ASSUME TypeOK, IndexesConsistent, NEW id \in DOMAIN swaps, RefundAtomicSwap(id)
    PROVE  IndexesConsistent'
<1>1. /\ DOMAIN swaps' = DOMAIN swaps
      /\ \A i \in DOMAIN swaps : i # id => swaps'[i] = swaps[i]
      /\ swaps'[id].status = "COMPLETED" /\ swaps'[id].closedBlock = height
      /\ swaps[id].status = "EXPIRED"
      /\ byBlock' = byBlock
      /\ longterm' = longterm \cup {<<height + LongtermStorageDuration, id>>}
  BY DEF RefundAtomicSwap, Completed, InsertIntoLongtermStorage, TypeOK, Swap
<1> QED
  BY <1>1 DEF IndexesConsistent

\* What BeginBlock does to the swaps when the indexes are consistent: the open
\* swaps past their expire height expire, the completed ones past their
\* retention leave the store, and the others are untouched.
LEMMA BeginBlockEffect ==
    ASSUME TypeOK, IndexesConsistent, NEW interval, BeginBlock(interval)
    PROVE  /\ DOMAIN swaps' =
                {id \in DOMAIN swaps :
                    ~(swaps[id].status = "COMPLETED"
                      /\ swaps[id].closedBlock + LongtermStorageDuration <= height + 1)}
           /\ \A id \in DOMAIN swaps' :
                swaps'[id] =
                  IF swaps[id].status = "OPEN" /\ swaps[id].expireHeight <= height + 1
                  THEN [swaps[id] EXCEPT !.status = "EXPIRED"] ELSE swaps[id]
<1> DEFINE h == height + 1
<1>1. DueBy(longterm, h) =
        {id \in DOMAIN swaps : swaps[id].status = "COMPLETED"
            /\ swaps[id].closedBlock + LongtermStorageDuration <= h}
  <2>1. ASSUME NEW id \in DOMAIN swaps
        PROVE  (\E e \in longterm : e[1] <= h /\ e[2] = id)
                 <=> /\ swaps[id].status = "COMPLETED"
                     /\ swaps[id].closedBlock + LongtermStorageDuration <= h
    BY DEF IndexesConsistent
  <2> QED
    BY <2>1 DEF DueBy
<1>2. ExpiredBy(h) =
        {id \in DOMAIN swaps : swaps[id].status = "OPEN" /\ swaps[id].expireHeight <= h}
  <2>1. ASSUME NEW id \in DOMAIN swaps
        PROVE  (\E e \in byBlock : e[1] <= h /\ e[2] = id)
                 <=> swaps[id].status = "OPEN" /\ swaps[id].expireHeight <= h
    BY DEF IndexesConsistent
  <2> QED
    BY <2>1 DEF ExpiredBy, DueBy
<1>3. swaps' = Drop(UpdateExpiredAtomicSwaps(h), DueBy(longterm, h))
  BY DEF BeginBlock
<1> HIDE DEF h
<1>4. /\ DOMAIN swaps' = DOMAIN swaps \ DueBy(longterm, h)
      /\ \A id \in DOMAIN swaps' :
            swaps'[id] = IF id \in ExpiredBy(h)
                         THEN [swaps[id] EXCEPT !.status = "EXPIRED"] ELSE swaps[id]
  BY <1>3 DEF Drop, UpdateExpiredAtomicSwaps
<1> QED
  BY <1>1, <1>2, <1>4 DEF h

LEMMA IndexesBeginBlock ==
    ASSUME TypeOK, IndexesConsistent, NEW interval, BeginBlock(interval)
    PROVE  IndexesConsistent'
<1> DEFINE h == height + 1
           expired == {id \in DOMAIN swaps :
                          swaps[id].status = "OPEN" /\ swaps[id].expireHeight <= h}
           deleted == {id \in DOMAIN swaps : swaps[id].status = "COMPLETED"
                          /\ swaps[id].closedBlock + LongtermStorageDuration <= h}
<1>1. /\ byBlock' = byBlock \ {<<swaps[id].expireHeight, id>> : id \in expired}
      /\ longterm' = longterm \ {<<swaps[id].closedBlock + LongtermStorageDuration, id>>
                                    : id \in deleted}
  BY DEF BeginBlock, ExpiredBy, DueBy, IndexesConsistent
<1>2. /\ DOMAIN swaps' = DOMAIN swaps \ deleted
      /\ \A id \in DOMAIN swaps' :
           /\ swaps'[id].status = IF id \in expired THEN "EXPIRED" ELSE swaps[id].status
           /\ swaps'[id].expireHeight = swaps[id].expireHeight
           /\ swaps'[id].closedBlock = swaps[id].closedBlock
  BY BeginBlockEffect DEF TypeOK, Swap
<1>3. \A e \in byBlock : e = <<e[1], e[2]>>
  BY DEF TypeOK
<1>4. \A e \in longterm : e = <<e[1], e[2]>>
  BY DEF TypeOK
<1> HIDE DEF expired, deleted
<1>5. \A id \in deleted : id \in DOMAIN swaps /\ swaps[id].status = "COMPLETED"
  BY DEF deleted
<1>6. \A id \in expired : id \in DOMAIN swaps /\ swaps[id].status = "OPEN"
  BY DEF expired
<1>7. \A e \in byBlock' : e[2] \in DOMAIN swaps'
          /\ swaps'[e[2]].status = "OPEN" /\ e[1] = swaps'[e[2]].expireHeight
  BY <1>1, <1>2, <1>3, <1>5 DEF IndexesConsistent
<1>8. \A e \in longterm' : e[2] \in DOMAIN swaps'
          /\ swaps'[e[2]].status = "COMPLETED"
          /\ e[1] = swaps'[e[2]].closedBlock + LongtermStorageDuration
  BY <1>1, <1>2, <1>4, <1>6 DEF IndexesConsistent
<1>9. \A id \in DOMAIN swaps' :
          swaps'[id].status = "OPEN" => <<swaps'[id].expireHeight, id>> \in byBlock'
  BY <1>1, <1>2 DEF IndexesConsistent
<1>10. \A id \in DOMAIN swaps' : swaps'[id].status = "COMPLETED" =>
                <<swaps'[id].closedBlock + LongtermStorageDuration, id>> \in longterm'
  BY <1>1, <1>2 DEF IndexesConsistent
<1> QED
  BY <1>7, <1>8, <1>9, <1>10 DEF IndexesConsistent

LEMMA IndexesNext == TypeOK /\ IndexesConsistent /\ [Next]_vars => IndexesConsistent'
<1> SUFFICES ASSUME TypeOK, IndexesConsistent, [Next]_vars PROVE IndexesConsistent'
  OBVIOUS
<1>1. CASE Create
  <2>1. PICK id \in SwapID, timestamp \in Timestamp, span \in HeightSpan,
             recipient \in Addr, d \in Denom, coin \in Amount, direction \in SwapDirection :
                /\ id \notin DOMAIN swaps
                /\ StoreNewSwap(id, timestamp, span, recipient, d, coin, direction)
                /\ longterm' = longterm
    BY <1>1, CreateStores DEF ValidCreate
  <2> QED
    BY <2>1, IndexesCreate
<1>2. CASE Claim
  BY <1>2, IndexesClaim DEF Claim
<1>3. CASE Refund
  BY <1>3, IndexesRefund DEF Refund
<1>4. CASE NewBlock
  BY <1>4, IndexesBeginBlock DEF NewBlock
<1>5. CASE Govern
  BY <1>5 DEF Govern, UpdateParams, IndexesConsistent
<1>6. CASE ExportImport
  BY <1>6 DEF ExportImport, IndexesConsistent
<1>7. CASE UNCHANGED vars
  BY <1>7 DEF vars, IndexesConsistent
<1> QED
  BY <1>1, <1>2, <1>3, <1>4, <1>5, <1>6, <1>7 DEF Next

\* The byBlock index always lists exactly the open swaps and the long-term
\* index exactly the completed ones.
THEOREM IndexesAlwaysConsistent == Spec => []IndexesConsistent
<1>1. Init => IndexesConsistent
  BY DEF Init, IndexesConsistent
<1> QED
  BY <1>1, TypeCorrect, IndexesNext, PTL DEF Spec

(***************************************************************************)
(* Pegged coins are backed.                                                *)
(***************************************************************************)
LEMMA BackedCreateIncoming ==
    ASSUME TypeOK, SupplyBacked, NEW id \in SwapID, NEW timestamp, NEW span,
           NEW recipient, NEW d \in Denom, NEW coin \in Amount,
           CreateIncomingSwap(id, timestamp, span, recipient, d, coin)
    PROVE  SupplyBacked'
<1>1. d \in DOMAIN supplies /\ supplies[d] \in AssetSupply /\ coin \in Nat
  BY InputAssumption DEF TypeOK, CreateIncomingSwap, ValidCreate
<1>2. /\ supplies' = [supplies EXCEPT ![d] = IncrementIncomingAssetSupply(supplies[d], coin)]
      /\ UNCHANGED <<bankSupply, moduleBalance>>
  BY DEF CreateIncomingSwap, bankVars
<1>3. /\ DOMAIN supplies' = DOMAIN supplies
      /\ \A x \in DOMAIN supplies :
            /\ supplies'[x].current = supplies[x].current
            /\ supplies'[x].outgoing = supplies[x].outgoing
            /\ supplies'[x].incoming =
                  supplies[x].incoming + (IF x = d THEN coin ELSE 0)
  BY <1>1, <1>2 DEF TypeOK, IncrementIncomingAssetSupply, AssetSupply
<1>4. \A x \in DOMAIN supplies : supplies[x] \in AssetSupply
  BY DEF TypeOK
<1> QED
  BY <1>1, <1>2, <1>3, <1>4 DEF SupplyBacked, AssetSupply

LEMMA BackedCreateOutgoing ==
    ASSUME TypeOK, SupplyBacked, NEW id \in SwapID, NEW timestamp, NEW span,
           NEW recipient, NEW d \in Denom, NEW coin \in Amount,
           CreateOutgoingSwap(id, timestamp, span, recipient, d, coin)
    PROVE  SupplyBacked'
<1>1. d \in DOMAIN supplies /\ supplies[d] \in AssetSupply /\ coin \in Nat
      /\ supplies[d].outgoing + coin <= supplies[d].current
  BY InputAssumption
     DEF TypeOK, CreateOutgoingSwap, ValidCreate, CanIncrementOutgoingAssetSupply
<1>2. /\ supplies' = [supplies EXCEPT ![d] = IncrementOutgoingAssetSupply(supplies[d], coin)]
      /\ bankSupply' = bankSupply
      /\ moduleBalance' = [moduleBalance EXCEPT ![d] = moduleBalance[d] + coin]
  BY DEF CreateOutgoingSwap, SendCoinsFromAccountToModule
<1>3. /\ DOMAIN supplies' = DOMAIN supplies
      /\ \A x \in DOMAIN supplies :
            /\ supplies'[x].current = supplies[x].current
            /\ supplies'[x].incoming = supplies[x].incoming
            /\ supplies'[x].outgoing =
                  supplies[x].outgoing + (IF x = d THEN coin ELSE 0)
  BY <1>1, <1>2 DEF TypeOK, IncrementOutgoingAssetSupply, AssetSupply
<1>4. \A x \in DOMAIN supplies : supplies[x] \in AssetSupply
  BY DEF TypeOK
<1>5. \A x \in Denom : moduleBalance'[x] = moduleBalance[x] + (IF x = d THEN coin ELSE 0)
                       /\ moduleBalance[x] \in Int
  BY <1>1, <1>2 DEF TypeOK
<1> QED
  BY <1>1, <1>2, <1>3, <1>4, <1>5 DEF SupplyBacked, AssetSupply

LEMMA BackedClaimIncoming ==
    ASSUME TypeOK, SupplyBacked, NEW id \in DOMAIN swaps, NEW r,
           ClaimIncomingSwap(id, r)
    PROVE  SupplyBacked'
<1> DEFINE d == swaps[id].denom
           coin == swaps[id].amount
<1>1. /\ d \in DOMAIN supplies /\ d \in Denom /\ supplies[d] \in AssetSupply
      /\ coin \in Nat /\ supplies[d].incoming - coin >= 0
  BY InputAssumption DEF TypeOK, Swap, ClaimIncomingSwap, CanClaimIncoming,
                         CanDecrementIncomingAssetSupply
<1>2. /\ supplies' = [supplies EXCEPT ![d] = IncrementCurrentAssetSupply(
                         DecrementIncomingAssetSupply(supplies[d], coin), params[d], coin)]
      /\ moduleBalance' = moduleBalance
      /\ bankSupply' = [bankSupply EXCEPT ![d] = bankSupply[d] + coin]
  BY DEF ClaimIncomingSwap, MintAndSend
<1> HIDE DEF d, coin
<1>3. /\ DOMAIN supplies' = DOMAIN supplies
      /\ \A x \in DOMAIN supplies :
            /\ supplies'[x].current = supplies[x].current + (IF x = d THEN coin ELSE 0)
            /\ supplies'[x].incoming = supplies[x].incoming - (IF x = d THEN coin ELSE 0)
            /\ supplies'[x].outgoing = supplies[x].outgoing
  BY <1>1, <1>2
     DEF TypeOK, IncrementCurrentAssetSupply, DecrementIncomingAssetSupply, AssetSupply
<1>4. \A x \in DOMAIN supplies : supplies[x] \in AssetSupply
  BY DEF TypeOK
<1>5. \A x \in Denom : bankSupply'[x] = bankSupply[x] + (IF x = d THEN coin ELSE 0)
                       /\ bankSupply[x] \in Int
  BY <1>1, <1>2 DEF TypeOK
<1> QED
  BY <1>1, <1>2, <1>3, <1>4, <1>5 DEF SupplyBacked, AssetSupply

LEMMA BackedClaimOutgoing ==
    ASSUME TypeOK, SupplyBacked, NEW id \in DOMAIN swaps, NEW r,
           ClaimOutgoingSwap(id, r)
    PROVE  SupplyBacked'
<1> DEFINE d == swaps[id].denom
           coin == swaps[id].amount
<1>1. /\ d \in DOMAIN supplies /\ d \in Denom /\ supplies[d] \in AssetSupply
      /\ coin \in Nat /\ supplies[d].outgoing - coin >= 0
  BY InputAssumption DEF TypeOK, Swap, ClaimOutgoingSwap, CanClaimOutgoing,
                         CanDecrementOutgoingAssetSupply
<1>2. /\ supplies' = [supplies EXCEPT ![d] = DecrementCurrentAssetSupply(
                         DecrementOutgoingAssetSupply(supplies[d], coin), coin)]
      /\ moduleBalance' = [moduleBalance EXCEPT ![d] = moduleBalance[d] - coin]
      /\ bankSupply' = [bankSupply EXCEPT ![d] = bankSupply[d] - coin]
  BY DEF ClaimOutgoingSwap, BurnCoins
<1> HIDE DEF d, coin
<1>3. /\ DOMAIN supplies' = DOMAIN supplies
      /\ \A x \in DOMAIN supplies :
            /\ supplies'[x].current = supplies[x].current - (IF x = d THEN coin ELSE 0)
            /\ supplies'[x].outgoing = supplies[x].outgoing - (IF x = d THEN coin ELSE 0)
            /\ supplies'[x].incoming = supplies[x].incoming
  BY <1>1, <1>2
     DEF TypeOK, DecrementCurrentAssetSupply, DecrementOutgoingAssetSupply, AssetSupply
<1>4. \A x \in DOMAIN supplies : supplies[x] \in AssetSupply
  BY DEF TypeOK
<1>5. \A x \in Denom : /\ bankSupply'[x] = bankSupply[x] - (IF x = d THEN coin ELSE 0)
                       /\ moduleBalance'[x] = moduleBalance[x] - (IF x = d THEN coin ELSE 0)
                       /\ bankSupply[x] \in Int /\ moduleBalance[x] \in Int
  BY <1>1, <1>2 DEF TypeOK
<1> QED
  BY <1>1, <1>2, <1>3, <1>4, <1>5 DEF SupplyBacked, AssetSupply

LEMMA BackedRefund ==
    ASSUME TypeOK, SupplyBacked, NEW id \in DOMAIN swaps, RefundAtomicSwap(id)
    PROVE  SupplyBacked'
<1> DEFINE d == swaps[id].denom
           coin == swaps[id].amount
<1>1. d \in Denom /\ coin \in Nat
  BY InputAssumption DEF TypeOK, Swap
<1>2. \A x \in DOMAIN supplies : supplies[x] \in AssetSupply
  BY DEF TypeOK
<1>3. CASE RefundIncomingSwap(id)
  <2>1. /\ d \in DOMAIN supplies /\ supplies[d].incoming - coin >= 0
        /\ supplies' = [supplies EXCEPT ![d] = DecrementIncomingAssetSupply(supplies[d], coin)]
        /\ UNCHANGED <<bankSupply, moduleBalance>>
    BY <1>3 DEF RefundIncomingSwap, CanDecrementIncomingAssetSupply, bankVars
  <2> HIDE DEF d, coin
  <2>2. /\ DOMAIN supplies' = DOMAIN supplies
        /\ \A x \in DOMAIN supplies :
            /\ supplies'[x].current = supplies[x].current
            /\ supplies'[x].outgoing = supplies[x].outgoing
            /\ supplies'[x].incoming = supplies[x].incoming - (IF x = d THEN coin ELSE 0)
    BY <1>1, <1>2, <2>1 DEF TypeOK, DecrementIncomingAssetSupply, AssetSupply
  <2> QED
    BY <1>1, <1>2, <2>1, <2>2 DEF SupplyBacked, AssetSupply
<1>4. CASE RefundOutgoingSwap(id)
  <2>1. /\ d \in DOMAIN supplies /\ supplies[d].outgoing - coin >= 0
        /\ supplies' = [supplies EXCEPT ![d] = DecrementOutgoingAssetSupply(supplies[d], coin)]
        /\ moduleBalance' = [moduleBalance EXCEPT ![d] = moduleBalance[d] - coin]
        /\ bankSupply' = bankSupply
    BY <1>4 DEF RefundOutgoingSwap, CanDecrementOutgoingAssetSupply,
                SendCoinsFromModuleToAccount
  <2> HIDE DEF d, coin
  <2>2. /\ DOMAIN supplies' = DOMAIN supplies
        /\ \A x \in DOMAIN supplies :
            /\ supplies'[x].current = supplies[x].current
            /\ supplies'[x].outgoing = supplies[x].outgoing - (IF x = d THEN coin ELSE 0)
            /\ supplies'[x].incoming = supplies[x].incoming
    BY <1>1, <1>2, <2>1 DEF TypeOK, DecrementOutgoingAssetSupply, AssetSupply
  <2>3. \A x \in Denom : /\ moduleBalance'[x] = moduleBalance[x] - (IF x = d THEN coin ELSE 0)
                         /\ moduleBalance[x] \in Int
    BY <1>1, <2>1 DEF TypeOK
  <2> QED
    BY <1>1, <1>2, <2>1, <2>2, <2>3 DEF SupplyBacked, AssetSupply
<1> QED
  BY <1>3, <1>4 DEF RefundAtomicSwap

\* A new block resets time windows and may open an empty supply, but leaves
\* incoming, outgoing and current supplies as they are.
LEMMA NextSuppliesEffect ==
    ASSUME TypeOK, NEW interval \in BlockInterval, BeginBlock(interval)
    PROVE  /\ DOMAIN supplies \subseteq DOMAIN supplies'
           /\ \A d \in DOMAIN supplies' :
                /\ supplies'[d].current = IF d \in DOMAIN supplies THEN supplies[d].current ELSE 0
                /\ supplies'[d].incoming = IF d \in DOMAIN supplies THEN supplies[d].incoming ELSE 0
                /\ supplies'[d].outgoing = IF d \in DOMAIN supplies THEN supplies[d].outgoing ELSE 0
                /\ supplies'[d].timeLimited \in
                      {0, IF d \in DOMAIN supplies THEN supplies[d].timeLimited ELSE 0}
           /\ DOMAIN supplies' \subseteq DOMAIN supplies \cup DOMAIN params
<1>1. UpdateTimeBasedSupplyLimits(time + interval) /\ interval \in Nat
  BY InputAssumption DEF BeginBlock
<1>2. CASE DOMAIN params = {}
  BY <1>1, <1>2 DEF UpdateTimeBasedSupplyLimits
<1>3. CASE DOMAIN params # {}
  <2> DEFINE elapsed == time + interval - previousBlockTime
  <2>1. supplies' = NextSupplies(elapsed)
    BY <1>1, <1>3 DEF UpdateTimeBasedSupplyLimits, TypeOK
  <2>2. \A d \in DOMAIN params :
          LET s == IF d \in DOMAIN supplies THEN supplies[d] ELSE NewAssetSupply(0)
          IN  /\ NextWindow(d, elapsed).current = s.current
              /\ NextWindow(d, elapsed).incoming = s.incoming
              /\ NextWindow(d, elapsed).outgoing = s.outgoing
              /\ NextWindow(d, elapsed).timeLimited \in {0, s.timeLimited}
    BY DEF NextWindow, NewAssetSupply, TypeOK, AssetSupply
  <2> HIDE DEF elapsed
  <2> QED
    <3>1. /\ DOMAIN supplies' = DOMAIN supplies \cup DOMAIN params
          /\ \A d \in DOMAIN params : supplies'[d] = NextWindow(d, elapsed)
          /\ \A d \in DOMAIN supplies \ DOMAIN params : supplies'[d] = supplies[d]
      BY <2>1 DEF NextSupplies
    <3> QED
      BY <2>2, <3>1 DEF NewAssetSupply
<1> QED
  BY <1>2, <1>3

LEMMA BackedNext == TypeOK /\ SupplyBacked /\ [Next]_vars => SupplyBacked'
<1> SUFFICES ASSUME TypeOK, SupplyBacked, [Next]_vars PROVE SupplyBacked'
  OBVIOUS
<1>1. CASE Create
  BY <1>1, BackedCreateIncoming, BackedCreateOutgoing DEF Create
<1>2. CASE Claim
  BY <1>2, BackedClaimIncoming, BackedClaimOutgoing DEF Claim, ClaimAtomicSwap
<1>3. CASE Refund
  BY <1>3, BackedRefund DEF Refund
<1>4. CASE NewBlock
  <2>1. PICK interval \in BlockInterval : BeginBlock(interval)
    BY <1>4 DEF NewBlock
  <2>2. UNCHANGED <<bankSupply, moduleBalance>>
    BY <2>1 DEF BeginBlock, bankVars
  <2> QED
    <3>1. /\ DOMAIN supplies \subseteq DOMAIN supplies'
          /\ \A d \in DOMAIN supplies' :
                /\ supplies'[d].current = IF d \in DOMAIN supplies THEN supplies[d].current ELSE 0
                /\ supplies'[d].incoming = IF d \in DOMAIN supplies THEN supplies[d].incoming ELSE 0
                /\ supplies'[d].outgoing = IF d \in DOMAIN supplies THEN supplies[d].outgoing ELSE 0
      BY <2>1, NextSuppliesEffect
    <3> QED
      BY <2>2, <3>1 DEF SupplyBacked
<1>5. CASE Govern
  BY <1>5 DEF Govern, UpdateParams, SupplyBacked, bankVars
<1>6. CASE ExportImport
  BY <1>6 DEF ExportImport, SupplyBacked, bankVars
<1>7. CASE UNCHANGED vars
  BY <1>7 DEF vars, SupplyBacked
<1> QED
  BY <1>1, <1>2, <1>3, <1>4, <1>5, <1>6, <1>7 DEF Next

\* Whatever governance does, the pegged coins in existence are the recorded
\* current supply and the escrow holds exactly the outgoing supply.
THEOREM SupplyAlwaysBacked == Spec => []SupplyBacked
<1>1. Init => SupplyBacked
  BY GenesisAssumption DEF Init, SupplyBacked, NewAssetSupply, ValidParams
<1> QED
  BY <1>1, TypeCorrect, BackedNext, PTL DEF Spec

(***************************************************************************)
(* A secret is worth nothing the second time.                              *)
(***************************************************************************)
\* A claimed id is still stored, closed, with a hashed timestamp that was not
\* too far in the future when it was closed; the clock advances by at least
\* one per block.
StillClosed(id) ==
    /\ id \in DOMAIN swaps /\ swaps[id].status = "COMPLETED"
    /\ swaps[id].closedBlock <= height
    /\ id.hash[2] < time - (height - swaps[id].closedBlock) + FutureLimit

\* Or its hashed timestamp is too old to be accepted again, and if the id is in
\* use it is with another timestamp, which no secret unlocks.
TooOld(id) ==
    /\ id.hash[2] < time - PastLimit
    /\ id \in DOMAIN swaps => swaps[id].timestamp # id.hash[2]

ReplayInv ==
    /\ \A id \in DOMAIN swaps : swaps[id].timestamp < time + FutureLimit
    /\ \A id \in claimed : StillClosed(id) \/ TooOld(id)

LEMMA ReplayCreate ==
    ASSUME TypeOK, ReplayInv, NEW id \in SwapID, NEW timestamp \in Timestamp, NEW span,
           NEW recipient, NEW d, NEW coin, NEW direction,
           ValidCreate(id, timestamp, recipient, d, coin),
           StoreNewSwap(id, timestamp, span, recipient, d, coin, direction),
           UNCHANGED <<height, time, claimed>>
    PROVE  ReplayInv'
<1>1. /\ DOMAIN swaps' = DOMAIN swaps \cup {id} /\ id \notin DOMAIN swaps
      /\ \A i \in DOMAIN swaps : i # id /\ swaps'[i] = swaps[i]
      /\ swaps'[id].timestamp = timestamp
  BY StoreNewSwapEffect DEF ValidCreate
<1>2. timestamp >= time - PastLimit /\ timestamp < time + FutureLimit
  BY DEF ValidCreate
<1>3. time \in Nat /\ height \in Nat /\ PastLimit \in Nat /\ timestamp \in Nat
  BY InputAssumption DEF TypeOK
<1>4. ASSUME NEW i \in claimed PROVE StillClosed(i)' \/ TooOld(i)'
  <2>1. i.hash[2] \in Nat
    BY InputAssumption DEF TypeOK, SwapID
  <2>2. CASE StillClosed(i)
    BY <1>1, <2>2 DEF StillClosed
  <2>3. CASE TooOld(i) /\ i # id
    BY <1>1, <2>3 DEF TooOld
  <2>4. CASE TooOld(i) /\ i = id
    <3>1. timestamp # i.hash[2]
      BY <1>2, <1>3, <2>1, <2>4 DEF TooOld
    <3> QED
      BY <1>1, <2>4, <3>1 DEF TooOld
  <2> QED
    BY <2>2, <2>3, <2>4 DEF ReplayInv
<1> QED
  BY <1>1, <1>2, <1>4 DEF ReplayInv

LEMMA ReplayClaim ==
    ASSUME TypeOK, ReplayInv, NEW id \in DOMAIN swaps, NEW r, ClaimAtomicSwap(id, r)
    PROVE  ReplayInv'
<1>1. /\ DOMAIN swaps' = DOMAIN swaps
      /\ \A i \in DOMAIN swaps : i # id => swaps'[i] = swaps[i]
      /\ swaps'[id].status = "COMPLETED" /\ swaps'[id].closedBlock = height
      /\ swaps'[id].timestamp = swaps[id].timestamp
      /\ swaps[id].status = "OPEN"
  BY DEF ClaimAtomicSwap, ClaimIncomingSwap, ClaimOutgoingSwap, Completed, TypeOK, Swap
<1>2. /\ claimed' = claimed \cup {id} /\ time' = time /\ height' = height
  BY DEF ClaimAtomicSwap, chainVars
<1>3. swaps[id].timestamp = id.hash[2]
  BY UnlocksTimestamp DEF TypeOK, ClaimAtomicSwap, ClaimIncomingSwap, ClaimOutgoingSwap
<1>4. time \in Nat /\ height \in Nat /\ FutureLimit \in Nat
  BY InputAssumption DEF TypeOK
<1>5. swaps[id].timestamp < time + FutureLimit
  BY DEF ReplayInv
<1>6. StillClosed(id)'
  BY <1>1, <1>2, <1>3, <1>4, <1>5 DEF StillClosed
<1>7. ASSUME NEW i \in claimed, i # id PROVE StillClosed(i)' \/ TooOld(i)'
  BY <1>1, <1>2, <1>7 DEF ReplayInv, StillClosed, TooOld
<1>8. \A i \in DOMAIN swaps' : swaps'[i].timestamp < time' + FutureLimit
  BY <1>1, <1>2 DEF ReplayInv
<1> QED
  BY <1>2, <1>6, <1>7, <1>8 DEF ReplayInv

LEMMA ReplayRefund ==
    ASSUME TypeOK, ReplayInv, NEW id \in DOMAIN swaps, RefundAtomicSwap(id)
    PROVE  ReplayInv'
<1>1. /\ DOMAIN swaps' = DOMAIN swaps
      /\ \A i \in DOMAIN swaps : i # id => swaps'[i] = swaps[i]
      /\ swaps'[id].timestamp = swaps[id].timestamp
      /\ swaps[id].status = "EXPIRED"
  BY DEF RefundAtomicSwap, Completed, TypeOK, Swap
<1>2. UNCHANGED <<claimed, time, height>>
  BY DEF RefundAtomicSwap, chainVars
<1> QED
  BY <1>1, <1>2 DEF ReplayInv, StillClosed, TooOld

LEMMA ReplayBeginBlock ==
    ASSUME TypeOK, IndexesConsistent, ReplayInv, NEW interval \in BlockInterval,
           BeginBlock(interval)
    PROVE  ReplayInv'
<1>1. /\ height' = height + 1 /\ time' = time + interval /\ claimed' = claimed
      /\ interval \in Nat /\ interval >= 1 /\ height \in Nat /\ time \in Nat
      /\ PastLimit \in Nat /\ FutureLimit \in Nat
  BY InputAssumption DEF BeginBlock, TypeOK
<1>2. /\ DOMAIN swaps' =
             {id \in DOMAIN swaps :
                ~(swaps[id].status = "COMPLETED"
                  /\ swaps[id].closedBlock + LongtermStorageDuration <= height + 1)}
      /\ \A id \in DOMAIN swaps' :
           /\ swaps'[id].timestamp = swaps[id].timestamp
           /\ swaps'[id].closedBlock = swaps[id].closedBlock
           /\ swaps[id].status = "COMPLETED" => swaps'[id].status = "COMPLETED"
  BY BeginBlockEffect DEF TypeOK, Swap
<1>3. \A id \in DOMAIN swaps : swaps[id].closedBlock \in Nat /\ swaps[id].timestamp \in Nat
  BY InputAssumption DEF TypeOK, Swap
<1>4. ASSUME NEW id \in claimed PROVE StillClosed(id)' \/ TooOld(id)'
  <2>1. id.hash[2] \in Nat
    BY InputAssumption DEF TypeOK, SwapID
  <2>2. CASE StillClosed(id) /\ id \in DOMAIN swaps'
    BY <1>1, <1>2, <1>3, <2>1, <2>2 DEF StillClosed
  <2>3. CASE StillClosed(id) /\ id \notin DOMAIN swaps'
    <3>1. swaps[id].closedBlock + LongtermStorageDuration <= height + 1
      BY <1>2, <2>3 DEF StillClosed
    <3> QED
      BY <1>1, <1>3, <2>1, <2>3, <3>1, RetentionAssumption DEF StillClosed, TooOld
  <2>4. CASE TooOld(id)
    BY <1>1, <1>2, <2>1, <2>4 DEF TooOld
  <2> QED
    BY <2>2, <2>3, <2>4 DEF ReplayInv
<1>5. \A id \in DOMAIN swaps' : swaps'[id].timestamp < time' + FutureLimit
  BY <1>1, <1>2, <1>3 DEF ReplayInv
<1> QED
  BY <1>1, <1>4, <1>5 DEF ReplayInv

LEMMA ReplayNext ==
    TypeOK /\ IndexesConsistent /\ ReplayInv /\ [Next]_vars => ReplayInv'
<1> SUFFICES ASSUME TypeOK, IndexesConsistent, ReplayInv, [Next]_vars PROVE ReplayInv'
  OBVIOUS
<1>1. CASE Create
  <2>1. PICK id \in SwapID, timestamp \in Timestamp, span \in HeightSpan,
             recipient \in Addr, d \in Denom, coin \in Amount, direction \in SwapDirection :
                /\ ValidCreate(id, timestamp, recipient, d, coin)
                /\ StoreNewSwap(id, timestamp, span, recipient, d, coin, direction)
                /\ UNCHANGED <<height, time, claimed>>
    BY <1>1, CreateStores
  <2> QED
    BY <2>1, ReplayCreate
<1>2. CASE Claim
  BY <1>2, ReplayClaim DEF Claim
<1>3. CASE Refund
  BY <1>3, ReplayRefund DEF Refund
<1>4. CASE NewBlock
  BY <1>4, ReplayBeginBlock DEF NewBlock
<1>5. CASE Govern
  BY <1>5 DEF Govern, UpdateParams, ReplayInv, StillClosed, TooOld
<1>6. CASE ExportImport
  BY <1>6 DEF ExportImport, ReplayInv, StillClosed, TooOld, chainVars
<1>7. CASE UNCHANGED vars
  BY <1>7 DEF vars, ReplayInv, StillClosed, TooOld
<1> QED
  BY <1>1, <1>2, <1>3, <1>4, <1>5, <1>6, <1>7 DEF Next

LEMMA ReplayInvImpliesNoReplay == TypeOK /\ ReplayInv => NoReplay
<1> SUFFICES ASSUME TypeOK, ReplayInv, NEW id \in DOMAIN swaps,
                    swaps[id].status = "OPEN", NEW r, Unlocks(id, r)
             PROVE  id \notin claimed
  BY DEF NoReplay
<1>1. swaps[id].timestamp = id.hash[2]
  BY UnlocksTimestamp DEF TypeOK
<1> QED
  BY <1>1 DEF ReplayInv, StillClosed, TooOld

\* No swap that was claimed is ever open to a claim again, for every retention
\* period at least as long as the window of accepted timestamps.
THEOREM SecretsNeverReplayed == Spec => []NoReplay
<1>1. Init => ReplayInv
  BY DEF Init, ReplayInv
<1> QED
  BY <1>1, TypeCorrect, IndexesAlwaysConsistent, ReplayNext, ReplayInvImpliesNoReplay, PTL
     DEF Spec

(***************************************************************************)
(* Supply limits, while governance leaves the parameters alone.            *)
(***************************************************************************)
\* A supply and the open incoming swaps fit the limits of an asset.
Fits(s, p) ==
    /\ s.current + s.incoming <= p.limit
    /\ p.timeLimited => s.timeLimited + s.incoming <= p.timeBasedLimit

LEMMA FitsEverywhere ==
    SupplyWithinLimit <=> \A d \in DOMAIN supplies : d \in DOMAIN params
                                                     /\ Fits(supplies[d], params[d])
BY DEF SupplyWithinLimit, Fits

\* Replacing one supply by one that fits keeps every supply within its limits.
LEMMA LimitUpdate ==
    ASSUME SupplyWithinLimit, params' = params, NEW d \in DOMAIN supplies, NEW s,
           supplies' = [supplies EXCEPT ![d] = s], Fits(s, params[d])
    PROVE  SupplyWithinLimit'
BY DEF SupplyWithinLimit, Fits

LEMMA LimitCreate ==
    ASSUME TypeOK, SupplyWithinLimit, params' = params, NEW id, NEW timestamp,
           NEW span, NEW recipient, NEW d \in Denom, NEW coin \in Amount,
           \/ CreateIncomingSwap(id, timestamp, span, recipient, d, coin)
           \/ CreateOutgoingSwap(id, timestamp, span, recipient, d, coin)
    PROVE  SupplyWithinLimit'
<1>1. /\ d \in DOMAIN supplies /\ supplies[d] \in AssetSupply /\ coin \in Nat
      /\ Fits(supplies[d], params[d])
  BY InputAssumption, FitsEverywhere
     DEF TypeOK, CreateIncomingSwap, CreateOutgoingSwap, ValidCreate
<1>2. CASE CreateIncomingSwap(id, timestamp, span, recipient, d, coin)
  <2>1. /\ CanIncrementIncomingAssetSupply(supplies[d], params[d], coin)
        /\ supplies' = [supplies EXCEPT ![d] = IncrementIncomingAssetSupply(supplies[d], coin)]
    BY <1>2 DEF CreateIncomingSwap
  <2>2. params[d] \in AssetParam
    BY <1>2 DEF TypeOK, ValidParams, validateAssetParam, CreateIncomingSwap, ValidCreate
  <2>3. Fits(IncrementIncomingAssetSupply(supplies[d], coin), params[d])
    BY <1>1, <2>1, <2>2 DEF Fits, IncrementIncomingAssetSupply, CanIncrementIncomingAssetSupply,
                            AssetSupply, AssetParam
  <2> QED
    BY <1>1, <2>1, <2>3, LimitUpdate
<1>3. CASE CreateOutgoingSwap(id, timestamp, span, recipient, d, coin)
  <2>1. supplies' = [supplies EXCEPT ![d] = IncrementOutgoingAssetSupply(supplies[d], coin)]
    BY <1>3 DEF CreateOutgoingSwap
  <2>2. Fits(IncrementOutgoingAssetSupply(supplies[d], coin), params[d])
    BY <1>1 DEF Fits, IncrementOutgoingAssetSupply, AssetSupply
  <2> QED
    BY <1>1, <2>1, <2>2, LimitUpdate
<1> QED
  BY <1>2, <1>3

LEMMA LimitSettle ==
    ASSUME TypeOK, SupplyWithinLimit, params' = params, NEW id \in DOMAIN swaps,
           \/ \E r : ClaimAtomicSwap(id, r)
           \/ RefundAtomicSwap(id)
    PROVE  SupplyWithinLimit'
<1> DEFINE d == swaps[id].denom
           coin == swaps[id].amount
           minted == IncrementCurrentAssetSupply(
                         DecrementIncomingAssetSupply(supplies[d], coin), params[d], coin)
           burned == DecrementCurrentAssetSupply(
                         DecrementOutgoingAssetSupply(supplies[d], coin), coin)
           dropped == DecrementIncomingAssetSupply(supplies[d], coin)
           returned == DecrementOutgoingAssetSupply(supplies[d], coin)
<1>1. /\ d \in DOMAIN supplies
      /\ \E s \in {minted, burned, dropped, returned} : supplies' = [supplies EXCEPT ![d] = s]
  BY DEF ClaimAtomicSwap, RefundAtomicSwap, ClaimIncomingSwap, ClaimOutgoingSwap,
         RefundIncomingSwap, RefundOutgoingSwap, CanClaimIncoming, CanClaimOutgoing
<1>2. coin \in Nat
  BY InputAssumption DEF TypeOK, Swap
<1>3. /\ d \in DOMAIN params /\ params[d] \in AssetParam
      /\ Fits(supplies[d], params[d]) /\ supplies[d] \in AssetSupply
  BY <1>1, FitsEverywhere DEF TypeOK, ValidParams, validateAssetParam
<1> HIDE DEF d, coin
<1>4. Fits(minted, params[d])
  <2>1. /\ minted.current = supplies[d].current + coin
        /\ minted.incoming = supplies[d].incoming - coin
        /\ params[d].timeLimited => minted.timeLimited = supplies[d].timeLimited + coin
    BY <1>2, <1>3 DEF IncrementCurrentAssetSupply, DecrementIncomingAssetSupply, AssetSupply
  <2>2. /\ supplies[d].current \in Int /\ supplies[d].incoming \in Int
        /\ supplies[d].timeLimited \in Nat
    BY <1>3 DEF AssetSupply
  <2> HIDE DEF minted
  <2> QED
    BY <1>2, <1>3, <2>1, <2>2 DEF Fits
<1>5. Fits(burned, params[d])
  BY <1>2, <1>3 DEF Fits, DecrementCurrentAssetSupply, DecrementOutgoingAssetSupply,
                    AssetSupply, AssetParam
<1>6. Fits(dropped, params[d])
  BY <1>2, <1>3 DEF Fits, DecrementIncomingAssetSupply, AssetSupply, AssetParam
<1>7. Fits(returned, params[d])
  BY <1>2, <1>3 DEF Fits, DecrementOutgoingAssetSupply, AssetSupply, AssetParam
<1>8. PICK s \in {minted, burned, dropped, returned} : supplies' = [supplies EXCEPT ![d] = s]
  BY <1>1
<1>9. Fits(s, params[d])
  BY <1>4, <1>5, <1>6, <1>7, <1>8
<1> QED
  BY <1>1, <1>8, <1>9, LimitUpdate

LEMMA LimitBeginBlock ==
    ASSUME TypeOK, SupplyWithinLimit, NEW interval \in BlockInterval, BeginBlock(interval)
    PROVE  SupplyWithinLimit'
<1>1. params' = params
  BY DEF BeginBlock
<1> SUFFICES ASSUME NEW d \in DOMAIN supplies'
             PROVE  d \in DOMAIN params /\ Fits(supplies'[d], params[d])
  BY <1>1 DEF SupplyWithinLimit, Fits
<1>2. d \in DOMAIN params
  BY NextSuppliesEffect DEF SupplyWithinLimit
<1>3. params[d] \in AssetParam
  BY <1>2 DEF TypeOK, ValidParams, validateAssetParam
<1>4. CASE d \in DOMAIN supplies
  <2>1. /\ supplies'[d].current = supplies[d].current
        /\ supplies'[d].incoming = supplies[d].incoming
        /\ supplies'[d].timeLimited \in {0, supplies[d].timeLimited}
    BY <1>4, NextSuppliesEffect
  <2>2. supplies[d] \in AssetSupply
    BY <1>4 DEF TypeOK
  <2>3. Fits(supplies[d], params[d])
    BY <1>4, FitsEverywhere
  <2> QED
    BY <1>2, <1>3, <2>1, <2>2, <2>3 DEF Fits, AssetSupply, AssetParam
<1>5. CASE d \notin DOMAIN supplies
  <2>1. /\ supplies'[d].current = 0
        /\ supplies'[d].incoming = 0
        /\ supplies'[d].timeLimited = 0
    BY <1>5, NextSuppliesEffect
  <2> QED
    BY <1>2, <1>3, <2>1 DEF Fits, AssetParam
<1> QED
  BY <1>4, <1>5

LEMMA LimitNext ==
    TypeOK /\ SupplyWithinLimit /\ [Next /\ UNCHANGED params]_vars
        => SupplyWithinLimit'
<1> SUFFICES ASSUME TypeOK, SupplyWithinLimit, [Next /\ UNCHANGED params]_vars
             PROVE  SupplyWithinLimit'
  OBVIOUS
<1>0. params' = params
  BY DEF vars
<1>1. CASE Create
  BY <1>0, <1>1, LimitCreate DEF Create
<1>2. CASE Claim
  BY <1>0, <1>2, LimitSettle DEF Claim
<1>3. CASE Refund
  BY <1>0, <1>3, LimitSettle DEF Refund
<1>4. CASE NewBlock
  BY <1>4, LimitBeginBlock DEF NewBlock
<1>5. CASE Govern
  BY <1>0, <1>5 DEF Govern, UpdateParams, SupplyWithinLimit
<1>6. CASE ExportImport
  BY <1>0, <1>6 DEF ExportImport, SupplyWithinLimit
<1>7. CASE UNCHANGED vars
  BY <1>7 DEF vars, SupplyWithinLimit
<1> QED
  BY <1>1, <1>2, <1>3, <1>4, <1>5, <1>6, <1>7 DEF Next

LEMMA LimitInit == Init => SupplyWithinLimit
<1> SUFFICES ASSUME Init, NEW d \in DOMAIN supplies
             PROVE  d \in DOMAIN params /\ Fits(supplies[d], params[d])
  BY DEF SupplyWithinLimit, Fits
<1>1. d \in DOMAIN GenesisParams /\ params = GenesisParams
      /\ supplies[d] = NewAssetSupply(GenesisSupply[d])
  BY DEF Init
<1>2. GenesisParams[d] \in AssetParam /\ d \in Denom /\ GenesisSupply[d] \in Nat
      /\ GenesisSupply[d] <= GenesisParams[d].limit
  BY <1>1, GenesisAssumption DEF ValidParams, validateAssetParam
<1> QED
  BY <1>1, <1>2 DEF Fits, NewAssetSupply, AssetParam

\* With constant parameters neither the supply limit nor the limit of a time
\* window is ever exceeded, the swaps that may still mint included: the check
\* made when an incoming swap is created still holds when it is claimed.
THEOREM LimitsAlwaysKept == FixedSpec => []SupplyWithinLimit
<1>1. FixedSpec => Spec
  <2>1. [Next /\ UNCHANGED params]_vars => [Next]_vars
    OBVIOUS
  <2> QED
    BY <2>1, PTL DEF FixedSpec, Spec
<1> QED
  BY <1>1, LimitInit, LimitNext, TypeCorrect, PTL DEF FixedSpec

(***************************************************************************)
(* The life of a swap.                                                     *)
(***************************************************************************)
\* Closing a swap changes its status and the height it was closed at.
LEMMA LifecycleClose ==
    ASSUME TypeOK, NEW id \in DOMAIN swaps, swaps[id].status # "COMPLETED",
           swaps' = [swaps EXCEPT ![id] = Completed(@)]
    PROVE  \A i \in DOMAIN swaps : LifecycleStep(i)
<1>1. /\ DOMAIN swaps' = DOMAIN swaps
      /\ swaps'[id] = Completed(swaps[id]) /\ swaps[id] \in Swap
      /\ \A i \in DOMAIN swaps : i # id => swaps'[i] = swaps[i]
  BY DEF TypeOK
<1>2. LifecycleStep(id)
  BY <1>1 DEF LifecycleStep, Completed, Swap
<1>3. ASSUME NEW i \in DOMAIN swaps, i # id PROVE LifecycleStep(i)
  BY <1>1, <1>3 DEF LifecycleStep, TypeOK, Swap
<1> QED
  BY <1>2, <1>3

LEMMA LifecycleSame ==
    ASSUME TypeOK, NEW id \in DOMAIN swaps, id \in DOMAIN swaps', swaps'[id] = swaps[id]
    PROVE  LifecycleStep(id)
BY DEF LifecycleStep, TypeOK, Swap

LEMMA LifecycleBeginBlock ==
    ASSUME TypeOK, IndexesConsistent, NEW interval \in BlockInterval, BeginBlock(interval)
    PROVE  \A id \in DOMAIN swaps : LifecycleStep(id)
<1> SUFFICES ASSUME NEW id \in DOMAIN swaps PROVE LifecycleStep(id)
  OBVIOUS
<1>1. height' = height + 1 /\ swaps[id] \in Swap /\ height \in Nat
      /\ LongtermStorageDuration \in Nat
  BY RetentionAssumption DEF BeginBlock, TypeOK
<1>2. CASE id \notin DOMAIN swaps'
  BY <1>1, <1>2, BeginBlockEffect DEF LifecycleStep, Swap
<1>3. CASE id \in DOMAIN swaps' /\ swaps'[id] = swaps[id]
  BY <1>3, LifecycleSame
<1>4. CASE id \in DOMAIN swaps' /\ swaps[id].status = "OPEN"
           /\ swaps'[id] = [swaps[id] EXCEPT !.status = "EXPIRED"]
  BY <1>1, <1>4 DEF LifecycleStep, Swap
<1> QED
  BY <1>2, <1>3, <1>4, BeginBlockEffect

LEMMA LifecycleNext ==
    TypeOK /\ IndexesConsistent /\ [Next]_vars
        => [\A id \in DOMAIN swaps : LifecycleStep(id)]_vars
<1> SUFFICES ASSUME TypeOK, IndexesConsistent, Next
             PROVE  \A id \in DOMAIN swaps : LifecycleStep(id)
  OBVIOUS
<1>1. CASE Create
  <2>1. PICK id \in SwapID, timestamp \in Timestamp, span \in HeightSpan,
                recipient \in Addr, d \in Denom, coin \in Amount, direction \in SwapDirection :
           /\ id \notin DOMAIN swaps
           /\ StoreNewSwap(id, timestamp, span, recipient, d, coin, direction)
    BY <1>1, CreateStores DEF ValidCreate
  <2>2. \A i \in DOMAIN swaps : i \in DOMAIN swaps' /\ swaps'[i] = swaps[i]
    BY <2>1, StoreNewSwapEffect
  <2> QED
    BY <2>2, LifecycleSame
<1>2. CASE Claim
  BY <1>2, LifecycleClose DEF Claim, ClaimAtomicSwap, ClaimIncomingSwap, ClaimOutgoingSwap
<1>3. CASE Refund
  BY <1>3, LifecycleClose DEF Refund, RefundAtomicSwap
<1>4. CASE NewBlock
  BY <1>4, LifecycleBeginBlock DEF NewBlock
<1>5. CASE Govern
  BY <1>5, LifecycleSame DEF Govern, UpdateParams
<1>6. CASE ExportImport
  BY <1>6, LifecycleSame DEF ExportImport
<1> QED
  BY <1>1, <1>2, <1>3, <1>4, <1>5, <1>6 DEF Next

\* Completed swaps are final, expired ones never reopen, and a swap leaves the
\* store only when its retention is over.
THEOREM LifecycleRespected == Spec => SwapLifecycle
BY TypeCorrect, IndexesAlwaysConsistent, LifecycleNext, PTL DEF Spec, SwapLifecycle

=============================================================================
