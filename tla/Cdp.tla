-------------------------------- MODULE Cdp --------------------------------
(***************************************************************************)
(* x/cdp: collateralised debt positions.  A user locks collateral, draws   *)
(* stable coins against it and owes them with interest.  For every stable  *)
(* coin owed there is a debt coin in the cdp account; a position whose     *)
(* collateral is worth too little is seized, its debt coins go to the      *)
(* liquidator account and its collateral to auctions.                      *)
(*                                                                         *)
(* A message that returns an error or panics is rolled back, so it is a    *)
(* disabled action; a panic of the BeginBlocker stops the chain.  A block  *)
(* is NextBlock (with the prices and parameters that the EndBlockers of    *)
(* pricefeed and gov leave behind), then the steps of the BeginBlocker:    *)
(* for each collateral type AccumulateInterest, SynchronizeInterestForRisky*)
(* and one SeizeCollateral per liquidated position, at the end             *)
(* RunSurplusAndDebtAuctions; then any messages.                           *)
(*                                                                         *)
(* The auctions themselves are the environment here: AuctionBid and        *)
(* AuctionClose say what comes back from them.                             *)
(***************************************************************************)
EXTENDS Bank, KVStore, CdpAuctions

CONSTANTS
    User,             \* owners, depositors, keepers and bidders
    CollateralType,   \* e.g. bnb-a
    CollateralDenom,  \* the denomination of each collateral type
    CollateralUnit,   \* decimal: base units in one coin of a collateral type
    DebtUnit,         \* decimal: base units in one stable coin
    Market,           \* price markets
    Price,            \* decimals a market price may take; 0 is no valid price
    CollateralAmount, \* collateral a message may carry
    StableAmount,     \* stable coins a message may carry
    AuctionAmount,    \* amounts a bid or a closing auction may move
    Depositor,        \* the users that deposit into each user's positions
    GenesisBank,      \* balances at genesis
    GenesisParams,    \* parameters at genesis
    ParamSets,        \* parameters governance may choose
    BlockInterval,    \* seconds that may pass between two blocks
    MaxHeight,        \* bound: height of the last block
    MaxCdps           \* bound: positions created in a behaviour

VARIABLES
    now,        \* block time, in seconds
    height,     \* block height
    phase,      \* where in a block the chain is, or "halted"
    todo,       \* collateral types the BeginBlocker has still to visit
    current,    \* the collateral type it is visiting, as a set
    queue,      \* ids of the positions LiquidateCdps has still to seize
    params,     \* the cdp parameters
    prices,     \* current price of each market
    markets,    \* PricefeedStatusKeyPrefix: the markets known to be up
    cdps,       \* CdpKeyPrefix store, by id
    byOwner,    \* CdpIDKeyPrefix index: <<owner, id>>
    byRatio,    \* CollateralRatioIndexPrefix index: <<type, ratio, id>>
    deposits,   \* DepositKeyPrefix store: <<id, depositor>> to amount
    nextID,     \* CdpIDKey
    principals, \* PrincipalKeyPrefix: principal of each collateral type
    factors,    \* InterestFactorPrefix store, by collateral type
    accruals,   \* PreviousAccrualTimePrefix store, by collateral type
    bank,       \* x/bank balances
    supply      \* x/bank total supply of stable and debt coins

clock == <<now, height, params, prices>>
work == <<todo, current, queue>>
interest == <<factors, accruals>>
store == <<cdps, byOwner, byRatio, deposits>>
vars == <<clock, phase, work, interest, markets, store, nextID, principals, bank, supply>>

CdpMacc == "cdp"
LiquidatorMacc == "liquidator"
AuctionMacc == "auction"
Account == User \cup {CdpMacc, LiquidatorMacc, AuctionMacc}
Stable == "usdx"
DebtDenom == "debt"
Denom == {CollateralDenom[t] : t \in CollateralType} \cup {Stable, DebtDenom}

MinOf(a, b) == IF a <= b THEN a ELSE b
MaxOf(a, b) == IF a >= b THEN a ELSE b

(***************************************************************************)
(* Parameters.                                                             *)
(***************************************************************************)
CollateralParam ==
    [DebtLimit : Nat, LiquidationRatio : Nat \ {0}, LiquidationPenalty : 0 .. OneDec,
     AuctionSize : Nat \ {0}, StabilityFee : Nat, KeeperRewardPercentage : 0 .. OneDec,
     CheckCollateralizationIndexCount : Nat, SpotMarketID : Market, LiquidationMarketID : Market]

\* The validators of the single parameters.
KeyValid(p) ==
    /\ DOMAIN p = {"CollateralParams", "DebtFloor", "GlobalDebtLimit", "SurplusAuctionThreshold",
                   "SurplusAuctionLot", "DebtAuctionThreshold", "DebtAuctionLot",
                   "LiquidationBlockInterval"}
    /\ DOMAIN p.CollateralParams \subseteq CollateralType
    /\ \A t \in DOMAIN p.CollateralParams :
        /\ p.CollateralParams[t] \in CollateralParam
        /\ p.CollateralParams[t].StabilityFee >= OneDec
    /\ p.DebtFloor \in Nat /\ p.GlobalDebtLimit \in Nat
    /\ p.SurplusAuctionThreshold \in Nat \ {0} /\ p.SurplusAuctionLot \in Nat \ {0}
    /\ p.DebtAuctionThreshold \in Nat \ {0} /\ p.DebtAuctionLot \in Nat \ {0}
    /\ p.LiquidationBlockInterval \in Nat \ {0}

\* Params.Validate also adds the debt limits up.
ParamsValid(p) ==
    /\ KeyValid(p)
    /\ MapThenSumSet(LAMBDA t : p.CollateralParams[t].DebtLimit, DOMAIN p.CollateralParams)
           <= p.GlobalDebtLimit

ASSUME AccountAssumption ==
    /\ User \cap {CdpMacc, LiquidatorMacc, AuctionMacc} = {}
    /\ CollateralDenom \in [CollateralType -> Denom \ {Stable, DebtDenom}]
    /\ GenesisBank \in [Account -> [Denom -> Nat]]
    /\ \A a \in Account, d \in Denom :
        a \notin User \/ d \in {Stable, DebtDenom} => GenesisBank[a][d] = 0
    /\ Depositor \in [User -> SUBSET User]

ASSUME InputAssumption ==
    /\ CollateralUnit \in [CollateralType -> Nat \ {0}] /\ DebtUnit \in Nat \ {0}
    /\ Price \subseteq Nat /\ CollateralAmount \cup StableAmount \cup AuctionAmount \subseteq Nat \ {0}
    /\ BlockInterval \subseteq Nat
    /\ ParamsValid(GenesisParams)
    /\ \A p \in ParamSets : KeyValid(p)
    /\ MaxHeight \in Nat /\ MaxCdps \in Nat

Listed(t) == t \in DOMAIN params.CollateralParams
Cp(t) == params.CollateralParams[t]

(***************************************************************************)
(* Positions.  principal is what was drawn, fees the interest owed on it   *)
(* up to feesUpdated, when the global interest factor was factor.          *)
(***************************************************************************)
CdpType ==
    [owner : User, type : CollateralType, collateral : Nat, principal : Nat, fees : Nat,
     feesUpdated : Nat, factor : Nat]

TotalPrincipal(c) == c.principal + c.fees

convertCollateralToBaseUnits(t, amount) == Mul(NewDec(amount), CollateralUnit[t])
convertDebtToBaseUnits(amount) == Mul(NewDec(amount), DebtUnit)

\* The largest ratio the index can order.
MaxSortableDec == Precision * Precision

CollateralToDebtRatio(c) ==
    LET debt == convertDebtToBaseUnits(TotalPrincipal(c))
    IN  IF debt = 0 \/ debt >= MaxSortableDec THEN MaxSortableDec - 1
        ELSE Quo(convertCollateralToBaseUnits(c.type, c.collateral), debt)

\* The key under which a position is indexed.
RatioEntry(id, c) == <<c.type, MinOf(CollateralToDebtRatio(c), MaxSortableDec), id>>

\* The value of the collateral of a position per unit of its debt.
CollateralizationRatio(c, price) ==
    IF c.collateral = 0 THEN 0
    ELSE Quo(Mul(convertCollateralToBaseUnits(c.type, c.collateral), price),
             convertDebtToBaseUnits(c.principal) + convertDebtToBaseUnits(c.fees))

\* GetCdpByOwnerAndCollateralType, which goes through the index by owner and
\* finds nothing for a collateral type that is not listed.
CdpIDs(owner, t) ==
    {id \in DOMAIN cdps : <<owner, id>> \in byOwner /\ cdps[id].type = t /\ Listed(t)}

Depositors(id, dep) == {d \in User : <<id, d>> \in DOMAIN dep}
DepositsOf(id, dep) == [d \in Depositors(id, dep) |-> dep[<<id, d>>]]
SumCollateral(id, dep) == MapThenSumSet(LAMBDA d : dep[<<id, d>>], Depositors(id, dep))

(***************************************************************************)
(* Interest.                                                               *)
(***************************************************************************)

\* Interest on a position since it was last synchronised.
CalculateNewInterest(c) ==
    LET f == Quo(factors[c.type], c.factor)
    IN  IF f = OneDec THEN 0
        ELSE RoundInt(Mul(NewDec(TotalPrincipal(c)), f)) - TotalPrincipal(c)

\* Variant: the factor of the position is not brought up to date.
SynchronizedFeesOnly(c) ==
    [c EXCEPT !.fees = @ + CalculateNewInterest(c), !.feesUpdated = accruals[c.type]]
\* The position that SynchronizeInterest stores and returns.  When no interest
\* has come up since the last accrual it is left as it is.
Synchronized(c) ==
    IF \/ c.type \notin DOMAIN accruals
       \/ CalculateNewInterest(c) = 0 /\ c.feesUpdated = accruals[c.type]
    THEN c
    ELSE [c EXCEPT !.fees = @ + CalculateNewInterest(c),
                   !.feesUpdated = accruals[c.type],
                   !.factor = factors[c.type]]

\* The rate per second to the power of the seconds, rounded half up after every
\* multiplication.
CalculateInterestFactor(rate, seconds) ==
    LET pow[n \in 0 .. seconds] ==
            IF n = 0 THEN OneDec ELSE (pow[n - 1] * rate + Precision \div 2) \div Precision
    IN  pow[seconds]

(***************************************************************************)
(* The stores.  UpdateCdpAndCollateralRatioIndex removes the entry of the  *)
(* position as it is stored and adds that of the new one.                  *)
(***************************************************************************)

UpdateCdpAndCollateralRatioIndex(id, c) ==
    /\ cdps' = Put(cdps, id, c)
    /\ byRatio' = (byRatio \ {RatioEntry(id, cdps[id])}) \cup {RatioEntry(id, c)}

DeleteCdp(id) ==
    /\ cdps' = Drop(cdps, {id})
    /\ byRatio' = byRatio \ {RatioEntry(id, cdps[id])}
    /\ byOwner' = byOwner \ {<<cdps[id].owner, id>>}

DeleteDeposits(id, dep) == Drop(dep, {<<id, d>> : d \in Depositors(id, dep)})

(***************************************************************************)
(* Messages.                                                               *)
(***************************************************************************)

\* ValidateCollateral: the type is listed and its two markets are up.
ValidateCollateral(t) ==
    /\ Listed(t)
    /\ Cp(t).SpotMarketID \in markets
    /\ Cp(t).LiquidationMarketID \in markets

\* ValidateDebtLimit: the same total is compared with both limits.
ValidateDebtLimit(t, amount) ==
    /\ principals[t] + amount <= Cp(t).DebtLimit
    /\ principals[t] + amount <= params.GlobalDebtLimit

\* ValidateCollateralizationRatio, at the spot price.
ValidateCollateralizationRatio(c) ==
    LET price == prices[Cp(c.type).SpotMarketID]
    IN  price # 0 /\ CollateralizationRatio(c, price) >= Cp(c.type).LiquidationRatio

\* Stable coins to the owner, the same number of debt coins to the cdp account.
MintPrincipal(b, owner, amount) ==
    Credit(Credit(b, owner, Stable, amount), CdpMacc, DebtDenom, amount)
MintSupply(amount) == [d \in {Stable, DebtDenom} |-> supply[d] + amount]

AddCdp(owner, t, collateral, principal) ==
    /\ phase = "deliver"
    /\ nextID <= MaxCdps
    /\ ValidateCollateral(t)
    /\ CanPay(bank, owner, CollateralDenom[t], collateral)
    /\ CdpIDs(owner, t) = {}
    /\ principal >= params.DebtFloor
    /\ ValidateDebtLimit(t, principal)
    /\ LET f == IF t \in DOMAIN factors THEN factors[t] ELSE OneDec
           c == [owner |-> owner, type |-> t, collateral |-> collateral, principal |-> principal,
                 fees |-> 0, feesUpdated |-> now, factor |-> f]
       IN  /\ ValidateCollateralizationRatio(c)
           /\ factors' = Put(factors, t, f)
           /\ cdps' = Put(cdps, nextID, c)
           /\ byRatio' = byRatio \cup {RatioEntry(nextID, c)}
    /\ byOwner' = byOwner \cup {<<owner, nextID>>}
    /\ deposits' = Put(deposits, <<nextID, owner>>, collateral)
    /\ nextID' = nextID + 1
    /\ principals' = [principals EXCEPT ![t] = @ + principal]
    /\ bank' = MintPrincipal(Send(bank, owner, CdpMacc, CollateralDenom[t], collateral),
                             owner, principal)
    /\ supply' = MintSupply(principal)
    /\ UNCHANGED <<clock, phase, work, accruals, markets>>

\* The depositor may be anyone.
DepositCollateral(owner, depositor, t, amount) ==
    /\ phase = "deliver"
    /\ ValidateCollateral(t)
    /\ CanPay(bank, depositor, CollateralDenom[t], amount)
    /\ \E id \in CdpIDs(owner, t) :
        LET key == <<id, depositor>>
            old == IF key \in DOMAIN deposits THEN deposits[key] ELSE 0
        IN  /\ deposits' = Put(deposits, key, old + amount)
            /\ UpdateCdpAndCollateralRatioIndex(id,
                   [Synchronized(cdps[id]) EXCEPT !.collateral = @ + amount])
    /\ bank' = Send(bank, depositor, CdpMacc, CollateralDenom[t], amount)
    /\ UNCHANGED <<clock, phase, work, interest, markets, byOwner, nextID, principals, supply>>

\* Variant: the ratio is tested before the interest is brought up to date.
WithdrawUnsynchronized(owner, depositor, t, amount) ==
    /\ phase = "deliver"
    /\ ValidateCollateral(t)
    /\ \E id \in CdpIDs(owner, t) :
        LET key == <<id, depositor>>
            c   == [Synchronized(cdps[id]) EXCEPT !.collateral = @ - amount]
        IN  /\ key \in DOMAIN deposits /\ amount <= deposits[key]
            /\ ValidateCollateralizationRatio([cdps[id] EXCEPT !.collateral = @ - amount])
            /\ UpdateCdpAndCollateralRatioIndex(id, c)
            /\ deposits' = IF amount = deposits[key] THEN Drop(deposits, {key})
                           ELSE [deposits EXCEPT ![key] = @ - amount]
    /\ bank' = Send(bank, CdpMacc, depositor, CollateralDenom[t], amount)
    /\ UNCHANGED <<clock, phase, work, interest, markets, byOwner, nextID, principals, supply>>
\* Variant: an empty deposit is kept.
WithdrawKeepingEmpty(owner, depositor, t, amount) ==
    /\ phase = "deliver"
    /\ ValidateCollateral(t)
    /\ \E id \in CdpIDs(owner, t) :
        LET key == <<id, depositor>>
            c   == [Synchronized(cdps[id]) EXCEPT !.collateral = @ - amount]
        IN  /\ key \in DOMAIN deposits /\ amount <= deposits[key]
            /\ ValidateCollateralizationRatio(c)
            /\ UpdateCdpAndCollateralRatioIndex(id, c)
            /\ deposits' = [deposits EXCEPT ![key] = @ - amount]
    /\ bank' = Send(bank, CdpMacc, depositor, CollateralDenom[t], amount)
    /\ UNCHANGED <<clock, phase, work, interest, markets, byOwner, nextID, principals, supply>>
\* A depositor takes back at most what they deposited, and only what leaves the
\* position safe at the spot price.
WithdrawCollateral(owner, depositor, t, amount) ==
    /\ phase = "deliver"
    /\ ValidateCollateral(t)
    /\ \E id \in CdpIDs(owner, t) :
        LET key == <<id, depositor>>
            c   == [Synchronized(cdps[id]) EXCEPT !.collateral = @ - amount]
        IN  /\ key \in DOMAIN deposits /\ amount <= deposits[key]
            /\ ValidateCollateralizationRatio(c)
            /\ UpdateCdpAndCollateralRatioIndex(id, c)
            /\ deposits' = IF amount = deposits[key] THEN Drop(deposits, {key})
                           ELSE [deposits EXCEPT ![key] = @ - amount]
    /\ bank' = Send(bank, CdpMacc, depositor, CollateralDenom[t], amount)
    /\ UNCHANGED <<clock, phase, work, interest, markets, byOwner, nextID, principals, supply>>

\* The debt limit is tested; whether the markets are up is not.
AddPrincipal(owner, t, amount) ==
    /\ phase = "deliver"
    /\ \E id \in CdpIDs(owner, t) :
        LET c == [Synchronized(cdps[id]) EXCEPT !.principal = @ + amount]
        IN  /\ ValidateDebtLimit(t, amount)
            /\ ValidateCollateralizationRatio(c)
            /\ UpdateCdpAndCollateralRatioIndex(id, c)
    /\ principals' = [principals EXCEPT ![t] = @ + amount]
    /\ bank' = MintPrincipal(bank, owner, amount)
    /\ supply' = MintSupply(amount)
    /\ UNCHANGED <<clock, phase, work, interest, markets, byOwner, deposits, nextID>>

\* Variant: any part of the principal may stay.
FloorIgnored(left) == TRUE
\* validatePrincipalPayment: all of the principal, or no less than the floor stays.
FloorKept(left) == left = 0 \/ left >= params.DebtFloor

\* Variant: rounding may leave the principal negative.
DecrementUnbounded(total, amount) == total - amount
DecrementTotalPrincipal(total, amount) == MaxOf(total - amount, 0)

ReturnCollateral(b, id, denom) ==
    [a \in Account |->
        IF a \in Depositors(id, deposits) THEN [b[a] EXCEPT ![denom] = @ + deposits[<<id, a>>]]
        ELSE IF a = CdpMacc THEN [b[a] EXCEPT ![denom] = @ - SumCollateral(id, deposits)]
        ELSE b[a]]

\* calculatePayment: fees are paid first.
FeePayment(fees, pay) == MinOf(fees, pay)

\* The stable coins are burned, and debt coins as long as there are any.
RepayPrincipal(owner, t, payment) ==
    /\ phase = "deliver"
    /\ CanPay(bank, owner, Stable, payment)
    /\ \E id \in CdpIDs(owner, t) :
        LET c    == Synchronized(cdps[id])
            pay  == MinOf(payment, TotalPrincipal(c))
            fee  == FeePayment(c.fees, pay)
            new  == [c EXCEPT !.principal = @ - (pay - fee), !.fees = @ - fee]
            burn == MinOf(pay, bank[CdpMacc][DebtDenom])
            b    == Debit(Debit(bank, owner, Stable, pay), CdpMacc, DebtDenom, burn)
        IN  /\ FloorKept(new.principal)
            /\ supply' = [supply EXCEPT ![Stable] = @ - pay, ![DebtDenom] = @ - burn]
            /\ principals' = [principals EXCEPT ![t] = DecrementTotalPrincipal(@, pay)]
            /\ IF TotalPrincipal(new) = 0
               THEN /\ CanPay(b, CdpMacc, CollateralDenom[t], SumCollateral(id, deposits))
                    /\ bank' = ReturnCollateral(b, id, CollateralDenom[t])
                    /\ deposits' = DeleteDeposits(id, deposits)
                    /\ DeleteCdp(id)
               ELSE /\ UpdateCdpAndCollateralRatioIndex(id, new)
                    /\ bank' = b
                    /\ UNCHANGED <<byOwner, deposits>>
    /\ UNCHANGED <<clock, phase, work, interest, markets, nextID>>

(***************************************************************************)
(* SeizeCollateral of position id as c, with deposits dep and balances b.  *)
(* Its debt coins, as far as the cdp account has them, and its collateral  *)
(* go to the liquidator account, and from there into auctions.             *)
(***************************************************************************)
SeizedDebt(c, b) == MinOf(TotalPrincipal(c), b[CdpMacc][DebtDenom])

AuctionedDebt(id, c, dep, b) ==
    DebtAuctioned(DepositsOf(id, dep), SeizedDebt(c, b),
                  Cp(c.type).AuctionSize, Cp(c.type).LiquidationPenalty)

DebtToLiquidator(c, b) == Send(b, CdpMacc, LiquidatorMacc, DebtDenom, SeizedDebt(c, b))

\* Shares are divided by the deposits, and every auction must be paid for.
CanSeize(id, c, dep, b) ==
    /\ \A d \in Depositors(id, dep) : dep[<<id, d>>] > 0
    /\ CanPay(b, CdpMacc, CollateralDenom[c.type], SumCollateral(id, dep))
    /\ CanPay(DebtToLiquidator(c, b), LiquidatorMacc, DebtDenom, AuctionedDebt(id, c, dep, b))

SeizeCollateral(id, c, dep, b) ==
    /\ DeleteCdp(id)
    /\ deposits' = DeleteDeposits(id, dep)
    /\ principals' = [principals EXCEPT ![c.type] = DecrementTotalPrincipal(@, TotalPrincipal(c))]
    /\ bank' = Send(Send(DebtToLiquidator(c, b), CdpMacc, AuctionMacc, CollateralDenom[c.type],
                         SumCollateral(id, dep)),
                    LiquidatorMacc, AuctionMacc, DebtDenom, AuctionedDebt(id, c, dep, b))

\* A keeper has a position liquidated that is unsafe at the liquidation price.
\* The first deposit that is large enough pays the reward; deposits are in the
\* order of addresses, so it may be any of those.
AttemptKeeperLiquidation(keeper, owner, t) ==
    /\ phase = "deliver"
    /\ \E id \in CdpIDs(owner, t) :
        LET c      == Synchronized(cdps[id])
            price  == prices[Cp(t).LiquidationMarketID]
            reward == RoundInt(Mul(NewDec(c.collateral), Cp(t).KeeperRewardPercentage))
            payers == {d \in Depositors(id, deposits) : deposits[<<id, d>>] >= reward}
            Seize(s, dep, b) == CanSeize(id, s, dep, b) /\ SeizeCollateral(id, s, dep, b)
        IN  /\ price # 0
            /\ CollateralizationRatio(c, price) < Cp(t).LiquidationRatio
            /\ \/ payers = {} /\ Seize(c, deposits, bank)
               \/ \E d \in payers :
                    Seize([c EXCEPT !.collateral = @ - reward],
                          [deposits EXCEPT ![<<id, d>>] = @ - reward],
                          Send(bank, CdpMacc, keeper, CollateralDenom[t], reward))
    /\ UNCHANGED <<clock, phase, work, interest, markets, nextID, supply>>

(***************************************************************************)
(* The BeginBlocker.                                                       *)
(***************************************************************************)

\* A new block, after the EndBlockers have set prices and perhaps parameters.
NextBlock(seconds, newPrices, newParams) ==
    /\ phase = "deliver" /\ height < MaxHeight
    /\ phase' = "begin"
    /\ now' = now + seconds /\ height' = height + 1
    /\ prices' = newPrices /\ params' = newParams
    /\ todo' = DOMAIN newParams.CollateralParams
    /\ UNCHANGED <<current, queue, interest, markets, store, nextID, principals, bank, supply>>

\* UpdatePricefeedStatus of the spot market and, only if that is up, of the
\* liquidation market.
UpdatedMarkets(t) ==
    LET spot == Cp(t).SpotMarketID
        liq  == Cp(t).LiquidationMarketID
    IN  IF prices[spot] = 0 THEN markets \ {spot}
        ELSE IF prices[liq] = 0 THEN (markets \cup {spot}) \ {liq}
        ELSE markets \cup {spot, liq}

PricesUp(t) == prices[Cp(t).SpotMarketID] # 0 /\ prices[Cp(t).LiquidationMarketID] # 0

Visiting(t) == phase = "begin" /\ current = {} /\ t \in todo

\* A type without prices is skipped: no interest, no liquidations.
SkipCollateral(t) ==
    /\ Visiting(t)
    /\ ~PricesUp(t)
    /\ markets' = UpdatedMarkets(t)
    /\ todo' = todo \ {t}
    /\ UNCHANGED <<clock, phase, current, queue, interest, store, nextID, principals, bank, supply>>

\* Interest on the principal of a type since its last accrual; 0 also when there
\* is nothing to accrue.
InterestAccumulated(t) ==
    IF \/ t \notin DOMAIN accruals \/ now = accruals[t] \/ principals[t] = 0
       \/ t \notin DOMAIN factors \/ Cp(t).StabilityFee = OneDec
    THEN 0
    ELSE RoundInt(Mul(CalculateInterestFactor(Cp(t).StabilityFee, now - accruals[t]),
                      NewDec(principals[t]))) - principals[t]

\* The accrual time moves on, except when the interest rounds to zero.
AccrualMoves(t) ==
    \/ t \notin DOMAIN accruals
    \/ /\ now # accruals[t]
       /\ \/ principals[t] = 0
          \/ t \notin DOMAIN factors
          \/ Cp(t).StabilityFee = OneDec
          \/ InterestAccumulated(t) # 0

NewFactors(t) ==
    IF InterestAccumulated(t) # 0
    THEN Put(factors, t, Mul(factors[t],
                 CalculateInterestFactor(Cp(t).StabilityFee, now - accruals[t])))
    ELSE IF t \in DOMAIN accruals /\ now # accruals[t] /\ principals[t] # 0 /\ t \notin DOMAIN factors
    THEN Put(factors, t, OneDec)
    ELSE factors

\* Variant: interest is not added to the principal.
PrincipalPrior(t) == principals[t]
PrincipalNew(t) == principals[t] + InterestAccumulated(t)

\* Variant: the interest is not minted as debt coins.
AccumulateSurplusOnly(t) ==
    /\ Visiting(t)
    /\ PricesUp(t)
    /\ markets' = UpdatedMarkets(t)
    /\ principals' = [principals EXCEPT ![t] = PrincipalNew(t)]
    /\ factors' = NewFactors(t)
    /\ accruals' = IF AccrualMoves(t) THEN Put(accruals, t, now) ELSE accruals
    /\ bank' = Credit(bank, LiquidatorMacc, Stable, InterestAccumulated(t))
    /\ supply' = [supply EXCEPT ![Stable] = @ + InterestAccumulated(t)]
    /\ todo' = todo \ {t}
    /\ current' = IF height % params.LiquidationBlockInterval = 0 THEN {t} ELSE {}
    /\ phase' = IF height % params.LiquidationBlockInterval = 0 THEN "sync" ELSE "begin"
    /\ UNCHANGED <<clock, queue, store, nextID>>
\* Interest is minted twice: as debt coins of the cdp account and as surplus of
\* the liquidator account.  Liquidations follow every LiquidationBlockInterval.
AccumulateInterest(t) ==
    /\ Visiting(t)
    /\ PricesUp(t)
    /\ markets' = UpdatedMarkets(t)
    /\ principals' = [principals EXCEPT ![t] = PrincipalNew(t)]
    /\ factors' = NewFactors(t)
    /\ accruals' = IF AccrualMoves(t) THEN Put(accruals, t, now) ELSE accruals
    /\ bank' = Credit(Credit(bank, CdpMacc, DebtDenom, InterestAccumulated(t)),
                      LiquidatorMacc, Stable, InterestAccumulated(t))
    /\ supply' = MintSupply(InterestAccumulated(t))
    /\ todo' = todo \ {t}
    /\ current' = IF height % params.LiquidationBlockInterval = 0 THEN {t} ELSE {}
    /\ phase' = IF height % params.LiquidationBlockInterval = 0 THEN "sync" ELSE "begin"
    /\ UNCHANGED <<clock, queue, store, nextID>>

\* The first entries of the index by ratio, at least one.
Precedes(e, f) == e[2] < f[2] \/ (e[2] = f[2] /\ e[3] < f[3])
First(entries, count) ==
    {e \in entries : Cardinality({f \in entries : Precedes(f, e)}) < MaxOf(count, 1)}

RiskyIDs(t) ==
    {e[3] : e \in First({f \in byRatio : f[1] = t /\ f[2] < MaxSortableDec},
                        Cp(t).CheckCollateralizationIndexCount)}

\* LiquidateCdps: the positions whose ratio is below the liquidation ratio at
\* the liquidation price, the riskiest first.
NormalizedRatio(t) ==
    LET q == Quo(prices[Cp(t).LiquidationMarketID], Cp(t).LiquidationRatio)
    IN  Quo(OneDec, MaxOf(q, 1))
ToLiquidate(t, index) ==
    {e[3] : e \in First({f \in index : f[1] = t /\ f[2] < MinOf(NormalizedRatio(t), MaxSortableDec)},
                        Cp(t).CheckCollateralizationIndexCount)}

\* Variant: the index keeps the ratios before interest.
SynchronizeWithoutIndex ==
    /\ phase = "sync"
    /\ \E t \in current :
        LET risky == RiskyIDs(t)
        IN  /\ cdps' = [id \in DOMAIN cdps |->
                            IF id \in risky THEN Synchronized(cdps[id]) ELSE cdps[id]]
            /\ UNCHANGED byRatio
            /\ queue' = ToLiquidate(t, byRatio')
    /\ phase' = "seize"
    /\ UNCHANGED <<clock, todo, current, interest, markets, byOwner, deposits, nextID,
                   principals, bank, supply>>
\* SynchronizeInterestForRiskyCDPs brings the riskiest positions up to date;
\* then LiquidateCdps collects the ones to seize.  An entry of the index without
\* a position is a panic.
SynchronizeInterestForRiskyCDPs ==
    /\ phase = "sync"
    /\ \E t \in current :
        LET risky == RiskyIDs(t)
        IN  IF risky \subseteq DOMAIN cdps
            THEN /\ cdps' = [id \in DOMAIN cdps |->
                                IF id \in risky THEN Synchronized(cdps[id]) ELSE cdps[id]]
                 /\ byRatio' = (byRatio \ {RatioEntry(id, cdps[id]) : id \in risky})
                               \cup {RatioEntry(id, cdps'[id]) : id \in risky}
                 /\ queue' = ToLiquidate(t, byRatio')
                 /\ phase' = IF queue' \subseteq DOMAIN cdps THEN "seize" ELSE "halted"
            ELSE phase' = "halted" /\ UNCHANGED <<cdps, byRatio, queue>>
    /\ UNCHANGED <<clock, todo, current, interest, markets, byOwner, deposits, nextID,
                   principals, bank, supply>>

\* One position of LiquidateCdps.  An error stops the chain.
LiquidateNext ==
    /\ phase = "seize" /\ queue # {}
    /\ \E id \in queue :
        /\ \A other \in queue \ {id} : Precedes(RatioEntry(id, cdps[id]), RatioEntry(other, cdps[other]))
        /\ queue' = queue \ {id}
        /\ IF CanSeize(id, cdps[id], deposits, bank)
           THEN SeizeCollateral(id, cdps[id], deposits, bank) /\ UNCHANGED phase
           ELSE phase' = "halted" /\ UNCHANGED <<store, principals, bank>>
    /\ UNCHANGED <<clock, todo, current, interest, markets, nextID, supply>>

LiquidateDone ==
    /\ phase = "seize" /\ queue = {}
    /\ phase' = "begin" /\ current' = {}
    /\ UNCHANGED <<clock, todo, queue, interest, markets, store, nextID, principals, bank, supply>>

\* NetSurplusAndDebt: surplus and debt of the liquidator cancel each other.
NetAmount == MinOf(bank[LiquidatorMacc][Stable], bank[LiquidatorMacc][DebtDenom])

BurnNet(b, n) == Debit(Debit(b, LiquidatorMacc, DebtDenom, n), LiquidatorMacc, Stable, n)

\* RunSurplusAndDebtAuctions.  The debt auction takes a fixed lot of debt coins
\* once the threshold is reached; too few of them stop the chain.
RunSurplusAndDebtAuctions ==
    /\ phase = "begin" /\ todo = {} /\ current = {}
    /\ LET b1      == BurnNet(bank, NetAmount)
           debtLot == IF b1[LiquidatorMacc][DebtDenom] >= params.DebtAuctionThreshold
                      THEN params.DebtAuctionLot ELSE 0
           b2      == Send(b1, LiquidatorMacc, AuctionMacc, DebtDenom, debtLot)
           surplus == b2[LiquidatorMacc][Stable]
           lot     == IF surplus >= params.SurplusAuctionThreshold
                      THEN MinOf(params.SurplusAuctionLot, surplus) ELSE 0
       IN  IF CanPay(b1, LiquidatorMacc, DebtDenom, debtLot)
           THEN /\ bank' = Send(b2, LiquidatorMacc, AuctionMacc, Stable, lot)
                /\ supply' = [d \in {Stable, DebtDenom} |-> supply[d] - NetAmount]
                /\ phase' = "deliver"
           ELSE phase' = "halted" /\ UNCHANGED <<bank, supply>>
    /\ UNCHANGED <<clock, work, interest, markets, store, nextID, principals>>

(***************************************************************************)
(* What the auctions do to the accounts of this module: a bid brings       *)
(* stable coins to the liquidator and returns debt coins to it, at most as  *)
(* many; a closing auction returns the debt that was not covered and hands *)
(* its lot to the winner, or back to a depositor.                          *)
(***************************************************************************)
AuctionBid(bidder, amount) ==
    /\ phase = "deliver"
    /\ CanPay(bank, bidder, Stable, amount)
    /\ \E d \in Denom : bank[AuctionMacc][d] > 0
    /\ \E covered \in 0 .. MinOf(amount, bank[AuctionMacc][DebtDenom]) :
        bank' = Send(Send(bank, bidder, LiquidatorMacc, Stable, amount),
                     AuctionMacc, LiquidatorMacc, DebtDenom, covered)
    /\ UNCHANGED <<clock, phase, work, interest, markets, store, nextID, principals, supply>>

AuctionClose(winner, denom, amount) ==
    /\ phase = "deliver"
    /\ amount <= bank[AuctionMacc][denom]
    /\ bank' = Send(bank, AuctionMacc, IF denom = DebtDenom THEN LiquidatorMacc ELSE winner,
                    denom, amount)
    /\ UNCHANGED <<clock, phase, work, interest, markets, store, nextID, principals, supply>>

(***************************************************************************)
(* ExportGenesis synchronises every position and needs an accrual time for *)
(* every listed type; InitGenesis rejects positions of types that are not  *)
(* listed and computes both indexes again.                                 *)
(***************************************************************************)
CanRestart ==
    /\ ParamsValid(params)
    /\ DOMAIN params.CollateralParams \subseteq DOMAIN accruals
    /\ \A id \in DOMAIN cdps : Listed(cdps[id].type)

\* InitGenesis looks at every market of a listed type.
GenesisMarkets ==
    {m \in Market : prices[m] # 0 /\ \E t \in DOMAIN params.CollateralParams :
        m \in {Cp(t).SpotMarketID, Cp(t).LiquidationMarketID}}

ExportImport ==
    /\ phase = "deliver" /\ CanRestart
    /\ LET synced == [id \in DOMAIN cdps |-> Synchronized(cdps[id])]
       IN  /\ cdps' = synced
           /\ byRatio' = {RatioEntry(id, synced[id]) : id \in DOMAIN synced}
           /\ byOwner' = {<<synced[id].owner, id>> : id \in DOMAIN synced}
    /\ factors' = [t \in DOMAIN params.CollateralParams |->
                      IF t \in DOMAIN factors THEN factors[t] ELSE OneDec]
    /\ accruals' = [t \in DOMAIN params.CollateralParams |-> accruals[t]]
    /\ principals' = [t \in CollateralType |-> IF Listed(t) THEN principals[t] ELSE 0]
    /\ markets' = GenesisMarkets
    /\ UNCHANGED <<clock, phase, work, deposits, nextID, bank, supply>>

Init ==
    /\ now = 1 /\ height = 1
    /\ phase = "begin"
    /\ params = GenesisParams
    /\ todo = DOMAIN GenesisParams.CollateralParams /\ current = {} /\ queue = {}
    /\ prices \in [Market -> Price]
    /\ markets = GenesisMarkets
    /\ cdps = << >> /\ byOwner = {} /\ byRatio = {} /\ deposits = << >>
    /\ nextID = 1
    /\ principals = [t \in CollateralType |-> 0]
    /\ factors = << >> /\ accruals = << >>
    /\ bank = GenesisBank
    /\ supply = [d \in {Stable, DebtDenom} |-> 0]

BeginBlocker ==
    \/ \E t \in CollateralType : SkipCollateral(t) \/ AccumulateInterest(t)
    \/ SynchronizeInterestForRiskyCDPs
    \/ LiquidateNext
    \/ LiquidateDone
    \/ RunSurplusAndDebtAuctions

Message ==
    \E owner \in User, t \in CollateralType :
        \/ \E c \in CollateralAmount, p \in StableAmount : AddCdp(owner, t, c, p)
        \/ \E d \in Depositor[owner], n \in CollateralAmount : DepositCollateral(owner, d, t, n)
        \/ \E d \in Depositor[owner], n \in CollateralAmount : WithdrawCollateral(owner, d, t, n)
        \/ \E n \in StableAmount : AddPrincipal(owner, t, n)
        \/ \E n \in StableAmount : RepayPrincipal(owner, t, n)
        \/ \E keeper \in User : AttemptKeeperLiquidation(keeper, owner, t)

Environment ==
    \/ \E s \in BlockInterval, pr \in [Market -> Price], ps \in ParamSets \cup {params} :
        NextBlock(s, pr, ps)
    \/ \E u \in User, n \in AuctionAmount : AuctionBid(u, n)
    \/ \E u \in User, d \in Denom, n \in AuctionAmount : AuctionClose(u, d, n)

Next == BeginBlocker \/ Message \/ Environment \/ ExportImport

Spec == Init /\ [][Next]_vars

(***************************************************************************)
(* Properties.                                                             *)
(***************************************************************************)
TypeOK ==
    /\ now \in Nat /\ height \in Nat
    /\ phase \in {"begin", "sync", "seize", "deliver", "halted"}
    /\ todo \subseteq CollateralType /\ current \subseteq CollateralType
    /\ queue \subseteq DOMAIN cdps
    /\ KeyValid(params)
    /\ prices \in [Market -> Price] /\ markets \subseteq Market
    /\ cdps \in [DOMAIN cdps -> CdpType] /\ DOMAIN cdps \subseteq 1 .. nextID - 1
    /\ byOwner \subseteq User \X Nat /\ byRatio \subseteq CollateralType \X Nat \X Nat
    /\ deposits \in [DOMAIN deposits -> Nat] /\ DOMAIN deposits \subseteq Nat \X User
    /\ nextID \in Nat
    /\ principals \in [CollateralType -> Nat]
    /\ factors \in [DOMAIN factors -> Nat] /\ DOMAIN factors \subseteq CollateralType
    /\ accruals \in [DOMAIN accruals -> Nat] /\ DOMAIN accruals \subseteq CollateralType
    /\ bank \in [Account -> [Denom -> Nat]]
    /\ supply \in [{Stable, DebtDenom} -> Nat]


\* The collateral of a position is the sum of its deposits, no deposit outlives
\* its position or is empty, and the cdp account holds all of them.
CollateralBacked ==
    /\ \A id \in DOMAIN cdps : cdps[id].collateral = SumCollateral(id, deposits)
    /\ \A k \in DOMAIN deposits : k[1] \in DOMAIN cdps /\ deposits[k] > 0
    /\ \A t \in CollateralType :
        bank[CdpMacc][CollateralDenom[t]] =
            MapThenSumSet(LAMBDA id : IF CollateralDenom[cdps[id].type] = CollateralDenom[t]
                                      THEN cdps[id].collateral ELSE 0, DOMAIN cdps)

\* Every stable coin in circulation is matched by a debt coin.
StableBacked == supply[Stable] <= supply[DebtDenom]

\* The debt coins of the cdp account are covered by the principal of the types;
\* with one type the two are equal.
DebtMatchesPrincipal ==
    LET total == MapThenSumSet(LAMBDA t : principals[t], CollateralType)
    IN  /\ bank[CdpMacc][DebtDenom] <= total
        /\ Cardinality(CollateralType) = 1 => bank[CdpMacc][DebtDenom] = total

\* While the parameters stay the same no position falls below the debt floor, and
\* an owner has one position of each type.
PositionsSound ==
    \A id \in DOMAIN cdps :
        /\ cdps[id].principal >= params.DebtFloor
        /\ CdpIDs(cdps[id].owner, cdps[id].type) = {id}

\* The BeginBlocker never panics.
NeverHalts == phase # "halted"


\* A message that touches a position leaves no interest on it unpaid for: all the
\* interest accrued so far is in its fees.
InterestSettled ==
    [][phase = "deliver" =>
        \A id \in DOMAIN cdps \cap DOMAIN cdps' :
            cdps'[id] # cdps[id] => CalculateNewInterest(cdps[id])' = 0]_vars

\* A message that takes collateral out of a position or draws on it leaves it
\* safe at the spot price, interest included.
DrawsSafe ==
    [][phase = "deliver" =>
        \A id \in DOMAIN cdps' :
            \/ id \in DOMAIN cdps /\ cdps'[id].collateral >= cdps[id].collateral
                                  /\ cdps'[id].principal <= cdps[id].principal
            \/ ValidateCollateralizationRatio(Synchronized(cdps[id]))']_vars

\* When the BeginBlocker has swept a type whose index count covers all of its
\* positions, each of them is safe at the liquidation price.  The index compares
\* the quotient of collateral and debt with a bound that is itself rounded, so
\* this is about ratios that differ by more than that rounding.
SweptSafe ==
    [][phase = "begin" /\ phase' = "deliver" /\ height % params.LiquidationBlockInterval = 0 =>
        \A id \in DOMAIN cdps :
            LET t == cdps[id].type
            IN  Listed(t) /\ PricesUp(t)
                /\ Cardinality(DOMAIN cdps) <= Cp(t).CheckCollateralizationIndexCount
                => CollateralizationRatio(Synchronized(cdps[id]), prices[Cp(t).LiquidationMarketID])
                       >= Cp(t).LiquidationRatio]_vars

\* x/cdp/spec/04_params.md calls the global debt limit the maximum of pegged
\* assets that can be minted across the whole system: what a message draws stays
\* within it.
GlobalDebtLimitKept ==
    [][phase = "deliver" /\ supply'[Stable] > supply[Stable] =>
        MapThenSumSet(LAMBDA t : principals'[t], CollateralType) <= params.GlobalDebtLimit]_vars
=============================================================================
