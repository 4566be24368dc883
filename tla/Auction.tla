------------------------------ MODULE Auction ------------------------------
(***************************************************************************)
(* x/auction: the auctions that other modules start to sell surplus, to    *)
(* cover debt and to sell seized collateral.                               *)
(*                                                                         *)
(*   surplus     a fixed lot, rising bids, every bid is burned;            *)
(*   debt        a fixed bid, falling lots, the lot is minted at the end;  *)
(*   collateral  rising bids up to maxBid, then falling lots, the cut of   *)
(*               the lot goes back to the owners of the collateral.        *)
(*                                                                         *)
(* A message that returns an error is rolled back, so an erroring handler  *)
(* is a disabled action; an error of the BeginBlocker stops the chain.     *)
(* A block is a NextBlock step, the CloseExpiredAuctions steps of the      *)
(* BeginBlocker, one per auction it closes, and then any messages.         *)
(***************************************************************************)
EXTENDS Integers, FiniteSetsExt, Bank, KVStore, WeightedSplit

CONSTANTS
    User,          \* accounts that bid or get collateral back
    Seller,        \* the module accounts that start auctions
    Macc,          \* the auction module account
    NoBidder,      \* the empty address
    Denom,         \* coin denominations
    Offer,         \* what the sellers may put up for auction
    Amount,        \* amounts a bid message may carry
    GenesisBank,   \* balances at genesis
    GenesisParams, \* parameters at genesis
    ParamSets,     \* parameters governance may choose
    BlockInterval, \* time that may pass between two blocks
    DistantFuture, \* the end time of an auction without bids
    MaxAuctions,   \* bound: auctions started in a behaviour
    MaxTime        \* bound: time of the last block

VARIABLES
    now,      \* block time
    phase,    \* "begin" while the BeginBlocker runs, "deliver", or "halted"
    params,   \* the auction parameters
    auctions, \* AuctionKeyPrefix store
    byTime,   \* AuctionByTimeKeyPrefix index: <<end time, id>>
    nextID,   \* NextAuctionIDKey
    bank      \* x/bank balances of every account

vars == <<now, phase, params, auctions, byTime, nextID, bank>>

Account == User \cup Seller \cup {Macc, NoBidder}

(***************************************************************************)
(* Parameters.  A rate is a fraction <<numerator, denominator>>.           *)
(***************************************************************************)
Rate == Nat \X (Nat \ {0})

\* The validators of the single parameters, which is what governance obeys.
KeyValid(p) ==
    p \in [ForwardBidDuration : Nat, ReverseBidDuration : Nat, MaxAuctionDuration : Nat,
           IncrementSurplus : Rate, IncrementDebt : Rate, IncrementCollateral : Rate]

\* Params.Validate, which is what a genesis file obeys.
ParamsValid(p) ==
    /\ KeyValid(p)
    /\ p.ForwardBidDuration <= p.MaxAuctionDuration
    /\ p.ReverseBidDuration <= p.MaxAuctionDuration

\* WeightedAddresses.Validate.
WeightsValid(w) ==
    /\ w \in [DOMAIN w -> Nat]
    /\ DOMAIN w \subseteq User /\ DOMAIN w # {}
    /\ totalInts(w) \in Nat \ {0}

\* One transfer from the module account to every address of a split.
PayOut(b, denom, payouts) ==
    [a \in Account |->
        IF a \in DOMAIN payouts THEN [b[a] EXCEPT ![denom] = @ + payouts[a]]
        ELSE IF a = Macc THEN [b[a] EXCEPT ![denom] = @ - totalInts(payouts)]
        ELSE b[a]]

(***************************************************************************)
(* Auctions.  The field offer holds what never changes; its lot, bid and   *)
(* debt are the values at the start, which the stored record of the code   *)
(* overwrites and the model keeps for the properties.                      *)
(***************************************************************************)
OfferType ==
    [type : {"surplus", "debt", "collateral"}, initiator : Seller,
     lotDenom : Denom, lot : Nat, bidDenom : Denom, bid : Nat, maxBid : Nat,
     debtDenom : Denom, debt : Nat, returns : {o.returns : o \in Offer}]

AuctionType ==
    [offer : Offer, lot : Nat, bid : Nat, debt : Nat, bidder : User \cup Seller \cup {NoBidder},
     received : BOOLEAN, endTime : Nat, maxEndTime : Nat]

\* A surplus auction has neither a maximum bid nor debt; only a debt auction
\* starts with a bid.
OfferValid(o) ==
    /\ o \in OfferType
    /\ o.type # "debt" => o.bid = 0
    /\ o.type = "surplus" => o.debt = 0
    /\ WeightsValid(o.returns)

ASSUME AccountAssumption ==
    /\ Macc \notin User \cup Seller /\ NoBidder \notin User \cup Seller \cup {Macc}
    /\ User \cap Seller = {}
    /\ GenesisBank \in [Account -> [Denom -> Nat]]
    /\ \A d \in Denom : GenesisBank[Macc][d] = 0 /\ GenesisBank[NoBidder][d] = 0

ASSUME InputAssumption ==
    /\ \A o \in Offer : OfferValid(o)
    /\ Amount \subseteq Nat
    /\ BlockInterval \subseteq Nat \ {0}
    /\ ParamsValid(GenesisParams)
    /\ \A p \in ParamSets : KeyValid(p)
    /\ MaxTime \in Nat \ {0} /\ MaxAuctions \in Nat

\* Block times stay before the year 9000.
ASSUME FutureAssumption == DistantFuture \in Nat /\ DistantFuture > MaxTime

\* NewSurplusAuction, NewDebtAuction, NewCollateralAuction.
\* Variant: the clock of an auction runs from its start.
NewAuctionWithDeadline(o) ==
    [offer |-> o, lot |-> o.lot, bid |-> o.bid, debt |-> o.debt,
     bidder |-> IF o.type = "debt" THEN o.initiator ELSE NoBidder, received |-> FALSE,
     endTime |-> now + params.MaxAuctionDuration, maxEndTime |-> DistantFuture]
NewAuction(o) ==
    [offer |-> o, lot |-> o.lot, bid |-> o.bid, debt |-> o.debt,
     bidder |-> IF o.type = "debt" THEN o.initiator ELSE NoBidder, received |-> FALSE,
     endTime |-> DistantFuture, maxEndTime |-> DistantFuture]

IsReversePhase(a) == a.bid = a.offer.maxBid

\* What the module account holds for an auction, by denomination.
GetModuleAccountCoins(a, d) ==
    (IF a.offer.type # "debt" /\ a.offer.lotDenom = d THEN a.lot ELSE 0)
    + (IF a.offer.type # "surplus" /\ a.offer.debtDenom = d THEN a.debt ELSE 0)

(***************************************************************************)
(* The store and its index.                                                *)
(***************************************************************************)
InsertIntoByTimeIndex(index, endTime, id) == index \cup {<<endTime, id>>}

\* Variant: the entry of the replaced auction is left in the index.
SetAuctionKeepingEntry(id, a) ==
    /\ auctions' = Put(auctions, id, a)
    /\ byTime' = InsertIntoByTimeIndex(byTime, a.endTime, id)
SetAuction(id, a) ==
    /\ auctions' = Put(auctions, id, a)
    /\ byTime' = InsertIntoByTimeIndex(
                    {e \in byTime : ~(id \in DOMAIN auctions /\ e = <<auctions[id].endTime, id>>)},
                    a.endTime, id)

DeleteAuction(id) ==
    /\ auctions' = Drop(auctions, {id})
    /\ byTime' = byTime \ {<<auctions[id].endTime, id>>}

\* Variant: the id is not used up.
StoreNewAuctionKeepingID(a) ==
    /\ nextID <= MaxAuctions
    /\ SetAuction(nextID, a)
    /\ UNCHANGED nextID
StoreNewAuction(a) ==
    /\ nextID <= MaxAuctions
    /\ SetAuction(nextID, a)
    /\ nextID' = nextID + 1

Init ==
    /\ now = 1 /\ phase = "deliver"
    /\ params = GenesisParams
    /\ auctions = [id \in {} |-> id] /\ byTime = {} /\ nextID = 1
    /\ bank = GenesisBank

(***************************************************************************)
(* Starting an auction.  The sellers, x/cdp and x/hard, call these from    *)
(* messages and from BeginBlockers that run after the one of x/auction.    *)
(***************************************************************************)
StartSurplusAuction(o) ==
    /\ o.type = "surplus"
    /\ CanPay(bank, o.initiator, o.lotDenom, o.lot)
    /\ bank' = Send(bank, o.initiator, Macc, o.lotDenom, o.lot)

StartDebtAuction(o) ==
    /\ o.type = "debt"
    /\ CanPay(bank, o.initiator, o.debtDenom, o.debt)
    /\ bank' = Send(bank, o.initiator, Macc, o.debtDenom, o.debt)

StartCollateralAuction(o) ==
    LET escrowed == Send(bank, o.initiator, Macc, o.lotDenom, o.lot)
    IN  /\ o.type = "collateral"
        /\ CanPay(bank, o.initiator, o.lotDenom, o.lot)
        /\ CanPay(escrowed, o.initiator, o.debtDenom, o.debt)
        /\ bank' = Send(escrowed, o.initiator, Macc, o.debtDenom, o.debt)

Start(o) ==
    /\ phase = "deliver"
    /\ StartSurplusAuction(o) \/ StartDebtAuction(o) \/ StartCollateralAuction(o)
    /\ StoreNewAuction(NewAuction(o))
    /\ UNCHANGED <<now, phase, params>>

(***************************************************************************)
(* Bidding.  The amount of a message is in the denomination the auction    *)
(* asks for; any other is an error.                                        *)
(***************************************************************************)
MaxInt(x, y) == IF x < y THEN y ELSE x
MinInt(x, y) == IF x < y THEN x ELSE y
earliestTime(t1, t2) == IF t1 < t2 THEN t1 ELSE t2

\* Dec.RoundInt of a fraction: to the nearest integer, a half to the even one.
RoundInt(n, d) ==
    LET q == n \div d
        r == n % d
    IN  IF 2 * r > d \/ (2 * r = d /\ q % 2 = 1) THEN q + 1 ELSE q

Increment(amount, rate) == MaxInt(1, RoundInt(amount * rate[1], rate[2]))

\* A new bidder pays the standing bid back to the old one, through the module
\* account.  The transfer of a zero bid, which the code skips, has no effect.
CanRepay(a, bidder) ==
    bidder # a.bidder => CanPay(bank, bidder, a.offer.bidDenom, a.bid)
\* Variant: the standing bid is paid to the seller, a second time.
RepaidToInitiator(a, bidder) ==
    IF bidder = a.bidder THEN bank
    ELSE Send(Send(bank, bidder, Macc, a.offer.bidDenom, a.bid),
              Macc, a.offer.initiator, a.offer.bidDenom, a.bid)
Repaid(a, bidder) ==
    IF bidder = a.bidder THEN bank
    ELSE Send(Send(bank, bidder, Macc, a.offer.bidDenom, a.bid),
              Macc, a.bidder, a.offer.bidDenom, a.bid)

\* The first bid fixes the latest end time, every bid moves the end time.
MaxEndTime(a) == IF a.received THEN a.maxEndTime ELSE now + params.MaxAuctionDuration
\* Variant: every bid gives the auction a new latest end time.
WithNewMaxEndTime(a, bidder, duration) ==
    [a EXCEPT !.bidder = bidder, !.received = TRUE,
              !.maxEndTime = now + params.MaxAuctionDuration,
              !.endTime = earliestTime(now + duration, now + params.MaxAuctionDuration)]
WithBid(a, bidder, duration) ==
    [a EXCEPT !.bidder = bidder, !.received = TRUE, !.maxEndTime = MaxEndTime(a),
              !.endTime = earliestTime(now + duration, MaxEndTime(a))]

PlaceBidSurplus(id, bidder, bid) ==
    LET a == auctions[id]
        o == a.offer
        repaid == Repaid(a, bidder)
        received == Send(repaid, bidder, o.initiator, o.bidDenom, bid - a.bid)
    IN  /\ o.type = "surplus"
        /\ bid >= a.bid + Increment(a.bid, params.IncrementSurplus)
        /\ CanRepay(a, bidder)
        /\ CanPay(repaid, bidder, o.bidDenom, bid - a.bid)
        /\ bank' = Debit(received, o.initiator, o.bidDenom, bid - a.bid)
        /\ SetAuction(id, WithBid([a EXCEPT !.bid = bid], bidder, params.ForwardBidDuration))

\* Variant: the debt stays with the auction.
DebtToReturnNone(a, amount) == 0
\* Variant: as much debt is returned as was bid.
DebtToReturnUncapped(a, amount) == amount
debtToReturn(a, amount) == MinInt(amount, a.debt)

\* Variant: a bid need not be higher than the standing one.
MinNewBidEqual(a) == a.bid
minNewBid(a) ==
    MinInt(a.bid + Increment(a.bid, params.IncrementCollateral), a.offer.maxBid)

PlaceForwardBidCollateral(id, bidder, bid) ==
    LET a == auctions[id]
        o == a.offer
        repaid == Repaid(a, bidder)
        paid == Send(repaid, bidder, o.initiator, o.bidDenom, bid - a.bid)
        debt == debtToReturn(a, bid - a.bid)
        updated == [a EXCEPT !.bid = bid, !.debt = @ - debt]
    IN  /\ o.type = "collateral" /\ ~IsReversePhase(a)
        /\ bid >= minNewBid(a)
        /\ bid <= o.maxBid
        /\ CanRepay(a, bidder)
        /\ CanPay(repaid, bidder, o.bidDenom, bid - a.bid)
        /\ CanPay(paid, Macc, o.debtDenom, debt)
        /\ bank' = Send(paid, Macc, o.initiator, o.debtDenom, debt)
        /\ SetAuction(id, WithBid(updated, bidder,
                                  IF IsReversePhase(updated) THEN params.ReverseBidDuration
                                  ELSE params.ForwardBidDuration))

PlaceReverseBidCollateral(id, bidder, lot) ==
    LET a == auctions[id]
        o == a.offer
        repaid == Repaid(a, bidder)
    IN  /\ o.type = "collateral" /\ IsReversePhase(a)
        /\ lot <= a.lot - Increment(a.lot, params.IncrementCollateral)
        /\ CanRepay(a, bidder)
        /\ \E payouts \in splitIntIntoWeightedBuckets(a.lot - lot, o.returns) :
              /\ CanPay(repaid, Macc, o.lotDenom, totalInts(payouts))
              /\ bank' = PayOut(repaid, o.lotDenom, payouts)
        /\ SetAuction(id, WithBid([a EXCEPT !.lot = lot], bidder, params.ReverseBidDuration))

PlaceBidDebt(id, bidder, lot) ==
    LET a == auctions[id]
        o == a.offer
        repaid == Repaid(a, bidder)
        debt == IF a.bidder = o.initiator THEN debtToReturn(a, a.bid) ELSE 0
    IN  /\ o.type = "debt"
        /\ lot <= a.lot - Increment(a.lot, params.IncrementDebt)
        /\ CanRepay(a, bidder)
        /\ CanPay(repaid, Macc, o.debtDenom, debt)
        /\ bank' = Send(repaid, Macc, o.initiator, o.debtDenom, debt)
        /\ SetAuction(id, WithBid([a EXCEPT !.lot = lot, !.debt = @ - debt], bidder,
                                  params.ForwardBidDuration))

PlaceBid(id, bidder, amount) ==
    /\ phase = "deliver"
    /\ id \in DOMAIN auctions
    /\ now <= auctions[id].endTime
    /\ \/ PlaceBidSurplus(id, bidder, amount)
       \/ PlaceForwardBidCollateral(id, bidder, amount)
       \/ PlaceReverseBidCollateral(id, bidder, amount)
       \/ PlaceBidDebt(id, bidder, amount)
    /\ UNCHANGED <<now, phase, params, nextID>>

(***************************************************************************)
(* Closing.                                                                *)
(***************************************************************************)
PayoutSurplusAuction(a) == Send(bank, Macc, a.bidder, a.offer.lotDenom, a.lot)

\* The lot is minted by the initiator.
LotMinted(a) ==
    Send(Credit(bank, a.offer.initiator, a.offer.lotDenom, a.lot),
         a.offer.initiator, a.bidder, a.offer.lotDenom, a.lot)
PayoutDebtAuction(a) ==
    Send(LotMinted(a), Macc, a.offer.initiator, a.offer.debtDenom, a.debt)

\* Variant: the debt that is left stays in the module account.
PayoutCollateralOnly(a) == PayoutSurplusAuction(a)
PayoutCollateralAuction(a) ==
    Send(PayoutSurplusAuction(a), Macc, a.offer.initiator, a.offer.debtDenom, a.debt)

CanPayout(a) ==
    LET o == a.offer
    IN  CASE o.type = "surplus" -> CanPay(bank, Macc, o.lotDenom, a.lot)
          [] o.type = "debt" -> CanPay(LotMinted(a), Macc, o.debtDenom, a.debt)
          [] o.type = "collateral" ->
                /\ CanPay(bank, Macc, o.lotDenom, a.lot)
                /\ CanPay(PayoutSurplusAuction(a), Macc, o.debtDenom, a.debt)

Payout(a) ==
    CASE a.offer.type = "surplus" -> PayoutSurplusAuction(a)
      [] a.offer.type = "debt" -> PayoutDebtAuction(a)
      [] a.offer.type = "collateral" -> PayoutCollateralAuction(a)

\* An auction that has not expired or cannot be paid out is an error, and any
\* error but ErrAuctionNotFound is a panic of the BeginBlocker.
CloseAuction(id) ==
    IF auctions[id].endTime <= now /\ CanPayout(auctions[id])
    THEN bank' = Payout(auctions[id]) /\ DeleteAuction(id) /\ UNCHANGED phase
    ELSE phase' = "halted" /\ UNCHANGED <<auctions, byTime, bank>>

\* IterateAuctionsByTime: the entries up to and including the block time.  The
\* ids that are not found in the store are passed over.
Expired == {e \in byTime : e[1] <= now /\ e[2] \in DOMAIN auctions}
IsFirst(e) == \A f \in Expired : e[1] < f[1] \/ (e[1] = f[1] /\ e[2] <= f[2])

CloseExpiredAuctions ==
    /\ phase = "begin"
    /\ \E e \in Expired : IsFirst(e) /\ CloseAuction(e[2])
    /\ UNCHANGED <<now, params, nextID>>

\* Variant: the iteration stops early.
BeginBlockStops ==
    /\ phase = "begin"
    /\ phase' = "deliver"
    /\ UNCHANGED <<now, params, auctions, byTime, nextID, bank>>
BeginBlockDone ==
    /\ phase = "begin"
    /\ Expired = {}
    /\ phase' = "deliver"
    /\ UNCHANGED <<now, params, auctions, byTime, nextID, bank>>

NextBlock(interval) ==
    /\ phase = "deliver"
    /\ now + interval <= MaxTime
    /\ now' = now + interval
    /\ phase' = "begin"
    /\ UNCHANGED <<params, auctions, byTime, nextID, bank>>

(***************************************************************************)
(* Governance, and a restart of the chain from an exported genesis.        *)
(***************************************************************************)
UpdateParams(p) ==
    /\ phase = "deliver"
    /\ params' = p
    /\ UNCHANGED <<now, phase, auctions, byTime, nextID, bank>>

ValidateAuction(a) == a.endTime > 0 /\ a.maxEndTime > 0 /\ a.endTime <= a.maxEndTime

Held(d) == MapThenSumSet(LAMBDA id : GetModuleAccountCoins(auctions[id], d), DOMAIN auctions)

GenesisValid ==
    /\ ParamsValid(params)
    /\ \A id \in DOMAIN auctions :
          ValidateAuction(auctions[id]) /\ WeightsValid(auctions[id].offer.returns) /\ id < nextID
    /\ \A d \in Denom : bank[Macc][d] = Held(d)

ExportImport ==
    /\ phase = "deliver"
    /\ GenesisValid
    /\ byTime' = {<<auctions[id].endTime, id>> : id \in DOMAIN auctions}
    /\ UNCHANGED <<now, phase, params, auctions, nextID, bank>>

Next ==
    \/ \E o \in Offer : Start(o)
    \/ \E id \in DOMAIN auctions, bidder \in User, amount \in Amount : PlaceBid(id, bidder, amount)
    \/ \E interval \in BlockInterval : NextBlock(interval)
    \/ CloseExpiredAuctions
    \/ BeginBlockDone
    \/ \E p \in ParamSets : UpdateParams(p)
    \/ ExportImport

Spec == Init /\ [][Next]_vars

\* Consensus keeps producing blocks, and a block's BeginBlocker runs to its end.
Fairness ==
    /\ WF_vars(\E interval \in BlockInterval : NextBlock(interval))
    /\ WF_vars(CloseExpiredAuctions)
    /\ WF_vars(BeginBlockDone)

FairSpec == Spec /\ Fairness

(***************************************************************************)
(* Properties.                                                             *)
(***************************************************************************)
\* Every store has its type.
TypeOK ==
    /\ now \in Nat
    /\ phase \in {"begin", "deliver", "halted"}
    /\ KeyValid(params)
    /\ nextID \in Nat \ {0}
    /\ DOMAIN auctions \subseteq Nat
    /\ auctions \in [DOMAIN auctions -> AuctionType]
    /\ byTime \subseteq Nat \X Nat
    /\ bank \in [Account -> [Denom -> Nat]]

\* ModuleAccountInvariants: whatever is started, bid and closed in whatever
\* order, the module account holds exactly the lots and the debt of the
\* auctions in the store.
ModuleAccountBacked == \A d \in Denom : bank[Macc][d] = Held(d)

\* The BeginBlocker never panics: an expired auction can always be paid out
\* and no index entry points to an auction that has not expired.
NeverHalts == phase # "halted"

\* ValidIndexInvariant, made exact: the index holds the end time of each
\* stored auction and nothing else.
IndexConsistent == byTime = {<<auctions[id].endTime, id>> : id \in DOMAIN auctions}

\* An auction that can be closed has a bidder who wins it, so that no lot is
\* sent to the empty address or back to the seller.
WinnerKnown ==
    \A id \in DOMAIN auctions :
        auctions[id].endTime <= now => auctions[id].received /\ auctions[id].bidder \in User

\* While messages are delivered no auction is past its end: the BeginBlocker
\* has closed all of them, and a bid never moves the end into the past.
NoneOverdue ==
    phase = "deliver" => \A id \in DOMAIN auctions : now <= auctions[id].endTime

\* The debt a collateral auction still carries is what its bids have not
\* covered, however the bid was reached; a debt auction gives the covered debt
\* back with the first bid and only then.
DebtTracksBids ==
    \A id \in DOMAIN auctions :
        LET a == auctions[id]
            covered == IF a.offer.type = "debt" /\ ~a.received THEN 0 ELSE a.bid
        IN  a.debt = MaxInt(0, a.offer.debt - covered)


\* What a step may do to an auction that stays in the store: nothing, or raise
\* the bid, or cut the lot, never both; the terms are fixed, debt never comes
\* back, an auction never leaves its reverse phase, and the latest end time is
\* fixed by the first bid.
Improves(a, b) ==
    /\ b.offer = a.offer
    /\ b.debt <= a.debt
    /\ a.offer.type = "collateral" /\ IsReversePhase(a) => IsReversePhase(b)
    /\ a.received => b.received /\ b.maxEndTime = a.maxEndTime
    /\ b.bid >= a.bid /\ b.lot <= a.lot
    /\ \/ b.bid = a.bid /\ b.lot = a.lot /\ b.bidder = a.bidder
       \/ b.bid > a.bid /\ b.lot = a.lot /\ b.endTime <= b.maxEndTime
       \/ b.bid = a.bid /\ b.lot < a.lot /\ b.endTime <= b.maxEndTime

BidsImprove ==
    [][\A id \in DOMAIN auctions \cap DOMAIN auctions' : Improves(auctions[id], auctions'[id])]_vars

\* An auction leaves the store only in the BeginBlocker and once its end has
\* come, and its id is never given to another one.
ClosedForGood ==
    [][/\ \A id \in DOMAIN auctions \ DOMAIN auctions' : phase = "begin" /\ auctions[id].endTime <= now
       /\ \A id \in DOMAIN auctions' \ DOMAIN auctions : id >= nextID /\ id < nextID']_vars

\* Bidding cannot keep an auction open: one that has received a bid is closed,
\* if its latest end time lies within the times of the model.
BidLeadsToClose ==
    \A id \in 1 .. MaxAuctions :
        (id \in DOMAIN auctions /\ auctions[id].received /\ auctions[id].maxEndTime <= MaxTime)
            ~> id \notin DOMAIN auctions
=============================================================================
