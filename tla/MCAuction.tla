----------------------------- MODULE MCAuction -----------------------------
(***************************************************************************)
(* Instances of Auction for TLC: two users, the liquidator of x/cdp as the *)
(* seller, and one offer of each type.                                     *)
(***************************************************************************)
EXTENDS AuctionRefinement

CONSTANTS alice, bob, liquidator, bnb, usdx, gov, udebt

Weights == [u \in {alice, bob} |-> IF u = alice THEN 2 ELSE 1]

CollateralOffer ==
    [type |-> "collateral", initiator |-> liquidator, lotDenom |-> bnb, lot |-> 4,
     bidDenom |-> usdx, bid |-> 0, maxBid |-> 3, debtDenom |-> udebt, debt |-> 2,
     returns |-> Weights]
\* The part of a position that is too small to carry any debt.
FreeOffer == [CollateralOffer EXCEPT !.lot = 2, !.maxBid = 0, !.debt = 0]
SurplusOffer ==
    [CollateralOffer EXCEPT !.type = "surplus", !.lotDenom = usdx, !.lot = 2,
                            !.bidDenom = gov, !.maxBid = 0, !.debt = 0]
DebtOffer ==
    [CollateralOffer EXCEPT !.type = "debt", !.lotDenom = gov, !.lot = 3,
                            !.bidDenom = usdx, !.bid = 2, !.maxBid = 0, !.debt = 3]

MCParams ==
    [ForwardBidDuration |-> 1, ReverseBidDuration |-> 2, MaxAuctionDuration |-> 2,
     IncrementSurplus |-> <<1, 2>>, IncrementDebt |-> <<1, 20>>, IncrementCollateral |-> <<1, 2>>]

Purse(d) == IF d \in {usdx, gov} THEN 4 ELSE 0
Stock(d) == IF d = bnb THEN 8 ELSE IF d = udebt THEN 5 ELSE IF d = usdx THEN 2 ELSE 0
MCBank ==
    [a \in Account |-> [d \in Denom |-> IF a \in User THEN Purse(d)
                                        ELSE IF a \in Seller THEN Stock(d) ELSE 0]]

NoParamSets == {}
\* Shorter and longer auctions, all accepted by Params.Validate.
MCParamSets ==
    {[MCParams EXCEPT !.ForwardBidDuration = 0, !.ReverseBidDuration = 0],
     [MCParams EXCEPT !.MaxAuctionDuration = 3, !.IncrementCollateral = <<1, 20>>]}

AllOffers == {CollateralOffer, FreeOffer, SurplusOffer, DebtOffer}
=============================================================================
