---------------------------- MODULE CdpAuctions ----------------------------
(***************************************************************************)
(* x/cdp/keeper/auctions.go: the collateral auctions that a liquidation    *)
(* makes of the deposits of a position.                                    *)
(***************************************************************************)
EXTENDS Decimal, Sequences, SequencesExt, FiniteSetsExt

\* The debt a deposit answers for: its rounded share of the collateral.
debtCoveredByDeposit(amount, totalCollateral, debt) ==
    RoundInt(Mul(Quo(NewDec(amount), NewDec(totalCollateral)), NewDec(debt)))

ApplyLiquidationPenalty(debt, penalty) == RoundInt(Mul(NewDec(debt), penalty))

\* Variant: the debt lost in the divisions is not given to any auction.
NothingLeftOver(collateral, debt, size) == {}
\* Variant: the last auction is never preferred.
WholeAuctionsFirst(collateral, debt, size) ==
    LET n    == collateral \div size
        last == collateral % size
        left == debt - (n * ((debt * size) \div collateral) + (debt * last) \div collateral)
    IN  1 .. left
\* The auctions that get one debt more than the truncated share, by the
\* largest remainder: the last one first if it lost more than the whole ones,
\* then the whole ones in order, then the last one.
ExtraDebt(collateral, debt, size) ==
    LET n    == collateral \div size
        last == collateral % size
        left == debt - (n * ((debt * size) \div collateral) + (debt * last) \div collateral)
        lastFirst == (debt * last) % collateral > (debt * size) % collateral
    IN  IF lastFirst THEN (1 .. left - 1) \cup {n + 1} ELSE 1 .. left

\* n auctions of the full size and, if collateral is left, one of the rest.
CreateAuctionsFromDeposit(collateral, debt, size, penalty) ==
    LET n        == collateral \div size
        last     == collateral % size
        lot(i)   == IF i <= n THEN size ELSE last
        share(i) == (debt * lot(i)) \div collateral
                    + (IF i \in ExtraDebt(collateral, debt, size) THEN 1 ELSE 0)
    IN  [i \in 1 .. n + (IF last > 0 THEN 1 ELSE 0) |->
            [lot |-> lot(i), debt |-> share(i),
             maxBid |-> share(i) + ApplyLiquidationPenalty(share(i), penalty)]]

DebtOfAuctions(auctions) == MapThenSumSet(LAMBDA i : auctions[i].debt, DOMAIN auctions)
LotOfAuctions(auctions) == MapThenSumSet(LAMBDA i : auctions[i].lot, DOMAIN auctions)

\* AuctionCollateral: the debt coins that the auctions of all deposits take.
\* dep maps each depositor to the amount of their deposit.
DebtAuctioned(dep, debt, size, penalty) ==
    LET total == MapThenSumSet(LAMBDA d : dep[d], DOMAIN dep)
    IN  MapThenSumSet(LAMBDA d : DebtOfAuctions(CreateAuctionsFromDeposit(dep[d],
                          debtCoveredByDeposit(dep[d], total, debt), size, penalty)), DOMAIN dep)
=============================================================================
