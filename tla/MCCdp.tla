------------------------------- MODULE MCCdp -------------------------------
(***************************************************************************)
(* Small instances of Cdp.  One is 100 smallest units.                     *)
(***************************************************************************)
EXTENDS Cdp

CONSTANTS alice, bob, bnba, bnbb

MCSymmetry == Permutations(User)

\* Two collateral types may have the same denomination.
MCDenom == [t \in CollateralType |-> "bnb"]
MCUnit == [t \in CollateralType |-> 100]

\* Everyone deposits into their own positions only, or into any.
MCOwnDeposits == [u \in User |-> {u}]
MCAnyDeposits == [u \in User |-> User]

MCBank ==
    [a \in Account |-> [d \in Denom |->
        IF a \in User /\ d \notin {Stable, DebtDenom} THEN 5 ELSE 0]]

CollateralParamOf(limit, fee, reward, count, spot, liq) ==
    [DebtLimit |-> limit, LiquidationRatio |-> 150, LiquidationPenalty |-> 50,
     AuctionSize |-> 2, StabilityFee |-> fee, KeeperRewardPercentage |-> reward,
     CheckCollateralizationIndexCount |-> count, SpotMarketID |-> spot,
     LiquidationMarketID |-> liq]

ParamsOf(collateral, floor, limit, interval) ==
    [CollateralParams |-> collateral, DebtFloor |-> floor, GlobalDebtLimit |-> limit,
     SurplusAuctionThreshold |-> 2, SurplusAuctionLot |-> 2,
     DebtAuctionThreshold |-> 2, DebtAuctionLot |-> 2,
     LiquidationBlockInterval |-> interval]

\* One collateral type with interest of a quarter per second.
MCOneType ==
    ParamsOf(bnba :> CollateralParamOf(9, 125, 30, 2, "spot", "spot"), 2, 9, 1)

\* The type is switched off, or liquidated less often and without interest.
MCGovernance ==
    {ParamsOf(<< >>, 2, 9, 1),
     ParamsOf(bnba :> CollateralParamOf(2, 100, 30, 1, "spot", "liq"), 3, 9, 2)}

\* A keeper is promised more than half of the collateral, and positions are
\* brought up to date in every other block only.
MCLargeReward ==
    ParamsOf(bnba :> CollateralParamOf(9, 125, 60, 2, "spot", "spot"), 2, 9, 2)

\* Two types, the first one with a liquidation market of its own.
MCTwoTypes ==
    ParamsOf(bnba :> CollateralParamOf(4, 125, 30, 1, "spot", "liq") @@
             bnbb :> CollateralParamOf(5, 150, 0, 2, "spot", "spot"), 1, 9, 1)
=============================================================================
