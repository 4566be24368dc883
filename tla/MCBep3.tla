------------------------------- MODULE MCBep3 -------------------------------
(***************************************************************************)
(* Instances of Bep3 for TLC.  One asset, one user and the deputy; two     *)
(* secrets, so that two swaps compete for the supply.                      *)
(***************************************************************************)
EXTENDS Bep3

CONSTANTS deputy, user, bnb, btcb

MCParam == [active |-> TRUE, deputy |-> deputy, fixedFee |-> 0,
            minSwapAmount |-> 1, maxSwapAmount |-> 2,
            minBlockLock |-> 1, maxBlockLock |-> 2,
            limit |-> 4, timeLimited |-> TRUE, timePeriod |-> 2, timeBasedLimit |-> 2]

MCGenesisParams == [d \in {bnb} |-> MCParam]
MCGenesisSupply == [d \in Denom |-> IF d = bnb THEN 2 ELSE 0]

\* A second listed asset, of which every amount is too small to be swapped.
MCOtherParam == [MCParam EXCEPT !.minSwapAmount = 3, !.maxSwapAmount = 3]

\* What governance may switch to: the asset alone, paused, delisted while the
\* other one stays, everything delisted, or a lower limit and no time window.
MCParamSets ==
    {MCGenesisParams,
     [d \in {bnb} |-> [MCParam EXCEPT !.active = FALSE]],
     [d \in {btcb} |-> MCOtherParam],
     [d \in {} |-> MCParam],
     [d \in {bnb} |-> [MCParam EXCEPT !.limit = 2, !.timeLimited = FALSE]]}

NoParamSets == {}
=============================================================================
