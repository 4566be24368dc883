------------------------------ MODULE MCSplit ------------------------------
(***************************************************************************)
(* The two divisions of an amount into whole parts, over all small inputs, *)
(* against what they are meant to achieve: splitIntIntoWeightedBuckets of  *)
(* x/auction and CreateAuctionsFromDeposit of x/cdp.                       *)
(***************************************************************************)
EXTENDS WeightedSplit, CdpAuctions

CONSTANTS Bucket, MaxAmount, MaxWeight, MaxCollateral, MaxDebt, MaxSize, Penalties

VARIABLES
    input,   \* what is to be divided, and how
    done,
    results, \* the splits that are possible
    created  \* the auctions made of a deposit
vars == <<input, done, results, created>>

SplitInput ==
    [amount : 0 .. MaxAmount,
     weights : {w \in [Bucket -> 0 .. MaxWeight] : totalInts(w) > 0}]
AuctionInput ==
    [deposit : 1 .. MaxCollateral, debt : 0 .. MaxDebt, size : 1 .. MaxSize,
     penalty : Penalties]

Init ==
    /\ input \in SplitInput \/ input \in AuctionInput
    /\ done = FALSE /\ results = {} /\ created = << >>

Split ==
    /\ ~done /\ done' = TRUE
    /\ "weights" \in DOMAIN input
    /\ results' = splitIntIntoWeightedBuckets(input.amount, input.weights)
    /\ UNCHANGED <<input, created>>

Create ==
    /\ ~done /\ done' = TRUE
    /\ "deposit" \in DOMAIN input
    /\ created' = CreateAuctionsFromDeposit(input.deposit, input.debt, input.size, input.penalty)
    /\ UNCHANGED <<input, results>>

Next == Split \/ Create
Spec == Init /\ [][Next]_vars

\* There is a split, and the parts of every one add up to the amount: nothing
\* is lost and nothing is made.
SplitExact ==
    done /\ "weights" \in DOMAIN input =>
        results # {} /\ \A r \in results : totalInts(r) = input.amount

\* No other division of the amount into whole parts is closer to the exact
\* shares, so each part is the exact share rounded up or down: what the method of
\* the largest remainder is chosen for.
Deviation(r) ==
    LET gap(i) == r[i] * totalInts(input.weights) - input.amount * input.weights[i]
    IN  totalInts([i \in Bucket |-> IF gap(i) < 0 THEN 0 - gap(i) ELSE gap(i)])
SplitClosest ==
    \A r \in results : \A p \in [Bucket -> 0 .. input.amount] :
        totalInts(p) = input.amount => Deviation(r) <= Deviation(p)

\* The auctions of a deposit sell exactly the deposit and take exactly the
\* debt it covers, so that the liquidator account pays for all of them.
DepositFullyAuctioned ==
    created # << >> =>
        LotOfAuctions(created) = input.deposit /\ DebtOfAuctions(created) = input.debt

\* Every auction covers its share of the debt to within one coin, no auction is
\* empty, and a buyer can bid at least the debt it covers. Of two auctions, the
\* one that lost more in the truncation does not get less of what was left over.
AuctionsProportional ==
    LET rest(k) == (input.debt * created[k].lot) % input.deposit
        extra(k) == created[k].debt - (input.debt * created[k].lot) \div input.deposit
    IN  \A i \in DOMAIN created :
            /\ created[i].lot \in 1 .. input.size
            /\ extra(i) \in {0, 1} /\ (rest(i) = 0 => extra(i) = 0)
            /\ created[i].maxBid >= created[i].debt
            /\ \A j \in DOMAIN created : rest(i) > rest(j) => extra(i) >= extra(j)
=============================================================================
