--------------------------- MODULE AuctionLedger ---------------------------
(***************************************************************************)
(* What x/auction promises to sellers, bidders and the owners of           *)
(* collateral: an auction house without a middleman.  There is no module   *)
(* account, no index, no clock and no BeginBlocker; coins pass directly    *)
(* between the parties, and every step states the net change of what each  *)
(* of them owns.                                                           *)
(***************************************************************************)
EXTENDS Integers, FiniteSetsExt, KVStore

CONSTANTS User, Seller, Denom, Offer, GenesisWealth

VARIABLES
    sales,  \* the open sales: terms, lot, bid, uncovered debt and bidder
    wealth, \* what each party owns
    issued  \* the next sale number

Party == User \cup Seller

\* The amount that a transfer of n coins of denom to party adds to the account
\* of x in the denomination d.
To(party, denom, n, x, d) == IF x = party /\ d = denom THEN n ELSE 0

\* Nobody spends what they do not have.
Moves(change(_, _)) ==
    /\ \A x \in Party, d \in Denom : wealth[x][d] + change(x, d) >= 0
    /\ wealth' = [x \in Party |-> [d \in Denom |-> wealth[x][d] + change(x, d)]]

Init ==
    /\ sales = [id \in {} |-> id]
    /\ wealth = GenesisWealth
    /\ issued = 1

\* The seller hands over the lot, which is not yet made in a debt auction, and
\* the debt.
Open(o) ==
    /\ sales' = Put(sales, issued,
                    [offer |-> o, lot |-> o.lot, bid |-> o.bid, debt |-> o.debt, bidder |-> o.initiator])
    /\ issued' = issued + 1
    /\ Moves(LAMBDA x, d :
                - To(o.initiator, o.lotDenom, IF o.type = "debt" THEN 0 ELSE o.lot, x, d)
                - To(o.initiator, o.debtDenom, o.debt, x, d))

\* A bidder replaces the standing one and makes it whole.
Takeover(s, u, x, d) == To(s.bidder, s.offer.bidDenom, s.bid, x, d) - To(u, s.offer.bidDenom, s.bid, x, d)

\* A strictly higher bid for the whole lot, up to the maximum.  The seller of
\* collateral gets the rise and as much debt back; the rise of a bid for
\* surplus is burned.
Raise(id, u, bid) ==
    LET s == sales[id]
        o == s.offer
        rise == bid - s.bid
        debt == IF rise < s.debt THEN rise ELSE s.debt
    IN  /\ o.type # "debt" /\ rise > 0
        /\ o.type = "collateral" => bid <= o.maxBid
        /\ sales' = [sales EXCEPT ![id] = [@ EXCEPT !.bid = bid, !.bidder = u, !.debt = @ - debt]]
        /\ Moves(LAMBDA x, d :
                    Takeover(s, u, x, d)
                    - To(u, o.bidDenom, rise, x, d)
                    + To(o.initiator, o.bidDenom, IF o.type = "collateral" THEN rise ELSE 0, x, d)
                    + To(o.initiator, o.debtDenom, debt, x, d))

\* The owners share the cut exactly, and each part is the exact share rounded
\* up or down.
FairShares(cut, weights) ==
    LET sum(f) == MapThenSumSet(LAMBDA i : f[i], DOMAIN f)
    IN  {p \in [DOMAIN weights -> 0 .. cut] :
            /\ sum(p) = cut
            /\ \A i \in DOMAIN p :
                  /\ p[i] * sum(weights) < cut * weights[i] + sum(weights)
                  /\ p[i] * sum(weights) > cut * weights[i] - sum(weights)}

\* A strictly smaller lot for the maximum bid.
CutCollateral(id, u, lot) ==
    LET s == sales[id]
        o == s.offer
    IN  /\ o.type = "collateral" /\ s.bid = o.maxBid /\ lot < s.lot
        /\ sales' = [sales EXCEPT ![id] = [@ EXCEPT !.lot = lot, !.bidder = u]]
        /\ \E shares \in FairShares(s.lot - lot, o.returns) :
              Moves(LAMBDA x, d :
                       Takeover(s, u, x, d)
                       + IF x \in DOMAIN shares /\ d = o.lotDenom THEN shares[x] ELSE 0)

\* A strictly smaller lot for the fixed bid of a debt auction.  The first bid
\* is the seller's, who gets the covered debt back.
CutDebt(id, u, lot) ==
    LET s == sales[id]
        o == s.offer
        debt == IF s.bidder # o.initiator THEN 0 ELSE IF s.bid < s.debt THEN s.bid ELSE s.debt
    IN  /\ o.type = "debt" /\ lot < s.lot
        /\ sales' = [sales EXCEPT ![id] = [@ EXCEPT !.lot = lot, !.bidder = u, !.debt = @ - debt]]
        /\ Moves(LAMBDA x, d : Takeover(s, u, x, d) + To(o.initiator, o.debtDenom, debt, x, d))

\* The best bidder gets the lot, and the seller the debt that is left.
Settle(id) ==
    LET s == sales[id]
    IN  /\ s.bidder \in User
        /\ sales' = Drop(sales, {id})
        /\ Moves(LAMBDA x, d : To(s.bidder, s.offer.lotDenom, s.lot, x, d)
                               + To(s.offer.initiator, s.offer.debtDenom, s.debt, x, d))

Next ==
    \/ \E o \in Offer : Open(o)
    \/ /\ \E id \in DOMAIN sales :
             \/ \E u \in User : \/ \E bid \in 0 .. wealth[u][sales[id].offer.bidDenom] + sales[id].bid :
                                      Raise(id, u, bid)
                                \/ \E lot \in 0 .. sales[id].lot :
                                      CutCollateral(id, u, lot) \/ CutDebt(id, u, lot)
             \/ Settle(id)
       /\ UNCHANGED issued

Spec == Init /\ [][Next]_<<sales, wealth, issued>>
=============================================================================
