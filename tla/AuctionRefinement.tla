------------------------- MODULE AuctionRefinement -------------------------
(***************************************************************************)
(* Auction implements AuctionLedger: forget the times, the index and the   *)
(* module account.  An auction without a bid counts as bid for by its      *)
(* seller.                                                                 *)
(***************************************************************************)
EXTENDS Auction

Sale(a) ==
    [offer |-> a.offer, lot |-> a.lot, bid |-> a.bid, debt |-> a.debt,
     bidder |-> IF a.received THEN a.bidder ELSE a.offer.initiator]

Ledger == INSTANCE AuctionLedger WITH
    sales <- [id \in DOMAIN auctions |-> Sale(auctions[id])],
    wealth <- [x \in User \cup Seller |-> bank[x]],
    issued <- nextID,
    GenesisWealth <- [x \in User \cup Seller |-> GenesisBank[x]]

\* Every behaviour of the module is one of the auction house without a
\* middleman: bidders are made whole when they are outbid, sellers get what was
\* bid and the debt it does not cover, owners share what was cut off the lot,
\* and the last bidder gets the rest, whatever happens in between.
ImplementsLedger == Ledger!Spec
=============================================================================
