--------------------------- MODULE AuctionProofs ---------------------------
(***************************************************************************)
(* Theorems about Auction, for every value of its constants.               *)
(***************************************************************************)
EXTENDS Auction, TLAPS

(***************************************************************************)
(* Numbers.                                                                *)
(***************************************************************************)
\* A quotient of natural numbers is one.
LEMMA QuotientType ==
    ASSUME NEW n \in Nat, NEW d \in Nat \ {0}
    PROVE  n \div d \in Nat /\ n % d \in Nat
OBVIOUS

\* A product of natural numbers is one.
LEMMA ProductType ==
    ASSUME NEW m \in Nat, NEW n \in Nat
    PROVE  m * n \in Nat
OBVIOUS

\* Whatever the rate, the smallest step of a bid is at least one coin, so that
\* no bid is replaced at no cost.
LEMMA IncrementPositive ==
    ASSUME NEW amount \in Nat, NEW rate \in Rate
    PROVE  Increment(amount, rate) \in Nat /\ Increment(amount, rate) >= 1
<1>1. rate[1] \in Nat /\ rate[2] \in Nat \ {0}
  BY DEF Rate
<1>2. amount * rate[1] \in Nat
  BY <1>1, ProductType
<1>3. RoundInt(amount * rate[1], rate[2]) \in Nat
  <2>1. (amount * rate[1]) \div rate[2] \in Nat
    BY <1>1, <1>2, QuotientType
  <2> QED
    BY <2>1 DEF RoundInt
<1> QED
  BY <1>3 DEF Increment, MaxInt

(***************************************************************************)
(* The bank.                                                               *)
(***************************************************************************)
BankType == [Account -> [Denom -> Nat]]

\* A transfer that the sender can pay keeps every balance natural.
LEMMA SendType ==
    ASSUME NEW b \in BankType, NEW from \in Account, NEW to \in Account, NEW d \in Denom,
           NEW n \in Nat, CanPay(b, from, d, n)
    PROVE  Send(b, from, to, d, n) \in BankType
<1>1. Debit(b, from, d, n) \in BankType
  BY DEF CanPay, Debit, BankType
<1>2. \A c \in BankType : Credit(c, to, d, n) \in BankType
  BY DEF Credit, BankType
<1> QED
  BY <1>1, <1>2 DEF Send

\* New coins keep every balance natural.
LEMMA CreditType ==
    ASSUME NEW b \in BankType, NEW to \in Account, NEW d \in Denom, NEW n \in Nat
    PROVE  Credit(b, to, d, n) \in BankType
BY DEF Credit, BankType

\* What has been received can be passed on.
LEMMA PassOn ==
    ASSUME NEW b \in BankType, NEW from \in Account, NEW to \in Account, NEW d \in Denom,
           NEW n \in Nat, CanPay(b, from, d, n), from # to
    PROVE  CanPay(Send(b, from, to, d, n), to, d, n)
BY DEF CanPay, Send, Debit, Credit, BankType

\* Every part of a split is a natural number.
LEMMA SplitType ==
    ASSUME NEW amount \in Nat, NEW w, WeightsValid(w),
           NEW p \in splitIntIntoWeightedBuckets(amount, w)
    PROVE  p \in [DOMAIN w -> Nat]
<1>1. \A i \in DOMAIN w : quo(amount, w, i) \in Nat
  <2> SUFFICES ASSUME NEW i \in DOMAIN w PROVE quo(amount, w, i) \in Nat
    OBVIOUS
  <2>1. w[i] \in Nat /\ totalInts(w) \in Nat \ {0}
    BY DEF WeightsValid
  <2>2. amount * w[i] \in Nat
    BY <2>1, ProductType
  <2> QED
    BY <2>1, <2>2, QuotientType DEF quo
<1>2. PICK lucky \in LargestRemainders(amount, w) :
         p = [i \in DOMAIN w |-> quo(amount, w, i) + IF i \in lucky THEN 1 ELSE 0]
  BY DEF splitIntIntoWeightedBuckets
<1>3. \A i \in DOMAIN w : p[i] \in Nat
  BY <1>1, <1>2
<1> QED
  BY <1>2, <1>3

\* Paying out a split keeps every balance natural.
LEMMA PayOutType ==
    ASSUME NEW b \in BankType, NEW d \in Denom, NEW w, WeightsValid(w),
           NEW p \in [DOMAIN w -> Nat], CanPay(b, Macc, d, totalInts(p))
    PROVE  PayOut(b, d, p) \in BankType
<1>1. DOMAIN p = DOMAIN w /\ DOMAIN w \subseteq User
  BY DEF WeightsValid
<1>2. \A a \in DOMAIN p : [b[a] EXCEPT ![d] = @ + p[a]] \in [Denom -> Nat]
  BY <1>1 DEF BankType, Account
<1>3. [b[Macc] EXCEPT ![d] = @ - totalInts(p)] \in [Denom -> Nat]
  BY DEF BankType, Account, CanPay
<1>4. \A a \in Account : b[a] \in [Denom -> Nat]
  BY DEF BankType
<1> QED
  BY <1>2, <1>3, <1>4 DEF PayOut, BankType

(***************************************************************************)
(* The inductive invariant.  What is known of a single auction: before the *)
(* first bid it is as it was started and its end is in the distant future; *)
(* after it a user leads and the end lies within the latest end.           *)
(***************************************************************************)
AuctionInv(a) ==
    /\ ~a.received =>
          /\ a.endTime = DistantFuture /\ a.maxEndTime = DistantFuture
          /\ a.bidder = IF a.offer.type = "debt" THEN a.offer.initiator ELSE NoBidder
    /\ a.received => a.bidder \in User
    /\ a.endTime <= a.maxEndTime
    /\ a.offer.type = "collateral" => a.bid <= a.offer.maxBid

DebtInv(a) ==
    a.debt = MaxInt(0, a.offer.debt - (IF a.offer.type = "debt" /\ ~a.received THEN 0 ELSE a.bid))

StoreInv ==
    /\ now <= MaxTime
    /\ \A id \in DOMAIN auctions :
          /\ id < nextID
          /\ AuctionInv(auctions[id])
          /\ DebtInv(auctions[id])

IInv == TypeOK /\ IndexConsistent /\ StoreInv /\ NoneOverdue

LEMMA InitIInv == Init => IInv
<1> SUFFICES ASSUME Init PROVE IInv
  OBVIOUS
<1>1. TypeOK
  BY AccountAssumption, InputAssumption DEF Init, TypeOK, ParamsValid
<1>2. IndexConsistent
  BY DEF Init, IndexConsistent
<1>3. StoreInv
  BY InputAssumption DEF Init, StoreInv
<1>4. NoneOverdue
  BY DEF Init, NoneOverdue
<1> QED
  BY <1>1, <1>2, <1>3, <1>4 DEF IInv

(***************************************************************************)
(* The store operations.                                                   *)
(***************************************************************************)
\* SetAuction changes one auction of the store and keeps the index exact.
LEMMA SetAuctionStep ==
    ASSUME TypeOK, IndexConsistent, NEW id \in Nat, NEW a \in AuctionType, SetAuction(id, a)
    PROVE  /\ DOMAIN auctions' = DOMAIN auctions \cup {id}
           /\ auctions'[id] = a
           /\ \A i \in DOMAIN auctions \ {id} : auctions'[i] = auctions[i]
           /\ auctions' \in [DOMAIN auctions' -> AuctionType]
           /\ DOMAIN auctions' \subseteq Nat
           /\ IndexConsistent'
           /\ byTime' \subseteq Nat \X Nat
<1>1. auctions' = Put(auctions, id, a)
  BY DEF SetAuction
<1>2. DOMAIN auctions' = DOMAIN auctions \cup {id} /\ auctions'[id] = a
  BY <1>1 DEF Put
<1>3. \A i \in DOMAIN auctions \ {id} : auctions'[i] = auctions[i]
  BY <1>1 DEF Put
<1>4. \A i \in DOMAIN auctions' : auctions'[i] \in AuctionType
  BY <1>2, <1>3 DEF TypeOK
<1>5. auctions' \in [DOMAIN auctions' -> AuctionType] /\ DOMAIN auctions' \subseteq Nat
  <2>1. auctions' = [i \in DOMAIN auctions' |-> auctions'[i]]
    BY <1>1 DEF Put
  <2> QED
    BY <1>2, <1>4, <2>1 DEF TypeOK
<1>6. IndexConsistent'
  <2>1. byTime = {<<auctions[i].endTime, i>> : i \in DOMAIN auctions}
    BY DEF IndexConsistent
  <2>2. byTime' = {e \in byTime : ~(id \in DOMAIN auctions /\ e = <<auctions[id].endTime, id>>)}
                  \cup {<<a.endTime, id>>}
    BY DEF SetAuction, InsertIntoByTimeIndex
  <2>3. ASSUME NEW e \in byTime'
        PROVE  e \in {<<auctions'[i].endTime, i>> : i \in DOMAIN auctions'}
    <3>1. CASE e = <<a.endTime, id>>
      BY <1>2, <3>1
    <3>2. CASE e # <<a.endTime, id>>
      <4>1. e \in byTime /\ ~(id \in DOMAIN auctions /\ e = <<auctions[id].endTime, id>>)
        BY <2>2, <3>2
      <4>2. PICK i \in DOMAIN auctions : e = <<auctions[i].endTime, i>>
        BY <2>1, <4>1
      <4>3. i # id
        BY <4>1, <4>2
      <4> QED
        BY <1>2, <1>3, <4>2, <4>3
    <3> QED
      BY <3>1, <3>2
  <2>4. ASSUME NEW i \in DOMAIN auctions'
        PROVE  <<auctions'[i].endTime, i>> \in byTime'
    <3>1. CASE i = id
      BY <1>2, <2>2, <3>1
    <3>2. CASE i # id
      <4>1. i \in DOMAIN auctions /\ auctions'[i] = auctions[i]
        BY <1>2, <1>3, <3>2
      <4>2. <<auctions[i].endTime, i>> \in byTime
        BY <2>1, <4>1
      <4>3. <<auctions[i].endTime, i>> # <<auctions[id].endTime, id>>
        BY <3>2
      <4> QED
        BY <2>2, <4>1, <4>2, <4>3
    <3> QED
      BY <3>1, <3>2
  <2> QED
    BY <2>3, <2>4 DEF IndexConsistent
<1>7. byTime' \subseteq Nat \X Nat
  <2>1. a.endTime \in Nat
    BY DEF AuctionType
  <2> QED
    BY <2>1 DEF TypeOK, SetAuction, InsertIntoByTimeIndex
<1> QED
  BY <1>2, <1>3, <1>5, <1>6, <1>7

\* DeleteAuction removes one auction and its index entry.
LEMMA DeleteAuctionStep ==
    ASSUME TypeOK, IndexConsistent, NEW id \in DOMAIN auctions, DeleteAuction(id)
    PROVE  /\ DOMAIN auctions' = DOMAIN auctions \ {id}
           /\ \A i \in DOMAIN auctions' : auctions'[i] = auctions[i]
           /\ auctions' \in [DOMAIN auctions' -> AuctionType]
           /\ DOMAIN auctions' \subseteq Nat
           /\ IndexConsistent'
           /\ byTime' \subseteq Nat \X Nat
<1>1. auctions' = Drop(auctions, {id}) /\ byTime' = byTime \ {<<auctions[id].endTime, id>>}
  BY DEF DeleteAuction
<1>2. DOMAIN auctions' = DOMAIN auctions \ {id}
  BY <1>1 DEF Drop
<1>3. \A i \in DOMAIN auctions' : auctions'[i] = auctions[i]
  BY <1>1 DEF Drop
<1>4. auctions' \in [DOMAIN auctions' -> AuctionType] /\ DOMAIN auctions' \subseteq Nat
  <2>1. auctions' = [i \in DOMAIN auctions' |-> auctions'[i]]
    BY <1>1 DEF Drop
  <2>2. \A i \in DOMAIN auctions' : auctions'[i] \in AuctionType
    BY <1>2, <1>3 DEF TypeOK
  <2> QED
    BY <1>2, <2>1, <2>2 DEF TypeOK
<1>5. IndexConsistent'
  <2>1. byTime = {<<auctions[i].endTime, i>> : i \in DOMAIN auctions}
    BY DEF IndexConsistent
  <2>2. ASSUME NEW e \in byTime'
        PROVE  e \in {<<auctions'[i].endTime, i>> : i \in DOMAIN auctions'}
    <3>1. PICK i \in DOMAIN auctions : e = <<auctions[i].endTime, i>>
      BY <1>1, <2>1
    <3>2. i # id
      BY <1>1, <3>1
    <3> QED
      BY <1>2, <1>3, <3>1, <3>2
  <2>3. ASSUME NEW i \in DOMAIN auctions'
        PROVE  <<auctions'[i].endTime, i>> \in byTime'
    <3>1. i \in DOMAIN auctions /\ i # id /\ auctions'[i] = auctions[i]
      BY <1>2, <1>3
    <3>2. <<auctions[i].endTime, i>> \in byTime
      BY <2>1, <3>1
    <3>3. <<auctions[i].endTime, i>> # <<auctions[id].endTime, id>>
      BY <3>1
    <3> QED
      BY <1>1, <3>1, <3>2, <3>3
  <2> QED
    BY <2>2, <2>3 DEF IndexConsistent
<1> QED
  BY <1>1, <1>2, <1>3, <1>4, <1>5 DEF TypeOK

(***************************************************************************)
(* Bids.                                                                   *)
(***************************************************************************)
\* What a bid does to the clock: the end is not in the past and not after the
\* latest end, which only the first bid sets.
LEMMA WithBidStep ==
    ASSUME TypeOK, NEW a \in AuctionType, NEW bidder \in User, NEW duration \in Nat,
           a.received => now <= a.maxEndTime,
           NEW b, b = WithBid(a, bidder, duration)
    PROVE  /\ b \in AuctionType
           /\ b.offer = a.offer /\ b.lot = a.lot /\ b.bid = a.bid /\ b.debt = a.debt
           /\ b.bidder = bidder /\ b.received
           /\ b.endTime <= b.maxEndTime /\ now <= b.endTime
           /\ a.received => b.maxEndTime = a.maxEndTime
<1>1. now \in Nat /\ params.MaxAuctionDuration \in Nat
  BY DEF TypeOK, KeyValid
<1>2. a.maxEndTime \in Nat
  BY DEF AuctionType
<1>3. MaxEndTime(a) \in Nat /\ now <= MaxEndTime(a)
  BY <1>1, <1>2 DEF MaxEndTime
<1>4. /\ earliestTime(now + duration, MaxEndTime(a)) \in Nat
      /\ earliestTime(now + duration, MaxEndTime(a)) <= MaxEndTime(a)
      /\ now <= earliestTime(now + duration, MaxEndTime(a))
  BY <1>1, <1>3 DEF earliestTime
<1>5. b = [a EXCEPT !.bidder = bidder, !.received = TRUE, !.maxEndTime = MaxEndTime(a),
                    !.endTime = earliestTime(now + duration, MaxEndTime(a))]
  BY DEF WithBid
<1>6. b \in AuctionType
  <2>1. \A m \in Nat, e \in Nat :
           [a EXCEPT !.bidder = bidder, !.received = TRUE, !.maxEndTime = m, !.endTime = e] \in AuctionType
    BY DEF AuctionType
  <2> QED
    BY <1>3, <1>4, <1>5, <2>1
<1>7. /\ b.offer = a.offer /\ b.lot = a.lot /\ b.bid = a.bid /\ b.debt = a.debt
      /\ b.bidder = bidder /\ b.received
      /\ b.endTime = earliestTime(now + duration, MaxEndTime(a)) /\ b.maxEndTime = MaxEndTime(a)
  BY <1>5 DEF AuctionType
<1> QED
  BY <1>4, <1>6, <1>7 DEF MaxEndTime

\* What every bid achieves.
BidDone(a, b) ==
    /\ b \in AuctionType
    /\ Improves(a, b) /\ AuctionInv(b) /\ DebtInv(b)
    /\ b.received /\ now <= b.endTime

\* The durations and rates of well-typed parameters.
LEMMA ParamsType ==
    ASSUME TypeOK
    PROVE  /\ params.ForwardBidDuration \in Nat /\ params.ReverseBidDuration \in Nat
           /\ params.IncrementSurplus \in Rate /\ params.IncrementDebt \in Rate
           /\ params.IncrementCollateral \in Rate
BY DEF TypeOK, KeyValid

\* The terms of a stored auction.
LEMMA StoredAuction ==
    ASSUME IInv, NEW id \in DOMAIN auctions
    PROVE  LET a == auctions[id]
               o == a.offer
           IN  /\ id \in Nat
               /\ a \in AuctionType /\ o \in Offer /\ OfferValid(o)
               /\ a.lot \in Nat /\ a.bid \in Nat /\ a.debt \in Nat
               /\ a.endTime \in Nat /\ a.maxEndTime \in Nat
               /\ o.initiator \in Seller
               /\ o.lotDenom \in Denom /\ o.bidDenom \in Denom /\ o.debtDenom \in Denom
               /\ o.lot \in Nat /\ o.bid \in Nat /\ o.maxBid \in Nat /\ o.debt \in Nat
               /\ o.type \in {"surplus", "debt", "collateral"}
               /\ a.bidder \in Account /\ WeightsValid(o.returns)
               /\ AuctionInv(a) /\ DebtInv(a) /\ id < nextID
<1> DEFINE a == auctions[id]
           o == a.offer
<1>1. id \in Nat /\ a \in AuctionType
  BY DEF IInv, TypeOK
<1>2. o \in Offer
  BY <1>1 DEF AuctionType
<1>3. OfferValid(o)
  BY <1>2, InputAssumption
<1>4. o \in OfferType /\ WeightsValid(o.returns)
  BY <1>3 DEF OfferValid
<1>5. AuctionInv(a) /\ DebtInv(a) /\ id < nextID
  BY DEF IInv, StoreInv
<1>6. /\ o.initiator \in Seller
      /\ o.lotDenom \in Denom /\ o.bidDenom \in Denom /\ o.debtDenom \in Denom
      /\ o.lot \in Nat /\ o.bid \in Nat /\ o.maxBid \in Nat /\ o.debt \in Nat
      /\ o.type \in {"surplus", "debt", "collateral"}
  BY <1>4 DEF OfferType
<1>7. /\ a.lot \in Nat /\ a.bid \in Nat /\ a.debt \in Nat
      /\ a.endTime \in Nat /\ a.maxEndTime \in Nat /\ a.bidder \in Account
  BY <1>1 DEF AuctionType, Account
<1> QED
  BY <1>1, <1>2, <1>3, <1>4, <1>5, <1>6, <1>7

\* While bids are taken, the latest end of an auction that has one is not past.
LEMMA OpenEnd ==
    ASSUME IInv, phase = "deliver", NEW id \in DOMAIN auctions
    PROVE  now <= auctions[id].maxEndTime
<1>1. now <= auctions[id].endTime
  BY DEF IInv, NoneOverdue
<1>2. auctions[id].endTime <= auctions[id].maxEndTime
  BY StoredAuction DEF AuctionInv
<1>3. now \in Nat /\ auctions[id].endTime \in Nat /\ auctions[id].maxEndTime \in Nat
  BY StoredAuction DEF IInv, TypeOK
<1> QED
  BY <1>1, <1>2, <1>3

LEMMA SurplusBidDone ==
    ASSUME IInv, phase = "deliver", NEW id \in DOMAIN auctions, NEW bidder \in User,
           NEW bid \in Nat, PlaceBidSurplus(id, bidder, bid)
    PROVE  \E b : BidDone(auctions[id], b) /\ SetAuction(id, b)
<1> DEFINE a == auctions[id]
           c == [a EXCEPT !.bid = bid]
           b == WithBid(c, bidder, params.ForwardBidDuration)
<1>1. a.offer.type = "surplus" /\ SetAuction(id, b)
      /\ bid >= a.bid + Increment(a.bid, params.IncrementSurplus)
  BY DEF PlaceBidSurplus
<1>2. /\ a \in AuctionType /\ a.bid \in Nat /\ a.lot \in Nat /\ a.debt \in Nat
      /\ a.offer.debt \in Nat /\ OfferValid(a.offer) /\ AuctionInv(a) /\ DebtInv(a)
  BY StoredAuction
<1>3. bid > a.bid
  <2>1. Increment(a.bid, params.IncrementSurplus) \in Nat
        /\ Increment(a.bid, params.IncrementSurplus) >= 1
    BY <1>2, ParamsType, IncrementPositive DEF IInv
  <2> QED
    BY <1>1, <1>2, <2>1
<1>4. /\ c \in AuctionType /\ c.offer = a.offer /\ c.lot = a.lot /\ c.bid = bid /\ c.debt = a.debt
      /\ c.received = a.received /\ c.maxEndTime = a.maxEndTime
  BY <1>2 DEF AuctionType
<1>5. /\ b \in AuctionType
      /\ b.offer = a.offer /\ b.lot = a.lot /\ b.bid = bid /\ b.debt = a.debt
      /\ b.bidder = bidder /\ b.received
      /\ b.endTime <= b.maxEndTime /\ now <= b.endTime
      /\ a.received => b.maxEndTime = a.maxEndTime
  <2>1. c.received => now <= c.maxEndTime
    BY <1>4, OpenEnd
  <2>2. params.ForwardBidDuration \in Nat /\ TypeOK
    BY ParamsType DEF IInv
  <2> HIDE DEF c
  <2> QED
    BY <1>4, <2>1, <2>2, WithBidStep
<1> HIDE DEF b, c
<1>6. DebtInv(b)
  BY <1>1, <1>2, <1>5 DEF DebtInv, MaxInt, OfferValid
<1>7. AuctionInv(b)
  BY <1>1, <1>5 DEF AuctionInv
<1>8. Improves(a, b)
  BY <1>1, <1>2, <1>3, <1>5 DEF Improves
<1> QED
  BY <1>1, <1>5, <1>6, <1>7, <1>8 DEF BidDone

LEMMA ForwardBidDone ==
    ASSUME IInv, phase = "deliver", NEW id \in DOMAIN auctions, NEW bidder \in User,
           NEW bid \in Nat, PlaceForwardBidCollateral(id, bidder, bid)
    PROVE  \E b : BidDone(auctions[id], b) /\ SetAuction(id, b)
<1> DEFINE a == auctions[id]
           returned == debtToReturn(a, bid - a.bid)
           c == [a EXCEPT !.bid = bid, !.debt = @ - returned]
           duration == IF IsReversePhase(c) THEN params.ReverseBidDuration
                       ELSE params.ForwardBidDuration
           b == WithBid(c, bidder, duration)
<1>1. /\ a.offer.type = "collateral" /\ ~IsReversePhase(a)
      /\ bid >= minNewBid(a) /\ bid <= a.offer.maxBid /\ SetAuction(id, b)
  BY DEF PlaceForwardBidCollateral
<1>2. /\ a \in AuctionType /\ a.bid \in Nat /\ a.lot \in Nat /\ a.debt \in Nat
      /\ a.offer.debt \in Nat /\ a.offer.maxBid \in Nat /\ AuctionInv(a) /\ DebtInv(a)
  BY StoredAuction
<1>3. bid > a.bid
  <2>1. /\ Increment(a.bid, params.IncrementCollateral) \in Nat
        /\ Increment(a.bid, params.IncrementCollateral) >= 1
    BY <1>2, ParamsType, IncrementPositive DEF IInv
  <2>2. a.bid < a.offer.maxBid
    BY <1>1, <1>2 DEF IsReversePhase, AuctionInv
  <2> QED
    BY <1>1, <1>2, <2>1, <2>2 DEF minNewBid, MinInt
<1>4. returned \in Nat /\ returned <= a.debt /\ returned = MinInt(bid - a.bid, a.debt)
  BY <1>2, <1>3 DEF debtToReturn, MinInt
<1>5. a.debt - returned \in Nat
  BY <1>2, <1>4
<1>6. /\ c \in AuctionType /\ c.offer = a.offer /\ c.lot = a.lot /\ c.bid = bid
      /\ c.debt = a.debt - returned
      /\ c.received = a.received /\ c.maxEndTime = a.maxEndTime
  <2>1. \A n \in Nat : /\ [a EXCEPT !.bid = bid, !.debt = n] \in AuctionType
                       /\ [a EXCEPT !.bid = bid, !.debt = n].offer = a.offer
                       /\ [a EXCEPT !.bid = bid, !.debt = n].lot = a.lot
                       /\ [a EXCEPT !.bid = bid, !.debt = n].bid = bid
                       /\ [a EXCEPT !.bid = bid, !.debt = n].debt = n
                       /\ [a EXCEPT !.bid = bid, !.debt = n].received = a.received
                       /\ [a EXCEPT !.bid = bid, !.debt = n].maxEndTime = a.maxEndTime
    BY <1>2 DEF AuctionType
  <2> HIDE DEF returned
  <2> QED
    BY <1>5, <2>1
<1>7. duration \in Nat /\ TypeOK
  BY ParamsType DEF IInv
<1>8. /\ b \in AuctionType
      /\ b.offer = a.offer /\ b.lot = a.lot /\ b.bid = bid /\ b.debt = a.debt - returned
      /\ b.bidder = bidder /\ b.received
      /\ b.endTime <= b.maxEndTime /\ now <= b.endTime
      /\ a.received => b.maxEndTime = a.maxEndTime
  <2>1. c.received => now <= c.maxEndTime
    BY <1>6, OpenEnd
  <2> HIDE DEF c, duration, returned
  <2> QED
    BY <1>6, <1>7, <2>1, WithBidStep
<1> HIDE DEF b, c, duration, returned
<1>9. DebtInv(b)
  BY <1>1, <1>2, <1>3, <1>4, <1>8 DEF DebtInv, MaxInt, MinInt
<1>10. AuctionInv(b)
  BY <1>1, <1>8 DEF AuctionInv
<1>11. Improves(a, b)
  BY <1>1, <1>2, <1>3, <1>4, <1>5, <1>8 DEF Improves
<1> QED
  BY <1>1, <1>8, <1>9, <1>10, <1>11 DEF BidDone

\* A reverse bid always cuts the lot.
LEMMA CutSmaller ==
    ASSUME NEW old \in Nat, NEW lot \in Nat, NEW rate \in Rate, lot <= old - Increment(old, rate)
    PROVE  lot < old
<1>1. Increment(old, rate) \in Nat /\ Increment(old, rate) >= 1
  BY IncrementPositive
<1> QED
  BY <1>1

LEMMA ReverseBidDone ==
    ASSUME IInv, phase = "deliver", NEW id \in DOMAIN auctions, NEW bidder \in User,
           NEW lot \in Nat, PlaceReverseBidCollateral(id, bidder, lot)
    PROVE  \E b : BidDone(auctions[id], b) /\ SetAuction(id, b)
<1> DEFINE a == auctions[id]
           c == [a EXCEPT !.lot = lot]
           b == WithBid(c, bidder, params.ReverseBidDuration)
<1>1. /\ a.offer.type = "collateral" /\ IsReversePhase(a) /\ SetAuction(id, b)
      /\ lot <= a.lot - Increment(a.lot, params.IncrementCollateral)
  BY DEF PlaceReverseBidCollateral
<1>2. /\ a \in AuctionType /\ a.bid \in Nat /\ a.lot \in Nat /\ a.debt \in Nat
      /\ a.offer.debt \in Nat /\ a.offer.maxBid \in Nat /\ AuctionInv(a) /\ DebtInv(a)
  BY StoredAuction
<1>3. params.ReverseBidDuration \in Nat /\ params.IncrementCollateral \in Rate /\ TypeOK
  BY ParamsType DEF IInv
<1>4. lot < a.lot
  BY <1>1, <1>2, <1>3, CutSmaller
<1>5. /\ c \in AuctionType /\ c.offer = a.offer /\ c.lot = lot /\ c.bid = a.bid /\ c.debt = a.debt
      /\ c.received = a.received /\ c.maxEndTime = a.maxEndTime
  BY <1>2 DEF AuctionType
<1>6. c.received => now <= c.maxEndTime
  BY <1>5, OpenEnd
<1>7. /\ b \in AuctionType
      /\ b.offer = a.offer /\ b.lot = lot /\ b.bid = a.bid /\ b.debt = a.debt
      /\ b.bidder = bidder /\ b.received
      /\ b.endTime <= b.maxEndTime /\ now <= b.endTime
      /\ a.received => b.maxEndTime = a.maxEndTime
  <2> HIDE DEF c
  <2> QED
    BY <1>3, <1>5, <1>6, WithBidStep
<1> HIDE DEF b, c
<1>8. DebtInv(b)
  BY <1>1, <1>2, <1>7 DEF DebtInv
<1>9. AuctionInv(b)
  BY <1>1, <1>2, <1>7 DEF AuctionInv
<1>10. Improves(a, b)
  BY <1>1, <1>2, <1>4, <1>7 DEF Improves, IsReversePhase
<1> QED
  BY <1>1, <1>7, <1>8, <1>9, <1>10 DEF BidDone

LEMMA DebtBidDone ==
    ASSUME IInv, phase = "deliver", NEW id \in DOMAIN auctions, NEW bidder \in User,
           NEW lot \in Nat, PlaceBidDebt(id, bidder, lot)
    PROVE  \E b : BidDone(auctions[id], b) /\ SetAuction(id, b)
<1> DEFINE a == auctions[id]
           returned == IF a.bidder = a.offer.initiator THEN debtToReturn(a, a.bid) ELSE 0
           c == [a EXCEPT !.lot = lot, !.debt = @ - returned]
           b == WithBid(c, bidder, params.ForwardBidDuration)
<1>1. /\ a.offer.type = "debt" /\ SetAuction(id, b)
      /\ lot <= a.lot - Increment(a.lot, params.IncrementDebt)
  BY DEF PlaceBidDebt
<1>2. /\ a \in AuctionType /\ a.bid \in Nat /\ a.lot \in Nat /\ a.debt \in Nat
      /\ a.offer.debt \in Nat /\ a.offer.initiator \in Seller /\ AuctionInv(a) /\ DebtInv(a)
  BY StoredAuction
<1>3. a.received <=> a.bidder # a.offer.initiator
  <2>1. a.received \in BOOLEAN
    BY <1>2 DEF AuctionType
  <2>2. a.received => a.bidder # a.offer.initiator
    BY <1>2, AccountAssumption DEF AuctionInv
  <2>3. ~a.received => a.bidder = a.offer.initiator
    BY <1>1, <1>2 DEF AuctionInv
  <2> QED
    BY <2>1, <2>2, <2>3
<1>4. returned \in Nat /\ returned <= a.debt
      /\ returned = IF a.received THEN 0 ELSE MinInt(a.bid, a.debt)
  BY <1>2, <1>3 DEF debtToReturn, MinInt
<1>5. params.ForwardBidDuration \in Nat /\ params.IncrementDebt \in Rate /\ TypeOK
  BY ParamsType DEF IInv
<1>6. lot < a.lot /\ a.debt - returned \in Nat
  <2>1. lot < a.lot
    BY <1>1, <1>2, <1>5, CutSmaller
  <2>2. a.debt - returned \in Nat
    BY <1>2, <1>4
  <2> QED
    BY <2>1, <2>2
<1>10. /\ c \in AuctionType /\ c.offer = a.offer /\ c.lot = lot /\ c.bid = a.bid
       /\ c.debt = a.debt - returned
       /\ c.received = a.received /\ c.maxEndTime = a.maxEndTime
  <2>1. \A n \in Nat : /\ [a EXCEPT !.lot = lot, !.debt = n] \in AuctionType
                       /\ [a EXCEPT !.lot = lot, !.debt = n].offer = a.offer
                       /\ [a EXCEPT !.lot = lot, !.debt = n].lot = lot
                       /\ [a EXCEPT !.lot = lot, !.debt = n].bid = a.bid
                       /\ [a EXCEPT !.lot = lot, !.debt = n].debt = n
                       /\ [a EXCEPT !.lot = lot, !.debt = n].received = a.received
                       /\ [a EXCEPT !.lot = lot, !.debt = n].maxEndTime = a.maxEndTime
    BY <1>2 DEF AuctionType
  <2> HIDE DEF returned
  <2> QED
    BY <1>6, <2>1
<1>11. /\ b \in AuctionType
       /\ b.offer = a.offer /\ b.lot = lot /\ b.bid = a.bid /\ b.debt = a.debt - returned
       /\ b.bidder = bidder /\ b.received
       /\ b.endTime <= b.maxEndTime /\ now <= b.endTime
       /\ a.received => b.maxEndTime = a.maxEndTime
  <2>1. c.received => now <= c.maxEndTime
    BY <1>10, OpenEnd
  <2> HIDE DEF c, returned
  <2> QED
    BY <1>5, <1>10, <2>1, WithBidStep
<1> HIDE DEF b, c, returned
<1>7. DebtInv(b)
  BY <1>1, <1>2, <1>4, <1>6, <1>11 DEF DebtInv, MaxInt, MinInt
<1>8. AuctionInv(b)
  BY <1>1, <1>2, <1>11 DEF AuctionInv
<1>9. Improves(a, b)
  BY <1>1, <1>2, <1>4, <1>6, <1>11 DEF Improves, IsReversePhase
<1> QED
  BY <1>1, <1>11, <1>7, <1>8, <1>9 DEF BidDone

(***************************************************************************)
(* Balances stay natural numbers.                                          *)
(***************************************************************************)
LEMMA DebitType ==
    ASSUME NEW b \in BankType, NEW from \in Account, NEW d \in Denom, NEW n \in Nat,
           CanPay(b, from, d, n)
    PROVE  Debit(b, from, d, n) \in BankType
BY DEF CanPay, Debit, BankType

\* The accounts that take part in an auction.
LEMMA Parties ==
    /\ Macc \in Account /\ User \subseteq Account /\ Seller \subseteq Account
    /\ \A u \in User : u # Macc /\ \A s \in Seller : u # s
    /\ \A s \in Seller : s # Macc
BY AccountAssumption DEF Account

LEMMA RepaidType ==
    ASSUME IInv, NEW id \in DOMAIN auctions, NEW bidder \in User, CanRepay(auctions[id], bidder)
    PROVE  Repaid(auctions[id], bidder) \in BankType
<1> DEFINE a == auctions[id]
           d == a.offer.bidDenom
<1>1. bank \in BankType
  BY DEF IInv, TypeOK, BankType
<1>2. a.bid \in Nat /\ d \in Denom /\ a.bidder \in Account
  BY StoredAuction
<1>3. bidder \in Account /\ Macc \in Account /\ bidder # Macc
  BY Parties
<1>4. CASE bidder # a.bidder
  <2>1. CanPay(bank, bidder, d, a.bid)
    BY <1>4 DEF CanRepay
  <2>2. Send(bank, bidder, Macc, d, a.bid) \in BankType
    BY <1>1, <1>2, <1>3, <2>1, SendType
  <2>3. CanPay(Send(bank, bidder, Macc, d, a.bid), Macc, d, a.bid)
    BY <1>1, <1>2, <1>3, <2>1, PassOn
  <2>4. Send(Send(bank, bidder, Macc, d, a.bid), Macc, a.bidder, d, a.bid) \in BankType
    BY <1>2, <1>3, <2>2, <2>3, SendType
  <2> QED
    BY <1>4, <2>4 DEF Repaid
<1>5. CASE bidder = a.bidder
  BY <1>1, <1>5 DEF Repaid
<1> QED
  BY <1>4, <1>5

LEMMA SurplusBank ==
    ASSUME IInv, NEW id \in DOMAIN auctions, NEW bidder \in User, NEW bid \in Nat,
           PlaceBidSurplus(id, bidder, bid)
    PROVE  bank' \in BankType
<1> DEFINE a == auctions[id]
           o == a.offer
           repaid == Repaid(a, bidder)
           n == bid - a.bid
           received == Send(repaid, bidder, o.initiator, o.bidDenom, n)
<1>1. /\ bid >= a.bid + Increment(a.bid, params.IncrementSurplus)
      /\ CanRepay(a, bidder) /\ CanPay(repaid, bidder, o.bidDenom, n)
      /\ bank' = Debit(received, o.initiator, o.bidDenom, n)
  BY DEF PlaceBidSurplus
<1>2. a.bid \in Nat /\ o.bidDenom \in Denom /\ o.initiator \in Seller
  BY StoredAuction
<1>3. n \in Nat
  <2>1. Increment(a.bid, params.IncrementSurplus) \in Nat
    BY <1>2, ParamsType, IncrementPositive DEF IInv
  <2> QED
    BY <1>1, <1>2, <2>1
<1>4. bidder \in Account /\ o.initiator \in Account /\ bidder # o.initiator
  BY <1>2, Parties
<1>5. repaid \in BankType
  BY <1>1, RepaidType
<1> HIDE DEF repaid, n
<1>6. received \in BankType
  BY <1>1, <1>2, <1>3, <1>4, <1>5, SendType
<1>7. CanPay(received, o.initiator, o.bidDenom, n)
  BY <1>1, <1>2, <1>3, <1>4, <1>5, PassOn
<1> HIDE DEF received
<1> QED
  BY <1>1, <1>2, <1>3, <1>4, <1>6, <1>7, DebitType

LEMMA ForwardBank ==
    ASSUME IInv, phase = "deliver", NEW id \in DOMAIN auctions, NEW bidder \in User, NEW bid \in Nat,
           PlaceForwardBidCollateral(id, bidder, bid)
    PROVE  bank' \in BankType
<1> DEFINE a == auctions[id]
           o == a.offer
           repaid == Repaid(a, bidder)
           n == bid - a.bid
           paid == Send(repaid, bidder, o.initiator, o.bidDenom, n)
           returned == debtToReturn(a, n)
<1>1. /\ ~IsReversePhase(a) /\ o.type = "collateral"
      /\ bid >= minNewBid(a)
      /\ CanRepay(a, bidder) /\ CanPay(repaid, bidder, o.bidDenom, n)
      /\ CanPay(paid, Macc, o.debtDenom, returned)
      /\ bank' = Send(paid, Macc, o.initiator, o.debtDenom, returned)
  BY DEF PlaceForwardBidCollateral
<1>2. /\ a.bid \in Nat /\ a.debt \in Nat /\ o.bidDenom \in Denom /\ o.debtDenom \in Denom
      /\ o.initiator \in Seller /\ o.maxBid \in Nat /\ AuctionInv(a)
  BY StoredAuction
<1>3. n \in Nat
  <2>1. Increment(a.bid, params.IncrementCollateral) \in Nat
    BY <1>2, ParamsType, IncrementPositive DEF IInv
  <2>2. a.bid <= o.maxBid
    BY <1>1, <1>2 DEF AuctionInv
  <2> QED
    BY <1>1, <1>2, <2>1, <2>2 DEF minNewBid, MinInt
<1>4. returned \in Nat
  BY <1>2, <1>3 DEF debtToReturn, MinInt
<1>5. bidder \in Account /\ o.initiator \in Account /\ Macc \in Account
  BY <1>2, Parties
<1>6. repaid \in BankType
  BY <1>1, RepaidType
<1> HIDE DEF repaid, n, returned
<1>7. paid \in BankType
  BY <1>1, <1>2, <1>3, <1>5, <1>6, SendType
<1> HIDE DEF paid
<1> QED
  BY <1>1, <1>2, <1>4, <1>5, <1>7, SendType

LEMMA ReverseBank ==
    ASSUME IInv, NEW id \in DOMAIN auctions, NEW bidder \in User, NEW lot \in Nat,
           PlaceReverseBidCollateral(id, bidder, lot)
    PROVE  bank' \in BankType
<1> DEFINE a == auctions[id]
           o == a.offer
           repaid == Repaid(a, bidder)
<1>1. CanRepay(a, bidder) /\ lot <= a.lot - Increment(a.lot, params.IncrementCollateral)
  BY DEF PlaceReverseBidCollateral
<1>2. PICK payouts \in splitIntIntoWeightedBuckets(a.lot - lot, o.returns) :
         /\ CanPay(repaid, Macc, o.lotDenom, totalInts(payouts))
         /\ bank' = PayOut(repaid, o.lotDenom, payouts)
  BY DEF PlaceReverseBidCollateral
<1>3. a.lot \in Nat /\ o.lotDenom \in Denom /\ WeightsValid(o.returns)
  BY StoredAuction
<1>4. a.lot - lot \in Nat
  <2>1. Increment(a.lot, params.IncrementCollateral) \in Nat
    BY <1>3, ParamsType, IncrementPositive DEF IInv
  <2> QED
    BY <1>1, <1>3, <2>1
<1>5. payouts \in [DOMAIN o.returns -> Nat]
  BY <1>2, <1>3, <1>4, SplitType
<1>6. repaid \in BankType
  BY <1>1, RepaidType
<1> HIDE DEF repaid
<1> QED
  BY <1>2, <1>3, <1>5, <1>6, PayOutType

LEMMA DebtBank ==
    ASSUME IInv, NEW id \in DOMAIN auctions, NEW bidder \in User, NEW lot \in Nat,
           PlaceBidDebt(id, bidder, lot)
    PROVE  bank' \in BankType
<1> DEFINE a == auctions[id]
           o == a.offer
           repaid == Repaid(a, bidder)
           returned == IF a.bidder = o.initiator THEN debtToReturn(a, a.bid) ELSE 0
<1>1. /\ CanRepay(a, bidder) /\ CanPay(repaid, Macc, o.debtDenom, returned)
      /\ bank' = Send(repaid, Macc, o.initiator, o.debtDenom, returned)
  BY DEF PlaceBidDebt
<1>2. a.bid \in Nat /\ a.debt \in Nat /\ o.debtDenom \in Denom /\ o.initiator \in Seller
  BY StoredAuction
<1>3. returned \in Nat
  BY <1>2 DEF debtToReturn, MinInt
<1>4. o.initiator \in Account /\ Macc \in Account
  BY <1>2, Parties
<1>5. repaid \in BankType
  BY <1>1, RepaidType
<1> HIDE DEF repaid, returned
<1> QED
  BY <1>1, <1>2, <1>3, <1>4, <1>5, SendType

LEMMA StartBank ==
    ASSUME IInv, NEW o \in Offer, Start(o)
    PROVE  bank' \in BankType
<1>1. OfferValid(o)
  BY InputAssumption
<1>2. /\ o.initiator \in Seller /\ o.lotDenom \in Denom /\ o.debtDenom \in Denom
      /\ o.lot \in Nat /\ o.debt \in Nat
  BY <1>1 DEF OfferValid, OfferType
<1>3. bank \in BankType /\ o.initiator \in Account /\ Macc \in Account
  BY <1>2, Parties DEF IInv, TypeOK, BankType
<1>4. CASE StartSurplusAuction(o)
  <2>1. /\ CanPay(bank, o.initiator, o.lotDenom, o.lot)
        /\ bank' = Send(bank, o.initiator, Macc, o.lotDenom, o.lot)
    BY <1>4 DEF StartSurplusAuction
  <2> QED
    BY <1>2, <1>3, <2>1, SendType
<1>5. CASE StartDebtAuction(o)
  <2>1. /\ CanPay(bank, o.initiator, o.debtDenom, o.debt)
        /\ bank' = Send(bank, o.initiator, Macc, o.debtDenom, o.debt)
    BY <1>5 DEF StartDebtAuction
  <2> QED
    BY <1>2, <1>3, <2>1, SendType
<1>6. CASE StartCollateralAuction(o)
  <2> DEFINE escrowed == Send(bank, o.initiator, Macc, o.lotDenom, o.lot)
  <2>1. /\ CanPay(bank, o.initiator, o.lotDenom, o.lot)
        /\ CanPay(escrowed, o.initiator, o.debtDenom, o.debt)
        /\ bank' = Send(escrowed, o.initiator, Macc, o.debtDenom, o.debt)
    BY <1>6 DEF StartCollateralAuction
  <2>2. escrowed \in BankType
    BY <1>2, <1>3, <2>1, SendType
  <2> HIDE DEF escrowed
  <2> QED
    BY <1>2, <1>3, <2>1, <2>2, SendType
<1> QED
  BY <1>4, <1>5, <1>6 DEF Start

LEMMA PayoutBank ==
    ASSUME IInv, NEW id \in DOMAIN auctions, CanPayout(auctions[id])
    PROVE  Payout(auctions[id]) \in BankType
<1> DEFINE a == auctions[id]
           o == a.offer
<1>1. /\ o.initiator \in Seller /\ o.lotDenom \in Denom /\ o.debtDenom \in Denom
      /\ a.lot \in Nat /\ a.debt \in Nat /\ a.bidder \in Account
      /\ o.type \in {"surplus", "debt", "collateral"}
  BY StoredAuction
<1>2. bank \in BankType /\ o.initiator \in Account /\ Macc \in Account
  BY <1>1, Parties DEF IInv, TypeOK, BankType
<1>3. CASE o.type = "surplus"
  <2>1. CanPay(bank, Macc, o.lotDenom, a.lot)
    BY <1>3 DEF CanPayout
  <2>2. PayoutSurplusAuction(a) \in BankType
    BY <1>1, <1>2, <2>1, SendType DEF PayoutSurplusAuction
  <2> QED
    BY <1>3, <2>2 DEF Payout
<1>4. CASE o.type = "debt"
  <2> DEFINE minted == Credit(bank, o.initiator, o.lotDenom, a.lot)
  <2>1. CanPay(LotMinted(a), Macc, o.debtDenom, a.debt)
    BY <1>4 DEF CanPayout
  <2>2. minted \in BankType
    BY <1>1, <1>2, CreditType
  <2>3. CanPay(minted, o.initiator, o.lotDenom, a.lot)
    BY <1>1, <1>2 DEF CanPay, Credit, BankType
  <2>4. LotMinted(a) \in BankType
    <3>1. LotMinted(a) = Send(minted, o.initiator, a.bidder, o.lotDenom, a.lot)
      BY DEF LotMinted
    <3> HIDE DEF minted
    <3> QED
      BY <1>1, <1>2, <2>2, <2>3, <3>1, SendType
  <2>5. PayoutDebtAuction(a) \in BankType
    BY <1>1, <1>2, <2>1, <2>4, SendType DEF PayoutDebtAuction
  <2> QED
    BY <1>4, <2>5 DEF Payout
<1>5. CASE o.type = "collateral"
  <2>1. /\ CanPay(bank, Macc, o.lotDenom, a.lot)
        /\ CanPay(PayoutSurplusAuction(a), Macc, o.debtDenom, a.debt)
    BY <1>5 DEF CanPayout
  <2>2. PayoutSurplusAuction(a) \in BankType
    BY <1>1, <1>2, <2>1, SendType DEF PayoutSurplusAuction
  <2>3. PayoutCollateralAuction(a) \in BankType
    BY <1>1, <1>2, <2>1, <2>2, SendType DEF PayoutCollateralAuction
  <2> QED
    BY <1>5, <2>3 DEF Payout
<1> QED
  BY <1>1, <1>3, <1>4, <1>5


(***************************************************************************)
(* The steps.  Every one keeps the invariant and does to the store what    *)
(* the action properties allow.                                            *)
(***************************************************************************)
ImproveStep ==
    \A id \in DOMAIN auctions \cap DOMAIN auctions' : Improves(auctions[id], auctions'[id])

CloseStep ==
    /\ \A id \in DOMAIN auctions \ DOMAIN auctions' : phase = "begin" /\ auctions[id].endTime <= now
    /\ \A id \in DOMAIN auctions' \ DOMAIN auctions : id >= nextID /\ id < nextID'

StepDone == IInv' /\ ImproveStep /\ CloseStep

LEMMA SelfImproves ==
    ASSUME IInv, NEW id \in DOMAIN auctions
    PROVE  Improves(auctions[id], auctions[id])
<1>1. auctions[id].lot \in Nat /\ auctions[id].bid \in Nat /\ auctions[id].debt \in Nat
  BY StoredAuction
<1> QED
  BY <1>1 DEF Improves

\* A step that leaves the store and its index alone.
LEMMA StoreUnchanged ==
    ASSUME IInv, UNCHANGED <<auctions, byTime, nextID>>, TypeOK', now' <= MaxTime, NoneOverdue'
    PROVE  StepDone
<1>1. IndexConsistent'
  BY DEF IInv, IndexConsistent
<1>2. StoreInv'
  BY DEF IInv, StoreInv, AuctionInv, DebtInv
<1>3. ImproveStep
  BY SelfImproves DEF ImproveStep
<1>4. CloseStep
  BY DEF CloseStep
<1> QED
  BY <1>1, <1>2, <1>3, <1>4 DEF StepDone, IInv

LEMMA StartStep ==
    ASSUME IInv, NEW o \in Offer, Start(o)
    PROVE  StepDone
<1> DEFINE a == NewAuction(o)
<1>1. /\ phase = "deliver" /\ SetAuction(nextID, a) /\ nextID' = nextID + 1
      /\ UNCHANGED <<now, phase, params>>
  BY DEF Start, StoreNewAuction
<1>2. TypeOK /\ nextID \in Nat \ {0} /\ now \in Nat
  BY DEF IInv, TypeOK
<1>3. OfferValid(o)
  BY InputAssumption
<1>4. o \in OfferType /\ (o.type # "debt" => o.bid = 0)
  BY <1>3 DEF OfferValid
<1>5. /\ o.initiator \in Seller /\ o.lot \in Nat /\ o.bid \in Nat /\ o.debt \in Nat /\ o.maxBid \in Nat
      /\ o.type \in {"surplus", "debt", "collateral"}
  BY <1>4 DEF OfferType
<1>6. a \in AuctionType
  BY <1>5, FutureAssumption DEF NewAuction, AuctionType
<1>7. /\ a.offer = o /\ a.bid = o.bid /\ a.debt = o.debt /\ ~a.received
      /\ a.endTime = DistantFuture /\ a.maxEndTime = DistantFuture
      /\ a.bidder = IF o.type = "debt" THEN o.initiator ELSE NoBidder
  BY DEF NewAuction
<1>8. AuctionInv(a)
  BY <1>4, <1>5, <1>7, FutureAssumption DEF AuctionInv
<1>9. DebtInv(a)
  BY <1>4, <1>5, <1>7 DEF DebtInv, MaxInt
<1> HIDE DEF a
<1>10. /\ DOMAIN auctions' = DOMAIN auctions \cup {nextID}
       /\ auctions'[nextID] = a
       /\ \A i \in DOMAIN auctions \ {nextID} : auctions'[i] = auctions[i]
       /\ auctions' \in [DOMAIN auctions' -> AuctionType]
       /\ DOMAIN auctions' \subseteq Nat
       /\ IndexConsistent'
       /\ byTime' \subseteq Nat \X Nat
  BY <1>1, <1>2, <1>6, SetAuctionStep DEF IInv
<1>11. nextID \notin DOMAIN auctions /\ \A i \in DOMAIN auctions : i < nextID /\ i \in Nat
  BY <1>2 DEF IInv, StoreInv, TypeOK
<1>12. TypeOK'
  <2>1. bank' \in BankType
    BY StartBank
  <2> QED
    BY <1>1, <1>2, <1>10, <2>1 DEF TypeOK, BankType
<1>13. StoreInv'
  <2>1. \A i \in DOMAIN auctions : AuctionInv(auctions[i]) /\ DebtInv(auctions[i])
    BY DEF IInv, StoreInv
  <2>2. \A i \in DOMAIN auctions' : i < nextID' /\ AuctionInv(auctions'[i]) /\ DebtInv(auctions'[i])
    BY <1>1, <1>2, <1>8, <1>9, <1>10, <1>11, <2>1
  <2>3. now' <= MaxTime
    BY <1>1 DEF IInv, StoreInv
  <2> QED
    BY <2>2, <2>3 DEF StoreInv, AuctionInv, DebtInv
<1>14. NoneOverdue'
  <2>1. now <= DistantFuture
    BY <1>2, InputAssumption, FutureAssumption DEF IInv, StoreInv
  <2>2. \A i \in DOMAIN auctions : now <= auctions[i].endTime
    BY <1>1 DEF IInv, NoneOverdue
  <2>3. \A i \in DOMAIN auctions' : now <= auctions'[i].endTime
    BY <1>7, <1>10, <2>1, <2>2
  <2> QED
    BY <1>1, <2>3 DEF NoneOverdue
<1>15. ImproveStep
  BY <1>10, <1>11, SelfImproves DEF ImproveStep
<1>16. CloseStep
  BY <1>1, <1>2, <1>10 DEF CloseStep
<1> QED
  BY <1>10, <1>12, <1>13, <1>14, <1>15, <1>16 DEF StepDone, IInv

LEMMA BidStep ==
    ASSUME IInv, NEW id \in DOMAIN auctions, NEW bidder \in User, NEW amount \in Amount,
           PlaceBid(id, bidder, amount)
    PROVE  StepDone
<1>1. phase = "deliver" /\ UNCHANGED <<now, phase, params, nextID>>
  BY DEF PlaceBid
<1>2. amount \in Nat
  BY InputAssumption
<1>3. bank' \in BankType /\ \E b : BidDone(auctions[id], b) /\ SetAuction(id, b)
  <2>1. CASE PlaceBidSurplus(id, bidder, amount)
    BY <1>1, <1>2, <2>1, SurplusBank, SurplusBidDone
  <2>2. CASE PlaceForwardBidCollateral(id, bidder, amount)
    BY <1>1, <1>2, <2>2, ForwardBank, ForwardBidDone
  <2>3. CASE PlaceReverseBidCollateral(id, bidder, amount)
    BY <1>1, <1>2, <2>3, ReverseBank, ReverseBidDone
  <2>4. CASE PlaceBidDebt(id, bidder, amount)
    BY <1>1, <1>2, <2>4, DebtBank, DebtBidDone
  <2> QED
    BY <2>1, <2>2, <2>3, <2>4 DEF PlaceBid
<1>4. PICK b : BidDone(auctions[id], b) /\ SetAuction(id, b)
  BY <1>3
<1>5. /\ b \in AuctionType /\ Improves(auctions[id], b) /\ AuctionInv(b) /\ DebtInv(b)
      /\ now <= b.endTime
  BY <1>4 DEF BidDone
<1>6. /\ DOMAIN auctions' = DOMAIN auctions
      /\ auctions'[id] = b
      /\ \A i \in DOMAIN auctions \ {id} : auctions'[i] = auctions[i]
      /\ auctions' \in [DOMAIN auctions' -> AuctionType]
      /\ DOMAIN auctions' \subseteq Nat
      /\ IndexConsistent'
      /\ byTime' \subseteq Nat \X Nat
  <2>1. id \in Nat /\ TypeOK /\ IndexConsistent
    BY DEF IInv, TypeOK
  <2> QED
    BY <1>4, <1>5, <2>1, SetAuctionStep
<1>7. TypeOK'
  BY <1>1, <1>3, <1>6 DEF IInv, TypeOK, BankType
<1>8. StoreInv'
  <2>1. \A i \in DOMAIN auctions : i < nextID /\ AuctionInv(auctions[i]) /\ DebtInv(auctions[i])
    BY DEF IInv, StoreInv
  <2>2. \A i \in DOMAIN auctions' : i < nextID' /\ AuctionInv(auctions'[i]) /\ DebtInv(auctions'[i])
    BY <1>1, <1>5, <1>6, <2>1
  <2>3. now' <= MaxTime
    BY <1>1 DEF IInv, StoreInv
  <2> QED
    BY <2>2, <2>3 DEF StoreInv, AuctionInv, DebtInv
<1>9. NoneOverdue'
  <2>1. \A i \in DOMAIN auctions : now <= auctions[i].endTime
    BY <1>1 DEF IInv, NoneOverdue
  <2>2. \A i \in DOMAIN auctions' : now <= auctions'[i].endTime
    BY <1>5, <1>6, <2>1
  <2> QED
    BY <1>1, <2>2 DEF NoneOverdue
<1>10. ImproveStep
  BY <1>5, <1>6, SelfImproves DEF ImproveStep
<1>11. CloseStep
  BY <1>6 DEF CloseStep
<1> QED
  BY <1>6, <1>7, <1>8, <1>9, <1>10, <1>11 DEF StepDone, IInv


LEMMA CloseExpiredStep ==
    ASSUME IInv, CloseExpiredAuctions
    PROVE  StepDone
<1>1. phase = "begin" /\ UNCHANGED <<now, params, nextID>>
  BY DEF CloseExpiredAuctions
<1>2. PICK e \in Expired : CloseAuction(e[2])
  BY DEF CloseExpiredAuctions
<1> DEFINE id == e[2]
<1>3. id \in DOMAIN auctions
  BY <1>2 DEF Expired
<1> HIDE DEF id
<1>4. TypeOK /\ IndexConsistent
  BY DEF IInv
<1>5. CASE auctions[id].endTime <= now /\ CanPayout(auctions[id])
  <2>1. bank' = Payout(auctions[id]) /\ DeleteAuction(id) /\ phase' = phase
    BY <1>2, <1>5 DEF CloseAuction, id
  <2>2. bank' \in BankType
    BY <1>3, <1>5, <2>1, PayoutBank
  <2>3. /\ DOMAIN auctions' = DOMAIN auctions \ {id}
        /\ \A i \in DOMAIN auctions' : auctions'[i] = auctions[i]
        /\ auctions' \in [DOMAIN auctions' -> AuctionType]
        /\ DOMAIN auctions' \subseteq Nat
        /\ IndexConsistent'
        /\ byTime' \subseteq Nat \X Nat
    BY <1>3, <1>4, <2>1, DeleteAuctionStep
  <2>4. TypeOK'
    BY <1>1, <1>4, <2>1, <2>2, <2>3 DEF TypeOK, BankType
  <2>5. StoreInv'
    <3>1. \A i \in DOMAIN auctions : i < nextID /\ AuctionInv(auctions[i]) /\ DebtInv(auctions[i])
      BY DEF IInv, StoreInv
    <3>2. \A i \in DOMAIN auctions' : i < nextID' /\ AuctionInv(auctions'[i]) /\ DebtInv(auctions'[i])
      BY <1>1, <2>3, <3>1
    <3>3. now' <= MaxTime
      BY <1>1 DEF IInv, StoreInv
    <3> QED
      BY <3>2, <3>3 DEF StoreInv, AuctionInv, DebtInv
  <2>6. NoneOverdue'
    BY <1>1, <2>1 DEF NoneOverdue
  <2>7. ImproveStep
    BY <2>3, SelfImproves DEF ImproveStep
  <2>8. CloseStep
    BY <1>1, <1>5, <2>3 DEF CloseStep
  <2> QED
    BY <2>3, <2>4, <2>5, <2>6, <2>7, <2>8 DEF StepDone, IInv
<1>6. CASE ~(auctions[id].endTime <= now /\ CanPayout(auctions[id]))
  <2>1. phase' = "halted" /\ UNCHANGED <<auctions, byTime, bank>>
    BY <1>2, <1>6 DEF CloseAuction, id
  <2>2. TypeOK'
    BY <1>1, <1>4, <2>1 DEF TypeOK
  <2>3. NoneOverdue'
    BY <2>1 DEF NoneOverdue
  <2>4. now' <= MaxTime
    BY <1>1 DEF IInv, StoreInv
  <2> QED
    BY <1>1, <2>1, <2>2, <2>3, <2>4, StoreUnchanged
<1> QED
  BY <1>5, <1>6

\* When the iteration has nothing left to close, the exact index says that no
\* stored auction has reached its end.
LEMMA BeginBlockDoneStep ==
    ASSUME IInv, BeginBlockDone
    PROVE  StepDone
<1>1. /\ Expired = {} /\ phase' = "deliver"
      /\ UNCHANGED <<now, params, auctions, byTime, nextID, bank>>
  BY DEF BeginBlockDone
<1>2. TypeOK'
  BY <1>1 DEF IInv, TypeOK
<1>3. now' <= MaxTime
  BY <1>1 DEF IInv, StoreInv
<1>4. ASSUME NEW id \in DOMAIN auctions
      PROVE  now <= auctions[id].endTime
  <2>1. <<auctions[id].endTime, id>> \in byTime
    BY DEF IInv, IndexConsistent
  <2>2. ~(auctions[id].endTime <= now)
    BY <1>1, <2>1 DEF Expired
  <2>3. auctions[id].endTime \in Nat /\ now \in Nat
    BY StoredAuction DEF IInv, TypeOK
  <2> QED
    BY <2>2, <2>3
<1>5. NoneOverdue'
  BY <1>1, <1>4 DEF NoneOverdue
<1> QED
  BY <1>1, <1>2, <1>3, <1>5, StoreUnchanged

LEMMA NextBlockStep ==
    ASSUME IInv, NEW interval \in BlockInterval, NextBlock(interval)
    PROVE  StepDone
<1>1. /\ now' = now + interval /\ now + interval <= MaxTime /\ phase' = "begin"
      /\ UNCHANGED <<params, auctions, byTime, nextID, bank>>
  BY DEF NextBlock
<1>2. interval \in Nat
  BY InputAssumption
<1>3. TypeOK'
  BY <1>1, <1>2 DEF IInv, TypeOK
<1>4. NoneOverdue'
  BY <1>1 DEF NoneOverdue
<1> QED
  BY <1>1, <1>3, <1>4, StoreUnchanged

LEMMA UpdateParamsStep ==
    ASSUME IInv, NEW p \in ParamSets, UpdateParams(p)
    PROVE  StepDone
<1>1. params' = p /\ UNCHANGED <<now, phase, auctions, byTime, nextID, bank>>
  BY DEF UpdateParams
<1>2. KeyValid(p)
  BY InputAssumption
<1>3. TypeOK'
  BY <1>1, <1>2 DEF IInv, TypeOK, KeyValid
<1>4. NoneOverdue' /\ now' <= MaxTime
  BY <1>1 DEF IInv, NoneOverdue, StoreInv
<1> QED
  BY <1>1, <1>3, <1>4, StoreUnchanged

\* The import rebuilds the index from the auctions, which is what it was.
LEMMA ExportImportStep ==
    ASSUME IInv, ExportImport
    PROVE  StepDone
<1>1. /\ byTime' = {<<auctions[id].endTime, id>> : id \in DOMAIN auctions}
      /\ UNCHANGED <<now, phase, params, auctions, nextID, bank>>
  BY DEF ExportImport
<1>2. byTime' = byTime
  BY <1>1 DEF IInv, IndexConsistent
<1>3. TypeOK' /\ NoneOverdue' /\ now' <= MaxTime
  BY <1>1, <1>2 DEF IInv, TypeOK, NoneOverdue, StoreInv
<1> QED
  BY <1>1, <1>2, <1>3, StoreUnchanged

LEMMA NextStep ==
    ASSUME IInv, [Next]_vars
    PROVE  StepDone
<1>1. CASE UNCHANGED vars
  <2>1. UNCHANGED <<now, phase, params, auctions, byTime, nextID, bank>>
    BY <1>1 DEF vars
  <2>2. TypeOK' /\ NoneOverdue' /\ now' <= MaxTime
    BY <2>1 DEF IInv, TypeOK, NoneOverdue, StoreInv
  <2> QED
    BY <2>1, <2>2, StoreUnchanged
<1>2. ASSUME NEW o \in Offer, Start(o)
      PROVE  StepDone
  BY <1>2, StartStep
<1>3. ASSUME NEW id \in DOMAIN auctions, NEW bidder \in User, NEW amount \in Amount,
             PlaceBid(id, bidder, amount)
      PROVE  StepDone
  BY <1>3, BidStep
<1>4. ASSUME NEW interval \in BlockInterval, NextBlock(interval)
      PROVE  StepDone
  BY <1>4, NextBlockStep
<1>5. CASE CloseExpiredAuctions
  BY <1>5, CloseExpiredStep
<1>6. CASE BeginBlockDone
  BY <1>6, BeginBlockDoneStep
<1>7. ASSUME NEW p \in ParamSets, UpdateParams(p)
      PROVE  StepDone
  BY <1>7, UpdateParamsStep
<1>8. CASE ExportImport
  BY <1>8, ExportImportStep
<1> QED
  BY <1>1, <1>2, <1>3, <1>4, <1>5, <1>6, <1>7, <1>8 DEF Next

(***************************************************************************)
(* The theorems.                                                           *)
(***************************************************************************)
\* IInv is an inductive invariant of the auction module.
THEOREM Invariance == Spec => []IInv
<1>1. IInv /\ [Next]_vars => IInv'
  BY NextStep DEF StepDone
<1> QED
  BY <1>1, InitIInv, PTL DEF Spec

\* Every store keeps its type; in particular no transfer of a handler leaves a
\* negative balance.
THEOREM TypeCorrect == Spec => []TypeOK
<1>1. IInv => TypeOK
  BY DEF IInv
<1> QED
  BY <1>1, Invariance, PTL

\* ValidIndexInvariant, made exact: SetAuction, DeleteAuction and InitGenesis
\* keep the index by time equal to the end times of the stored auctions.
THEOREM IndexAlwaysConsistent == Spec => []IndexConsistent
<1>1. IInv => IndexConsistent
  BY DEF IInv
<1> QED
  BY <1>1, Invariance, PTL

\* Whenever CloseAuction may pay an auction out, a user has bid and wins it.
THEOREM WinnerAlwaysKnown == Spec => []WinnerKnown
<1>1. ASSUME IInv, NEW id \in DOMAIN auctions, auctions[id].endTime <= now
      PROVE  auctions[id].received /\ auctions[id].bidder \in User
  <2>1. auctions[id].received
    <3>1. now \in Nat /\ now <= MaxTime
      BY <1>1 DEF IInv, TypeOK, StoreInv
    <3>2. auctions[id].endTime # DistantFuture
      BY <1>1, <3>1, FutureAssumption, InputAssumption
    <3>3. auctions[id].received \in BOOLEAN /\ AuctionInv(auctions[id])
      BY <1>1, StoredAuction DEF AuctionType
    <3> QED
      BY <3>2, <3>3 DEF AuctionInv
  <2> QED
    BY <1>1, <2>1, StoredAuction DEF AuctionInv
<1>2. IInv => WinnerKnown
  BY <1>1 DEF WinnerKnown
<1> QED
  BY <1>2, Invariance, PTL

\* Once CloseExpiredAuctions is done, no stored auction is past its end, and no
\* bid of the block changes that.
THEOREM NoneEverOverdue == Spec => []NoneOverdue
<1>1. IInv => NoneOverdue
  BY DEF IInv
<1> QED
  BY <1>1, Invariance, PTL

\* However the bids arrive, the debt an auction carries is what they leave
\* uncovered (the corresponding debt of the PlaceBid functions).
THEOREM DebtAlwaysTracksBids == Spec => []DebtTracksBids
<1>1. IInv => DebtTracksBids
  BY DEF IInv, StoreInv, DebtInv, DebtTracksBids
<1> QED
  BY <1>1, Invariance, PTL

\* A step never worsens a stored auction: PlaceBid raises the bid or cuts the
\* lot, and keeps the terms and the latest end time.
THEOREM BidsAlwaysImprove == Spec => BidsImprove
<1>1. IInv /\ [Next]_vars =>
        [\A id \in DOMAIN auctions \cap DOMAIN auctions' : Improves(auctions[id], auctions'[id])]_vars
  BY NextStep DEF StepDone, ImproveStep
<1> QED
  BY <1>1, Invariance, PTL DEF Spec, BidsImprove

\* Only CloseExpiredAuctions removes an auction, at or after its end, and ids
\* are never used again.
THEOREM AlwaysClosedForGood == Spec => ClosedForGood
<1>1. IInv /\ [Next]_vars =>
        [/\ \A id \in DOMAIN auctions \ DOMAIN auctions' : phase = "begin" /\ auctions[id].endTime <= now
         /\ \A id \in DOMAIN auctions' \ DOMAIN auctions : id >= nextID /\ id < nextID']_vars
  BY NextStep DEF StepDone, CloseStep
<1> QED
  BY <1>1, Invariance, PTL DEF Spec, ClosedForGood
=============================================================================
