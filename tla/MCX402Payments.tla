--------------------------- MODULE MCX402Payments ---------------------------
(* One payment, to a provider that another worker has paid the same price   *)
(* before for another payment.                                              *)
EXTENDS X402Payments, TLC

CONSTANTS p1, p2, w0, w1, w2, shop, other, platform, provider

Price(amount, payTo) ==
    [amount |-> amount, payTo |-> payTo,
     feePayer |-> IF payTo = shop THEN platform ELSE provider]

MCOffers == {Price(2, shop), Price(4, shop), Price(2, other)}
MCFirstOffer == Price(2, shop)
MCEarlier == {[payment |-> p2, by |-> w0, offer |-> Price(2, shop)]}
Symmetry == Permutations({w1, w2})
=============================================================================
