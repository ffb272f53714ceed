SPECIFICATION Spec
CONSTANTS
    p1 = p1
    p2 = p2
    w0 = w0
    shop = shop
    other = other
    platform = platform
    provider = provider
    w1 = w1
    w2 = w2
    Workers = {w1, w2}
    NoOwner = NoOwner
    MaxAttempts = 2
    LeaseTicks = 1
    Payments = {p1, p2}
    Offers <- MCOffers
    FirstOffer <- MCFirstOffer
    NoOffer = NoOffer
    Platform = platform
    Approved = {shop}
    Earlier <- MCEarlier
    Cap = 4
    AtomicPerUnit = 2
    MaxOfferChanges = 1
    NoPayload = NoPayload
    NoTx = NoTx
    Bogus = Bogus
SYMMETRY Symmetry
INVARIANTS
    SettledOnceAsApproved
    ConfirmedByOwnSettlement
PROPERTY
    NoReleaseOnceSent
CHECK_DEADLOCK FALSE
