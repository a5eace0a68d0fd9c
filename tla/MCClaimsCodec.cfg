\* Batches of up to two claims: every claim form and Broken in each slot,
\* every cut of every payload, and a peer's batch of three claims.
SPECIFICATION Spec
CONSTANTS
    Claims <- MCClaims
    Broken = Broken
    Nil = Nil
    Blank = Blank
    TxIDBinarySize = 1
    ClaimMembersMinBinarySize = 1
    ClaimsMaxCount = 2
INVARIANT TypeOK
PROPERTY RoundTrip
PROPERTY SortOrders
