\* The batch of three claims a peer that does not bound its batch sends.
SPECIFICATION Spec
CONSTANTS
    Claims <- MCClaims
    Broken = Broken
    Nil = Nil
    Blank = Blank
    TxIDBinarySize = 1
    ClaimMembersMinBinarySize = 1
    ClaimsMaxCount = 2
INVARIANT ReceivedBatchBounded
