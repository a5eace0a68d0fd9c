\* Five observers with consensus count three (the spec's scenario E).
CONSTANTS
    i1 = i1
    i2 = i2
    i3 = i3
    i4 = i4
    d1 = d1
    d2 = d2
    Instances <- MCInstances
    Data <- MCData
    Content <- MCContent
    Unmarshalable <- MCUnmarshalable
    ObserversMaxCount = 5
    ObserversConsensusCount = 3
SPECIFICATION Spec
PROPERTY LedgerSpec
PROPERTY ApprovalStable
