--------------------------- MODULE MCApprovalPool ---------------------------
(* An instance of ApprovalPool for TLC.                                    *)
EXTENDS ApprovalPool, TLC

CONSTANTS i1, i2, i3, i4, d1, d2

\* i1 and i2 are byte-identical copies; i4 cannot be marshalled.
MCInstances == {i1, i2, i3, i4}
MCData == {d1, d2}
MCContent == (i1 :> d1) @@ (i2 :> d1) @@ (i3 :> d2) @@ (i4 :> d2)
MCUnmarshalable == {i4}
=============================================================================
