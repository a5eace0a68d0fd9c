--------------------------- MODULE MCClaimsCodec ----------------------------
EXTENDS ClaimsCodec

\* Three claims of one-byte TxIDs: two that differ in their first byte and
\* one whose binary form extends another's, so that Sort meets both a
\* first-byte difference and a proper prefix.
MCClaims ==
    { [TxUUID |-> <<1>>, Members |-> <<2>>],
      [TxUUID |-> <<2>>, Members |-> <<1>>],
      [TxUUID |-> <<1>>, Members |-> <<2, 1>>] }
=============================================================================
