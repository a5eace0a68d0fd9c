-------------------------- MODULE MCConnectionsMap --------------------------
(* Instances of ConnectionsMap for TLC.                                    *)
EXTENDS ConnectionsMap, TLC

CONSTANTS p1, p2, a, b, c1, c2, c3, h1, h2

MCCallers == {p1, p2}
MCObservers == {a, b}
MCConns == {c1, c2, c3}
MCHosts == {h1, h2}
\* c1 and c2 come from the same host, so one DeleteByRemoteHost meets both.
MCConnHost == (c1 :> h1) @@ (c2 :> h1) @@ (c3 :> h2)
MCAllOps == {"Get", "Set", "DeleteByObserver", "DeleteByRemoteHost"}
\* The methods without DeleteByObserver, whose callers all return.
MCReturningOps == {"Get", "Set", "DeleteByRemoteHost"}
=============================================================================
