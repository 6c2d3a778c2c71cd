---------------------------- MODULE MCHandshake ----------------------------
(* Small instances of the handshake for TLC.                               *)
EXTENDS Handshake

\* Both sides offer versions 12 to 14; the man in the middle can offer 12-13.
MCVersionsOf == [p \in Parties |-> [min |-> 12, max |-> 14]]
MCAttackerVersions == {[min |-> 12, max |-> 13]}
\* Different MTUs and token budgets, so that tampering with them shows.
MCMtuOf == [p \in Parties |-> IF p = Dialer THEN 2 ELSE 3]
MCTokensOf == [p \in Parties |-> IF p = Dialer THEN 4 ELSE 5]
MCAttackerTokens == {1}
\* The acceptor's routing id is the one dialed; the dialer's is null.
MCRIDs == {"null", "ridA", "ridX"}
MCLocalRID == [p \in Parties |-> IF p = Dialer THEN "null" ELSE "ridA"]
MCTrusts == {Acceptor}
=============================================================================
