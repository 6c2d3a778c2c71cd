--------------------------- MODULE SecureHandshake ---------------------------
(***************************************************************************)
(* What the connection handshake promises each of its two sides, stated    *)
(* without messages: a side first keys a channel, then authenticates one   *)
(* principal as its peer, or fails at any point, which discards what it   *)
(* authenticated.  A side that authenticates one of the two sides has the  *)
(* other side as its peer, over the same channel as that side: a man in   *)
(* the middle may key each side with a channel of its own, but then it is  *)
(* only ever authenticated as itself.                                     *)
(***************************************************************************)
CONSTANTS
    Sides,       \* the two ends of the handshake
    Principals,  \* every principal a side may authenticate
    Opposite(_), \* the other side
    NoChannel,   \* no channel keyed yet
    NoPeer       \* no principal authenticated

VARIABLES
    keyed,   \* [Sides -> the channel the side keyed, or NoChannel]
    authed,  \* [Sides -> the principal the side authenticated, or NoPeer]
    failed   \* [Sides -> BOOLEAN]: the side's handshake returned an error

vars == <<keyed, authed, failed>>

Init ==
    /\ keyed = [p \in Sides |-> NoChannel]
    /\ authed = [p \in Sides |-> NoPeer]
    /\ failed = [p \in Sides |-> FALSE]

\* A running side keys a channel, once.  Which channel is not constrained.
Key(p) ==
    /\ ~failed[p]
    /\ keyed[p] = NoChannel
    /\ keyed'[p] # NoChannel
    /\ keyed' = [keyed EXCEPT ![p] = keyed'[p]]
    /\ UNCHANGED <<authed, failed>>

\* A running side with a channel authenticates a principal, once; if that
\* principal is one of the sides, it is the other one, keyed with the
\* same channel.
Authenticate(p, k) ==
    /\ ~failed[p]
    /\ keyed[p] # NoChannel
    /\ authed[p] = NoPeer
    /\ k \in Sides => k = Opposite(p) /\ keyed[Opposite(p)] = keyed[p]
    /\ authed' = [authed EXCEPT ![p] = k]
    /\ UNCHANGED <<keyed, failed>>

\* A side fails for good, and drops its peer.
Fail(p) ==
    /\ ~failed[p]
    /\ failed' = [failed EXCEPT ![p] = TRUE]
    /\ authed' = [authed EXCEPT ![p] = NoPeer]
    /\ UNCHANGED keyed

Next == \E p \in Sides : Key(p) \/ (\E k \in Principals : Authenticate(p, k)) \/ Fail(p)

Spec == Init /\ [][Next]_vars

=============================================================================
