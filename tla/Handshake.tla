------------------------------ MODULE Handshake ------------------------------
(***************************************************************************)
(* The Setup/Auth connection handshake of the flow connection core         *)
(* (src/x/ref/runtime/internal/flow/conn/auth.go): Conn.dialHandshake and  *)
(* Conn.acceptHandshake, each built on Conn.setup and                      *)
(* Conn.readRemoteAuth, running against each other over a transport that   *)
(* may be closed at any time and, when MITM is TRUE, through an active     *)
(* man in the middle that rewrites the cleartext Setup messages, replaces  *)
(* NaCl keys by its own, reflects and replays messages and forges Auth     *)
(* messages on any session whose key it shares.                            *)
(*                                                                         *)
(* Data is abstracted to what the properties distinguish: a NaCl public    *)
(* key is the name of its owner, the box shared secret of a session is     *)
(* the set of the two public keys it was computed from, a Setup message    *)
(* is a record of its options, a signature is the record of its signer,    *)
(* its tag and the signed binding, blessings are a principal and whether   *)
(* they carry names, and the blessings flow is folded into the Auth        *)
(* message that refers to it.                                              *)
(***************************************************************************)
EXTENDS Naturals, FiniteSets

CONSTANTS
    VersionsOf,      \* [Parties -> Ranges]: the RPC version range each side offers
    MtuOf,           \* [Parties -> Nat \ {0}]: c.mtu before setup
    TokensOf,        \* [Parties -> Nat]: flowControl.bytesBufferedPerFlow
    LocalRID,        \* [Parties -> RIDs]: routing id of c.local
    DialedRID,       \* routing id of the endpoint the dialer dials (c.remote)
    NullRID,         \* naming.NullRoutingID
    RIDs,            \* the routing ids the model uses
    V14,             \* version.RPCVersion14
    DialerIsServer,  \* c.handler # nil on the dialer
    DialerTrusts,    \* principals the dialer's PeerAuthorizer accepts ({} = all)
    AuthorizedPeers, \* acceptor's authorizedPeers for its blessings ({} = all)
    AttackerVersions,\* version ranges the man in the middle may substitute
    AttackerTokens,  \* shared-token values it may substitute
    MITM             \* is there an active man in the middle?

Dialer   == "dialer"
Acceptor == "acceptor"
Parties  == {Dialer, Acceptor}
Mitm     == "mitm"
Owners   == Parties \cup {Mitm}
Other(p) == IF p = Dialer THEN Acceptor ELSE Dialer

Ranges == [min : Nat, max : Nat]

ASSUME ConstantsAssumption ==
    /\ VersionsOf \in [Parties -> Ranges]
    /\ MtuOf \in [Parties -> Nat \ {0}]
    /\ TokensOf \in [Parties -> Nat]
    /\ NullRID \in RIDs /\ DialedRID \in RIDs
    /\ LocalRID \in [Parties -> RIDs]
    /\ V14 \in Nat
    /\ DialerIsServer \in BOOLEAN
    /\ DialerTrusts \subseteq Owners
    /\ AuthorizedPeers \subseteq Owners
    /\ AttackerVersions \subseteq Ranges
    /\ AttackerTokens \subseteq Nat
    /\ MITM \in BOOLEAN

-----------------------------------------------------------------------------
(* Values.                                                                 *)

ZeroKey == "zero"                      \* emptyNaClPublicKey
NaClKeys == Owners \cup {ZeroKey}
NoVersion == 0                         \* CommonVersion's result on error

\* authDialerTag and authAcceptorTag.
authDialerTag   == "AuthDial"
authAcceptorTag == "AuthAcpt"
Tags == {authDialerTag, authAcceptorTag}

SetupType == [versions : Ranges, pk : NaClKeys, mtu : Nat, tokens : Nat,
              lrid : RIDs, rrid : RIDs]
NoSetup == [versions |-> [min |-> 0, max |-> 0], pk |-> ZeroKey, mtu |-> 0,
            tokens |-> 0, lrid |-> NullRID, rrid |-> NullRID]

\* A channel binding: before version 14 the box shared secret, from 14 on
\* the Setup messages in dialer-then-acceptor order.
SecretBinding(S) == [secret |-> S, dial |-> NoSetup, acpt |-> NoSetup]
SetupsBinding(d, a) == [secret |-> {}, dial |-> d, acpt |-> a]
NoBinding == SecretBinding({})
IsBinding(b) ==
    \/ \E S \in SUBSET NaClKeys : S # {} /\ b = SecretBinding(S)
    \/ b.secret = {} /\ b.dial \in SetupType /\ b.acpt \in SetupType
       /\ b.dial # NoSetup /\ b.acpt # NoSetup

Blessings == [principal : Owners, named : BOOLEAN]
NoBlessings == [principal |-> "none", named |-> FALSE]
IsZero(b) == b = NoBlessings
NoKey == "none"                        \* c.rPublicKey == nil

\* An Auth message with the blessings its BlessingsKey refers to on the
\* blessings flow, the patterns they were encrypted for, and the session
\* key of the encrypted stream that carries it.
AuthMsg(from, key, b, peers, sig) ==
    [from |-> from, key |-> key, blessings |-> b, peers |-> peers, sig |-> sig]

Errors == {"none", "Recv", "Send", "NoCompatibleVersions", "MissingSetupOption",
           "NoPublicKey", "InvalidChannelBinding", "AcceptorBlessingsMissing",
           "NotTrusted", "BlessingsFlow"}

Pending == "pending"
\* readSetup has not returned, or has returned an error.
NotRead == [NoSetup EXCEPT !.pk = "notread"]
RecvErr == [NoSetup EXCEPT !.pk = "recverr"]

-----------------------------------------------------------------------------
VARIABLES
    pc,              \* [Parties -> the step each handshake goroutine is at]
    err,             \* [Parties -> Errors]: the error sent on handshakeCh
    localBlessings,  \* c.localBlessings
    setupSent,       \* outcome of the sendSetupMessage goroutine: ch
    rSetup,          \* result of mp.readSetup
    version,         \* c.version
    mtu,             \* c.mtu
    shared,          \* shared tokens given to flowControl.configure
    sessKey,         \* box shared secret enabled on the message pipe
    binding,         \* the channel binding setup returns
    remoteRID,       \* c.remote.RoutingID
    rPublicKey,      \* c.rPublicKey
    remoteBlessings, \* c.remoteBlessings
    auths,           \* every Auth message sent on the wire
    closedBy         \* who closed the transport: nobody, the network or a teardown

vars == <<pc, err, localBlessings, setupSent, rSetup, version, mtu, shared,
          sessKey, binding, remoteRID, rPublicKey, remoteBlessings, auths, closedBy>>

\* The transport has been closed.
closed == closedBy # "none"

-----------------------------------------------------------------------------
(* Helpers translated from the code.                                       *)

\* version.CommonVersion: the highest version in both ranges.
CommonVersion(l, r) ==
    LET lo == IF l.min > r.min THEN l.min ELSE r.min
        hi == IF l.max < r.max THEN l.max ELSE r.max
    IN  IF lo > hi THEN NoVersion ELSE hi

\* The Setup message a side sends (setup, lines 218-227).
LSetup(p) ==
    [versions |-> VersionsOf[p], pk |-> p, mtu |-> MtuOf[p], tokens |-> TokensOf[p],
     lrid |-> LocalRID[p], rrid |-> IF p = Dialer THEN DialedRID ELSE NullRID]

\* The received Setup after a missing Mtu is replaced by the local one.
RSetupFilled(p) ==
    [versions |-> rSetup[p].versions, pk |-> rSetup[p].pk,
     mtu |-> IF rSetup[p].mtu = 0 THEN MtuOf[p] ELSE rSetup[p].mtu,
     tokens |-> rSetup[p].tokens, lrid |-> rSetup[p].lrid, rrid |-> rSetup[p].rrid]

\* Pick the smaller of the two MTUs.
NegotiatedMtu(p) ==
    IF RSetupFilled(p).mtu > LSetup(p).mtu THEN LSetup(p).mtu ELSE RSetupFilled(p).mtu

\* Shared tokens: the remote's value when present and smaller.
NegotiatedShared(p) ==
    IF rSetup[p].tokens # 0 /\ rSetup[p].tokens < LSetup(p).tokens
    THEN rSetup[p].tokens ELSE LSetup(p).tokens

\* Mutants: the Setups enter the binding only above version 14; the
\* received Setup is never appended to it.
ChannelBindingAbove14(p, v) ==
    IF v > V14
    THEN IF p = Dialer THEN SetupsBinding(LSetup(p), RSetupFilled(p))
                       ELSE SetupsBinding(RSetupFilled(p), LSetup(p))
    ELSE SecretBinding({p, rSetup[p].pk})
ChannelBindingLocalOnly(p, v) ==
    IF v >= V14
    THEN IF p = Dialer THEN SetupsBinding(LSetup(p), NoSetup)
                       ELSE SetupsBinding(NoSetup, LSetup(p))
    ELSE SecretBinding({p, rSetup[p].pk})

\* The binding setup returns: the box secret, replaced from version 14 on
\* by both Setup messages with the dialer's first.
ChannelBinding(p, v) ==
    IF v >= V14
    THEN IF p = Dialer THEN SetupsBinding(LSetup(p), RSetupFilled(p))
                       ELSE SetupsBinding(RSetupFilled(p), LSetup(p))
    ELSE SecretBinding({p, rSetup[p].pk})

\* Mutants: both sides sign, or expect, the acceptor's tag.
SignTagAcceptorOnly(p) == authAcceptorTag
ExpectedTagAcceptorOnly(p) == authAcceptorTag

\* The tag a side signs its binding with, and the tag it expects.
SignTag(p) == IF p = Dialer THEN authDialerTag ELSE authAcceptorTag
ExpectedTag(p) == IF p = Dialer THEN authAcceptorTag ELSE authDialerTag

\* Signature.Verify of a signature over tag || binding.
Verify(sig, pk, tag, b) == sig.signer = pk /\ sig.tag = tag /\ sig.binding = b

\* Conn.MatchesRID of the dialed endpoint.
MatchesRID(epRID) == epRID = NullRID \/ remoteRID[Dialer] = epRID

\* The dialer's PeerAuthorizer.AuthorizePeer.
AuthorizePeer(b) == DialerTrusts = {} \/ (b.named /\ b.principal \in DialerTrusts)

\* Whether p can decrypt blessings sent for the given patterns.
CanDecrypt(p, peers) == peers = {} \/ p \in peers

-----------------------------------------------------------------------------
(* What the network can deliver.                                           *)

\* Setups the man in the middle can build from a Setup it has seen.
TamperedSetups(s) ==
    { [versions |-> v, pk |-> k, mtu |-> m, tokens |-> t, lrid |-> r, rrid |-> s.rrid] :
        v \in {s.versions} \cup AttackerVersions, k \in {s.pk, Mitm, ZeroKey},
        m \in {s.mtu, 0}, t \in {s.tokens} \cup AttackerTokens, r \in RIDs }

DeliverableSetups(p) ==
    IF MITM
    THEN UNION {TamperedSetups(LSetup(q)) : q \in {q \in Parties : setupSent[q] = "ok"}}
    ELSE IF setupSent[Other(p)] = "ok" THEN {LSetup(Other(p))} ELSE {}

\* Signatures the man in the middle holds: its own over any binding a
\* victim computed, and any it read on a session it is an end of.
KnownSigs ==
    { [signer |-> Mitm, tag |-> t, binding |-> binding[p]] :
        t \in Tags, p \in {q \in Parties : binding[q] # NoBinding} }
    \cup { m.sig : m \in {m \in auths : Mitm \in m.key} }

AttackerBlessings ==
    {NoBlessings} \cup {[principal |-> o, named |-> TRUE] : o \in Owners}

DeliverableAuths(p) ==
    IF MITM
    THEN { m \in auths : m.key = sessKey[p] }
         \cup IF Mitm \in sessKey[p]
              THEN { AuthMsg(Mitm, sessKey[p], b, {}, s) : b \in AttackerBlessings, s \in KnownSigs }
              ELSE {}
    ELSE { m \in auths : m.from = Other(p) /\ m.key = sessKey[p] }

-----------------------------------------------------------------------------
Init ==
    /\ pc = [p \in Parties |-> "start"]
    /\ err = [p \in Parties |-> "none"]
    /\ localBlessings = [p \in Parties |-> NoBlessings]
    /\ setupSent = [p \in Parties |-> Pending]
    /\ rSetup = [p \in Parties |-> NotRead]
    /\ version = [p \in Parties |-> NoVersion]
    /\ mtu = MtuOf
    /\ shared = [p \in Parties |-> 0]
    /\ sessKey = [p \in Parties |-> {}]
    /\ binding = [p \in Parties |-> NoBinding]
    /\ remoteRID = [p \in Parties |-> IF p = Dialer THEN DialedRID ELSE NullRID]
    /\ rPublicKey = [p \in Parties |-> NoKey]
    /\ remoteBlessings = [p \in Parties |-> NoBlessings]
    /\ auths = {}
    /\ closedBy = "none"

\* The error reaches NewDialed or NewAccepted, which tear the connection
\* down, closing the transport under the peer.
Fail(p, e) ==
    /\ pc' = [pc EXCEPT ![p] = "failed"]
    /\ err' = [err EXCEPT ![p] = e]
    /\ closedBy' = "teardown"

\* The goroutine moves on to its next step.
Proceed(p, next) ==
    /\ pc' = [pc EXCEPT ![p] = next]
    /\ UNCHANGED <<err, closedBy>>

\* dialHandshake, lines 46-55: real blessings only when also a server.
DialStart ==
    /\ pc[Dialer] = "start"
    /\ localBlessings' = [localBlessings EXCEPT ![Dialer] =
                            [principal |-> Dialer, named |-> DialerIsServer]]
    /\ pc' = [pc EXCEPT ![Dialer] = "setup"]
    /\ UNCHANGED <<err, setupSent, rSetup, version, mtu, shared, sessKey, binding,
                   remoteRID, rPublicKey, remoteBlessings, auths, closedBy>>

\* acceptHandshake, lines 162-168: default blessings and PrepareDischarges.
AcceptStart ==
    /\ pc[Acceptor] = "start"
    /\ localBlessings' = [localBlessings EXCEPT ![Acceptor] =
                            [principal |-> Acceptor, named |-> TRUE]]
    /\ pc' = [pc EXCEPT ![Acceptor] = "setup"]
    /\ UNCHANGED <<err, setupSent, rSetup, version, mtu, shared, sessKey, binding,
                   remoteRID, rPublicKey, remoteBlessings, auths, closedBy>>

\* setup, lines 228-232: the goroutine that sends the local Setup.
SendSetup(p) ==
    /\ pc[p] = "setup"
    /\ setupSent[p] = Pending
    /\ setupSent' = [setupSent EXCEPT ![p] = IF closed THEN "err" ELSE "ok"]
    /\ UNCHANGED <<pc, err, localBlessings, rSetup, version, mtu, shared, sessKey,
                   binding, remoteRID, rPublicKey, remoteBlessings, auths, closedBy>>

\* setup, line 233: mp.readSetup, concurrent with the send.
ReadSetup(p) ==
    /\ pc[p] = "setup"
    /\ rSetup[p] = NotRead
    /\ \/ closed /\ rSetup' = [rSetup EXCEPT ![p] = RecvErr]
       \/ \E s \in DeliverableSetups(p) : rSetup' = [rSetup EXCEPT ![p] = s]
    /\ UNCHANGED <<pc, err, localBlessings, setupSent, version, mtu, shared, sessKey,
                   binding, remoteRID, rPublicKey, remoteBlessings, auths, closedBy>>

\* setup, lines 234-304, and the code of dialHandshake (66-70) and
\* acceptHandshake (176-182) that runs when it returns.
FinishSetup(p) ==
    LET v == CommonVersion(LSetup(p).versions, rSetup[p].versions) IN
    /\ pc[p] = "setup"
    /\ setupSent[p] # Pending
    /\ rSetup[p] # NotRead
    /\ \/ /\ rSetup[p] = RecvErr
          /\ Fail(p, "Recv")
          /\ UNCHANGED <<version, mtu, shared, sessKey, binding, remoteRID>>
       \/ /\ rSetup[p] # RecvErr
          /\ setupSent[p] = "err"
          /\ Fail(p, "Send")
          /\ UNCHANGED <<version, mtu, shared, sessKey, binding, remoteRID>>
       \/ /\ rSetup[p] # RecvErr /\ setupSent[p] = "ok"
          /\ v = NoVersion
          /\ Fail(p, "NoCompatibleVersions")
          /\ UNCHANGED <<version, mtu, shared, sessKey, binding, remoteRID>>
       \/ /\ rSetup[p] # RecvErr /\ setupSent[p] = "ok"
          /\ v # NoVersion
          /\ version' = [version EXCEPT ![p] = v]
          /\ mtu' = [mtu EXCEPT ![p] = NegotiatedMtu(p)]
          /\ shared' = [shared EXCEPT ![p] = NegotiatedShared(p)]
          /\ \/ /\ rSetup[p].pk = ZeroKey
                /\ Fail(p, "MissingSetupOption")
                /\ UNCHANGED <<sessKey, binding, remoteRID>>
             \/ /\ rSetup[p].pk # ZeroKey
                /\ sessKey' = [sessKey EXCEPT ![p] = {p, rSetup[p].pk}]
                /\ binding' = [binding EXCEPT ![p] = ChannelBinding(p, v)]
                /\ remoteRID' = [remoteRID EXCEPT ![p] = rSetup[p].lrid]
                /\ Proceed(p, IF p = Dialer THEN "readAuth" ELSE "sendAuth")
    /\ UNCHANGED <<localBlessings, setupSent, rSetup, rPublicKey, remoteBlessings, auths>>

\* The key readRemoteAuth checks the signature with (lines 326-343): that
\* of the blessings the Auth refers to, or the one bound before.
RemoteAuthKey(p, m) ==
    IF IsZero(m.blessings) THEN rPublicKey[p] ELSE m.blessings.principal

\* readRemoteAuth, lines 314-356.
ReadRemoteAuth(p) ==
    /\ pc[p] = "readAuth"
    /\ \/ /\ closed
          /\ Fail(p, "Recv")
          /\ UNCHANGED <<rPublicKey, remoteBlessings>>
       \/ \E m \in DeliverableAuths(p) :
            \/ /\ ~IsZero(m.blessings)
               /\ ~CanDecrypt(p, m.peers)
               /\ Fail(p, "BlessingsFlow")
               /\ UNCHANGED <<rPublicKey, remoteBlessings>>
            \/ /\ IsZero(m.blessings) \/ CanDecrypt(p, m.peers)
               /\ rPublicKey' = [rPublicKey EXCEPT ![p] = RemoteAuthKey(p, m)]
               /\ remoteBlessings' = IF IsZero(m.blessings) THEN remoteBlessings
                                     ELSE [remoteBlessings EXCEPT ![p] = m.blessings]
               /\ \/ RemoteAuthKey(p, m) = NoKey /\ Fail(p, "NoPublicKey")
                  \/ /\ RemoteAuthKey(p, m) # NoKey
                     /\ ~Verify(m.sig, RemoteAuthKey(p, m), ExpectedTag(p), binding[p])
                     /\ Fail(p, "InvalidChannelBinding")
                  \/ /\ RemoteAuthKey(p, m) # NoKey
                     /\ Verify(m.sig, RemoteAuthKey(p, m), ExpectedTag(p), binding[p])
                     /\ Proceed(p, IF p = Dialer THEN "authorize" ELSE "done")
    /\ UNCHANGED <<localBlessings, setupSent, rSetup, version, mtu, shared, sessKey,
                   binding, remoteRID, auths>>

\* dialHandshake, lines 79-106: check and authorize the acceptor unless
\* the endpoint reached is not the one dialed (a proxy).
DialAuthorize ==
    /\ pc[Dialer] = "authorize"
    /\ \/ IsZero(remoteBlessings[Dialer]) /\ Fail(Dialer, "AcceptorBlessingsMissing")
       \/ /\ ~IsZero(remoteBlessings[Dialer])
          /\ MatchesRID(DialedRID) /\ ~AuthorizePeer(remoteBlessings[Dialer])
          /\ Fail(Dialer, "NotTrusted")
       \/ /\ ~IsZero(remoteBlessings[Dialer])
          /\ ~MatchesRID(DialedRID) \/ AuthorizePeer(remoteBlessings[Dialer])
          /\ Proceed(Dialer, "sendAuth")
    /\ UNCHANGED <<localBlessings, setupSent, rSetup, version, mtu, shared, sessKey,
                   binding, remoteRID, rPublicKey, remoteBlessings, auths>>

\* Mutant: a write on the closed transport is taken for a success, so the
\* goroutine moves on as if its Auth had gone out.
SendAuthSwallowsClose(p) ==
    /\ pc[p] = "sendAuth"
    /\ \/ /\ closed
          /\ Proceed(p, IF p = Dialer THEN "done" ELSE "readAuth")
          /\ UNCHANGED auths
       \/ /\ ~closed
          /\ auths' = auths \cup
               {AuthMsg(p, sessKey[p], localBlessings[p],
                        IF p = Acceptor THEN AuthorizedPeers ELSE {},
                        [signer |-> p, tag |-> SignTag(p), binding |-> binding[p]])}
          /\ Proceed(p, IF p = Dialer THEN "done" ELSE "readAuth")
    /\ UNCHANGED <<localBlessings, setupSent, rSetup, version, mtu, shared, sessKey,
                   binding, remoteRID, rPublicKey, remoteBlessings>>

\* Sign the binding, send the blessings on the blessings flow and the Auth
\* message: dialHandshake lines 107-136, acceptHandshake lines 184-205.
SendAuth(p) ==
    /\ pc[p] = "sendAuth"
    /\ \/ /\ closed
          /\ Fail(p, "Send")
          /\ UNCHANGED auths
       \/ /\ ~closed
          /\ auths' = auths \cup
               {AuthMsg(p, sessKey[p], localBlessings[p],
                        IF p = Acceptor THEN AuthorizedPeers ELSE {},
                        [signer |-> p, tag |-> SignTag(p), binding |-> binding[p]])}
          /\ Proceed(p, IF p = Dialer THEN "done" ELSE "readAuth")
    /\ UNCHANGED <<localBlessings, setupSent, rSetup, version, mtu, shared, sessKey,
                   binding, remoteRID, rPublicKey, remoteBlessings>>

\* The transport is closed: by the peer, the network, or Conn.Close when
\* the handshake timeout expires.
CloseTransport ==
    /\ ~closed
    /\ closedBy' = "network"
    /\ UNCHANGED <<pc, err, localBlessings, setupSent, rSetup, version, mtu, shared,
                   sessKey, binding, remoteRID, rPublicKey, remoteBlessings, auths>>

Terminated == \A p \in Parties : pc[p] \in {"done", "failed"}

\* Both handshake goroutines have sent their result.
Finished == Terminated /\ UNCHANGED vars

Next ==
    \/ DialStart
    \/ AcceptStart
    \/ \E p \in Parties : SendSetup(p) \/ ReadSetup(p) \/ FinishSetup(p)
    \/ \E p \in Parties : ReadRemoteAuth(p) \/ SendAuth(p)
    \/ DialAuthorize
    \/ CloseTransport
    \/ Finished

\* Every goroutine keeps running while it can.
Fairness == \A p \in Parties :
    /\ WF_vars(SendSetup(p)) /\ WF_vars(ReadSetup(p)) /\ WF_vars(FinishSetup(p))
    /\ WF_vars(ReadRemoteAuth(p)) /\ WF_vars(SendAuth(p))
    /\ WF_vars(DialStart) /\ WF_vars(AcceptStart) /\ WF_vars(DialAuthorize)

Spec == Init /\ [][Next]_vars
FairSpec == Spec /\ Fairness

-----------------------------------------------------------------------------
(* Properties.                                                             *)

\* Every variable holds a value of its type; a channel binding, once
\* computed, is either a box secret or a pair of Setup messages.
TypeOK ==
    /\ pc \in [Parties -> {"start", "setup", "readAuth", "authorize", "sendAuth",
                            "done", "failed"}]
    /\ err \in [Parties -> Errors]
    /\ localBlessings \in [Parties -> Blessings \cup {NoBlessings}]
    /\ setupSent \in [Parties -> {Pending, "ok", "err"}]
    /\ rSetup \in [Parties -> SetupType \cup {NotRead, RecvErr}]
    /\ version \in [Parties -> Nat]
    /\ mtu \in [Parties -> Nat \ {0}]
    /\ shared \in [Parties -> Nat]
    /\ sessKey \in [Parties -> SUBSET NaClKeys]
    /\ DOMAIN binding = Parties
    /\ \A p \in Parties : binding[p] = NoBinding \/ IsBinding(binding[p])
    /\ remoteRID \in [Parties -> RIDs]
    /\ rPublicKey \in [Parties -> Owners \cup {NoKey}]
    /\ remoteBlessings \in [Parties -> Blessings \cup {NoBlessings}]
    /\ \A m \in auths : m.blessings \in Blessings \cup {NoBlessings}
    /\ closedBy \in {"none", "network", "teardown"}

\* A side has verified the peer's channel-binding signature.
Verified(p) == pc[p] \in IF p = Dialer THEN {"authorize", "sendAuth", "done"} ELSE {"done"}

\* Peer authentication (readRemoteAuth): whenever a side accepts an Auth
\* whose blessings name an honest principal, that principal is the other
\* side of this handshake, playing the other role, and both ends share the
\* same box session key and channel binding: no man in the middle sits
\* between them, and no side accepts its own Auth reflected back at it.
PeerAuthentic ==
    \A p \in Parties :
        Verified(p) /\ rPublicKey[p] \in Parties =>
            /\ rPublicKey[p] = Other(p)
            /\ sessKey[Other(p)] = sessKey[p]
            /\ binding[Other(p)] = binding[p]

\* Setup integrity from RPC version 14 (setup, lines 279-300): once a side
\* has authenticated its peer at a version of at least 14, the two sides
\* negotiated the same version, MTU and shared tokens, and the dialer's
\* idea of the acceptor's routing id, on which it decides whether to
\* authorize it (MatchesRID), is the acceptor's own.
SetupAgreement ==
    \A p \in Parties :
        Verified(p) /\ rPublicKey[p] = Other(p) /\ version[p] >= V14 =>
            /\ version[Other(p)] = version[p]
            /\ mtu[Other(p)] = mtu[p]
            /\ shared[Other(p)] = shared[p]
            /\ remoteRID[Dialer] = LocalRID[Acceptor]

\* No downgrade (the comment at setup, lines 280-284): a side that
\* authenticates its peer runs the highest version both sides support.
NoDowngrade ==
    \A p \in Parties :
        Verified(p) /\ rPublicKey[p] = Other(p) =>
            version[p] = CommonVersion(VersionsOf[Dialer], VersionsOf[Acceptor])

\* Closing the transport at any point of the handshake (the handshake
\* timeout, the peer's teardown) ends it in an error, never in a success
\* that is only half done: a side whose handshake goroutine sent a nil
\* error on handshakeCh has bound a public key of its peer in readRemoteAuth, and its own Auth
\* went out on this session, under its own session key.
CompletedBothWays ==
    \A p \in Parties : pc[p] = "done" =>
        /\ rPublicKey[p] # NoKey
        /\ \E m \in auths : m.from = p /\ m.key = sessKey[p]

\* Unless the network closes the transport, both handshakes complete: the
\* two goroutines never wait on each other forever and neither rejects
\* an honest peer it trusts.
HandshakeCompletes ==
    [](closedBy # "network") => <>(pc[Dialer] = "done" /\ pc[Acceptor] = "done")

-----------------------------------------------------------------------------
(* The handshake implements SecureHandshake.  A side's channel is its box  *)
(* session key with its channel binding, from the moment setup returns    *)
(* them; its authenticated peer is c.rPublicKey from the moment            *)
(* readRemoteAuth accepted the signature, for as long as the goroutine     *)
(* does not then return an error; it has failed once its error went out on *)
(* handshakeCh.                                                            *)
NoChannel == [key |-> {}, binding |-> NoBinding]
KeyedChannel ==
    [p \in Parties |-> IF binding[p] = NoBinding THEN NoChannel
                       ELSE [key |-> sessKey[p], binding |-> binding[p]]]
AuthedPeer == [p \in Parties |-> IF Verified(p) THEN rPublicKey[p] ELSE NoKey]
FailedSide == [p \in Parties |-> pc[p] = "failed"]

SH == INSTANCE SecureHandshake
        WITH Sides <- Parties, Principals <- Owners, Opposite <- Other,
             NoChannel <- NoChannel, NoPeer <- NoKey,
             keyed <- KeyedChannel, authed <- AuthedPeer, failed <- FailedSide

\* dialHandshake and acceptHandshake, with the man in the middle, implement
\* the secure handshake: each side keys its channel once in setup, accepts
\* at most one peer in readRemoteAuth and loses it on a later error, and an
\* honest peer it accepts is the other side, keyed with the same session
\* key and binding.
SecureSpec == SH!Spec

=============================================================================
