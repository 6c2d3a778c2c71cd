--------------------------- MODULE HandshakeProofs ---------------------------
(***************************************************************************)
(* Proofs about the Setup/Auth handshake of Handshake.tla, for every       *)
(* value of the constants that satisfies ConstantsAssumption.              *)
(***************************************************************************)
EXTENDS Handshake, TLAPS

-----------------------------------------------------------------------------
(* Lemmas about the values setup computes.                                 *)

\* The Setup message a side sends (setup, lines 218-227) is well formed
\* and carries a public key, so it is never the empty Setup.
LEMMA LSetupType ==
    ASSUME NEW p \in Parties
    PROVE  LSetup(p) \in SetupType /\ LSetup(p) # NoSetup /\ LSetup(p).pk = p
BY ConstantsAssumption DEF LSetup, SetupType, NoSetup, Parties, Dialer, Acceptor,
   NaClKeys, Owners, ZeroKey

\* A received Setup with its missing MTU filled in is well formed, and is
\* not the empty Setup once it carries a public key.
LEMMA RSetupFilledType ==
    ASSUME NEW p \in Parties, rSetup[p] \in SetupType, rSetup[p].pk # ZeroKey
    PROVE  RSetupFilled(p) \in SetupType /\ RSetupFilled(p) # NoSetup
BY ConstantsAssumption DEF RSetupFilled, SetupType, NoSetup

\* The binding setup returns after a successful exchange of Setups is a
\* channel binding (lines 273-300), whatever the negotiated version.
LEMMA ChannelBindingIsBinding ==
    ASSUME NEW p \in Parties, NEW v,
           rSetup[p] \in SetupType, rSetup[p].pk # ZeroKey
    PROVE  IsBinding(ChannelBinding(p, v))
<1>1. LSetup(p) \in SetupType /\ LSetup(p) # NoSetup
  BY LSetupType
<1>2. RSetupFilled(p) \in SetupType /\ RSetupFilled(p) # NoSetup
  BY RSetupFilledType
<1>3. CASE v >= V14
  BY <1>1, <1>2, <1>3 DEF ChannelBinding, IsBinding, SetupsBinding
<1>4. CASE ~(v >= V14)
  <2>1. {p, rSetup[p].pk} \in SUBSET NaClKeys /\ {p, rSetup[p].pk} # {}
    BY DEF SetupType, NaClKeys, Owners
  <2>2. QED
    BY <1>4, <2>1 DEF ChannelBinding, IsBinding
<1>5. QED
  BY <1>3, <1>4

\* CommonVersion returns a natural number.
LEMMA CommonVersionType ==
    ASSUME NEW l \in Ranges, NEW r \in Ranges
    PROVE  CommonVersion(l, r) \in Nat
BY DEF CommonVersion, Ranges, NoVersion

\* Whatever the man in the middle rewrites in a well-formed Setup, the
\* result is a well-formed Setup.
LEMMA TamperedSetupsType ==
    ASSUME NEW s \in SetupType
    PROVE  TamperedSetups(s) \subseteq SetupType
<1> SUFFICES ASSUME NEW v \in {s.versions} \cup AttackerVersions,
                    NEW k \in {s.pk, Mitm, ZeroKey}, NEW m \in {s.mtu, 0},
                    NEW t \in {s.tokens} \cup AttackerTokens, NEW r \in RIDs
             PROVE  [versions |-> v, pk |-> k, mtu |-> m, tokens |-> t, lrid |-> r,
                     rrid |-> s.rrid] \in SetupType
  BY DEF TamperedSetups
<1>1. v \in Ranges
  BY ConstantsAssumption DEF SetupType
<1>2. k \in NaClKeys
  BY DEF SetupType, NaClKeys, Owners
<1>3. m \in Nat /\ t \in Nat
  BY ConstantsAssumption DEF SetupType
<1>4. s.rrid \in RIDs
  BY DEF SetupType
<1>5. QED
  BY <1>1, <1>2, <1>3, <1>4 DEF SetupType

\* Every Setup the network can deliver is well formed.
LEMMA DeliverableSetupsType ==
    ASSUME NEW p \in Parties
    PROVE  DeliverableSetups(p) \subseteq SetupType
<1>1. \A q \in Parties : TamperedSetups(LSetup(q)) \subseteq SetupType
  BY LSetupType, TamperedSetupsType
<1>2. Other(p) \in Parties
  BY DEF Other, Parties
<1>3. QED
  BY <1>1, <1>2, LSetupType DEF DeliverableSetups

-----------------------------------------------------------------------------
(* Type correctness.                                                       *)

\* The Auth messages a side can receive carry blessings of a known
\* principal, or none: honest ones its peer sent, forged ones the
\* attacker's.
LEMMA DeliverableAuthsBlessings ==
    ASSUME TypeOK, NEW p \in Parties
    PROVE  \A m \in DeliverableAuths(p) : m.blessings \in Blessings \cup {NoBlessings}
<1>1. \A m \in auths : m.blessings \in Blessings \cup {NoBlessings}
  BY DEF TypeOK
<1>2. ASSUME NEW b \in AttackerBlessings, NEW k, NEW s
      PROVE  AuthMsg(Mitm, k, b, {}, s).blessings \in Blessings \cup {NoBlessings}
  <2>1. b \in Blessings \cup {NoBlessings}
    <3>1. CASE b = NoBlessings
      BY <3>1
    <3>2. CASE b # NoBlessings
      <4>1. PICK o \in Owners : b = [principal |-> o, named |-> TRUE]
        BY <3>2 DEF AttackerBlessings
      <4>2. QED
        BY <4>1 DEF Blessings
    <3>3. QED
      BY <3>1, <3>2
  <2>2. QED
    BY <2>1 DEF AuthMsg
<1>3. DeliverableAuths(p) \subseteq
        auths \cup { AuthMsg(Mitm, sessKey[p], b, {}, s) : b \in AttackerBlessings,
                                                          s \in KnownSigs }
  BY DEF DeliverableAuths
<1>4. QED
  BY <1>1, <1>2, <1>3

\* The initial state is well typed.
LEMMA TypeInit == Init => TypeOK
BY ConstantsAssumption
DEF Init, TypeOK, Errors, Blessings, NoBlessings, NaClKeys, Parties, Owners,
    NoKey, NotRead, NoSetup, NoBinding, Pending, NoVersion

\* Every step keeps the state well typed.
LEMMA TypeInductive == TypeOK /\ [Next]_vars => TypeOK'
<2> SUFFICES ASSUME TypeOK, [Next]_vars PROVE TypeOK'
  OBVIOUS
  <2>1. CASE DialStart
    BY <2>1, ConstantsAssumption DEF DialStart, TypeOK, Blessings, Parties, Owners
  <2>2. CASE AcceptStart
    BY <2>2 DEF AcceptStart, TypeOK, Blessings, Parties, Owners
  <2>3. ASSUME NEW p \in Parties, SendSetup(p) PROVE TypeOK'
    BY <2>3 DEF SendSetup, TypeOK
  <2>4. ASSUME NEW p \in Parties, ReadSetup(p) PROVE TypeOK'
    <3>1. DeliverableSetups(p) \subseteq SetupType
      BY DeliverableSetupsType
    <3>2. QED
      BY <2>4, <3>1 DEF ReadSetup, TypeOK
  <2>5. ASSUME NEW p \in Parties, FinishSetup(p) PROVE TypeOK'
    <3> DEFINE v == CommonVersion(LSetup(p).versions, rSetup[p].versions)
    <3>1. CASE rSetup[p] = RecvErr \/ setupSent[p] = "err" \/ v = NoVersion
      BY <2>5, <3>1 DEF FinishSetup, Fail, TypeOK, Errors
    <3>2. CASE rSetup[p] # RecvErr /\ setupSent[p] # "err" /\ v # NoVersion
      <4>1. rSetup[p] \in SetupType
        BY <2>5, <3>2 DEF FinishSetup, TypeOK
      <4>2. v \in Nat
        BY <4>1, LSetupType, CommonVersionType DEF SetupType
      <4>3. NegotiatedMtu(p) \in Nat \ {0}
        BY <4>1, ConstantsAssumption DEF NegotiatedMtu, RSetupFilled, LSetup, SetupType
      <4>4. NegotiatedShared(p) \in Nat
        BY <4>1, LSetupType DEF NegotiatedShared, SetupType
      <4>5. CASE rSetup[p].pk = ZeroKey
        BY <2>5, <3>2, <4>2, <4>3, <4>4, <4>5
        DEF FinishSetup, Fail, TypeOK, Errors
      <4>6. CASE rSetup[p].pk # ZeroKey
        <5>1. IsBinding(ChannelBinding(p, v))
          BY <4>1, <4>6, ChannelBindingIsBinding
        <5>2. {p, rSetup[p].pk} \in SUBSET NaClKeys /\ rSetup[p].lrid \in RIDs
          BY <4>1 DEF SetupType, NaClKeys, Owners
        <5>3. /\ sessKey' = [sessKey EXCEPT ![p] = {p, rSetup[p].pk}]
              /\ binding' = [binding EXCEPT ![p] = ChannelBinding(p, v)]
              /\ remoteRID' = [remoteRID EXCEPT ![p] = rSetup[p].lrid]
              /\ Proceed(p, IF p = Dialer THEN "readAuth" ELSE "sendAuth")
              /\ version' = [version EXCEPT ![p] = v]
              /\ mtu' = [mtu EXCEPT ![p] = NegotiatedMtu(p)]
              /\ shared' = [shared EXCEPT ![p] = NegotiatedShared(p)]
              /\ UNCHANGED <<localBlessings, setupSent, rSetup, rPublicKey,
                             remoteBlessings, auths>>
          BY <2>5, <3>2, <4>6 DEF FinishSetup
        <5>4. \A q \in Parties : binding'[q] = NoBinding \/ IsBinding(binding'[q])
          BY <5>1, <5>3 DEF TypeOK
        <5>5. QED
          BY <4>2, <4>3, <4>4, <5>2, <5>3, <5>4 DEF Proceed, TypeOK
      <4>7. QED
        BY <4>5, <4>6
    <3>3. QED
      BY <3>1, <3>2
  <2>6. ASSUME NEW p \in Parties, ReadRemoteAuth(p) PROVE TypeOK'
    <3>1. CASE closed /\ Fail(p, "Recv") /\ UNCHANGED <<rPublicKey, remoteBlessings>>
      BY <2>6, <3>1 DEF ReadRemoteAuth, Fail, TypeOK, Errors
    <3>2. ASSUME NEW m \in DeliverableAuths(p),
                 Fail(p, "BlessingsFlow"), UNCHANGED <<rPublicKey, remoteBlessings>>
          PROVE  TypeOK'
      BY <2>6, <3>2 DEF ReadRemoteAuth, Fail, TypeOK, Errors
    <3>3. ASSUME NEW m \in DeliverableAuths(p),
                 rPublicKey' = [rPublicKey EXCEPT ![p] = RemoteAuthKey(p, m)],
                 remoteBlessings' = IF IsZero(m.blessings) THEN remoteBlessings
                                    ELSE [remoteBlessings EXCEPT ![p] = m.blessings],
                 \/ Fail(p, "NoPublicKey")
                 \/ Fail(p, "InvalidChannelBinding")
                 \/ Proceed(p, IF p = Dialer THEN "authorize" ELSE "done")
          PROVE  TypeOK'
      <4>1. m.blessings \in Blessings \cup {NoBlessings}
        BY DeliverableAuthsBlessings
      <4>2. RemoteAuthKey(p, m) \in Owners \cup {NoKey}
        BY <4>1 DEF TypeOK, RemoteAuthKey, IsZero, Blessings
      <4>3. rPublicKey' \in [Parties -> Owners \cup {NoKey}]
        BY <3>3, <4>2 DEF TypeOK
      <4>4. remoteBlessings' \in [Parties -> Blessings \cup {NoBlessings}]
        BY <3>3, <4>1 DEF TypeOK
      <4>5. /\ pc' \in [Parties -> {"start", "setup", "readAuth", "authorize", "sendAuth",
                                     "done", "failed"}]
            /\ err' \in [Parties -> Errors]
            /\ closedBy' \in {"none", "network", "teardown"}
        BY <3>3 DEF TypeOK, Fail, Proceed, Errors
      <4>6. QED
        BY <2>6, <4>3, <4>4, <4>5 DEF ReadRemoteAuth, TypeOK
    <3>4. QED
      BY <2>6, <3>1, <3>2, <3>3 DEF ReadRemoteAuth
<2>7. ASSUME NEW p \in Parties, SendAuth(p) PROVE TypeOK'
    BY <2>7 DEF SendAuth, Fail, Proceed, TypeOK, Errors, AuthMsg
  <2>8. CASE DialAuthorize
    BY <2>8 DEF DialAuthorize, Fail, Proceed, TypeOK, Errors, Parties
  <2>9. CASE CloseTransport
    BY <2>9 DEF CloseTransport, TypeOK
  <2>10. CASE Finished \/ UNCHANGED vars
    BY <2>10 DEF Finished, vars, TypeOK
  <2>11. QED
    BY <2>1, <2>2, <2>3, <2>4, <2>5, <2>6, <2>7, <2>8, <2>9, <2>10 DEF Next

\* Every state the handshake reaches is well typed: in particular every
\* channel binding setup returns is a box secret or a pair of Setups, and
\* every Auth message on the wire carries blessings of a known principal.
THEOREM TypeCorrect == Spec => []TypeOK
BY TypeInit, TypeInductive, PTL DEF Spec

-----------------------------------------------------------------------------
(* Peer authentication.                                                    *)

\* Before setup returns no binding exists; from then on there is one.
BindingPhase ==
    \A p \in Parties :
        /\ pc[p] \in {"start", "setup"} => binding[p] = NoBinding
        /\ pc[p] \in {"readAuth", "authorize", "sendAuth", "done"} => binding[p] # NoBinding

\* A side's binding and session key were both computed from the Setup it
\* received, which carried a key (setup, lines 270-300).
BindingFromSetup ==
    \A p \in Parties : binding[p] # NoBinding =>
        /\ rSetup[p] \in SetupType
        /\ rSetup[p].pk # ZeroKey
        /\ sessKey[p] = {p, rSetup[p].pk}
        /\ binding[p] = ChannelBinding(p, version[p])

\* Every signature of an honest side on the wire is over that side's own
\* binding, with its own role's tag, made after its setup returned.
HonestSignatures ==
    \A m \in auths : m.sig.signer \in Parties =>
        /\ m.sig.tag = SignTag(m.sig.signer)
        /\ m.sig.binding = binding[m.sig.signer]
        /\ pc[m.sig.signer] \notin {"start", "setup"}

\* What a side that verified an honest peer's signature knows of it.
VerifiedPeer ==
    \A p \in Parties : Verified(p) /\ rPublicKey[p] \in Parties =>
        /\ rPublicKey[p] = Other(p)
        /\ binding[Other(p)] = binding[p]
        /\ binding[p] # NoBinding
        /\ pc[Other(p)] \notin {"start", "setup"}

\* The inductive invariant behind PeerAuthentic.
AuthInv == TypeOK /\ BindingPhase /\ BindingFromSetup /\ HonestSignatures /\ VerifiedPeer

\* Two sides with the same channel binding share the box session key: below
\* version 14 the binding is the key; from 14 on it holds both Setups, each
\* carrying the key its sender used (the NaCl key is a Setup option).
LEMMA BindingDeterminesKey ==
    ASSUME TypeOK, BindingFromSetup, NEW p \in Parties,
           binding[p] # NoBinding, binding[Other(p)] = binding[p]
    PROVE  sessKey[Other(p)] = sessKey[p]
<1> DEFINE q == Other(p)
<1>1. q \in Parties /\ q # p
  BY DEF Other, Parties, Dialer, Acceptor
<1>2. \A x \in Parties : binding[x] # NoBinding =>
          /\ sessKey[x] = {x, rSetup[x].pk}
          /\ version[x] >= V14 => binding[x] = IF x = Dialer
                                   THEN SetupsBinding(LSetup(x), RSetupFilled(x))
                                   ELSE SetupsBinding(RSetupFilled(x), LSetup(x))
          /\ ~(version[x] >= V14) => binding[x].secret = sessKey[x]
  <2> SUFFICES ASSUME NEW x \in Parties, binding[x] # NoBinding
               PROVE  /\ sessKey[x] = {x, rSetup[x].pk}
                      /\ version[x] >= V14 => binding[x] = IF x = Dialer
                                               THEN SetupsBinding(LSetup(x), RSetupFilled(x))
                                               ELSE SetupsBinding(RSetupFilled(x), LSetup(x))
                      /\ ~(version[x] >= V14) => binding[x].secret = sessKey[x]
    OBVIOUS
  <2>1. sessKey[x] = {x, rSetup[x].pk} /\ binding[x] = ChannelBinding(x, version[x])
    BY DEF BindingFromSetup
  <2>2. QED
    BY <2>1 DEF ChannelBinding, SecretBinding
<1>3. binding[q] # NoBinding
  OBVIOUS
<1>4. CASE ~(version[p] >= V14) /\ ~(version[q] >= V14)
  <2>1. binding[p].secret = sessKey[p] /\ binding[q].secret = sessKey[q]
    BY <1>1, <1>2, <1>3, <1>4
  <2>2. QED
    BY <2>1
<1>5. \A x \in Parties : binding[x] # NoBinding =>
        (binding[x].secret = {} <=> version[x] >= V14)
  <2> SUFFICES ASSUME NEW x \in Parties, binding[x] # NoBinding
               PROVE  binding[x].secret = {} <=> version[x] >= V14
    OBVIOUS
  <2>1. sessKey[x] = {x, rSetup[x].pk}
    BY <1>2
  <2>2. CASE version[x] >= V14
    <3>1. binding[x] = SetupsBinding(LSetup(x), RSetupFilled(x))
          \/ binding[x] = SetupsBinding(RSetupFilled(x), LSetup(x))
      BY <1>2, <2>2
    <3>2. binding[x].secret = {}
      BY <3>1 DEF SetupsBinding
    <3>3. QED
      BY <3>2, <2>2
  <2>3. CASE ~(version[x] >= V14)
    BY <1>2, <2>1, <2>3
  <2>4. QED
    BY <2>2, <2>3
<1>6. CASE (version[p] >= V14) # (version[q] >= V14)
  BY <1>1, <1>3, <1>5, <1>6
<1>7. CASE version[p] >= V14 /\ version[q] >= V14
  <2>1. binding[Dialer] = SetupsBinding(LSetup(Dialer), RSetupFilled(Dialer))
        /\ binding[Acceptor] = SetupsBinding(RSetupFilled(Acceptor), LSetup(Acceptor))
        /\ binding[Dialer] = binding[Acceptor]
    <3>1. {p, q} = {Dialer, Acceptor}
      BY <1>1 DEF Parties
    <3>2. binding[Dialer] # NoBinding /\ binding[Acceptor] # NoBinding
          /\ version[Dialer] >= V14 /\ version[Acceptor] >= V14
      BY <3>1, <1>3, <1>7
    <3>3. QED
      BY <3>1, <3>2, <1>2 DEF Parties, Dialer, Acceptor
  <2>2. RSetupFilled(Dialer) = LSetup(Acceptor) /\ RSetupFilled(Acceptor) = LSetup(Dialer)
    BY <2>1 DEF SetupsBinding
  <2>3. rSetup[Dialer].pk = Acceptor /\ rSetup[Acceptor].pk = Dialer
    BY <2>2 DEF RSetupFilled, LSetup
  <2>4. sessKey[Dialer] = sessKey[Acceptor]
    <3>1. binding[Dialer] # NoBinding /\ binding[Acceptor] # NoBinding
      BY <1>1, <1>3 DEF Parties
    <3>2. QED
      BY <2>3, <3>1, <1>2 DEF Parties
  <2>5. QED
    BY <2>4, <1>1 DEF Parties
<1>8. QED
  BY <1>4, <1>6, <1>7

\* A channel binding is never the absent binding.
LEMMA BindingNotNone ==
    ASSUME NEW b, IsBinding(b)
    PROVE  b # NoBinding
BY DEF IsBinding, NoBinding, SecretBinding

\* Only the other role's signing tag is the tag a side expects
\* (lines 107, 184 and 321-324).
LEMMA SignTagExpected ==
    ASSUME NEW p \in Parties, NEW q \in Parties, SignTag(q) = ExpectedTag(p)
    PROVE  q = Other(p)
BY DEF SignTag, ExpectedTag, Other, Parties, Dialer, Acceptor, authDialerTag,
   authAcceptorTag

\* A signature of an honest side that a side can receive, sent by that
\* side or replayed or forwarded by the attacker, is one the honest side
\* made: the attacker cannot make one.
LEMMA HonestDelivered ==
    ASSUME HonestSignatures, NEW p \in Parties, NEW m \in DeliverableAuths(p),
           m.sig.signer \in Parties
    PROVE  /\ m.sig.tag = SignTag(m.sig.signer)
           /\ m.sig.binding = binding[m.sig.signer]
           /\ pc[m.sig.signer] \notin {"start", "setup"}
<1>1. CASE m \in auths
  BY <1>1 DEF HonestSignatures
<1>2. CASE m \notin auths
  <2>1. PICK b \in AttackerBlessings, s \in KnownSigs : m = AuthMsg(Mitm, sessKey[p], b, {}, s)
    BY <1>2 DEF DeliverableAuths
  <2>2. m.sig = s
    BY <2>1 DEF AuthMsg
  <2>3. CASE \E t \in Tags, q \in {q \in Parties : binding[q] # NoBinding} :
                 s = [signer |-> Mitm, tag |-> t, binding |-> binding[q]]
    <3>1. s.signer = Mitm
      BY <2>3
    <3>2. QED
      BY <3>1, <2>2 DEF Mitm, Parties, Dialer, Acceptor
  <2>4. CASE \E m2 \in {m2 \in auths : Mitm \in m2.key} : s = m2.sig
    BY <2>2, <2>4 DEF HonestSignatures
  <2>5. QED
    BY <2>1, <2>3, <2>4 DEF KnownSigs
<1>3. QED
  BY <1>1, <1>2


\* BindingFromSetup depends only on the binding, the received Setup, the
\* session key and the version.
LEMMA BindingFromSetupUnchanged ==
    ASSUME BindingFromSetup, UNCHANGED <<binding, rSetup, sessKey, version>>
    PROVE  BindingFromSetup'
BY DEF BindingFromSetup, ChannelBinding, RSetupFilled

\* The initial state satisfies the invariant.
LEMMA AuthInit == Init => AuthInv
<1> SUFFICES ASSUME Init PROVE AuthInv
  OBVIOUS
<1>1. TypeOK
  BY TypeInit
<1>2. BindingPhase /\ BindingFromSetup /\ HonestSignatures /\ VerifiedPeer
  BY DEF Init, BindingPhase, BindingFromSetup, HonestSignatures, VerifiedPeer, Verified
<1>3. QED
  BY <1>1, <1>2 DEF AuthInv

\* Every step keeps the invariant.
LEMMA AuthInductive == AuthInv /\ [Next]_vars => AuthInv'
<1> SUFFICES ASSUME AuthInv, [Next]_vars PROVE AuthInv'
  OBVIOUS
<1> USE DEF AuthInv
<1>0. TypeOK'
  BY TypeInductive
<1>1. CASE DialStart
  <2>1. BindingPhase'
    BY <1>1 DEF DialStart, BindingPhase, TypeOK
  <2>2. BindingFromSetup'
    BY <1>1, BindingFromSetupUnchanged DEF DialStart
  <2>3. HonestSignatures'
    BY <1>1 DEF DialStart, HonestSignatures, TypeOK
  <2>4. VerifiedPeer'
    BY <1>1 DEF DialStart, VerifiedPeer, Verified, TypeOK, Other, Parties
  <2>5. QED
    BY <1>0, <2>1, <2>2, <2>3, <2>4
<1>2. CASE AcceptStart
  <2>1. BindingPhase'
    BY <1>2 DEF AcceptStart, BindingPhase, TypeOK
  <2>2. BindingFromSetup'
    BY <1>2, BindingFromSetupUnchanged DEF AcceptStart
  <2>3. HonestSignatures'
    BY <1>2 DEF AcceptStart, HonestSignatures, TypeOK
  <2>4. VerifiedPeer'
    BY <1>2 DEF AcceptStart, VerifiedPeer, Verified, TypeOK, Other, Parties
  <2>5. QED
    BY <1>0, <2>1, <2>2, <2>3, <2>4
<1>3. ASSUME NEW p \in Parties, SendSetup(p) PROVE AuthInv'
  <2>1. BindingFromSetup'
    BY <1>3, BindingFromSetupUnchanged DEF SendSetup
  <2>2. QED
    BY <1>0, <1>3, <2>1 DEF SendSetup, BindingPhase, HonestSignatures, VerifiedPeer, Verified
<1>4. ASSUME NEW p \in Parties, ReadSetup(p) PROVE AuthInv'
  <2>1. binding[p] = NoBinding
    BY <1>4 DEF ReadSetup, BindingPhase
  <2>2. BindingFromSetup'
    BY <1>4, <2>1 DEF ReadSetup, BindingFromSetup, ChannelBinding, RSetupFilled, TypeOK
  <2>3. QED
    BY <1>0, <1>4, <2>2 DEF ReadSetup, BindingPhase, HonestSignatures, VerifiedPeer, Verified
<1>5. ASSUME NEW p \in Parties, FinishSetup(p) PROVE AuthInv'
  <2>1. pc[p] = "setup" /\ binding[p] = NoBinding
    BY <1>5 DEF FinishSetup, BindingPhase
  <2>2. /\ UNCHANGED <<rSetup, rPublicKey, auths>>
        /\ \A q \in Parties \ {p} : version'[q] = version[q]
    BY <1>5 DEF FinishSetup, TypeOK
  <2>3. CASE pc' = [pc EXCEPT ![p] = "failed"] /\ UNCHANGED <<sessKey, binding>>
    <3>1. BindingPhase'
      BY <2>3 DEF BindingPhase, TypeOK
    <3>2. BindingFromSetup'
      BY <2>1, <2>2, <2>3 DEF BindingFromSetup, ChannelBinding, RSetupFilled
    <3>3. HonestSignatures'
      BY <2>2, <2>3 DEF HonestSignatures, TypeOK
    <3>4. VerifiedPeer'
      BY <2>2, <2>3 DEF VerifiedPeer, Verified, TypeOK, Other, Parties
    <3>5. QED
      BY <1>0, <3>1, <3>2, <3>3, <3>4
  <2>4. CASE /\ rSetup[p] \in SetupType /\ rSetup[p].pk # ZeroKey
             /\ sessKey' = [sessKey EXCEPT ![p] = {p, rSetup[p].pk}]
             /\ binding' = [binding EXCEPT ![p] = ChannelBinding(p, version'[p])]
             /\ pc' = [pc EXCEPT ![p] = IF p = Dialer THEN "readAuth" ELSE "sendAuth"]
    <3>1. binding'[p] # NoBinding
      <4>1. IsBinding(ChannelBinding(p, version'[p]))
        BY <2>4, ChannelBindingIsBinding
      <4>2. QED
        BY <2>4, <4>1, BindingNotNone DEF TypeOK
    <3>2. BindingPhase'
      BY <2>4, <3>1 DEF BindingPhase, TypeOK
    <3>3. BindingFromSetup'
      <4> SUFFICES ASSUME NEW q \in Parties, binding'[q] # NoBinding
                   PROVE  /\ rSetup'[q] \in SetupType /\ rSetup'[q].pk # ZeroKey
                          /\ sessKey'[q] = {q, rSetup'[q].pk}
                          /\ binding'[q] = ChannelBinding(q, version[q])'
        BY DEF BindingFromSetup
      <4>1. CASE q = p
        BY <2>2, <2>4, <4>1 DEF ChannelBinding, RSetupFilled, TypeOK
      <4>2. CASE q # p
        BY <2>2, <2>4, <4>2 DEF BindingFromSetup, ChannelBinding, RSetupFilled, TypeOK
      <4>3. QED
        BY <4>1, <4>2
    <3>4. HonestSignatures'
      BY <2>1, <2>2, <2>4 DEF HonestSignatures, TypeOK
    <3>5. VerifiedPeer'
      BY <2>1, <2>2, <2>4 DEF VerifiedPeer, Verified, TypeOK, Other, Parties, Dialer, Acceptor
    <3>6. QED
      BY <1>0, <3>2, <3>3, <3>4, <3>5
  <2>5. QED
    BY <1>5, <2>3, <2>4 DEF FinishSetup, Fail, Proceed, TypeOK
<1>6. ASSUME NEW p \in Parties, ReadRemoteAuth(p) PROVE AuthInv'
  <2>1. pc[p] = "readAuth" /\ binding[p] # NoBinding
    BY <1>6 DEF ReadRemoteAuth, BindingPhase
  <2>2. UNCHANGED <<rSetup, version, sessKey, binding, auths>>
    BY <1>6 DEF ReadRemoteAuth
  <2>3. BindingFromSetup'
    BY <2>2, BindingFromSetupUnchanged
  <2>4. CASE pc' = [pc EXCEPT ![p] = "failed"]
             /\ \A q \in Parties \ {p} : rPublicKey'[q] = rPublicKey[q]
    <3>1. BindingPhase' /\ HonestSignatures'
      BY <2>2, <2>4 DEF BindingPhase, HonestSignatures, TypeOK
    <3>2. VerifiedPeer'
      BY <2>2, <2>4 DEF VerifiedPeer, Verified, TypeOK, Other, Parties
    <3>3. QED
      BY <1>0, <2>3, <3>1, <3>2
  <2>5. CASE \E m \in DeliverableAuths(p) :
               /\ Verify(m.sig, rPublicKey'[p], ExpectedTag(p), binding[p])
               /\ pc' = [pc EXCEPT ![p] = IF p = Dialer THEN "authorize" ELSE "done"]
               /\ \A q \in Parties \ {p} : rPublicKey'[q] = rPublicKey[q]
    <3>1. PICK m \in DeliverableAuths(p) :
               /\ Verify(m.sig, rPublicKey'[p], ExpectedTag(p), binding[p])
               /\ pc' = [pc EXCEPT ![p] = IF p = Dialer THEN "authorize" ELSE "done"]
               /\ \A q \in Parties \ {p} : rPublicKey'[q] = rPublicKey[q]
      BY <2>5
    <3>2. BindingPhase' /\ HonestSignatures'
      BY <2>1, <2>2, <3>1 DEF BindingPhase, HonestSignatures, TypeOK
    <3>3. rPublicKey'[p] \in Parties =>
             /\ rPublicKey'[p] = Other(p) /\ binding[Other(p)] = binding[p]
             /\ pc[Other(p)] \notin {"start", "setup"}
      <4> SUFFICES ASSUME rPublicKey'[p] \in Parties
                   PROVE  /\ rPublicKey'[p] = Other(p) /\ binding[Other(p)] = binding[p]
                          /\ pc[Other(p)] \notin {"start", "setup"}
        OBVIOUS
      <4>1. /\ m.sig.signer = rPublicKey'[p] /\ m.sig.tag = ExpectedTag(p)
            /\ m.sig.binding = binding[p]
        BY <3>1 DEF Verify
      <4>2. /\ m.sig.tag = SignTag(m.sig.signer)
            /\ m.sig.binding = binding[m.sig.signer]
            /\ pc[m.sig.signer] \notin {"start", "setup"}
        BY <4>1, HonestDelivered
      <4>3. m.sig.signer = Other(p)
        BY <4>1, <4>2, SignTagExpected
      <4>4. QED
        BY <4>1, <4>2, <4>3
    <3>4. VerifiedPeer'
      <4> SUFFICES ASSUME NEW q \in Parties, Verified(q)', rPublicKey'[q] \in Parties
                   PROVE  /\ rPublicKey'[q] = Other(q) /\ binding'[Other(q)] = binding'[q]
                          /\ binding'[q] # NoBinding
                          /\ pc'[Other(q)] \notin {"start", "setup"}
        BY DEF VerifiedPeer
      <4>1. CASE q = p
        BY <2>1, <2>2, <3>1, <3>3, <4>1 DEF TypeOK, Other, Parties
      <4>2. CASE q # p
        BY <2>2, <3>1, <4>2 DEF VerifiedPeer, Verified, TypeOK, Other, Parties
      <4>3. QED
        BY <4>1, <4>2
    <3>5. QED
      BY <1>0, <2>3, <3>2, <3>4
  <2>6. \A q \in Parties \ {p} : rPublicKey'[q] = rPublicKey[q]
    BY <1>6 DEF ReadRemoteAuth, TypeOK
  <2>7. CASE pc' = [pc EXCEPT ![p] = "failed"]
    BY <2>4, <2>6, <2>7
  <2>8. CASE pc' # [pc EXCEPT ![p] = "failed"]
    <3>1. PICK m \in DeliverableAuths(p) :
               /\ rPublicKey' = [rPublicKey EXCEPT ![p] = RemoteAuthKey(p, m)]
               /\ Verify(m.sig, RemoteAuthKey(p, m), ExpectedTag(p), binding[p])
               /\ Proceed(p, IF p = Dialer THEN "authorize" ELSE "done")
      BY <1>6, <2>8 DEF ReadRemoteAuth, Fail
    <3>2. rPublicKey'[p] = RemoteAuthKey(p, m)
      BY <3>1 DEF TypeOK
    <3>3. QED
      BY <2>5, <2>6, <3>1, <3>2 DEF Proceed
  <2>9. QED
    BY <2>7, <2>8
<1>7. CASE DialAuthorize
  <2>1. /\ pc[Dialer] = "authorize"
        /\ pc' = [pc EXCEPT ![Dialer] = "failed"] \/ pc' = [pc EXCEPT ![Dialer] = "sendAuth"]
        /\ UNCHANGED <<binding, rPublicKey, auths, rSetup, sessKey, version>>
    BY <1>7 DEF DialAuthorize, Fail, Proceed
  <2>2. BindingFromSetup'
    BY <2>1, BindingFromSetupUnchanged
  <2>3. BindingPhase' /\ HonestSignatures'
    BY <2>1 DEF BindingPhase, HonestSignatures, TypeOK
  <2>4. VerifiedPeer'
    BY <2>1 DEF VerifiedPeer, Verified, TypeOK, Other, Parties, Dialer, Acceptor
  <2>5. QED
    BY <1>0, <2>2, <2>3, <2>4
<1>8. ASSUME NEW p \in Parties, SendAuth(p) PROVE AuthInv'
  <2>1. pc[p] = "sendAuth" /\ binding[p] # NoBinding
    BY <1>8 DEF SendAuth, BindingPhase
  <2>2. /\ \/ pc' = [pc EXCEPT ![p] = "failed"]
           \/ pc' = [pc EXCEPT ![p] = IF p = Dialer THEN "done" ELSE "readAuth"]
        /\ UNCHANGED <<binding, rPublicKey, rSetup, sessKey, version>>
    BY <1>8 DEF SendAuth, Fail, Proceed
  <2>3. \A m \in auths' :
           m \in auths \/ m.sig = [signer |-> p, tag |-> SignTag(p), binding |-> binding[p]]
    BY <1>8 DEF SendAuth, AuthMsg
  <2>4. BindingFromSetup'
    BY <2>2, BindingFromSetupUnchanged
  <2>5. BindingPhase'
    BY <2>1, <2>2 DEF BindingPhase, TypeOK
  <2>6. HonestSignatures'
    <3> SUFFICES ASSUME NEW m \in auths', m.sig.signer \in Parties
                 PROVE  /\ m.sig.tag = SignTag(m.sig.signer)
                        /\ m.sig.binding = binding'[m.sig.signer]
                        /\ pc'[m.sig.signer] \notin {"start", "setup"}
      BY DEF HonestSignatures
    <3>1. CASE m \in auths
      BY <2>2, <3>1 DEF HonestSignatures, TypeOK
    <3>2. CASE m.sig = [signer |-> p, tag |-> SignTag(p), binding |-> binding[p]]
      BY <2>2, <3>2 DEF TypeOK
    <3>3. QED
      BY <2>3, <3>1, <3>2
  <2>7. VerifiedPeer'
    <3> SUFFICES ASSUME NEW q \in Parties, Verified(q)', rPublicKey'[q] \in Parties
                 PROVE  /\ rPublicKey'[q] = Other(q) /\ binding'[Other(q)] = binding'[q]
                        /\ binding'[q] # NoBinding
                        /\ pc'[Other(q)] \notin {"start", "setup"}
      BY DEF VerifiedPeer
    <3>1. CASE q = p
      <4>1. Verified(p)
        BY <2>1, <2>2, <3>1 DEF Verified, TypeOK, Parties, Dialer, Acceptor
      <4>2. QED
        BY <2>2, <3>1, <4>1 DEF VerifiedPeer, TypeOK, Other, Parties
    <3>2. CASE q # p
      <4>1. Other(q) = p /\ Verified(q)
        BY <2>2, <3>2 DEF Verified, TypeOK, Other, Parties
      <4>2. QED
        BY <2>2, <4>1 DEF VerifiedPeer, TypeOK
    <3>3. QED
      BY <3>1, <3>2
  <2>8. QED
    BY <1>0, <2>4, <2>5, <2>6, <2>7
<1>9. CASE CloseTransport
  <2>1. BindingFromSetup'
    BY <1>9, BindingFromSetupUnchanged DEF CloseTransport
  <2>2. QED
    BY <1>0, <1>9, <2>1 DEF CloseTransport, BindingPhase, HonestSignatures, VerifiedPeer,
       Verified
<1>10. CASE Finished \/ UNCHANGED vars
  <2>1. UNCHANGED vars
    BY <1>10 DEF Finished
  <2>2. BindingFromSetup'
    BY <2>1, BindingFromSetupUnchanged DEF vars
  <2>3. QED
    BY <1>0, <2>1, <2>2 DEF vars, BindingPhase, HonestSignatures, VerifiedPeer, Verified
<1>11. QED
  BY <1>1, <1>2, <1>3, <1>4, <1>5, <1>6, <1>7, <1>8, <1>9, <1>10 DEF Next

\* Every reachable state satisfies the authentication invariant.
THEOREM AuthInvariant == Spec => []AuthInv
BY AuthInit, AuthInductive, PTL DEF Spec

\* Peer authentication (readRemoteAuth, lines 326-356): a side that
\* verified an Auth naming an honest principal talks to the other side,
\* in the other role, over the same session key and channel binding.
THEOREM PeerAuthenticity == Spec => []PeerAuthentic
<1>1. AuthInv => PeerAuthentic
  <2> SUFFICES ASSUME AuthInv, NEW p \in Parties, Verified(p), rPublicKey[p] \in Parties
               PROVE  /\ rPublicKey[p] = Other(p)
                      /\ sessKey[Other(p)] = sessKey[p]
                      /\ binding[Other(p)] = binding[p]
    BY DEF PeerAuthentic
  <2>1. /\ rPublicKey[p] = Other(p) /\ binding[Other(p)] = binding[p]
        /\ binding[p] # NoBinding
    BY DEF AuthInv, VerifiedPeer
  <2>2. sessKey[Other(p)] = sessKey[p]
    BY <2>1, BindingDeterminesKey DEF AuthInv
  <2>3. QED
    BY <2>1, <2>2
<1>2. QED
  BY <1>1, AuthInvariant, PTL


-----------------------------------------------------------------------------
(* A handshake that returns nil is done both ways.  CompletedBothWays is  *)
(* not inductive by itself: the acceptor sends its Auth before it reads   *)
(* the dialer's, and the dialer binds the acceptor's key before it sends  *)
(* its own, so the two halves are carried from the step that does them to *)
(* the step that returns.                                                 *)

\* A side past readRemoteAuth has bound a public key: the dialer from
\* the moment it authorizes, either side once done.
KeyBound == \A p \in Parties :
    pc[p] = "done" \/ (p = Dialer /\ pc[p] \in {"authorize", "sendAuth"})
        => rPublicKey[p] # NoKey

\* A side past its own sendAuth has its Auth on the session: the acceptor
\* from the moment it reads the dialer's, either side once done.
AuthOut == \A p \in Parties :
    pc[p] = "done" \/ (p = Acceptor /\ pc[p] = "readAuth")
        => \E m \in auths : m.from = p /\ m.key = sessKey[p]

CInv == TypeOK /\ KeyBound /\ AuthOut

LEMMA CInit == Init => CInv
<1> SUFFICES ASSUME Init PROVE CInv
  OBVIOUS
<1>1. TypeOK
  BY TypeInit
<1>2. KeyBound /\ AuthOut
  BY DEF Init, KeyBound, AuthOut, Parties, Dialer, Acceptor
<1>3. QED
  BY <1>1, <1>2 DEF CInv

\* Every step keeps CInv.  Only FinishSetup changes a session key, and
\* only while the side is in setup; auths only grows.
LEMMA CInductive == CInv /\ [Next]_vars => CInv'
<1> SUFFICES ASSUME CInv, [Next]_vars PROVE CInv'
  OBVIOUS
<1> USE DEF CInv
<1>0. TypeOK'
  BY TypeInductive
<1>1. CASE DialStart
  BY <1>0, <1>1 DEF DialStart, KeyBound, AuthOut, TypeOK
<1>2. CASE AcceptStart
  BY <1>0, <1>2 DEF AcceptStart, KeyBound, AuthOut, TypeOK
<1>3. ASSUME NEW p \in Parties, SendSetup(p) PROVE CInv'
  BY <1>0, <1>3 DEF SendSetup, KeyBound, AuthOut
<1>4. ASSUME NEW p \in Parties, ReadSetup(p) PROVE CInv'
  BY <1>0, <1>4 DEF ReadSetup, KeyBound, AuthOut
<1>5. ASSUME NEW p \in Parties, FinishSetup(p) PROVE CInv'
  <2>1. /\ pc[p] = "setup"
        /\ pc'[p] \in {"failed", IF p = Dialer THEN "readAuth" ELSE "sendAuth"}
        /\ \A q \in Parties \ {p} : pc'[q] = pc[q] /\ sessKey'[q] = sessKey[q]
        /\ UNCHANGED <<rPublicKey, auths>>
    BY <1>5 DEF FinishSetup, Fail, Proceed, TypeOK, Parties, Dialer, Acceptor
  <2>2. KeyBound'
    <3> SUFFICES ASSUME NEW q \in Parties,
                        pc'[q] = "done" \/ (q = Dialer /\ pc'[q] \in {"authorize", "sendAuth"})
                 PROVE  rPublicKey'[q] # NoKey
      BY DEF KeyBound
    <3>1. CASE q = p
      BY <2>1, <3>1
    <3>2. CASE q # p
      BY <2>1, <3>2 DEF KeyBound
    <3>3. QED
      BY <3>1, <3>2
  <2>3. AuthOut'
    <3> SUFFICES ASSUME NEW q \in Parties,
                        pc'[q] = "done" \/ (q = Acceptor /\ pc'[q] = "readAuth")
                 PROVE  \E m \in auths' : m.from = q /\ m.key = sessKey'[q]
      BY DEF AuthOut
    <3>1. CASE q = p
      BY <2>1, <3>1 DEF AuthOut, Parties, Dialer, Acceptor
    <3>2. CASE q # p
      BY <2>1, <3>2 DEF AuthOut
    <3>3. QED
      BY <3>1, <3>2
  <2>4. QED
    BY <1>0, <2>2, <2>3
<1>6. ASSUME NEW p \in Parties, ReadRemoteAuth(p) PROVE CInv'
  <2>1. /\ pc[p] = "readAuth"
        /\ pc'[p] \in {"failed", "authorize", "done"}
        /\ pc'[p] # "failed" => rPublicKey'[p] # NoKey
        /\ p = Dialer => pc'[p] # "done"
        /\ \A q \in Parties \ {p} : pc'[q] = pc[q] /\ rPublicKey'[q] = rPublicKey[q]
        /\ UNCHANGED <<sessKey, auths>>
    BY <1>6 DEF ReadRemoteAuth, Fail, Proceed, TypeOK, Parties, Dialer, Acceptor
  <2>2. KeyBound'
    <3> SUFFICES ASSUME NEW q \in Parties,
                        pc'[q] = "done" \/ (q = Dialer /\ pc'[q] \in {"authorize", "sendAuth"})
                 PROVE  rPublicKey'[q] # NoKey
      BY DEF KeyBound
    <3>1. CASE q = p
      BY <2>1, <3>1
    <3>2. CASE q # p
      BY <2>1, <3>2 DEF KeyBound
    <3>3. QED
      BY <3>1, <3>2
  <2>3. AuthOut'
    <3> SUFFICES ASSUME NEW q \in Parties,
                        pc'[q] = "done" \/ (q = Acceptor /\ pc'[q] = "readAuth")
                 PROVE  \E m \in auths' : m.from = q /\ m.key = sessKey'[q]
      BY DEF AuthOut
    <3>1. CASE q = p
      BY <2>1, <3>1 DEF AuthOut, Parties, Dialer, Acceptor
    <3>2. CASE q # p
      BY <2>1, <3>2 DEF AuthOut
    <3>3. QED
      BY <3>1, <3>2
  <2>4. QED
    BY <1>0, <2>2, <2>3
<1>7. CASE DialAuthorize
  <2>1. /\ pc[Dialer] = "authorize"
        /\ pc'[Dialer] \in {"failed", "sendAuth"}
        /\ pc'[Acceptor] = pc[Acceptor]
        /\ UNCHANGED <<rPublicKey, sessKey, auths>>
    BY <1>7 DEF DialAuthorize, Fail, Proceed, TypeOK, Parties, Dialer, Acceptor
  <2>2. QED
    BY <1>0, <2>1 DEF KeyBound, AuthOut, TypeOK, Parties
<1>8. ASSUME NEW p \in Parties, SendAuth(p) PROVE CInv'
  <2> DEFINE a == AuthMsg(p, sessKey[p], localBlessings[p],
                          IF p = Acceptor THEN AuthorizedPeers ELSE {},
                          [signer |-> p, tag |-> SignTag(p), binding |-> binding[p]])
  <2>1. /\ pc[p] = "sendAuth"
        /\ \A q \in Parties \ {p} : pc'[q] = pc[q]
        /\ auths \subseteq auths'
        /\ UNCHANGED <<rPublicKey, sessKey>>
    BY <1>8 DEF SendAuth, Fail, Proceed, TypeOK
  <2>2. \/ pc'[p] = "failed"
        \/ pc'[p] = (IF p = Dialer THEN "done" ELSE "readAuth") /\ a \in auths'
    BY <1>8 DEF SendAuth, Fail, Proceed, TypeOK
  <2>3. a.from = p /\ a.key = sessKey[p]
    BY DEF AuthMsg
  <2>4. KeyBound'
    <3> SUFFICES ASSUME NEW q \in Parties,
                        pc'[q] = "done" \/ (q = Dialer /\ pc'[q] \in {"authorize", "sendAuth"})
                 PROVE  rPublicKey'[q] # NoKey
      BY DEF KeyBound
    <3>1. CASE q = p
      <4>1. q = Dialer
        BY <2>2, <3>1 DEF Parties, Dialer, Acceptor
      <4>2. QED
        BY <2>1, <3>1, <4>1 DEF KeyBound
    <3>2. CASE q # p
      BY <2>1, <3>2 DEF KeyBound
    <3>3. QED
      BY <3>1, <3>2
  <2>5. AuthOut'
    <3> SUFFICES ASSUME NEW q \in Parties,
                        pc'[q] = "done" \/ (q = Acceptor /\ pc'[q] = "readAuth")
                 PROVE  \E m \in auths' : m.from = q /\ m.key = sessKey'[q]
      BY DEF AuthOut
    <3>1. CASE q = p
      BY <2>1, <2>2, <2>3, <3>1
    <3>2. CASE q # p
      BY <2>1, <3>2 DEF AuthOut
    <3>3. QED
      BY <3>1, <3>2
  <2>6. QED
    BY <1>0, <2>4, <2>5
<1>9. CASE CloseTransport
  BY <1>0, <1>9 DEF CloseTransport, KeyBound, AuthOut
<1>10. CASE Finished \/ UNCHANGED vars
  <2>1. UNCHANGED vars
    BY <1>10 DEF Finished
  <2>2. QED
    BY <1>0, <2>1 DEF vars, KeyBound, AuthOut
<1>11. QED
  BY <1>1, <1>2, <1>3, <1>4, <1>5, <1>6, <1>7, <1>8, <1>9, <1>10 DEF Next

\* A handshake goroutine that sends a nil error on handshakeCh
\* (dialHandshake lines 130-136, acceptHandshake lines 206-207) has bound its peer's public key in
\* readRemoteAuth and sent its own Auth on the session, whenever the
\* transport was closed: a close ends the handshake in an error.
THEOREM CompletedBothWaysHolds == Spec => []CompletedBothWays
<1>1. CInv => CompletedBothWays
  BY DEF CInv, KeyBound, AuthOut, CompletedBothWays
<1>2. QED
  BY CInit, CInductive, <1>1, PTL DEF Spec

=============================================================================
