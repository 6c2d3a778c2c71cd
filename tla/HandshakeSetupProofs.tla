------------------------ MODULE HandshakeSetupProofs ------------------------
(***************************************************************************)
(* Setup integrity of the handshake of Handshake.tla from RPC version 14:  *)
(* what the two sides negotiate in setup once one has authenticated the    *)
(* other.  Builds on the authentication invariant of HandshakeProofs.      *)
(***************************************************************************)
EXTENDS HandshakeProofs

\* What setup (lines 234-300) leaves in a side once it has a binding: the
\* version, MTU and shared tokens negotiated from its own Setup and the one
\* it received, and the routing id the received Setup named.
Negotiated ==
    \A p \in Parties : binding[p] # NoBinding =>
        /\ version[p] = CommonVersion(LSetup(p).versions, rSetup[p].versions)
        /\ mtu[p] = NegotiatedMtu(p)
        /\ shared[p] = NegotiatedShared(p)
        /\ remoteRID[p] = rSetup[p].lrid

-----------------------------------------------------------------------------
(* Negotiated is an invariant.                                             *)

\* A step that writes none of binding, rSetup, version, mtu, shared and
\* remoteRID keeps Negotiated.
LEMMA NegotiatedUnchanged ==
    ASSUME Negotiated, UNCHANGED <<binding, rSetup, version, mtu, shared, remoteRID>>
    PROVE  Negotiated'
BY DEF Negotiated, NegotiatedMtu, NegotiatedShared, RSetupFilled, LSetup

LEMMA NegotiatedInit == Init => Negotiated
BY DEF Init, Negotiated

\* ReadSetup writes the Setup of a side that has no binding yet.
LEMMA NegotiatedReadSetup ==
    ASSUME AuthInv, Negotiated, NEW p \in Parties, ReadSetup(p)
    PROVE  Negotiated'
<1>1. binding[p] = NoBinding /\ UNCHANGED <<binding, version, mtu, shared, remoteRID>>
  BY DEF ReadSetup, AuthInv, BindingPhase
<1>2. \A q \in Parties \ {p} : rSetup'[q] = rSetup[q]
  BY DEF ReadSetup, AuthInv, TypeOK
<1>3. QED
  BY <1>1, <1>2 DEF Negotiated, NegotiatedMtu, NegotiatedShared, RSetupFilled, LSetup

\* FinishSetup sets the version, MTU, tokens and routing id of the side
\* together with its binding, from the Setup it read.
LEMMA NegotiatedFinishSetup ==
    ASSUME AuthInv, Negotiated, NEW p \in Parties, FinishSetup(p)
    PROVE  Negotiated'
<1> DEFINE v == CommonVersion(LSetup(p).versions, rSetup[p].versions)
<1>1. binding[p] = NoBinding /\ UNCHANGED rSetup
  BY DEF FinishSetup, AuthInv, BindingPhase
<1>2. version \in [Parties -> Nat] /\ mtu \in [Parties -> Nat \ {0}]
      /\ shared \in [Parties -> Nat] /\ remoteRID \in [Parties -> RIDs]
      /\ DOMAIN binding = Parties
  BY DEF AuthInv, TypeOK
<1>3. CASE UNCHANGED <<version, mtu, shared, sessKey, binding, remoteRID>>
  BY <1>1, <1>3, NegotiatedUnchanged
<1>4. CASE /\ version' = [version EXCEPT ![p] = v]
           /\ mtu' = [mtu EXCEPT ![p] = NegotiatedMtu(p)]
           /\ shared' = [shared EXCEPT ![p] = NegotiatedShared(p)]
           /\ UNCHANGED <<sessKey, binding, remoteRID>>
  BY <1>1, <1>2, <1>4 DEF Negotiated, NegotiatedMtu, NegotiatedShared, RSetupFilled, LSetup
<1>5. CASE /\ version' = [version EXCEPT ![p] = v]
           /\ mtu' = [mtu EXCEPT ![p] = NegotiatedMtu(p)]
           /\ shared' = [shared EXCEPT ![p] = NegotiatedShared(p)]
           /\ binding' = [binding EXCEPT ![p] = ChannelBinding(p, v)]
           /\ remoteRID' = [remoteRID EXCEPT ![p] = rSetup[p].lrid]
  BY <1>1, <1>2, <1>5 DEF Negotiated, NegotiatedMtu, NegotiatedShared, RSetupFilled, LSetup
<1>6. QED
  BY <1>3, <1>4, <1>5 DEF FinishSetup

LEMMA NegotiatedStep == AuthInv /\ Negotiated /\ [Next]_vars => Negotiated'
<1> SUFFICES ASSUME AuthInv, Negotiated, [Next]_vars PROVE Negotiated'
  OBVIOUS
<1>1. CASE \E p \in Parties : ReadSetup(p)
  BY <1>1, NegotiatedReadSetup
<1>2. CASE \E p \in Parties : FinishSetup(p)
  BY <1>2, NegotiatedFinishSetup
<1>3. CASE \/ DialStart \/ AcceptStart \/ \E p \in Parties : SendSetup(p)
           \/ \E p \in Parties : ReadRemoteAuth(p) \/ SendAuth(p)
           \/ DialAuthorize \/ CloseTransport \/ Finished \/ UNCHANGED vars
  <2>1. UNCHANGED <<binding, rSetup, version, mtu, shared, remoteRID>>
    BY <1>3 DEF DialStart, AcceptStart, SendSetup, ReadRemoteAuth, SendAuth, DialAuthorize,
       CloseTransport, Finished, vars
  <2>2. QED
    BY <2>1, NegotiatedUnchanged
<1>4. QED
  BY <1>1, <1>2, <1>3 DEF Next

-----------------------------------------------------------------------------
(* From an authenticated peer to agreement.                                *)

\* version.CommonVersion does not depend on which range is the local one.
LEMMA CommonVersionSymmetric ==
    ASSUME NEW l \in Ranges, NEW r \in Ranges
    PROVE  CommonVersion(l, r) = CommonVersion(r, l)
BY DEF CommonVersion, Ranges

\* From version 14 a binding holds both Setups, the dialer's first; so two
\* sides with the same binding at such a version each received the Setup
\* the other sent (with a missing MTU filled in).
LEMMA SetupsExchanged ==
    ASSUME AuthInv, NEW p \in Parties, binding[p] # NoBinding,
           binding[Other(p)] = binding[p], version[p] >= V14
    PROVE  RSetupFilled(Dialer) = LSetup(Acceptor) /\ RSetupFilled(Acceptor) = LSetup(Dialer)
<1> DEFINE q == Other(p)
<1>1. q \in Parties /\ q # p /\ {p, q} = {Dialer, Acceptor}
  BY DEF Other, Parties, Dialer, Acceptor
<1>2. \A x \in Parties : binding[x] # NoBinding => binding[x] = ChannelBinding(x, version[x])
  BY DEF AuthInv, BindingFromSetup
<1>3. binding[p].secret = {}
  <2>1. binding[p] = ChannelBinding(p, version[p])
    BY <1>2
  <2>2. CASE p = Dialer
    BY <2>1, <2>2 DEF ChannelBinding, SetupsBinding
  <2>3. CASE p # Dialer
    BY <2>1, <2>3 DEF ChannelBinding, SetupsBinding
  <2>4. QED
    BY <2>2, <2>3
<1>4. version[q] >= V14
  <2>1. SUFFICES ASSUME ~(version[q] >= V14) PROVE FALSE
    OBVIOUS
  <2>2. binding[q] = SecretBinding({q, rSetup[q].pk})
    BY <1>1, <1>2, <2>1 DEF ChannelBinding
  <2>3. binding[q].secret # {}
    BY <2>2 DEF SecretBinding
  <2>4. QED
    BY <1>3, <2>3
<1>5. /\ binding[Dialer] = SetupsBinding(LSetup(Dialer), RSetupFilled(Dialer))
      /\ binding[Acceptor] = SetupsBinding(RSetupFilled(Acceptor), LSetup(Acceptor))
      /\ binding[Dialer] = binding[Acceptor]
  <2>1. binding[Dialer] # NoBinding /\ binding[Acceptor] # NoBinding
        /\ version[Dialer] >= V14 /\ version[Acceptor] >= V14
    BY <1>1, <1>4
  <2>2. QED
    BY <1>1, <1>2, <2>1 DEF ChannelBinding, Parties, Dialer, Acceptor
<1>6. QED
  BY <1>5 DEF SetupsBinding

\* Two sides that each received the other's Setup negotiate the same
\* version, MTU and shared tokens, provided each offers a non-zero token
\* budget (lines 263-266 take a received 0 for "absent" but use a local 0
\* as it is); the dialer learns the acceptor's routing id.
LEMMA AgreementFromSetups ==
    ASSUME TokensOf \in [Parties -> Nat \ {0}], AuthInv, Negotiated,
           binding[Dialer] # NoBinding, binding[Acceptor] # NoBinding,
           RSetupFilled(Dialer) = LSetup(Acceptor), RSetupFilled(Acceptor) = LSetup(Dialer)
    PROVE  /\ version[Dialer] = version[Acceptor]
           /\ mtu[Dialer] = mtu[Acceptor]
           /\ shared[Dialer] = shared[Acceptor]
           /\ remoteRID[Dialer] = LocalRID[Acceptor]
<1> DEFINE D == Dialer
           A == Acceptor
<1>1. D \in Parties /\ A \in Parties
  BY DEF Parties
<1>2. /\ rSetup[D].versions = VersionsOf[A] /\ rSetup[A].versions = VersionsOf[D]
      /\ rSetup[D].tokens = TokensOf[A] /\ rSetup[A].tokens = TokensOf[D]
      /\ rSetup[D].lrid = LocalRID[A]
      /\ RSetupFilled(D).mtu = MtuOf[A] /\ RSetupFilled(A).mtu = MtuOf[D]
  BY DEF RSetupFilled, LSetup
<1>3. /\ version[D] = CommonVersion(VersionsOf[D], VersionsOf[A])
      /\ version[A] = CommonVersion(VersionsOf[A], VersionsOf[D])
      /\ remoteRID[D] = LocalRID[A]
  BY <1>1, <1>2 DEF Negotiated, LSetup
<1>4. version[D] = version[A]
  <2>1. VersionsOf[D] \in Ranges /\ VersionsOf[A] \in Ranges
    BY <1>1, ConstantsAssumption
  <2>2. CommonVersion(VersionsOf[D], VersionsOf[A]) = CommonVersion(VersionsOf[A], VersionsOf[D])
    BY <2>1, CommonVersionSymmetric
  <2>3. QED
    BY <1>3, <2>2
<1>5. mtu[D] = mtu[A]
  <2>0. mtu[D] = NegotiatedMtu(D) /\ mtu[A] = NegotiatedMtu(A)
    BY <1>1 DEF Negotiated
  <2>1. /\ mtu[D] = (IF MtuOf[A] > MtuOf[D] THEN MtuOf[D] ELSE MtuOf[A])
        /\ mtu[A] = (IF MtuOf[D] > MtuOf[A] THEN MtuOf[A] ELSE MtuOf[D])
    BY <2>0, <1>2 DEF NegotiatedMtu, LSetup
  <2>2. MtuOf[D] \in Nat /\ MtuOf[A] \in Nat
    BY <1>1, ConstantsAssumption
  <2>3. QED
    BY <2>1, <2>2
<1>6. shared[D] = shared[A]
  <2>1. /\ shared[D] = (IF TokensOf[A] # 0 /\ TokensOf[A] < TokensOf[D]
                        THEN TokensOf[A] ELSE TokensOf[D])
        /\ shared[A] = (IF TokensOf[D] # 0 /\ TokensOf[D] < TokensOf[A]
                        THEN TokensOf[D] ELSE TokensOf[A])
    BY <1>1, <1>2 DEF Negotiated, NegotiatedShared, LSetup
  <2>2. TokensOf[D] \in Nat \ {0} /\ TokensOf[A] \in Nat \ {0}
    BY <1>1
  <2>3. QED
    BY <2>1, <2>2
<1>7. QED
  BY <1>3, <1>4, <1>5, <1>6

-----------------------------------------------------------------------------
(* Theorem.                                                                *)

\* Setup integrity from version 14 (setup, lines 279-300): once a side has
\* verified the other's Auth at a version of at least 14, whatever the man
\* in the middle did to the Setups, both negotiated the same version, MTU
\* and shared tokens, and the dialer's idea of the acceptor's routing id
\* (on which MatchesRID decides whether to authorize it) is the
\* acceptor's own.  It needs both sides to offer a non-zero token budget.
THEOREM SetupAgreementHolds ==
    ASSUME TokensOf \in [Parties -> Nat \ {0}]
    PROVE  Spec => []SetupAgreement
<1>1. AuthInv /\ Negotiated => SetupAgreement
  <2> SUFFICES ASSUME AuthInv, Negotiated, NEW p \in Parties,
                      Verified(p), rPublicKey[p] = Other(p), version[p] >= V14
               PROVE  /\ version[Other(p)] = version[p]
                      /\ mtu[Other(p)] = mtu[p]
                      /\ shared[Other(p)] = shared[p]
                      /\ remoteRID[Dialer] = LocalRID[Acceptor]
    BY DEF SetupAgreement
  <2>1. Other(p) \in Parties /\ {p, Other(p)} = {Dialer, Acceptor}
    BY DEF Other, Parties, Dialer, Acceptor
  <2>2. binding[Other(p)] = binding[p] /\ binding[p] # NoBinding
    BY <2>1 DEF AuthInv, VerifiedPeer
  <2>3. RSetupFilled(Dialer) = LSetup(Acceptor) /\ RSetupFilled(Acceptor) = LSetup(Dialer)
    BY <2>2, SetupsExchanged
  <2>4. binding[Dialer] # NoBinding /\ binding[Acceptor] # NoBinding
    BY <2>1, <2>2
  <2>5. /\ version[Dialer] = version[Acceptor] /\ mtu[Dialer] = mtu[Acceptor]
        /\ shared[Dialer] = shared[Acceptor] /\ remoteRID[Dialer] = LocalRID[Acceptor]
    BY <2>3, <2>4, AgreementFromSetups
  <2>6. QED
    BY <2>1, <2>5
<1>2. Init => AuthInv /\ Negotiated
  BY AuthInit, NegotiatedInit
<1>3. AuthInv /\ Negotiated /\ [Next]_vars => AuthInv' /\ Negotiated'
  BY AuthInductive, NegotiatedStep
<1>4. QED
  BY <1>1, <1>2, <1>3, PTL DEF Spec

=============================================================================
