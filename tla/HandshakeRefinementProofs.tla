--------------------- MODULE HandshakeRefinementProofs ---------------------
(***************************************************************************)
(* The handshake of Handshake.tla implements the abstract SecureHandshake  *)
(* under the mapping SH of Handshake.tla, for every value of the          *)
(* constants: every step of the two goroutines, the transport and the man  *)
(* in the middle is a step of the abstract handshake or leaves its state  *)
(* alone.  Builds on the authentication invariant of HandshakeProofs.      *)
(***************************************************************************)
EXTENDS HandshakeProofs

-----------------------------------------------------------------------------
(* Steps of one side, as steps of the abstract handshake.                  *)

\* A step that writes none of pc, sessKey, binding and rPublicKey leaves the
\* abstract state alone.
LEMMA QuietMapped ==
    ASSUME UNCHANGED <<pc, sessKey, binding, rPublicKey>>
    PROVE  UNCHANGED SH!vars
BY DEF SH!vars, KeyedChannel, AuthedPeer, FailedSide, Verified

\* A side that moves to a step where it has verified its peer exactly when
\* it had before, and has failed exactly when it had before, leaves the
\* abstract state alone.
LEMMA PcMoveMapped ==
    ASSUME TypeOK, NEW p \in Parties, NEW new,
           pc' = [pc EXCEPT ![p] = new],
           Verified(p)' = Verified(p), (new = "failed") = (pc[p] = "failed"),
           UNCHANGED <<sessKey, binding, rPublicKey>>
    PROVE  UNCHANGED SH!vars
<1>1. pc'[p] = new /\ \A q \in Parties \ {p} : pc'[q] = pc[q]
  BY DEF TypeOK
<1>2. \A q \in Parties : Verified(q)' = Verified(q)
  BY <1>1 DEF Verified
<1>3. AuthedPeer' = AuthedPeer
  BY <1>2 DEF AuthedPeer
<1>4. FailedSide' = FailedSide
  BY <1>1 DEF FailedSide
<1>5. KeyedChannel' = KeyedChannel
  BY DEF KeyedChannel
<1>6. QED
  BY <1>3, <1>4, <1>5 DEF SH!vars

\* Fail: the side's error goes out on handshakeCh; whatever readRemoteAuth
\* may have written to its c.rPublicKey, it no longer counts as verified.
LEMMA FailMapped ==
    ASSUME TypeOK, NEW p \in Parties, pc[p] # "failed",
           pc' = [pc EXCEPT ![p] = "failed"], UNCHANGED <<sessKey, binding>>,
           \A q \in Parties \ {p} : rPublicKey'[q] = rPublicKey[q]
    PROVE  SH!Fail(p)
<1>1. pc'[p] = "failed" /\ \A q \in Parties \ {p} : pc'[q] = pc[q]
  BY DEF TypeOK
<1>2. ~Verified(p)' /\ \A q \in Parties \ {p} : Verified(q)' = Verified(q)
  BY <1>1 DEF Verified
<1>3. AuthedPeer' = [AuthedPeer EXCEPT ![p] = NoKey]
  BY <1>2 DEF AuthedPeer
<1>4. ~FailedSide[p] /\ FailedSide' = [FailedSide EXCEPT ![p] = TRUE]
  BY <1>1 DEF FailedSide
<1>5. KeyedChannel' = KeyedChannel
  BY DEF KeyedChannel
<1>6. QED
  BY <1>3, <1>4, <1>5 DEF SH!Fail

\* setup returns a session key and a binding: the side keys its channel.
LEMMA KeyMapped ==
    ASSUME AuthInv, AuthInv', NEW p \in Parties, pc[p] = "setup",
           pc' = [pc EXCEPT ![p] = IF p = Dialer THEN "readAuth" ELSE "sendAuth"],
           UNCHANGED rPublicKey,
           \A q \in Parties \ {p} : sessKey'[q] = sessKey[q] /\ binding'[q] = binding[q]
    PROVE  SH!Key(p)
<1>1. pc'[p] \in {"readAuth", "sendAuth"} /\ \A q \in Parties \ {p} : pc'[q] = pc[q]
  BY DEF AuthInv, TypeOK
<1>2. binding[p] = NoBinding /\ binding'[p] # NoBinding
  BY <1>1 DEF AuthInv, BindingPhase
<1>3. KeyedChannel[p] = NoChannel /\ KeyedChannel'[p] # NoChannel
  BY <1>2 DEF KeyedChannel, NoChannel
<1>4. KeyedChannel' = [KeyedChannel EXCEPT ![p] = KeyedChannel'[p]]
  BY DEF KeyedChannel
<1>5. \A q \in Parties : Verified(q)' = Verified(q)
  <2>1. ~Verified(p) /\ ~Verified(p)'
    BY <1>1 DEF Verified, Dialer, Acceptor
  <2>2. QED
    BY <1>1, <2>1 DEF Verified
<1>6. AuthedPeer' = AuthedPeer
  BY <1>5 DEF AuthedPeer
<1>7. FailedSide' = FailedSide /\ ~FailedSide[p]
  BY <1>1 DEF FailedSide
<1>8. QED
  BY <1>3, <1>4, <1>6, <1>7 DEF SH!Key

\* readRemoteAuth accepts the peer's signature: the side authenticates the
\* key it checked it with.  If that key is one of the two sides, it is the
\* other one, with the same binding and so the same session key.
LEMMA AuthenticateMapped ==
    ASSUME AuthInv, AuthInv', NEW p \in Parties, pc[p] = "readAuth",
           pc' = [pc EXCEPT ![p] = IF p = Dialer THEN "authorize" ELSE "done"],
           rPublicKey'[p] # NoKey, \A q \in Parties \ {p} : rPublicKey'[q] = rPublicKey[q],
           UNCHANGED <<sessKey, binding>>
    PROVE  \E k \in Owners : SH!Authenticate(p, k)
<1> DEFINE k == rPublicKey'[p]
<1>1. k \in Owners
  BY DEF AuthInv, TypeOK
<1>2. pc'[p] \in {"authorize", "done"} /\ \A q \in Parties \ {p} : pc'[q] = pc[q]
  BY DEF AuthInv, TypeOK
<1>3. Verified(p)' /\ ~Verified(p) /\ \A q \in Parties \ {p} : Verified(q)' = Verified(q)
  <2>1. CASE p = Dialer
    BY <1>2, <2>1 DEF Verified
  <2>2. CASE p # Dialer
    <3>1. pc'[p] = "done"
      BY <2>2 DEF AuthInv, TypeOK
    <3>2. QED
      BY <1>2, <2>2, <3>1 DEF Verified
  <2>3. QED
    BY <2>1, <2>2
<1>4. ~FailedSide[p] /\ FailedSide' = FailedSide
  BY <1>2 DEF FailedSide
<1>5. binding[p] # NoBinding
  BY DEF AuthInv, BindingPhase
<1>6. KeyedChannel[p] # NoChannel /\ KeyedChannel' = KeyedChannel
  BY <1>5 DEF KeyedChannel, NoChannel
<1>7. AuthedPeer[p] = NoKey /\ AuthedPeer' = [AuthedPeer EXCEPT ![p] = k]
  BY <1>3 DEF AuthedPeer
<1>8. k \in Parties => k = Other(p) /\ KeyedChannel[Other(p)] = KeyedChannel[p]
  <2>1. SUFFICES ASSUME k \in Parties
                 PROVE  k = Other(p) /\ KeyedChannel[Other(p)] = KeyedChannel[p]
    OBVIOUS
  <2>2. k = Other(p) /\ binding[Other(p)] = binding[p]
    BY <1>3, <2>1 DEF AuthInv, VerifiedPeer
  <2>3. sessKey[Other(p)] = sessKey[p]
    BY <1>5, <2>2, BindingDeterminesKey DEF AuthInv
  <2>4. Other(p) \in Parties
    BY DEF Other, Parties
  <2>5. QED
    BY <2>2, <2>3, <2>4 DEF KeyedChannel
<1>9. QED
  BY <1>1, <1>4, <1>6, <1>7, <1>8 DEF SH!Authenticate

-----------------------------------------------------------------------------
(* Every step of the handshake is a step of the abstract one.              *)

LEMMA StepMapped == AuthInv /\ AuthInv' /\ [Next]_vars => [SH!Next]_SH!vars
<1> SUFFICES ASSUME AuthInv, AuthInv', [Next]_vars PROVE [SH!Next]_SH!vars
  OBVIOUS
<1>0. TypeOK
  BY DEF AuthInv
<1>1. CASE DialStart
  <2>1. pc' = [pc EXCEPT ![Dialer] = "setup"] /\ pc[Dialer] = "start"
        /\ UNCHANGED <<sessKey, binding, rPublicKey>>
    BY <1>1 DEF DialStart
  <2>2. Verified(Dialer)' = Verified(Dialer)
    BY <1>0, <2>1 DEF Verified, TypeOK, Parties
  <2>3. QED
    BY <1>0, <2>1, <2>2, PcMoveMapped DEF Parties
<1>2. CASE AcceptStart
  <2>1. pc' = [pc EXCEPT ![Acceptor] = "setup"] /\ pc[Acceptor] = "start"
        /\ UNCHANGED <<sessKey, binding, rPublicKey>>
    BY <1>2 DEF AcceptStart
  <2>2. Verified(Acceptor)' = Verified(Acceptor)
    BY <1>0, <2>1 DEF Verified, TypeOK, Parties, Dialer, Acceptor
  <2>3. QED
    BY <1>0, <2>1, <2>2, PcMoveMapped DEF Parties
<1>3. CASE \/ \E p \in Parties : SendSetup(p) \/ ReadSetup(p)
           \/ CloseTransport \/ Finished \/ UNCHANGED vars
  <2>1. UNCHANGED <<pc, sessKey, binding, rPublicKey>>
    BY <1>3 DEF SendSetup, ReadSetup, CloseTransport, Finished, vars
  <2>2. QED
    BY <2>1, QuietMapped
<1>4. CASE \E p \in Parties : FinishSetup(p)
  <2> PICK p \in Parties : FinishSetup(p)
    BY <1>4
  <2>1. pc[p] = "setup" /\ UNCHANGED rPublicKey
    BY DEF FinishSetup
  <2>2. CASE \E e : Fail(p, e) /\ UNCHANGED <<sessKey, binding>>
    <3>1. pc' = [pc EXCEPT ![p] = "failed"] /\ UNCHANGED <<sessKey, binding>>
      BY <2>2 DEF Fail
    <3>2. SH!Fail(p)
      BY <1>0, <2>1, <3>1, FailMapped
    <3>3. QED
      BY <3>2 DEF SH!Next
  <2>3. CASE /\ sessKey' = [sessKey EXCEPT ![p] = {p, rSetup[p].pk}]
             /\ binding' = [binding EXCEPT ![p] = ChannelBinding(p, CommonVersion(LSetup(p).versions, rSetup[p].versions))]
             /\ Proceed(p, IF p = Dialer THEN "readAuth" ELSE "sendAuth")
    <3>1. \A q \in Parties \ {p} : sessKey'[q] = sessKey[q] /\ binding'[q] = binding[q]
      BY <1>0, <2>3 DEF TypeOK
    <3>2. pc' = [pc EXCEPT ![p] = IF p = Dialer THEN "readAuth" ELSE "sendAuth"]
      BY <2>3 DEF Proceed
    <3>3. SH!Key(p)
      BY <2>1, <3>1, <3>2, KeyMapped
    <3>4. QED
      BY <3>3 DEF SH!Next
  <2>4. QED
    BY <2>2, <2>3 DEF FinishSetup
<1>5. CASE \E p \in Parties : ReadRemoteAuth(p)
  <2> PICK p \in Parties : ReadRemoteAuth(p)
    BY <1>5
  <2>1. pc[p] = "readAuth" /\ UNCHANGED <<sessKey, binding>>
    BY DEF ReadRemoteAuth
  <2>2. \A q \in Parties \ {p} : rPublicKey'[q] = rPublicKey[q]
    BY <1>0 DEF ReadRemoteAuth, TypeOK
  <2>3. CASE \E e : Fail(p, e)
    <3>1. pc' = [pc EXCEPT ![p] = "failed"]
      BY <2>3 DEF Fail
    <3>2. SH!Fail(p)
      BY <1>0, <2>1, <2>2, <3>1, FailMapped
    <3>3. QED
      BY <3>2 DEF SH!Next
  <2>4. CASE \E m \in DeliverableAuths(p) :
               /\ rPublicKey' = [rPublicKey EXCEPT ![p] = RemoteAuthKey(p, m)]
               /\ RemoteAuthKey(p, m) # NoKey
               /\ Proceed(p, IF p = Dialer THEN "authorize" ELSE "done")
    <3>1. rPublicKey'[p] # NoKey
      BY <1>0, <2>4 DEF TypeOK
    <3>2. pc' = [pc EXCEPT ![p] = IF p = Dialer THEN "authorize" ELSE "done"]
      BY <2>4 DEF Proceed
    <3>3. \E k \in Owners : SH!Authenticate(p, k)
      BY <2>1, <2>2, <3>1, <3>2, AuthenticateMapped
    <3>4. QED
      BY <3>3 DEF SH!Next
  <2>5. QED
    BY <2>3, <2>4 DEF ReadRemoteAuth
<1>6. CASE DialAuthorize
  <2>1. pc[Dialer] = "authorize" /\ UNCHANGED <<sessKey, binding, rPublicKey>>
    BY <1>6 DEF DialAuthorize
  <2>2. CASE \E e : Fail(Dialer, e)
    <3>1. pc' = [pc EXCEPT ![Dialer] = "failed"]
      BY <2>2 DEF Fail
    <3>2. SH!Fail(Dialer)
      BY <1>0, <2>1, <3>1, FailMapped DEF Parties
    <3>3. QED
      BY <3>2 DEF SH!Next, Parties
  <2>3. CASE Proceed(Dialer, "sendAuth")
    <3>1. pc' = [pc EXCEPT ![Dialer] = "sendAuth"]
      BY <2>3 DEF Proceed
    <3>2. Verified(Dialer)' = Verified(Dialer)
      BY <1>0, <2>1, <3>1 DEF Verified, TypeOK, Parties
    <3>3. QED
      BY <1>0, <2>1, <3>1, <3>2, PcMoveMapped DEF Parties
  <2>4. \/ Fail(Dialer, "AcceptorBlessingsMissing") \/ Fail(Dialer, "NotTrusted")
        \/ Proceed(Dialer, "sendAuth")
    BY <1>6 DEF DialAuthorize
  <2>5. QED
    BY <2>2, <2>3, <2>4
<1>7. CASE \E p \in Parties : SendAuth(p)
  <2> PICK p \in Parties : SendAuth(p)
    BY <1>7
  <2>1. pc[p] = "sendAuth" /\ UNCHANGED <<sessKey, binding, rPublicKey>>
    BY DEF SendAuth
  <2>2. CASE \E e : Fail(p, e)
    <3>1. pc' = [pc EXCEPT ![p] = "failed"]
      BY <2>2 DEF Fail
    <3>2. SH!Fail(p)
      BY <1>0, <2>1, <3>1, FailMapped
    <3>3. QED
      BY <3>2 DEF SH!Next
  <2>3. CASE Proceed(p, IF p = Dialer THEN "done" ELSE "readAuth")
    <3>1. pc' = [pc EXCEPT ![p] = IF p = Dialer THEN "done" ELSE "readAuth"]
      BY <2>3 DEF Proceed
    <3>2. Verified(p)' = Verified(p)
      BY <1>0, <2>1, <3>1 DEF Verified, TypeOK, Parties, Dialer, Acceptor
    <3>3. QED
      BY <1>0, <2>1, <3>1, <3>2, PcMoveMapped
  <2>4. QED
    BY <2>2, <2>3 DEF SendAuth
<1>8. QED
  BY <1>1, <1>2, <1>3, <1>4, <1>5, <1>6, <1>7 DEF Next

-----------------------------------------------------------------------------
(* Theorem.                                                                *)

\* dialHandshake and acceptHandshake (auth.go), against the man in the
\* middle and a transport that may close at any time, implement the secure
\* handshake: each side keys one channel in setup, authenticates at most one
\* peer in readRemoteAuth, drops it on a later error, and authenticates one
\* of the two sides only as the other side over the same channel.
THEOREM Refinement == Spec => SecureSpec
<1>1. Init => SH!Init
  BY DEF Init, SH!Init, KeyedChannel, AuthedPeer, FailedSide, Verified
<1>2. AuthInv /\ AuthInv' /\ [Next]_vars => [SH!Next]_SH!vars
  BY StepMapped
<1>3. QED
  BY <1>1, <1>2, AuthInvariant, PTL DEF Spec, SecureSpec, SH!Spec

=============================================================================
