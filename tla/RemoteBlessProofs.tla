------------------------- MODULE RemoteBlessProofs -------------------------
(***************************************************************************)
(* Proofs about remote blessing with recvblessings and bless (RemoteBless. *)
(* tla), for every set of bless runs, names and flags that satisfies       *)
(* RemoteBlessAssumption.                                                  *)
(***************************************************************************)
EXTENDS RemoteBless, SequenceTheorems, TLAPS

\* What the attacker's Grant call carries: a token it holds and a blessing
\* it holds, or nothing yet.
AttackerCallHolds ==
    /\ handler[Attacker].tok \in atkTokens \cup {None}
    /\ handler[Attacker].bl \in atkBless \cup {NoBlessings}

\* What a bless run's Grant call carries: nothing yet, or a blessing of
\* the blesser.
SenderCallsFromBlesser ==
    \A s \in Senders : handler[s].bl = NoBlessings \/ handler[s].bl.root = Blesser

\* A Grant call past the token check carries a blessing of the blesser.
PastCheckFromBlesser ==
    \A c \in Callers :
        handler[c].pc \in {"setDefault", "setPeer", "addRoots"}
            => handler[c].bl \in Blessings /\ handler[c].bl.root = Blesser

\* The inductive invariant behind AttackerLearnsNothing and
\* OnlySenderBlessings.
IInv ==
    /\ TypeOK /\ AttackerLearnsNothing /\ OnlySenderBlessings
    /\ AttackerCallHolds /\ SenderCallsFromBlesser /\ PastCheckFromBlesser

-----------------------------------------------------------------------------
(* Lemmas about the values the model is built from.                        *)

\* The contents of an arg file: JSON cells.
Cells == Seq(Infos \cup {Byte})

\* The receiver's blessing store.
StoreT == [default : Blessings \cup {NoBlessings}, peers : Blessings \cup {NoBlessings},
           roots : SUBSET {Blesser, Attacker}]

\* The state of a Grant call.
HandlerT == [pc : {"idle", "check", "setDefault", "setPeer", "addRoots", "notify", "ok", "err"},
             bl : Blessings \cup {NoBlessings}, tok : {Tok, OldTok, Guess, None}]

\* The state of a bless run.
BlessT == [pc : {"idle", "call", "await", "ok", "err"}, info : Infos \cup {NoInfo},
           why : {None, "caveats", "argfile", "local"}]

\* The strings standing for keys, tokens and roots are distinct.
LEMMA Distinct ==
    /\ Receiver # Attacker /\ Blesser # Attacker /\ Blesser # None
    /\ Tok # OldTok /\ Tok # Guess /\ Tok # None
    /\ Receiver # None /\ Attacker # None
BY DEF Receiver, Attacker, Blesser, Tok, OldTok, Guess, None

\* No blessing is the absent one.
LEMMA BlessingNotNone ==
    ASSUME NEW b \in Blessings PROVE b # NoBlessings
BY Distinct DEF Blessings, NoBlessings

\* The JSON encoding of recvBlessingsInfo is a sequence of cells.
LEMMA EncCells ==
    ASSUME NEW i \in Infos PROVE Enc(i) \in Cells
<1>1. NameLen[i.name] \in Nat
  BY RemoteBlessAssumption DEF Infos
<1>2. <<i>> \in Cells
  BY DEF Cells
<1>3. [k \in 1 .. NameLen[i.name] |-> Byte] \in Cells
  BY <1>1 DEF Cells
<1>4. QED
  BY <1>2, <1>3, ConcatProperties DEF Enc, Cells

\* Writing a shorter or longer contents at offset 0 leaves a sequence of
\* cells.
LEMMA OverwriteCells ==
    ASSUME NEW old \in Cells, NEW new \in Cells
    PROVE  Overwrite(old, new) \in Cells
<1>1. SubSeq(old, Len(new) + 1, Len(old)) \in Cells
  <2>1. \A i \in (Len(new) + 1) .. Len(old) : old[i] \in Infos \cup {Byte}
    BY DEF Cells
  <2>2. QED
    BY <2>1, SubSeqProperties DEF Cells
<1>2. QED
  BY <1>1, ConcatProperties DEF Overwrite, Cells

\* TypeOK in the pieces the steps use.
LEMMA TypeParts ==
    TypeOK <=> /\ rpc \in {"start", "publish", "waiting", "done", "failed"}
               /\ name \in Names /\ printed \in Infos \cup {NoInfo}
               /\ argFile \in Cells /\ store \in StoreT
               /\ handler \in [Callers -> HandlerT]
               /\ notified \in Blessings \cup {NoBlessings}
               /\ bless \in [Senders -> BlessT]
               /\ atkTokens \subseteq {Tok, OldTok, Guess} /\ atkBless \subseteq Blessings
               /\ faults \in 0 .. MaxFaults
BY DEF TypeOK, Cells, StoreT, HandlerT, BlessT

-----------------------------------------------------------------------------
(* The inductive invariant.                                                *)

LEMMA IInvInit == Init => IInv
<1> SUFFICES ASSUME Init PROVE IInv
  OBVIOUS
<1>1. argFile \in Cells
  <2>1. CASE StaleFile = <<>>
    BY <2>1 DEF Init, Cells
  <2>2. CASE StaleFile # <<>>
    BY <2>2, EncCells, RemoteBlessAssumption DEF Init
  <2>3. QED
    BY <2>1, <2>2
<1>2. store \in StoreT /\ notified = NoBlessings
  BY DEF Init, StoreT
<1>3. handler \in [Callers -> HandlerT] /\ bless \in [Senders -> BlessT]
  BY DEF Init, HandlerT, BlessT, NoInfo, NoBlessings
<1>4. TypeOK
  BY <1>1, <1>2, <1>3, TypeParts, RemoteBlessAssumption
     DEF Init, NoInfo, Guess, Tok, OldTok
<1>5. AttackerLearnsNothing /\ OnlySenderBlessings
  BY Distinct DEF Init, AttackerLearnsNothing, OnlySenderBlessings
<1>6. AttackerCallHolds /\ SenderCallsFromBlesser /\ PastCheckFromBlesser
  BY DEF Init, AttackerCallHolds, SenderCallsFromBlesser, PastCheckFromBlesser, Callers
<1>7. QED
  BY <1>4, <1>5, <1>6 DEF IInv

\* IInv' from its parts.
LEMMA Assemble ==
    ASSUME rpc' \in {"start", "publish", "waiting", "done", "failed"},
           name' \in Names, printed' \in Infos \cup {NoInfo},
           argFile' \in Cells, store' \in StoreT,
           handler' \in [Callers -> HandlerT],
           notified' \in Blessings \cup {NoBlessings},
           bless' \in [Senders -> BlessT],
           atkTokens' \subseteq {Tok, OldTok, Guess}, atkBless' \subseteq Blessings,
           faults' \in 0 .. MaxFaults,
           AttackerLearnsNothing', OnlySenderBlessings',
           AttackerCallHolds', SenderCallsFromBlesser', PastCheckFromBlesser'
    PROVE  IInv'
BY DEF IInv, TypeOK, Cells, StoreT, HandlerT, BlessT

\* IInv in its parts.
LEMMA Unpack ==
    ASSUME IInv
    PROVE  /\ rpc \in {"start", "publish", "waiting", "done", "failed"}
           /\ name \in Names /\ printed \in Infos \cup {NoInfo}
           /\ argFile \in Cells /\ store \in StoreT
           /\ handler \in [Callers -> HandlerT]
           /\ notified \in Blessings \cup {NoBlessings}
           /\ bless \in [Senders -> BlessT]
           /\ atkTokens \subseteq {Tok, OldTok, Guess} /\ atkBless \subseteq Blessings
           /\ faults \in 0 .. MaxFaults
           /\ AttackerLearnsNothing /\ OnlySenderBlessings
           /\ AttackerCallHolds /\ SenderCallsFromBlesser /\ PastCheckFromBlesser
BY TypeParts DEF IInv

\* A step of recvblessings' main goroutine before any Grant call, or of a
\* bless run that does not call: the Grant calls, the store and what the
\* attacker holds stay as they are.
LEMMA QuietStep ==
    ASSUME IInv,
           UNCHANGED <<store, handler, notified, atkTokens, atkBless>>,
           rpc' \in {"start", "publish", "waiting", "done", "failed"},
           name' \in Names, printed' \in Infos \cup {NoInfo},
           argFile' \in Cells, bless' \in [Senders -> BlessT],
           faults' \in 0 .. MaxFaults
    PROVE  IInv'
<1>1. /\ store \in StoreT /\ handler \in [Callers -> HandlerT]
      /\ notified \in Blessings \cup {NoBlessings}
      /\ atkTokens \subseteq {Tok, OldTok, Guess} /\ atkBless \subseteq Blessings
      /\ AttackerLearnsNothing /\ OnlySenderBlessings
      /\ AttackerCallHolds /\ SenderCallsFromBlesser /\ PastCheckFromBlesser
  BY Unpack
<1>2. /\ AttackerLearnsNothing' /\ OnlySenderBlessings'
      /\ AttackerCallHolds' /\ SenderCallsFromBlesser' /\ PastCheckFromBlesser'
  BY <1>1 DEF AttackerLearnsNothing, OnlySenderBlessings, AttackerCallHolds,
     SenderCallsFromBlesser, PastCheckFromBlesser
<1>3. QED
  BY <1>1, <1>2, Assemble

LEMMA RecvStartKeeps == IInv /\ RecvStart => IInv'
<1> SUFFICES ASSUME IInv, RecvStart PROVE IInv'
  OBVIOUS
<1>1. rpc \in {"start", "publish", "waiting", "done", "failed"}
      /\ name \in Names /\ printed \in Infos \cup {NoInfo} /\ argFile \in Cells
      /\ bless \in [Senders -> BlessT] /\ faults \in 0 .. MaxFaults
  BY Unpack
<1>2. faults' \in 0 .. MaxFaults
  BY <1>1, RemoteBlessAssumption DEF RecvStart, Fault
<1>3. QED
  BY <1>1, <1>2, QuietStep DEF RecvStart

LEMMA RecvPublishKeeps == IInv /\ RecvPublish => IInv'
<1> SUFFICES ASSUME IInv, RecvPublish PROVE IInv'
  OBVIOUS
<1>1. rpc \in {"start", "publish", "waiting", "done", "failed"}
      /\ name \in Names /\ printed \in Infos \cup {NoInfo} /\ argFile \in Cells
      /\ bless \in [Senders -> BlessT] /\ faults \in 0 .. MaxFaults
  BY Unpack
<1> DEFINE info == [key |-> Receiver, token |-> Tok, name |-> name]
<1>2. info \in Infos
  BY <1>1 DEF Infos
<1>3. Overwrite(argFile, Enc(info)) \in Cells
  BY <1>1, <1>2, EncCells, OverwriteCells
<1>4. argFile' \in Cells /\ printed' \in Infos \cup {NoInfo}
  BY <1>1, <1>2, <1>3 DEF RecvPublish
<1>5. faults' \in 0 .. MaxFaults
  BY <1>1, RemoteBlessAssumption DEF RecvPublish, Fault
<1>6. QED
  BY <1>1, <1>4, <1>5, QuietStep DEF RecvPublish

\* Decode returns recvBlessingsInfo values.
LEMMA DecodeInfos ==
    ASSUME NEW content PROVE Decode(content) \subseteq Infos
BY DEF Decode

LEMMA BlessStartKeeps ==
    ASSUME IInv, NEW s \in Senders, BlessStart(s) PROVE IInv'
<1>1. rpc \in {"start", "publish", "waiting", "done", "failed"}
      /\ name \in Names /\ printed \in Infos \cup {NoInfo} /\ argFile \in Cells
      /\ bless \in [Senders -> BlessT] /\ faults \in 0 .. MaxFaults
  BY Unpack
<1>2. bless' \in [Senders -> BlessT]
  <2>1. PICK extInArgs \in BOOLEAN :
          \/ bless' = [bless EXCEPT ![s] = [@ EXCEPT !.pc = "err", !.why = "caveats"]]
          \/ printed # NoInfo
             /\ bless' = [bless EXCEPT ![s] = [@ EXCEPT !.pc = "call", !.info = printed]]
          \/ \E i \in Decode(argFile) :
               bless' = [bless EXCEPT ![s] = [@ EXCEPT !.pc = "call", !.info = i]]
          \/ bless' = [bless EXCEPT ![s] = [@ EXCEPT !.pc = "err",
                                                     !.why = BlessArgsError(extInArgs)]]
    BY DEF BlessStart
  <2>2. BlessArgsError(extInArgs) \in {None, "caveats", "argfile", "local"}
    BY DEF BlessArgsError
  <2>3. bless[s] \in BlessT
    BY <1>1
  <2>4. printed # NoInfo => printed \in Infos
    BY <1>1
  <2>5. \A i \in Decode(argFile) : i \in Infos
    BY DecodeInfos
  <2>6. CASE bless' = [bless EXCEPT ![s] = [@ EXCEPT !.pc = "err", !.why = "caveats"]]
    BY <1>1, <2>3, <2>6 DEF BlessT
  <2>7. CASE printed # NoInfo
             /\ bless' = [bless EXCEPT ![s] = [@ EXCEPT !.pc = "call", !.info = printed]]
    BY <1>1, <2>3, <2>4, <2>7 DEF BlessT
  <2>8. CASE \E i \in Decode(argFile) :
               bless' = [bless EXCEPT ![s] = [@ EXCEPT !.pc = "call", !.info = i]]
    <3>1. PICK i \in Decode(argFile) :
               bless' = [bless EXCEPT ![s] = [@ EXCEPT !.pc = "call", !.info = i]]
      BY <2>8
    <3>2. i \in Infos
      BY <2>5
    <3>3. QED
      BY <1>1, <2>3, <3>1, <3>2 DEF BlessT
  <2>9. CASE bless' = [bless EXCEPT ![s] = [@ EXCEPT !.pc = "err",
                                                    !.why = BlessArgsError(extInArgs)]]
    BY <1>1, <2>2, <2>3, <2>9 DEF BlessT
  <2>10. QED
    BY <2>1, <2>6, <2>7, <2>8, <2>9
<1>3. QED
  BY <1>1, <1>2, QuietStep DEF BlessStart

LEMMA BlessReturnKeeps ==
    ASSUME IInv, NEW s \in Senders, BlessReturn(s) PROVE IInv'
<1>1. rpc \in {"start", "publish", "waiting", "done", "failed"}
      /\ name \in Names /\ printed \in Infos \cup {NoInfo} /\ argFile \in Cells
      /\ bless \in [Senders -> BlessT] /\ faults \in 0 .. MaxFaults
      /\ handler \in [Callers -> HandlerT]
  BY Unpack
<1>2. s \in Callers
  BY DEF Callers
<1>3. bless' \in [Senders -> BlessT]
  BY <1>1, <1>2 DEF BlessReturn, BlessT, HandlerT
<1>4. QED
  BY <1>1, <1>3, QuietStep DEF BlessReturn

\* OnlySenderBlessings of a store value.
SenderStore(st) ==
    /\ \A b \in {st.default, st.peers} :
          b = NoBlessings \/ (b.root = Blesser /\ b.for = Receiver)
    /\ st.roots \subseteq {Blesser}

\* The steps of a Grant call that only move it on (and may write the store
\* or r.notify): the calls keep what they carry.
LEMMA PcStep ==
    ASSUME IInv, NEW c \in Callers,
           NEW p \in {"idle", "check", "setDefault", "setPeer", "addRoots", "notify", "ok", "err"},
           handler' = [handler EXCEPT ![c].pc = p],
           p \in {"setDefault", "setPeer", "addRoots"}
               => handler[c].bl \in Blessings /\ handler[c].bl.root = Blesser,
           UNCHANGED <<name, printed, argFile, bless, atkTokens, atkBless>>,
           rpc' \in {"start", "publish", "waiting", "done", "failed"},
           store' \in StoreT, SenderStore(store'),
           notified' \in Blessings \cup {NoBlessings}, faults' \in 0 .. MaxFaults
    PROVE  IInv'
<1>1. /\ rpc \in {"start", "publish", "waiting", "done", "failed"}
      /\ name \in Names /\ printed \in Infos \cup {NoInfo} /\ argFile \in Cells
      /\ handler \in [Callers -> HandlerT] /\ bless \in [Senders -> BlessT]
      /\ atkTokens \subseteq {Tok, OldTok, Guess} /\ atkBless \subseteq Blessings
      /\ AttackerLearnsNothing /\ AttackerCallHolds /\ SenderCallsFromBlesser
      /\ PastCheckFromBlesser
  BY Unpack
<1>2. handler' \in [Callers -> HandlerT]
  BY <1>1 DEF HandlerT
<1>3. \A d \in Callers : /\ handler'[d].bl = handler[d].bl
                        /\ handler'[d].tok = handler[d].tok
                        /\ handler'[d].pc = IF d = c THEN p ELSE handler[d].pc
  BY <1>1 DEF HandlerT
<1>4. Attacker \in Callers
  BY DEF Callers
<1>5. AttackerLearnsNothing' /\ AttackerCallHolds' /\ SenderCallsFromBlesser'
  BY <1>1, <1>3, <1>4 DEF AttackerLearnsNothing, AttackerCallHolds,
     SenderCallsFromBlesser, Callers
<1>6. PastCheckFromBlesser'
  BY <1>1, <1>3 DEF PastCheckFromBlesser
<1>7. OnlySenderBlessings'
  BY DEF SenderStore, OnlySenderBlessings
<1>8. QED
  BY <1>1, <1>2, <1>5, <1>6, <1>7, Assemble

\* The three store writes of Grant: a write of a blessing of the blesser
\* for the receiver's key keeps the store the receiver's own.
LEMMA StoreStepKeeps ==
    ASSUME IInv, NEW c \in Callers, NEW enabled \in BOOLEAN, NEW STATE upd,
           NEW p1 \in {"setDefault", "setPeer", "addRoots"},
           NEW p2 \in {"setPeer", "addRoots", "notify"},
           (handler[c].bl \in Blessings /\ handler[c].bl.root = Blesser
            /\ handler[c].bl.for = Receiver) => upd \in StoreT /\ SenderStore(upd),
           StoreStep(c, enabled, upd, <<p1, p2>>)
    PROVE  IInv'
<1>1. rpc \in {"start", "publish", "waiting", "done", "failed"}
      /\ store \in StoreT /\ OnlySenderBlessings /\ notified \in Blessings \cup {NoBlessings}
      /\ faults \in 0 .. MaxFaults /\ PastCheckFromBlesser
  BY Unpack
<1>2. SenderStore(store)
  BY <1>1 DEF SenderStore, OnlySenderBlessings
<1>3. handler[c].pc = p1 /\ UNCHANGED <<rpc, name, printed, argFile, notified, bless,
                                        atkTokens, atkBless>>
  BY DEF StoreStep
<1>4. handler[c].bl \in Blessings /\ handler[c].bl.root = Blesser
  BY <1>1, <1>3 DEF PastCheckFromBlesser
<1>5. faults' \in 0 .. MaxFaults
  BY <1>1, RemoteBlessAssumption DEF StoreStep, Fault
<1>6. CASE handler' = [handler EXCEPT ![c].pc = p2] /\ UNCHANGED store
  BY <1>1, <1>2, <1>3, <1>4, <1>5, <1>6, PcStep
<1>7. CASE enabled /\ handler[c].bl.for = Receiver /\ store' = upd
           /\ handler' = [handler EXCEPT ![c].pc = p2]
  <2>1. store' \in StoreT /\ SenderStore(store')
    BY <1>4, <1>7
  <2>2. QED
    BY <1>1, <1>3, <1>4, <1>5, <1>7, <2>1, PcStep
<1>8. CASE GrantFail(c) /\ UNCHANGED store
  BY <1>1, <1>2, <1>3, <1>5, <1>8, PcStep DEF GrantFail
<1>9. QED
  BY <1>6, <1>7, <1>8 DEF StoreStep

\* The stores the three writes produce.
LEMMA StoreUpdates ==
    ASSUME store \in StoreT, SenderStore(store),
           NEW b \in Blessings, b.root = Blesser, b.for = Receiver
    PROVE  /\ [store EXCEPT !.default = b] \in StoreT
           /\ SenderStore([store EXCEPT !.default = b])
           /\ [store EXCEPT !.peers = b] \in StoreT
           /\ SenderStore([store EXCEPT !.peers = b])
           /\ [store EXCEPT !.roots = @ \cup {b.root}] \in StoreT
           /\ SenderStore([store EXCEPT !.roots = @ \cup {b.root}])
BY DEF StoreT, SenderStore, Blessings

LEMMA GrantStoreKeeps ==
    ASSUME IInv, NEW c \in Callers,
           GrantSetDefault(c) \/ GrantSetPeer(c) \/ GrantAddRoots(c)
    PROVE  IInv'
<1>1. store \in StoreT /\ SenderStore(store)
  BY Unpack DEF SenderStore, OnlySenderBlessings
<1>2. {RecvSetDefault, RecvForPeer} \subseteq BOOLEAN
  BY RemoteBlessAssumption
<1>3. CASE GrantSetDefault(c)
  <2>1. (handler[c].bl \in Blessings /\ handler[c].bl.root = Blesser
         /\ handler[c].bl.for = Receiver)
           => /\ [store EXCEPT !.default = handler[c].bl] \in StoreT
              /\ SenderStore([store EXCEPT !.default = handler[c].bl])
    BY <1>1, StoreUpdates
  <2>2. RecvSetDefault \in BOOLEAN
    BY <1>2
  <2>3. StoreStep(c, RecvSetDefault, [store EXCEPT !.default = handler[c].bl], <<"setDefault", "setPeer">>)
    BY <1>3 DEF GrantSetDefault
  <2>4. QED
    BY <2>1, <2>2, <2>3, StoreStepKeeps
<1>4. CASE GrantSetPeer(c)
  <2>1. (handler[c].bl \in Blessings /\ handler[c].bl.root = Blesser
         /\ handler[c].bl.for = Receiver)
           => /\ [store EXCEPT !.peers = handler[c].bl] \in StoreT
              /\ SenderStore([store EXCEPT !.peers = handler[c].bl])
    BY <1>1, StoreUpdates
  <2>2. RecvForPeer \in BOOLEAN
    BY <1>2
  <2>3. StoreStep(c, RecvForPeer, [store EXCEPT !.peers = handler[c].bl], <<"setPeer", "addRoots">>)
    BY <1>4 DEF GrantSetPeer
  <2>4. QED
    BY <2>1, <2>2, <2>3, StoreStepKeeps
<1>5. CASE GrantAddRoots(c)
  BY <1>1, <1>5, StoreUpdates, StoreStepKeeps DEF GrantAddRoots
<1>6. QED
  BY <1>3, <1>4, <1>5

LEMMA RecvReturnKeeps == IInv /\ RecvReturn => IInv'
<1> SUFFICES ASSUME IInv, RecvReturn PROVE IInv'
  OBVIOUS
<1>1. store \in StoreT /\ SenderStore(store) /\ faults \in 0 .. MaxFaults
      /\ handler \in [Callers -> HandlerT]
  BY Unpack DEF SenderStore, OnlySenderBlessings
<1>2. PICK c \in Callers :
        /\ handler[c].pc = "notify"
        /\ handler' = [handler EXCEPT ![c].pc = "ok"]
        /\ notified' = handler[c].bl
  BY DEF RecvReturn
<1>3. notified' \in Blessings \cup {NoBlessings}
  BY <1>1, <1>2 DEF HandlerT
<1>4. rpc' = "done" /\ UNCHANGED <<name, printed, argFile, store, bless, atkTokens,
                                   atkBless, faults>>
  BY DEF RecvReturn
<1>5. QED
  BY <1>1, <1>2, <1>3, <1>4, PcStep

\* Only a caller holding the token gets past the check of lines
\* 1247-1249, and the attacker never holds it.
LEMMA GrantCheckKeeps ==
    ASSUME IInv, NEW c \in Callers, GrantCheck(c) PROVE IInv'
<1>1. /\ store \in StoreT /\ SenderStore(store) /\ faults \in 0 .. MaxFaults
      /\ rpc \in {"start", "publish", "waiting", "done", "failed"}
      /\ notified \in Blessings \cup {NoBlessings}
      /\ handler \in [Callers -> HandlerT]
      /\ AttackerLearnsNothing /\ AttackerCallHolds /\ SenderCallsFromBlesser
  BY Unpack DEF SenderStore, OnlySenderBlessings
<1>2. UNCHANGED <<rpc, name, printed, argFile, store, notified, bless, atkTokens,
                  atkBless, faults>>
  BY DEF GrantCheck
<1>3. CASE GrantFail(c)
  BY <1>1, <1>2, <1>3, PcStep DEF GrantFail
<1>4. CASE /\ handler[c].bl # NoBlessings /\ TokenMatches(handler[c].tok)
           /\ handler' = [handler EXCEPT ![c].pc = "setDefault"]
  <2>1. c # Attacker
    BY <1>1, <1>4, Distinct DEF TokenMatches, AttackerLearnsNothing, AttackerCallHolds
  <2>2. c \in Senders
    BY <2>1 DEF Callers
  <2>3. handler[c].bl \in Blessings /\ handler[c].bl.root = Blesser
    BY <1>1, <1>4, <2>2 DEF SenderCallsFromBlesser, HandlerT
  <2>4. QED
    BY <1>1, <1>2, <1>4, <2>3, PcStep
<1>5. QED
  BY <1>3, <1>4 DEF GrantCheck

LEMMA AttackerCallKeeps == IInv /\ AttackerCall => IInv'
<1> SUFFICES ASSUME IInv, AttackerCall PROVE IInv'
  OBVIOUS
<1>1. /\ rpc \in {"start", "publish", "waiting", "done", "failed"}
      /\ name \in Names /\ printed \in Infos \cup {NoInfo} /\ argFile \in Cells
      /\ store \in StoreT /\ notified \in Blessings \cup {NoBlessings}
      /\ handler \in [Callers -> HandlerT] /\ bless \in [Senders -> BlessT]
      /\ atkTokens \subseteq {Tok, OldTok, Guess} /\ atkBless \subseteq Blessings
      /\ faults \in 0 .. MaxFaults
      /\ AttackerLearnsNothing /\ OnlySenderBlessings /\ SenderCallsFromBlesser
      /\ PastCheckFromBlesser
  BY Unpack
<1>2. PICK t \in atkTokens, b \in atkBless \cup {NoBlessings} :
        handler' = [handler EXCEPT ![Attacker] = [pc |-> "check", bl |-> b, tok |-> t]]
  BY DEF AttackerCall
<1>3. Attacker \in Callers /\ Attacker \notin Senders
  BY RemoteBlessAssumption DEF Callers
<1>4. handler' \in [Callers -> HandlerT]
  BY <1>1, <1>2, <1>3 DEF HandlerT
<1>5. AttackerCallHolds'
  BY <1>1, <1>2, <1>3 DEF AttackerCallHolds, AttackerCall
<1>6. SenderCallsFromBlesser' /\ PastCheckFromBlesser'
  BY <1>1, <1>2, <1>3 DEF SenderCallsFromBlesser, PastCheckFromBlesser, AttackerCall
<1>7. AttackerLearnsNothing' /\ OnlySenderBlessings'
  BY <1>1 DEF AttackerLearnsNothing, OnlySenderBlessings, AttackerCall
<1>8. QED
  BY <1>1, <1>4, <1>5, <1>6, <1>7, Assemble DEF AttackerCall

\* blessOverNetwork: the granter refuses every server but the one whose
\* key the arguments name, and the arguments name the receiver's key, so
\* the request with the token only ever reaches the receiver.
LEMMA BlessCallKeeps ==
    ASSUME IInv, NEW s \in Senders, BlessCall(s) PROVE IInv'
<1> DEFINE i == bless[s].info
<1>1. /\ rpc \in {"start", "publish", "waiting", "done", "failed"}
      /\ name \in Names /\ printed \in Infos \cup {NoInfo} /\ argFile \in Cells
      /\ store \in StoreT /\ notified \in Blessings \cup {NoBlessings}
      /\ handler \in [Callers -> HandlerT] /\ bless \in [Senders -> BlessT]
      /\ atkTokens \subseteq {Tok, OldTok, Guess} /\ atkBless \subseteq Blessings
      /\ faults \in 0 .. MaxFaults
      /\ AttackerLearnsNothing /\ OnlySenderBlessings /\ AttackerCallHolds
      /\ SenderCallsFromBlesser /\ PastCheckFromBlesser
  BY Unpack
<1>2. i \in Infos \cup {NoInfo} /\ i.key # Attacker
  BY <1>1, Distinct DEF BlessT, Infos, NoInfo
<1>3. UNCHANGED <<rpc, name, printed, argFile, store, notified, faults>>
  BY DEF BlessCall
<1>4. bless[s].pc = "call"
  BY DEF BlessCall
<1>5. [bless EXCEPT ![s].pc = "err"] \in [Senders -> BlessT]
      /\ [bless EXCEPT ![s].pc = "await"] \in [Senders -> BlessT]
  BY <1>1 DEF BlessT
<1>6. CASE bless' = [bless EXCEPT ![s].pc = "err"]
           /\ UNCHANGED <<handler, atkTokens, atkBless>>
  BY <1>1, <1>3, <1>5, <1>6, QuietStep
<1>7. CASE \E srv \in Answering(i.name) :
             /\ GranterAccepts(srv, i.key) /\ srv = Attacker
             /\ atkTokens' = atkTokens \cup {i.token}
  BY <1>2, <1>7 DEF GranterAccepts
<1>8. CASE /\ GranterAccepts(Receiver, i.key)
           /\ handler' = [handler EXCEPT ![s] = [pc |-> "check",
                                                 bl |-> [root |-> Blesser, run |-> s,
                                                         for |-> Receiver],
                                                 tok |-> i.token]]
           /\ bless' = [bless EXCEPT ![s].pc = "await"]
           /\ UNCHANGED <<atkTokens, atkBless>>
  <2> DEFINE b == [root |-> Blesser, run |-> s, for |-> Receiver]
  <2>1. b \in Blessings /\ b.root = Blesser
    BY DEF Blessings
  <2>2. i.key = Receiver /\ i \in Infos
    BY <1>2, <1>8, Distinct DEF GranterAccepts, NoInfo
  <2>3. i.token \in {Tok, OldTok, Guess, None}
    BY <2>2 DEF Infos
  <2>4. s \in Callers /\ s # Attacker
    BY RemoteBlessAssumption DEF Callers
  <2>5. handler' \in [Callers -> HandlerT]
    BY <1>1, <1>8, <2>1, <2>3, <2>4 DEF HandlerT
  <2>6. AttackerCallHolds'
    BY <1>1, <1>8, <2>4 DEF AttackerCallHolds
  <2>7. SenderCallsFromBlesser' /\ PastCheckFromBlesser'
    BY <1>1, <1>8, <2>1, <2>4 DEF SenderCallsFromBlesser, PastCheckFromBlesser
  <2>8. AttackerLearnsNothing' /\ OnlySenderBlessings'
    BY <1>1, <1>3, <1>8 DEF AttackerLearnsNothing, OnlySenderBlessings
  <2>9. QED
    BY <1>1, <1>3, <1>5, <1>8, <2>5, <2>6, <2>7, <2>8, Assemble
<1>9. QED
  <2>1. \/ bless' = [bless EXCEPT ![s].pc = "err"] /\ UNCHANGED <<handler, atkTokens, atkBless>>
        \/ \E srv \in Answering(i.name) :
             /\ GranterAccepts(srv, i.key) /\ srv = Attacker
             /\ atkTokens' = atkTokens \cup {i.token}
        \/ /\ GranterAccepts(Receiver, i.key)
           /\ handler' = [handler EXCEPT ![s] = [pc |-> "check",
                                                 bl |-> [root |-> Blesser, run |-> s,
                                                         for |-> Receiver],
                                                 tok |-> i.token]]
           /\ bless' = [bless EXCEPT ![s].pc = "await"]
           /\ UNCHANGED <<atkTokens, atkBless>>
    BY DEF BlessCall
  <2>2. QED
    BY <1>6, <1>7, <1>8, <2>1

LEMMA IInvStep == IInv /\ [Next]_vars => IInv'
<1> SUFFICES ASSUME IInv, [Next]_vars PROVE IInv'
  OBVIOUS
<1>1. CASE \E c \in Callers :
             GrantCheck(c) \/ GrantSetDefault(c) \/ GrantSetPeer(c) \/ GrantAddRoots(c)
  BY <1>1, GrantCheckKeeps, GrantStoreKeeps
<1>2. CASE \E s \in Senders : BlessStart(s) \/ BlessCall(s) \/ BlessReturn(s)
  BY <1>2, BlessStartKeeps, BlessCallKeeps, BlessReturnKeeps
<1>3. CASE Done \/ UNCHANGED vars
  BY <1>3 DEF Done, vars, IInv, TypeOK, AttackerLearnsNothing, OnlySenderBlessings,
     AttackerCallHolds, SenderCallsFromBlesser, PastCheckFromBlesser
<1>4. QED
  BY <1>1, <1>2, <1>3, RecvStartKeeps, RecvPublishKeeps, RecvReturnKeeps,
     AttackerCallKeeps DEF Next

-----------------------------------------------------------------------------
(* Theorems.                                                               *)

\* Every reachable state is well typed; in particular the arg file
\* writeRecvBlessingsInfo leaves is always a sequence of JSON cells.
THEOREM TypeCorrect == Spec => []TypeOK
<1>1. IInv => TypeOK
  BY DEF IInv
<1>2. QED
  BY <1>1, IInvInit, IInvStep, PTL DEF Spec

\* However the attacker answers at the receiver's address and whatever it
\* sends to Grant, it never obtains the token of recvblessings nor a
\* blessing made by the blesser: granter.Grant (lines 1277-1288) sends
\* the request only to the server whose key the bless arguments name.
THEOREM AttackerLearnsNothingHolds == Spec => []AttackerLearnsNothing
<1>1. IInv => AttackerLearnsNothing
  BY DEF IInv
<1>2. QED
  BY <1>1, IInvInit, IInvStep, PTL DEF Spec

\* recvBlessingsService.Grant installs only the blesser's blessings for
\* the receiver's key, and recognizes only the blesser's root, whatever
\* the attacker sends and however the Grant calls interleave: the token
\* check keeps every blessing but the bless runs' out of the store.
THEOREM OnlySenderBlessingsHolds == Spec => []OnlySenderBlessings
<1>1. IInv => OnlySenderBlessings
  BY DEF IInv
<1>2. QED
  BY <1>1, IInvInit, IInvStep, PTL DEF Spec

=============================================================================
