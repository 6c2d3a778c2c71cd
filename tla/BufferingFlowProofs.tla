------------------------- MODULE BufferingFlowProofs -------------------------
(***************************************************************************)
(* Proofs about BufferingFlow.tla for every value of the constants that    *)
(* satisfies BufferingFlowAssumption: the state stays well typed, and the *)
(* net-buffer count is one exactly while b.buf holds a buffer.             *)
(*                                                                         *)
(* TypeOK alone is not inductive: handleError and Close give a buffer back *)
(* (netBufs - 1), which stays a natural number only because the count is  *)
(* 1 whenever a buffer is held.  So the two are proved together, as IInv.  *)
(***************************************************************************)
EXTENDS BufferingFlow, TLAPS

IInv == TypeOK /\ NetBufAccounting

-----------------------------------------------------------------------------
(* Lemmas about the operators the actions are built from.  Facts about    *)
(* sequences and about numbers are proved in separate steps: each backend *)
(* handles one kind well.                                                  *)

\* flw.write fails only while the failure bound allows it, or on a
\* closed flow.
LEMMA WriteOutcomeFacts ==
    ASSUME NEW ok \in WriteOutcomes
    PROVE  ok \in BOOLEAN /\ (~ok /\ ~flowClosed => failures < MaxFailures)
BY DEF WriteOutcomes

\* An underlying write (flw.write, flw.writeMsg) keeps the record of sent
\* chunks, the closed flag and the failure count well typed.
LEMMA UnderlyingWriteKeeps ==
    ASSUME TypeOK, NEW alsoClose \in BOOLEAN, NEW data \in Seq(Payload),
           NEW ok \in WriteOutcomes, UnderlyingWrite(alsoClose, data, ok)
    PROVE  sent' \in Seq(Chunk) /\ flowClosed' \in BOOLEAN /\ failures' \in 0..MaxFailures
<1>1. ok \in BOOLEAN /\ (~ok /\ ~flowClosed => failures < MaxFailures)
  BY WriteOutcomeFacts
<1>2. [data |-> data, close |-> alsoClose, batch |-> TRUE] \in Chunk
  BY DEF Chunk
<1>3. sent' \in Seq(Chunk)
  <2>1. sent \in Seq(Chunk)
    BY DEF TypeOK
  <2>2. QED
    BY <1>1, <1>2, <2>1 DEF UnderlyingWrite
<1>4. flowClosed' \in BOOLEAN /\ failures' \in 0..MaxFailures
  <2>1. failures \in 0..MaxFailures /\ flowClosed \in BOOLEAN
    BY DEF TypeOK
  <2>2. QED
    BY <1>1, <2>1, BufferingFlowAssumption DEF UnderlyingWrite
<1>5. QED
  BY <1>3, <1>4

\* handleError empties b.buf and gives the net buffer back on an error,
\* and keeps both otherwise: the count stays in step with b.buf.
LEMMA HandleErrorKeeps ==
    ASSUME IInv, NEW ok \in BOOLEAN, HandleError(ok, <<>>)
    PROVE  /\ buf' \in Seq(Payload) /\ hasBuf' \in BOOLEAN
           /\ netBufs' \in Nat /\ netBufs' = IF hasBuf' THEN 1 ELSE 0
<1>1. buf' \in Seq(Payload) /\ hasBuf' \in BOOLEAN
  BY DEF HandleError
<1>2. hasBuf \in BOOLEAN /\ netBufs = IF hasBuf THEN 1 ELSE 0
  BY DEF IInv, TypeOK, NetBufAccounting
<1>3. netBufs' \in Nat /\ netBufs' = IF hasBuf' THEN 1 ELSE 0
  BY <1>2 DEF HandleError
<1>4. QED
  BY <1>1, <1>3

\* appendLocked keeps the state well typed and the count in step, for
\* every outcome of its write-out and whether or not the caller hands an
\* error to handleError.
LEMMA AppendLockedKeeps ==
    ASSUME IInv, NEW d \in Payload, NEW ok \in WriteOutcomes, NEW handle \in BOOLEAN,
           AppendLocked(d, ok, handle)
    PROVE  /\ buf' \in Seq(Payload) /\ hasBuf' \in BOOLEAN
           /\ sent' \in Seq(Chunk) /\ flowClosed' \in BOOLEAN
           /\ failures' \in 0..MaxFailures
           /\ netBufs' \in Nat /\ netBufs' = IF hasBuf' THEN 1 ELSE 0
<1> DEFINE b0 == IF hasBuf THEN buf ELSE <<>>
           got == IF hasBuf THEN netBufs ELSE netBufs + 1
<1>1. TypeOK
  BY DEF IInv
<1>2. b0 \in Seq(Payload)
  BY <1>1 DEF TypeOK
<1>3. got = 1
  BY <1>1 DEF IInv, TypeOK, NetBufAccounting
<1>4. CASE BytesOf(b0) + d.size < MTU
  <2>1. buf' = Append(b0, d) /\ hasBuf' = TRUE /\ netBufs' = got
        /\ UNCHANGED <<sent, flowClosed, failures>>
    BY <1>4 DEF AppendLocked
  <2>2. buf' \in Seq(Payload)
    BY <1>2, <2>1
  <2>3. sent' \in Seq(Chunk) /\ flowClosed' \in BOOLEAN /\ failures' \in 0..MaxFailures
    BY <1>1, <2>1 DEF TypeOK
  <2>4. QED
    BY <1>3, <2>1, <2>2, <2>3
<1>5. CASE ~(BytesOf(b0) + d.size < MTU)
  <2>1. UnderlyingWrite(FALSE, b0, ok)
        /\ IF ok \/ ~handle
           THEN buf' = <<d>> /\ hasBuf' = TRUE /\ netBufs' = got
           ELSE buf' = <<>> /\ hasBuf' = FALSE /\ netBufs' = got - 1
    BY <1>5 DEF AppendLocked
  <2>2. sent' \in Seq(Chunk) /\ flowClosed' \in BOOLEAN /\ failures' \in 0..MaxFailures
    BY <1>1, <1>2, <2>1, UnderlyingWriteKeeps
  <2>3. buf' \in Seq(Payload) /\ hasBuf' \in BOOLEAN
    <3>1. ok \in BOOLEAN
      BY WriteOutcomeFacts
    <3>2. <<d>> \in Seq(Payload)
      OBVIOUS
    <3>3. <<>> \in Seq(Payload)
      OBVIOUS
    <3>4. CASE ok \/ ~handle
      BY <2>1, <3>2, <3>4
    <3>5. CASE ~(ok \/ ~handle)
      BY <2>1, <3>3, <3>5
    <3>6. QED
      BY <3>4, <3>5
  <2>4. netBufs' \in Nat /\ netBufs' = IF hasBuf' THEN 1 ELSE 0
    BY <1>3, <2>1
  <2>5. QED
    BY <2>2, <2>3, <2>4
<1>6. QED
  BY <1>4, <1>5

-----------------------------------------------------------------------------
(* The inductive invariant.                                                *)

\* IInv' from a fact about each variable.
LEMMA Assemble ==
    ASSUME buf' \in Seq(Payload), hasBuf' \in BOOLEAN, netBufs' \in Nat,
           sent' \in Seq(Chunk), flowClosed' \in BOOLEAN, parts' \in Seq(Payload),
           pendingOk' \subseteq Ids, nextId' \in 1..(MaxWrites + 1),
           calls' \in 0..MaxCalls, failures' \in 0..MaxFailures,
           netBufs' = IF hasBuf' THEN 1 ELSE 0
    PROVE  IInv'
BY Zenon DEF IInv, TypeOK, NetBufAccounting

LEMMA IInvInit == Init => IInv
<1> SUFFICES ASSUME Init PROVE IInv
  OBVIOUS
<1>1. buf \in Seq(Payload) /\ sent \in Seq(Chunk) /\ parts \in Seq(Payload)
  BY DEF Init
<1>2. pendingOk \subseteq Ids /\ nextId \in 1..(MaxWrites + 1)
      /\ calls \in 0..MaxCalls /\ failures \in 0..MaxFailures
  BY BufferingFlowAssumption DEF Init, Ids
<1>3. hasBuf \in BOOLEAN /\ netBufs \in Nat /\ flowClosed \in BOOLEAN
      /\ netBufs = IF hasBuf THEN 1 ELSE 0
  BY DEF Init
<1>4. QED
  BY <1>1, <1>2, <1>3, Zenon DEF IInv, TypeOK, NetBufAccounting

LEMMA IInvStep == IInv /\ [Next]_vars => IInv'
<1> SUFFICES ASSUME IInv, [Next]_vars PROVE IInv'
  OBVIOUS
<1>0. TypeOK
  BY DEF IInv
<1>1. CASE Write
  <2>1. PICK s \in Sizes, ok \in WriteOutcomes :
           /\ AppendLocked([id |-> nextId, size |-> s], ok, FALSE)
           /\ pendingOk' \in {pendingOk \cup {nextId}, {}}
    BY <1>1 DEF Write
  <2>2. nextId \in Ids /\ nextId' \in 1..(MaxWrites + 1) /\ calls' \in 0..MaxCalls
    BY <1>0, <1>1, BufferingFlowAssumption DEF Write, Call, TypeOK, Ids
  <2>3. [id |-> nextId, size |-> s] \in Payload
    BY <2>2 DEF Payload
  <2>4. pendingOk' \subseteq Ids /\ parts' \in Seq(Payload)
    BY <1>0, <1>1, <2>1, <2>2 DEF Write, TypeOK
  <2>5. QED
    BY <2>1, <2>2, <2>3, <2>4, AppendLockedKeeps, Assemble
<1>2. CASE WriteMsgBegin
  <2>1. PICK n \in 1..MaxParts :
           /\ nextId + n - 1 <= MaxWrites
           /\ \E ps \in NewPayloads(n) : parts' = ps
           /\ nextId' = nextId + n
    BY <1>2 DEF WriteMsgBegin
  <2>2. parts' \in Seq(Payload)
    BY <2>1 DEF NewPayloads
  <2>3. nextId' \in 1..(MaxWrites + 1) /\ calls' \in 0..MaxCalls
    BY <1>0, <1>2, <2>1, BufferingFlowAssumption DEF WriteMsgBegin, Call, TypeOK
  <2>4. UNCHANGED <<buf, hasBuf, netBufs, sent, flowClosed, pendingOk, failures>>
    BY <1>2 DEF WriteMsgBegin
  <2>5. QED
    BY <1>0, <2>2, <2>3, <2>4, Assemble DEF IInv, TypeOK, NetBufAccounting
<1>3. CASE WriteMsgStep
  <2>1. parts \in Seq(Payload) /\ parts # <<>>
    BY <1>0, <1>3 DEF WriteMsgStep, TypeOK
  <2>2. Head(parts) \in Payload /\ Tail(parts) \in Seq(Payload)
    BY <2>1
  <2>3. Head(parts).id \in Ids
    BY <2>2 DEF Payload
  <2>4. PICK ok \in WriteOutcomes :
           /\ AppendLocked(Head(parts), ok, TRUE)
           /\ parts' \in {Tail(parts), <<>>}
           /\ pendingOk' \in {pendingOk \cup {Head(parts).id}, {}}
    BY <1>3 DEF WriteMsgStep
  <2>5. parts' \in Seq(Payload)
    <3>1. <<>> \in Seq(Payload)
      OBVIOUS
    <3>2. QED
      BY <2>2, <2>4, <3>1, Zenon
  <2>8. pendingOk' \subseteq Ids
    <3>1. pendingOk \subseteq Ids
      BY <1>0 DEF TypeOK
    <3>2. QED
      BY <2>3, <2>4, <3>1
  <2>6. UNCHANGED <<nextId, calls>>
    BY <1>3 DEF WriteMsgStep
  <2>7. QED
    BY <1>0, <2>2, <2>4, <2>5, <2>6, <2>8, AppendLockedKeeps, Assemble DEF TypeOK
<1>4. CASE Flush
  <2>1. PICK ok \in WriteOutcomes :
           /\ UnderlyingWrite(FALSE, buf, ok)
           /\ HandleError(ok, <<>>)
           /\ pendingOk' = IF ok THEN pendingOk ELSE {}
    BY <1>4 DEF Flush
  <2>2. ok \in BOOLEAN /\ buf \in Seq(Payload)
    BY <1>0, WriteOutcomeFacts DEF TypeOK
  <2>3. calls' \in 0..MaxCalls /\ parts' \in Seq(Payload) /\ nextId' \in 1..(MaxWrites + 1)
    <3>1. calls' \in 0..MaxCalls
      BY <1>0, <1>4, BufferingFlowAssumption DEF Flush, Call, TypeOK
    <3>2. UNCHANGED <<parts, nextId>>
      BY <1>4 DEF Flush
    <3>3. QED
      BY <1>0, <3>1, <3>2 DEF TypeOK
  <2>4. pendingOk' \subseteq Ids
    BY <1>0, <2>1 DEF TypeOK
  <2>5. QED
    BY <1>0, <2>1, <2>2, <2>3, <2>4, UnderlyingWriteKeeps, HandleErrorKeeps, Assemble
       DEF TypeOK
<1>5. CASE Close
  <2>1. PICK ok \in WriteOutcomes :
           /\ UnderlyingWrite(TRUE, buf, ok)
           /\ buf' = <<>>
           /\ hasBuf' = FALSE
           /\ netBufs' = IF hasBuf THEN netBufs - 1 ELSE netBufs
           /\ pendingOk' = IF ok THEN pendingOk ELSE {}
    BY <1>5 DEF Close
  <2>2. buf \in Seq(Payload)
    BY <1>0 DEF TypeOK
  <2>3. netBufs' \in Nat /\ netBufs' = 0
    BY <1>0, <2>1 DEF IInv, TypeOK, NetBufAccounting
  <2>4. calls' \in 0..MaxCalls /\ parts' \in Seq(Payload) /\ nextId' \in 1..(MaxWrites + 1)
    <3>1. calls' \in 0..MaxCalls
      BY <1>0, <1>5, BufferingFlowAssumption DEF Close, Call, TypeOK
    <3>2. UNCHANGED <<parts, nextId>>
      BY <1>5 DEF Close
    <3>3. QED
      BY <1>0, <3>1, <3>2 DEF TypeOK
  <2>5. pendingOk' \subseteq Ids
    BY <1>0, <2>1 DEF TypeOK
  <2>6. QED
    <3>1. sent' \in Seq(Chunk) /\ flowClosed' \in BOOLEAN /\ failures' \in 0..MaxFailures
      BY <1>0, <2>1, <2>2, UnderlyingWriteKeeps
    <3>2. buf' \in Seq(Payload) /\ hasBuf' \in BOOLEAN /\ hasBuf' = FALSE
      <4>1. buf' = <<>> /\ hasBuf' = FALSE
        BY <2>1
      <4>2. <<>> \in Seq(Payload)
        OBVIOUS
      <4>3. QED
        BY <4>1, <4>2
    <3>3. QED
      BY <2>3, <2>4, <2>5, <3>1, <3>2, Assemble
<1>6. CASE WriteMsgAndClose
  <2>1. PICK n \in 1..MaxParts :
           /\ nextId + n - 1 <= MaxWrites
           /\ nextId' = nextId + n
           /\ \E ps \in NewPayloads(n), ok1 \in WriteOutcomes :
                IF buf # <<>> /\ ~ok1
                THEN /\ UnderlyingWrite(FALSE, buf, FALSE)
                     /\ HandleError(FALSE, <<>>)
                     /\ pendingOk' = {}
                ELSE LET sent1 == IF buf # <<>>
                                  THEN Append(sent, [data |-> buf, close |-> FALSE, batch |-> TRUE])
                                  ELSE sent
                     IN
                     \E ok2 \in WriteOutcomes :
                       /\ sent' = IF ok2 THEN Append(sent1, [data |-> ps, close |-> TRUE, batch |-> FALSE])
                                  ELSE sent1
                       /\ flowClosed' = (flowClosed \/ ok2)
                       /\ failures' = IF ok2 \/ flowClosed THEN failures ELSE failures + 1
                       /\ HandleError(ok2, <<>>)
                       /\ pendingOk' = IF ok2 THEN pendingOk ELSE {}
    BY <1>6 DEF WriteMsgAndClose
  <2>2. PICK ps \in NewPayloads(n), ok1 \in WriteOutcomes :
                IF buf # <<>> /\ ~ok1
                THEN /\ UnderlyingWrite(FALSE, buf, FALSE)
                     /\ HandleError(FALSE, <<>>)
                     /\ pendingOk' = {}
                ELSE LET sent1 == IF buf # <<>>
                                  THEN Append(sent, [data |-> buf, close |-> FALSE, batch |-> TRUE])
                                  ELSE sent
                     IN
                     \E ok2 \in WriteOutcomes :
                       /\ sent' = IF ok2 THEN Append(sent1, [data |-> ps, close |-> TRUE, batch |-> FALSE])
                                  ELSE sent1
                       /\ flowClosed' = (flowClosed \/ ok2)
                       /\ failures' = IF ok2 \/ flowClosed THEN failures ELSE failures + 1
                       /\ HandleError(ok2, <<>>)
                       /\ pendingOk' = IF ok2 THEN pendingOk ELSE {}
    BY <2>1
  <2>3. nextId' \in 1..(MaxWrites + 1) /\ calls' \in 0..MaxCalls /\ parts' \in Seq(Payload)
    BY <1>0, <1>6, <2>1, BufferingFlowAssumption DEF WriteMsgAndClose, Call, TypeOK
  <2>4. buf \in Seq(Payload) /\ sent \in Seq(Chunk) /\ ps \in Seq(Payload)
    BY <1>0 DEF TypeOK, NewPayloads
  <2>5. CASE buf # <<>> /\ ~ok1
    <3>1. FALSE \in WriteOutcomes
      BY <2>5, WriteOutcomeFacts DEF WriteOutcomes
    <3>2. pendingOk' \subseteq Ids
      BY <2>2, <2>5
    <3>3. QED
      BY <1>0, <2>2, <2>3, <2>4, <2>5, <3>1, <3>2, UnderlyingWriteKeeps, HandleErrorKeeps,
         Assemble
  <2>6. CASE ~(buf # <<>> /\ ~ok1)
    <3> DEFINE sent1 == IF buf # <<>>
                        THEN Append(sent, [data |-> buf, close |-> FALSE, batch |-> TRUE])
                        ELSE sent
    <3>1. PICK ok2 \in WriteOutcomes :
             /\ sent' = IF ok2 THEN Append(sent1, [data |-> ps, close |-> TRUE, batch |-> FALSE])
                        ELSE sent1
             /\ flowClosed' = (flowClosed \/ ok2)
             /\ failures' = IF ok2 \/ flowClosed THEN failures ELSE failures + 1
             /\ HandleError(ok2, <<>>)
             /\ pendingOk' = IF ok2 THEN pendingOk ELSE {}
      BY <2>2, <2>6
    <3>2. ok2 \in BOOLEAN /\ (~ok2 /\ ~flowClosed => failures < MaxFailures)
      BY WriteOutcomeFacts
    <3>3. [data |-> buf, close |-> FALSE, batch |-> TRUE] \in Chunk
          /\ [data |-> ps, close |-> TRUE, batch |-> FALSE] \in Chunk
      BY <2>4 DEF Chunk
    <3>4. sent1 \in Seq(Chunk)
      BY <2>4, <3>3
    <3>5. sent' \in Seq(Chunk)
      BY <3>1, <3>3, <3>4
    <3>6. flowClosed' \in BOOLEAN /\ failures' \in 0..MaxFailures
      BY <1>0, <3>1, <3>2, BufferingFlowAssumption DEF TypeOK
    <3>7. pendingOk' \subseteq Ids
      BY <1>0, <3>1 DEF TypeOK
    <3>8. QED
      BY <2>3, <3>1, <3>2, <3>5, <3>6, <3>7, HandleErrorKeeps, Assemble
  <2>7. QED
    BY <2>5, <2>6
<1>7. CASE UNCHANGED vars
  BY <1>7 DEF vars, IInv, TypeOK, NetBufAccounting
<1>8. QED
  BY <1>1, <1>2, <1>3, <1>4, <1>5, <1>6, <1>7 DEF Next

-----------------------------------------------------------------------------
(* Theorems.                                                               *)

\* Every reachable state of a BufferingFlow is well typed: in particular the
\* count of net buffers taken from the pool and not given back (getNetBuf,
\* putNetBuf) never goes negative, whatever writes fail.
THEOREM TypeCorrect == Spec => []TypeOK
<1>1. IInv => TypeOK
  BY DEF IInv
<1>2. QED
  BY <1>1, IInvInit, IInvStep, PTL DEF Spec

\* appendLocked, handleError, Close and WriteMsgAndClose hold a net buffer
\* exactly while b.buf is not nil: the pool gives one at the first append
\* and takes it back once, on every error path and on Close.
THEOREM NetBufAccountingHolds == Spec => []NetBufAccounting
<1>1. IInv => NetBufAccounting
  BY DEF IInv
<1>2. QED
  BY <1>1, IInvInit, IInvStep, PTL DEF Spec

=============================================================================
