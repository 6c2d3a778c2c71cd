---------------------------- MODULE BufferingFlow ----------------------------
(***************************************************************************)
(* BufferingFlow (src/x/ref/runtime/internal/flow/conn/bufferingflow.go):  *)
(* a Flow wrapper that batches writes into a net buffer of at most one     *)
(* MTU and hands a batch to the underlying flow when the next payload      *)
(* would not fit, on Flush, and on Close.  Every method holds b.mu for its *)
(* whole body, so calls are atomic with respect to each other, except that *)
(* WriteMsg loops over its payloads under the lock and may stop half way.  *)
(*                                                                         *)
(* A payload is a record of a unique id and a size; the underlying flow    *)
(* (flw.write and flw.writeMsg, not under src/) is modelled from the spec: *)
(* a write on a flow whose sending side is closed fails, any other write   *)
(* either sends its data, closing the flow when asked to, or fails         *)
(* without sending anything (cancellation, channel timeout, a broken       *)
(* connection).  netBufs counts the net buffers this BufferingFlow has     *)
(* taken from the pool (getNetBuf) and not given back (putNetBuf).         *)
(***************************************************************************)
EXTENDS Naturals, Sequences

CONSTANTS
    MTU,          \* b.mtu
    Sizes,        \* the payload sizes the model writes
    MaxWrites,    \* bound on the number of payloads written
    MaxParts,     \* bound on the number of payloads of one WriteMsg
    MaxCalls,     \* bound on the number of calls
    MaxFailures   \* bound on the number of failed underlying writes

ASSUME BufferingFlowAssumption ==
    /\ MTU \in Nat \ {0}
    /\ Sizes \subseteq Nat \ {0}
    /\ MaxWrites \in Nat
    /\ MaxParts \in Nat \ {0}
    /\ MaxCalls \in Nat
    /\ MaxFailures \in Nat

Ids == 1..MaxWrites
Payload == [id : Ids, size : Sizes]
\* A write handed to the underlying flow; batch marks a write of the
\* buffer, as opposed to the caller's data passed on by WriteMsgAndClose.
Chunk == [data : Seq(Payload), close : BOOLEAN, batch : BOOLEAN]

VARIABLES
    buf,         \* b.buf: the buffered payloads
    hasBuf,      \* b.buf # nil: a net buffer is held in b.nBuf
    netBufs,     \* net buffers taken from the pool and not returned
    sent,        \* the writes the underlying flow has sent, in order
    flowClosed,  \* the underlying flow's sending side is closed
    parts,       \* payloads a WriteMsg in progress still has to append
    pendingOk,   \* ids accepted without error and not since covered by an error
    nextId,      \* the id of the next payload
    calls,       \* calls made so far
    failures     \* underlying writes that failed so far

vars == <<buf, hasBuf, netBufs, sent, flowClosed, parts, pendingOk, nextId,
          calls, failures>>

-----------------------------------------------------------------------------
\* The number of bytes of a sequence of payloads.
BytesOf(s) ==
    LET f[i \in 0..Len(s)] == IF i = 0 THEN 0 ELSE f[i - 1] + s[i].size
    IN  f[Len(s)]

IdsOf(s) == {s[i].id : i \in DOMAIN s}

\* The payloads a call may write next, numbered from nextId.
NewPayloads(n) ==
    { p \in [1..n -> Payload] : \A i \in 1..n : p[i].id = nextId + i - 1 }

\* Outcomes of flw.write / flw.writeMsg: a record saying whether it
\* succeeded, modelled from the spec.
WriteOutcomes ==
    IF flowClosed THEN {FALSE}
    ELSE IF failures < MaxFailures THEN {TRUE, FALSE} ELSE {TRUE}

\* The effect of an underlying write of data with the given outcome.
UnderlyingWrite(alsoClose, data, ok) ==
    /\ sent' = IF ok THEN Append(sent, [data |-> data, close |-> alsoClose, batch |-> TRUE])
                     ELSE sent
    /\ flowClosed' = (flowClosed \/ (ok /\ alsoClose))
    /\ failures' = IF ok \/ flowClosed THEN failures ELSE failures + 1

\* Mutants of handleError: the net buffer is not given back; it is given
\* back even when none is held.
HandleErrorKeepsNetBuf(ok, bufAfter) ==
    /\ buf' = IF ok THEN bufAfter ELSE <<>>
    /\ hasBuf' = (ok /\ hasBuf)
    /\ UNCHANGED netBufs
HandleErrorPutsUnheld(ok, bufAfter) ==
    /\ buf' = IF ok THEN bufAfter ELSE <<>>
    /\ hasBuf' = (ok /\ hasBuf)
    /\ netBufs' = IF ~ok THEN netBufs - 1 ELSE netBufs

\* handleError after a write of the buffer: on an error give the net
\* buffer back and drop b.buf; otherwise keep bufAfter.
HandleError(ok, bufAfter) ==
    /\ buf' = IF ok THEN bufAfter ELSE <<>>
    /\ hasBuf' = (ok /\ hasBuf)
    /\ netBufs' = IF ~ok /\ hasBuf THEN netBufs - 1 ELSE netBufs

-----------------------------------------------------------------------------
Init ==
    /\ buf = <<>>
    /\ hasBuf = FALSE
    /\ netBufs = 0
    /\ sent = <<>>
    /\ flowClosed = FALSE
    /\ parts = <<>>
    /\ pendingOk = {}
    /\ nextId = 1
    /\ calls = 0
    /\ failures = 0

\* No call is running: b.mu is free.
Unlocked == parts = <<>>

\* A new call takes b.mu.
Call == /\ Unlocked /\ calls < MaxCalls /\ calls' = calls + 1

\* Mutants of appendLocked: the buffer is not reset after it is written
\* out; the MTU check is dropped and everything is buffered.
AppendLockedNoReset(d, ok, handle) ==
    LET b0  == IF hasBuf THEN buf ELSE <<>>
        got == IF hasBuf THEN netBufs ELSE netBufs + 1
    IN
    IF BytesOf(b0) + d.size < MTU
    THEN /\ buf' = Append(b0, d)
         /\ hasBuf' = TRUE
         /\ netBufs' = got
         /\ UNCHANGED <<sent, flowClosed, failures>>
    ELSE /\ UnderlyingWrite(FALSE, b0, ok)
         /\ IF ok \/ ~handle
            THEN buf' = Append(b0, d) /\ hasBuf' = TRUE /\ netBufs' = got
            ELSE buf' = <<>> /\ hasBuf' = FALSE /\ netBufs' = got - 1
AppendLockedNoFlush(d, ok, handle) ==
    /\ buf' = Append(IF hasBuf THEN buf ELSE <<>>, d)
    /\ hasBuf' = TRUE
    /\ netBufs' = IF hasBuf THEN netBufs ELSE netBufs + 1
    /\ UNCHANGED <<sent, flowClosed, failures>>

\* d fits in b.buf (a fresh, empty one when b.buf is nil) under the MTU.
AppendFits(d) == BytesOf(IF hasBuf THEN buf ELSE <<>>) + d.size < MTU

\* appendLocked returns no error: d fits and nothing is written, or the
\* write-out succeeded.  ok is the outcome that write-out would have.
AppendOk(d, ok) == AppendFits(d) \/ ok

\* appendLocked(data): take a net buffer if none is held; append data when
\* it fits under the MTU, writing nothing (so it succeeds even on a closed
\* flow), otherwise write the buffer out and keep data.  ok is the outcome
\* of that write; handle says whether the caller passes an error on to
\* handleError.
AppendLocked(d, ok, handle) ==
    LET b0  == IF hasBuf THEN buf ELSE <<>>
        got == IF hasBuf THEN netBufs ELSE netBufs + 1
    IN
    IF BytesOf(b0) + d.size < MTU
    THEN /\ buf' = Append(b0, d)
         /\ hasBuf' = TRUE
         /\ netBufs' = got
         /\ UNCHANGED <<sent, flowClosed, failures>>
    ELSE /\ UnderlyingWrite(FALSE, b0, ok)
         /\ IF ok \/ ~handle
            THEN buf' = <<d>> /\ hasBuf' = TRUE /\ netBufs' = got
            ELSE buf' = <<>> /\ hasBuf' = FALSE /\ netBufs' = got - 1

\* Write(data): one payload, appended under the lock; the error of the
\* write-out is returned but the net buffer is kept.
Write ==
    /\ Call
    /\ nextId <= MaxWrites
    /\ \E s \in Sizes, ok \in WriteOutcomes :
          LET d == [id |-> nextId, size |-> s] IN
          /\ AppendLocked(d, ok, FALSE)
          /\ pendingOk' = IF AppendOk(d, ok) THEN pendingOk \cup {d.id} ELSE {}
    /\ nextId' = nextId + 1
    /\ UNCHANGED parts

\* WriteMsg(data...): takes the lock with its payloads ...
WriteMsgBegin ==
    /\ Call
    /\ \E n \in 1..MaxParts :
          /\ nextId + n - 1 <= MaxWrites
          /\ \E ps \in NewPayloads(n) : parts' = ps
          /\ nextId' = nextId + n
    /\ UNCHANGED <<buf, hasBuf, netBufs, sent, flowClosed, pendingOk, failures>>

\* ... appends them one by one, returning through handleError on the
\* first error and releasing the lock after the last one.
WriteMsgStep ==
    /\ parts # <<>>
    /\ \E ok \in WriteOutcomes :
          LET d == Head(parts) IN
          \/ /\ AppendOk(d, ok)
             /\ AppendLocked(d, ok, TRUE)
             /\ parts' = Tail(parts)
             /\ pendingOk' = pendingOk \cup {d.id}
          \/ /\ ~AppendOk(d, ok)
             /\ AppendLocked(d, ok, TRUE)
             /\ parts' = <<>>
             /\ pendingOk' = {}
    /\ UNCHANGED <<nextId, calls>>

\* Flush: write the buffer out, empty it, and handleError.
Flush ==
    /\ Call
    /\ \E ok \in WriteOutcomes :
          /\ UnderlyingWrite(FALSE, buf, ok)
          /\ HandleError(ok, <<>>)
          /\ pendingOk' = IF ok THEN pendingOk ELSE {}
    /\ UNCHANGED <<parts, nextId>>

\* Mutant of Close: the buffer is dropped instead of written out.
CloseWithoutFlush ==
    /\ Call
    /\ \E ok \in WriteOutcomes :
          /\ UnderlyingWrite(TRUE, <<>>, ok)
          /\ buf' = <<>>
          /\ hasBuf' = FALSE
          /\ netBufs' = IF hasBuf THEN netBufs - 1 ELSE netBufs
          /\ pendingOk' = IF ok THEN pendingOk ELSE {}
    /\ UNCHANGED <<parts, nextId>>

\* Close: write the buffer out with the close flag, give the net buffer
\* back and drop b.buf, whatever the write returned.
Close ==
    /\ Call
    /\ \E ok \in WriteOutcomes :
          /\ UnderlyingWrite(TRUE, buf, ok)
          /\ buf' = <<>>
          /\ hasBuf' = FALSE
          /\ netBufs' = IF hasBuf THEN netBufs - 1 ELSE netBufs
          /\ pendingOk' = IF ok THEN pendingOk ELSE {}
    /\ UNCHANGED <<parts, nextId>>

\* WriteMsgAndClose(data...): write out a non-empty buffer (returning
\* through handleError if that fails), then write data with the close
\* flag, empty the buffer and handleError.
WriteMsgAndClose ==
    /\ Call
    /\ \E n \in 1..MaxParts :
          /\ nextId + n - 1 <= MaxWrites
          /\ nextId' = nextId + n
          /\ \E ps \in NewPayloads(n), ok1 \in WriteOutcomes :
               IF buf # <<>> /\ ~ok1
               THEN /\ UnderlyingWrite(FALSE, buf, FALSE)
                    /\ HandleError(FALSE, <<>>)
                    /\ pendingOk' = {}
               ELSE LET sent1 == IF buf # <<>>
                                 THEN Append(sent, [data |-> buf, close |-> FALSE, batch |-> TRUE])
                                 ELSE sent
                    IN
                    \E ok2 \in WriteOutcomes :
                      /\ sent' = IF ok2 THEN Append(sent1, [data |-> ps, close |-> TRUE, batch |-> FALSE])
                                 ELSE sent1
                      /\ flowClosed' = (flowClosed \/ ok2)
                      /\ failures' = IF ok2 \/ flowClosed THEN failures ELSE failures + 1
                      /\ HandleError(ok2, <<>>)
                      /\ pendingOk' = IF ok2 THEN pendingOk ELSE {}
    /\ UNCHANGED parts

Next ==
    \/ Write
    \/ WriteMsgBegin
    \/ WriteMsgStep
    \/ Flush
    \/ Close
    \/ WriteMsgAndClose

Spec == Init /\ [][Next]_vars

-----------------------------------------------------------------------------
(* Properties.                                                             *)

\* The payloads the underlying flow has sent, in order.
Delivered ==
    LET f[i \in 0..Len(sent)] == IF i = 0 THEN <<>> ELSE f[i - 1] \o sent[i].data
    IN  f[Len(sent)]

TypeOK ==
    /\ buf \in Seq(Payload)
    /\ hasBuf \in BOOLEAN
    /\ netBufs \in Nat
    /\ sent \in Seq(Chunk)
    /\ flowClosed \in BOOLEAN
    /\ parts \in Seq(Payload)
    /\ pendingOk \subseteq Ids
    /\ nextId \in 1..(MaxWrites + 1)
    /\ calls \in 0..MaxCalls
    /\ failures \in 0..MaxFailures

\* The MTU promise of BufferingFlow: every batch handed to the underlying
\* flow is whole payloads of at most an MTU in all, or one payload.
SentWithinMTU ==
    \A i \in DOMAIN sent :
        sent[i].batch => BytesOf(sent[i].data) <= MTU \/ Len(sent[i].data) <= 1

\* Payloads reach the underlying flow in the order they were written,
\* each at most once, and those still buffered come after them all:
\* whatever writes failed on the way and whatever the calls interleaved.
InOrder ==
    LET s == Delivered \o buf IN
    \A i, j \in DOMAIN s : i < j => s[i].id < s[j].id

\* No silent loss: a payload a call accepted without error is sent or
\* still buffered, unless a later call returned an error.
NoSilentLoss == pendingOk \subseteq IdsOf(Delivered) \cup IdsOf(buf)

\* The net buffer is held exactly while b.buf is not nil: it is taken
\* from the pool once, and given back once, on every path.
NetBufAccounting == netBufs = IF hasBuf THEN 1 ELSE 0

\* The spec's resource rule (every net buffer is given back on every
\* path): once the flow is closed, no net buffer is still held.
NetBufReleasedOnClose == flowClosed => netBufs = 0

=============================================================================
