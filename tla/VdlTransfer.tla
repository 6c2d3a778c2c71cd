----------------------------- MODULE VdlTransfer -----------------------------
(***************************************************************************)
(* One value of a generated VDL type written by one peer and read by      *)
(* another: a Permissions (a permissions file, a SetPermissions call) or  *)
(* a reply that Glob__ or GlobChildren__ streams.  The writer may have    *)
(* been built with other versions of the types; the stream may end at any *)
(* token (a connection closed, a file cut short); the reader decodes into *)
(* a variable that may already hold a value, as generated VDLRead methods *)
(* write through their receiver.                                          *)
(*                                                                         *)
(* The two kinds of value keep their state in records of their own, so   *)
(* that each variable always holds values of one type.                    *)
(***************************************************************************)
EXTENDS VdlAccess, VdlNaming

Kinds == {"Permissions", "GlobReply"}

VARIABLES
    phase,     \* "write", "sent" (the stream is on its way) or "read"
    kind,      \* the type of the value in transit
    perm,      \* a Permissions: writer's AccessList type, value written,
               \* reader's variable and its value before the read
    reply,     \* a reply: writer's union and MountEntry types, value
               \* written, reader's variable and its value before the read
    stream,    \* the tokens the reader gets
    truncated, \* the stream ended early
    res        \* "none", or the outcome of VDLRead ("ok" or "err")

vars == <<phase, kind, perm, reply, stream, truncated, res>>

\* The state of the kind not in transit.
IdlePerm == [wtype |-> AccessListType, val |-> <<>>, dest |-> <<>>, prior |-> <<>>]
IdleReply == [utype |-> "GlobReply", etype |-> "MountEntry",
              val |-> NilReply, dest |-> NilReply, prior |-> NilReply]

Init ==
    /\ phase = "write" /\ stream = <<>> /\ truncated = FALSE /\ res = "none"
    /\ kind \in Kinds
    /\ perm \in IF kind = "Permissions"
                THEN {[wtype |-> t, val |-> <<>>, dest |-> d, prior |-> d] :
                        t \in WriterTypes, d \in InitPermissions}
                ELSE {IdlePerm}
    /\ reply \in IF kind = "GlobReply"
                 THEN {[utype |-> u, etype |-> t, val |-> NilReply, dest |-> d, prior |-> d] :
                         u \in WriterUnions, t \in WriterEntries, d \in InitReplies}
                 ELSE {IdleReply}

\* The writer encodes a Permissions, entries in some iteration order
\* (Permissions.VDLWrite), or the server encodes one reply
\* (GlobReply.VDLWrite / GlobChildrenReply.VDLWrite).
Write ==
    /\ phase = "write" /\ phase' = "sent"
    /\ \/ /\ kind = "Permissions"
          /\ \E v \in PermissionsOf(perm.wtype) :
             \E order \in SetToSeqs(DOMAIN v) :
                /\ perm' = [perm EXCEPT !.val = v]
                /\ stream' = WritePermissions(perm.wtype, v, order)
          /\ UNCHANGED reply
       \/ /\ kind = "GlobReply"
          /\ \E v \in ReplyValues(reply.utype, reply.etype) :
                /\ reply' = [reply EXCEPT !.val = v]
                /\ stream' = IF ReaderOf(reply.utype) = "GlobReply"
                             THEN WriteGlobReply(reply.utype, reply.etype, v)
                             ELSE WriteGlobChildrenReply(reply.utype, v)
          /\ UNCHANGED perm
    /\ UNCHANGED <<kind, truncated, res>>

\* The stream ends early.
Truncate ==
    /\ phase = "sent" /\ ~truncated
    /\ \E k \in 0 .. Len(stream) - 1 : stream' = SubSeq(stream, 1, k)
    /\ truncated' = TRUE
    /\ UNCHANGED <<phase, kind, perm, reply, res>>

\* The reader decodes into its variable: Permissions.VDLRead, or the
\* VDLRead of the union type this package has for the reply.
Read ==
    /\ phase = "sent" /\ phase' = "read"
    /\ \/ /\ kind = "Permissions"
          /\ LET r == ReadPermissions(stream, perm.dest)
             IN  /\ perm' = [perm EXCEPT !.dest = r.x]
                 /\ res' = IF r.ok THEN "ok" ELSE "err"
          /\ UNCHANGED reply
       \/ /\ kind = "GlobReply"
          /\ LET r == IF ReaderOf(reply.utype) = "GlobReply"
                      THEN ReadGlobReply(stream, reply.dest)
                      ELSE ReadGlobChildrenReply(stream, reply.dest)
             IN  /\ reply' = [reply EXCEPT !.dest = r.x]
                 /\ res' = IF r.ok THEN "ok" ELSE "err"
          /\ UNCHANGED perm
    /\ UNCHANGED <<kind, stream, truncated>>

Done ==
    /\ phase = "read"
    /\ UNCHANGED vars

Next == Write \/ Truncate \/ Read \/ Done

Spec == Init /\ [][Next]_vars

-----------------------------------------------------------------------------
(* Properties.                                                             *)

\* Permissions.VDLRead of what Permissions.VDLWrite wrote, in any map
\* order and by a writer built with any version of AccessList, succeeds
\* and yields the written Permissions, fields matched by name.
RoundTrip ==
    kind = "Permissions" /\ phase = "read" /\ ~truncated =>
        res = "ok" /\ perm.dest = ProjectedPermissions(perm.val)

\* A Permissions.VDLRead of a stream cut short fails, and leaves the
\* caller's variable either as it was or holding the whole written map,
\* never a map with only the entries read before the failure.
CutReadNoPartial ==
    kind = "Permissions" /\ phase = "read" /\ truncated =>
        res = "err" /\ perm.dest \in {perm.prior, ProjectedPermissions(perm.val)}

\* A whole reply, from a writer built with this package's types or newer
\* ones, reads back as written (alternatives and fields matched by name);
\* one whose alternative this package's union lacks is refused and the
\* caller's variable is left as it was.
ReplyRoundTrip ==
    kind = "GlobReply" /\ phase = "read" /\ ~truncated =>
        IF reply.val.alt \in ToSet(Fields[ReaderOf(reply.utype)])
        THEN res = "ok" /\ reply.dest = ProjectedReply(reply.val)
        ELSE res = "err" /\ reply.dest = reply.prior

\* A reply cut short fails to read, and leaves the caller's variable as
\* it was or holding the whole reply: never an alternative with a value
\* only partly read.
CutReplyNoPartial ==
    kind = "GlobReply" /\ phase = "read" /\ truncated =>
        res = "err" /\ reply.dest \in {reply.prior, ProjectedReply(reply.val)}

=============================================================================
