------------------------------ MODULE VdlNaming ------------------------------
(***************************************************************************)
(* The generated VDL codec of v23/naming (naming.vdl.go): MountedServer,  *)
(* MountEntry and GlobError structs, and the GlobReply and                *)
(* GlobChildrenReply unions that Glob__ and GlobChildren__ stream to      *)
(* their callers.  Encoder and decoder calls are the token stream of      *)
(* VdlStream.  A writer may have been built with newer versions of the    *)
(* union types (alternatives reordered, one the reader lacks) and of      *)
(* MountEntry (fields reordered, a field the reader lacks).               *)
(*                                                                         *)
(* Data abstraction: a Deadline is "none" (the zero time) or "set"; the    *)
(* WireDeadline it travels as and its conversion (vdltime, not in this    *)
(* repository) are one token.  An error value is "nil" or "err" and        *)
(* verror.VDLWrite / VDLRead are one token.                                *)
(***************************************************************************)
EXTENDS Integers, Sequences, SequencesExt, VdlStream

CONSTANTS
    Names,         \* non-empty names and servers
    MaxServers,    \* longest MountEntry.Servers
    WriterUnions,  \* union types a writer may have been built with
    WriterEntries, \* MountEntry struct types a writer may have been built with
    InitReplies    \* values the reader's union variable may hold already

\* The types this package was generated with (vdlTypeStruct2, 4, 6,
\* vdlTypeUnion7, 8).
OwnFields == [MountedServer     |-> <<"Server", "Deadline">>,
              MountEntry        |-> <<"Name", "Servers", "ServesMountTable", "IsLeaf">>,
              GlobError         |-> <<"Name", "Error">>,
              GlobReply         |-> <<"Entry", "Error">>,
              GlobChildrenReply |-> <<"Name", "Error">>]

\* The union type of this package a stream of union type u is read as.
ReaderOf(u) == IF "Entry" \in ToSet(Fields[u]) THEN "GlobReply" ELSE "GlobChildrenReply"

ASSUME VdlNamingAssumption ==
    /\ MaxServers \in Nat
    /\ {"GlobReply", "GlobChildrenReply"} \subseteq WriterUnions
    /\ "MountEntry" \in WriterEntries
    /\ \A t \in DOMAIN OwnFields : Fields[t] = OwnFields[t]
    /\ \A t \in WriterEntries : ToSet(Fields[t]) \subseteq ToSet(OwnFields.MountEntry) \cup {"Extra"}

Str0 == Names \cup {""}
MountedServers == [Server : Str0, Deadline : {"none", "set"}]
GlobErrors == [Name : Str0, Error : {"nil", "err"}]
\* MountEntry values of writer type t: a newer type has a string Extra.
EntryValues(t) ==
    IF "Extra" \in ToSet(Fields[t])
    THEN [Name : Str0, Servers : SeqOf(MountedServers, MaxServers),
          ServesMountTable : BOOLEAN, IsLeaf : BOOLEAN, Extra : Str0]
    ELSE [Name : Str0, Servers : SeqOf(MountedServers, MaxServers),
          ServesMountTable : BOOLEAN, IsLeaf : BOOLEAN]
ZeroEntry == [Name |-> "", Servers |-> <<>>, ServesMountTable |-> FALSE, IsLeaf |-> FALSE]
ZeroGlobError == [Name |-> "", Error |-> "nil"]
\* A union value: the alternative's name and its value in its slot; the
\* nil interface has alternative "nil".
Reply(alt, e, g, s) == [alt |-> alt, entry |-> e, gerr |-> g, str |-> s]
NilReply == Reply("nil", ZeroEntry, ZeroGlobError, "")
ReplyValues(u, t) ==
    LET alts == ToSet(Fields[u])
    IN  {Reply("Entry", e, ZeroGlobError, "") : e \in IF "Entry" \in alts THEN EntryValues(t) ELSE {}}
        \cup {Reply("Error", ZeroEntry, g, "") : g \in GlobErrors}
        \cup {Reply(a, ZeroEntry, ZeroGlobError, s) : a \in alts \ {"Entry", "Error"}, s \in Str0}

-----------------------------------------------------------------------------
(* VDLWrite.                                                               *)

WireDeadline == <<Tok("wire", "", 0)>>
VErrorWrite(e) == <<Tok("verror", e, 0)>>

\* MountedServer.VDLWrite, lines 76-101.
WriteMountedServer(x) ==
    EncStart("MountedServer", "struct")
    \o (IF x.Server # "" THEN EncField(0) \o EncString(x.Server) ELSE <<>>)
    \o (IF x.Deadline # "none" THEN EncField(1) \o WireDeadline ELSE <<>>)
    \o EncField(-1) \o EncFinish

\* vdlWriteAnonList1, lines 212-231.
WriteServers(l) ==
    EncStart("[]MountedServer", "list") \o EncLenHint(Len(l))
    \o FlattenSeq([i \in 1 .. Len(l) |-> EncNextEntry(FALSE) \o WriteMountedServer(l[i])])
    \o EncNextEntry(TRUE) \o EncFinish

\* One field of MountEntry.VDLWrite, lines 182-205: written only when it
\* is not the zero value.
WriteEntryField(i, f, v) ==
    IF f = "Servers" THEN IF Len(v) # 0 THEN EncField(i) \o WriteServers(v) ELSE <<>>
    ELSE IF f \in {"ServesMountTable", "IsLeaf"} THEN IF v THEN EncField(i) \o EncBool(v) ELSE <<>>
    ELSE IF v # "" THEN EncField(i) \o EncString(v) ELSE <<>>

\* MountEntry.VDLWrite, lines 179-210, as generated for struct type t.
WriteMountEntry(t, x) ==
    EncStart(t, "struct")
    \o FlattenSeq([i \in 1 .. Len(Fields[t]) |->
                      WriteEntryField(i - 1, Fields[t][i], x[Fields[t][i]])])
    \o EncField(-1) \o EncFinish

\* GlobError.VDLWrite, lines 329-350.
WriteGlobError(x) ==
    EncStart("GlobError", "struct")
    \o (IF x.Name # "" THEN EncField(0) \o EncString(x.Name) ELSE <<>>)
    \o (IF x.Error # "nil" THEN EncField(1) \o VErrorWrite(x.Error) ELSE <<>>)
    \o EncField(-1) \o EncFinish

\* A union value of type u: StartValue, NextField(index), the value,
\* NextField(-1), FinishValue.
UnionWrite(u, index, value) ==
    EncStart(u, "union") \o EncField(index) \o value \o EncField(-1) \o EncFinish

\* GlobReplyEntry / GlobReplyError.VDLWrite, lines 440-470, as generated
\* for union type u (a newer one's extra alternative holds a string).
WriteGlobReply(u, t, x) ==
    UnionWrite(u, FieldIndexByName(Fields[u], x.alt),
               IF x.alt = "Entry" THEN WriteMountEntry(t, x.entry)
               ELSE IF x.alt = "Error" THEN WriteGlobError(x.gerr)
               ELSE EncString(x.str))

\* GlobChildrenReplyName / GlobChildrenReplyError.VDLWrite, lines 563-590:
\* the Name alternative is one NextFieldValueString.
WriteGlobChildrenReply(u, x) ==
    UnionWrite(u, FieldIndexByName(Fields[u], x.alt),
               IF x.alt = "Error" THEN WriteGlobError(x.gerr) ELSE EncString(x.str))

-----------------------------------------------------------------------------
(* VDLRead.                                                                *)

\* The index in this package's type own of field index of stream type
\* decType: the index itself for the same type, else looked up by name.
FieldIndex(own, decType, index) ==
    IF decType # own THEN FieldIndexByName(Fields[own], Fields[decType][index + 1])
    ELSE index

ReadWire(st, p) == IF At(st, p).op = "wire" THEN Got(p + 1, "set") ELSE Fail(p)
VErrorRead(st, p) == IF At(st, p).op = "verror" THEN Got(p + 1, At(st, p).s) ELSE Fail(p)

\* MountedServer.VDLRead, lines 103-144.
RECURSIVE ServerFields(_, _, _, _)
ServerFields(st, p, decType, x) ==
    LET f == NextField(st, p)
        index == FieldIndex("MountedServer", decType, f.v)
        skip == SkipValue(st, f.pos)
        s == ReadValueString(st, f.pos)
        w == ReadWire(st, f.pos)
    IN  IF ~f.ok THEN f
        ELSE IF f.v = -1 THEN FinishValue(st, f.pos, x)
        ELSE IF index = -1 THEN IF skip.ok THEN ServerFields(st, skip.pos, decType, x) ELSE skip
        ELSE IF index = 0 THEN IF s.ok THEN ServerFields(st, s.pos, decType, [x EXCEPT !.Server = s.v]) ELSE s
        ELSE IF w.ok THEN ServerFields(st, w.pos, decType, [x EXCEPT !.Deadline = w.v]) ELSE w
ReadMountedServer(st, p) ==
    LET s == StartValue(st, p, "struct")
    IN  IF s.ok THEN ServerFields(st, s.pos, s.v, [Server |-> "", Deadline |-> "none"]) ELSE s

\* vdlReadAnonList1, lines 286-309.
RECURSIVE ServerEntries(_, _, _)
ServerEntries(st, p, acc) ==
    LET t == At(st, p)
        e == ReadMountedServer(st, p + 1)
    IN  IF t.op = "done" THEN FinishValue(st, p + 1, acc)
        ELSE IF t.op # "next" THEN Fail(p)
        ELSE IF e.ok THEN ServerEntries(st, e.pos, Append(acc, e.v))
        ELSE e
ReadServers(st, p) ==
    LET s == StartValue(st, p, "list")
    IN  IF s.ok THEN ServerEntries(st, s.pos, <<>>) ELSE s

\* MountEntry.VDLRead, lines 233-284.
RECURSIVE EntryFields(_, _, _, _)
EntryFields(st, p, decType, x) ==
    LET f == NextField(st, p)
        index == FieldIndex("MountEntry", decType, f.v)
        skip == SkipValue(st, f.pos)
        s == ReadValueString(st, f.pos)
        l == ReadServers(st, f.pos)
        b == ReadValueBool(st, f.pos)
    IN  IF ~f.ok THEN f
        ELSE IF f.v = -1 THEN FinishValue(st, f.pos, x)
        ELSE IF index = -1 THEN IF skip.ok THEN EntryFields(st, skip.pos, decType, x) ELSE skip
        ELSE IF index = 0 THEN IF s.ok THEN EntryFields(st, s.pos, decType, [x EXCEPT !.Name = s.v]) ELSE s
        ELSE IF index = 1 THEN IF l.ok THEN EntryFields(st, l.pos, decType, [x EXCEPT !.Servers = l.v]) ELSE l
        ELSE IF ~b.ok THEN b
        ELSE IF index = 2 THEN EntryFields(st, b.pos, decType, [x EXCEPT !.ServesMountTable = b.v])
        ELSE EntryFields(st, b.pos, decType, [x EXCEPT !.IsLeaf = b.v])
ReadMountEntry(st, p) ==
    LET s == StartValue(st, p, "struct")
    IN  IF s.ok THEN EntryFields(st, s.pos, s.v, ZeroEntry) ELSE s

\* GlobError.VDLRead, lines 352-389.
RECURSIVE ErrorFields(_, _, _, _)
ErrorFields(st, p, decType, x) ==
    LET f == NextField(st, p)
        index == FieldIndex("GlobError", decType, f.v)
        skip == SkipValue(st, f.pos)
        s == ReadValueString(st, f.pos)
        e == VErrorRead(st, f.pos)
    IN  IF ~f.ok THEN f
        ELSE IF f.v = -1 THEN FinishValue(st, f.pos, x)
        ELSE IF index = -1 THEN IF skip.ok THEN ErrorFields(st, skip.pos, decType, x) ELSE skip
        ELSE IF index = 0 THEN IF s.ok THEN ErrorFields(st, s.pos, decType, [x EXCEPT !.Name = s.v]) ELSE s
        ELSE IF e.ok THEN ErrorFields(st, e.pos, decType, [x EXCEPT !.Error = e.v]) ELSE e
ReadGlobError(st, p) ==
    LET s == StartValue(st, p, "struct")
    IN  IF s.ok THEN ErrorFields(st, s.pos, s.v, ZeroGlobError) ELSE s

\* The end of a union read, after *x = field (lines 505-511): NextField
\* must return -1 (no extra field), then FinishValue.  The result is [ok, x].
UnionEnd(st, p, x) ==
    LET f == NextField(st, p)
    IN  [ok |-> f.ok /\ f.v = -1 /\ FinishValue(st, f.pos, x).ok, x |-> x]

\* Mutant: the alternative's index in the writer's union is used as it is.
UnionIndexNoConvert(own, decType, index) == index

\* The alternative's index in this package's union own, or -1 (lines
\* 484-491).
UnionIndex(own, decType, index) == FieldIndex(own, decType, index)

\* Mutant: *x is set to the alternative before its value is read.
ReadGlobReplyEarly(st, x) ==
    LET s == StartValue(st, 1, "union")
        f == NextField(st, s.pos)
        index == UnionIndex("GlobReply", s.v, f.v)
        e == ReadMountEntry(st, f.pos)
        g == ReadGlobError(st, f.pos)
        early == Reply(IF index = 0 THEN "Entry" ELSE "Error", ZeroEntry, ZeroGlobError, "")
    IN  IF ~s.ok \/ ~f.ok \/ f.v = -1 \/ index = -1 THEN [ok |-> FALSE, x |-> x]
        ELSE IF index = 0 THEN IF e.ok THEN UnionEnd(st, e.pos, Reply("Entry", e.v, ZeroGlobError, ""))
                               ELSE [ok |-> FALSE, x |-> early]
        ELSE IF g.ok THEN UnionEnd(st, g.pos, Reply("Error", ZeroEntry, g.v, ""))
        ELSE [ok |-> FALSE, x |-> early]

\* VDLReadGlobReply, lines 472-512: StartValue; the one field (-1 is a
\* "missing field" error); an alternative of another union type is looked
\* up by name, and one this union lacks is an error; the alternative's
\* value is read into a fresh field and *x is set to it; then UnionEnd.
ReadGlobReply(st, x) ==
    LET s == StartValue(st, 1, "union")
        f == NextField(st, s.pos)
        index == UnionIndex("GlobReply", s.v, f.v)
        e == ReadMountEntry(st, f.pos)
        g == ReadGlobError(st, f.pos)
    IN  IF ~s.ok \/ ~f.ok \/ f.v = -1 \/ index = -1 THEN [ok |-> FALSE, x |-> x]
        ELSE IF index = 0 THEN IF e.ok THEN UnionEnd(st, e.pos, Reply("Entry", e.v, ZeroGlobError, ""))
                               ELSE [ok |-> FALSE, x |-> x]
        ELSE IF g.ok THEN UnionEnd(st, g.pos, Reply("Error", ZeroEntry, g.v, ""))
        ELSE [ok |-> FALSE, x |-> x]

\* VDLReadGlobChildrenReply, lines 592-635: as VDLReadGlobReply, with a
\* string for the Name alternative.
ReadGlobChildrenReply(st, x) ==
    LET s == StartValue(st, 1, "union")
        f == NextField(st, s.pos)
        index == UnionIndex("GlobChildrenReply", s.v, f.v)
        n == ReadValueString(st, f.pos)
        g == ReadGlobError(st, f.pos)
    IN  IF ~s.ok \/ ~f.ok \/ f.v = -1 \/ index = -1 THEN [ok |-> FALSE, x |-> x]
        ELSE IF index = 0 THEN IF n.ok THEN UnionEnd(st, n.pos, Reply("Name", ZeroEntry, ZeroGlobError, n.v))
                               ELSE [ok |-> FALSE, x |-> x]
        ELSE IF g.ok THEN UnionEnd(st, g.pos, Reply("Error", ZeroEntry, g.v, ""))
        ELSE [ok |-> FALSE, x |-> x]

\* The reply as this package's types hold it: a MountEntry without the
\* fields it lacks.
ProjectedReply(v) ==
    [v EXCEPT !.entry = [Name |-> v.entry.Name, Servers |-> v.entry.Servers,
                         ServesMountTable |-> v.entry.ServesMountTable,
                         IsLeaf |-> v.entry.IsLeaf]]

=============================================================================
