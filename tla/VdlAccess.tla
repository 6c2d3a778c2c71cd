------------------------------ MODULE VdlAccess ------------------------------
(***************************************************************************)
(* The generated VDL codec of v23/security/access (access.vdl.go): the    *)
(* VDLWrite and VDLRead methods of AccessList and Permissions, the form a *)
(* Permissions takes on the wire and in a permissions file.               *)
(*                                                                         *)
(* The encoder and decoder calls are the token stream of VdlStream.  A   *)
(* writer may use another version of the AccessList struct type (fields  *)
(* reordered, a field the reader does not know): VDLRead then             *)
(* maps fields by name.  Go's map iteration order is not fixed, so        *)
(* Permissions.VDLWrite may emit the entries in any order.                *)
(***************************************************************************)
EXTENDS Integers, Sequences, SequencesExt, VdlStream

CONSTANTS
    Strs,        \* blessing patterns and NotIn strings
    Keys,        \* tags of a Permissions
    MaxList,     \* longest In / NotIn list
    WriterTypes, \* AccessList struct types a writer may have been built with
    InitPermissions \* values the reader's Permissions may hold already

\* vdlTypeStruct1: the AccessList type this package was generated from.
AccessListType == "AccessList"

ASSUME VdlAccessAssumption ==
    /\ MaxList \in Nat
    /\ AccessListType \in WriterTypes
    /\ Fields[AccessListType] = <<"In", "NotIn">>
    /\ \A t \in WriterTypes : Fields[t] \in Seq(STRING)

\* The value of the code's AccessList: two lists of strings.
Lists == SeqOf(Strs, MaxList)
AccessLists == [In : Lists, NotIn : Lists]
EmptyAccessList == [In |-> <<>>, NotIn |-> <<>>]
\* A value of an AccessList type t, as a function from its field names.
Values(t) == [{Fields[t][i] : i \in DOMAIN Fields[t]} -> Lists]
\* Permissions of a writer of type t: maps from some tags to its values.
PermissionsOf(t) == UNION {[D -> Values(t)] : D \in SUBSET Keys}

-----------------------------------------------------------------------------
(* VDLWrite.                                                               *)

\* vdlWriteAnonList1 / vdlWriteAnonList2, lines 185-219: StartValue,
\* SetLenHint, one NextEntryValueString per element, NextEntry(true),
\* FinishValue.
WriteList(l) ==
    EncStart("list", "list") \o EncLenHint(Len(l))
    \o FlattenSeq([i \in 1 .. Len(l) |-> EncEntryString(l[i])])
    \o EncNextEntry(TRUE) \o EncFinish

\* AccessList.VDLWrite, lines 159-183, as generated for a struct type t:
\* each field whose list is not empty, by its index in t, then
\* NextField(-1) and FinishValue.
WriteStruct(t, x) ==
    EncStart(t, "struct")
    \o FlattenSeq([i \in 1 .. Len(Fields[t]) |->
           IF Len(x[Fields[t][i]]) # 0
           THEN EncField(i - 1) \o WriteList(x[Fields[t][i]])
           ELSE <<>>])
    \o EncField(-1) \o EncFinish

\* Permissions.VDLWrite, lines 317-336: the entries in the map's iteration
\* order, each a NextEntryValueString of the key and the AccessList.
WritePermissions(t, v, order) ==
    EncStart("Permissions", "map") \o EncLenHint(Len(order))
    \o FlattenSeq([i \in 1 .. Len(order) |->
           EncEntryString(order[i]) \o WriteStruct(t, v[order[i]])])
    \o EncNextEntry(TRUE) \o EncFinish

-----------------------------------------------------------------------------
(* VDLRead.                                                                *)

\* vdlReadAnonList1 / vdlReadAnonList2, lines 257-297: append elements
\* until NextEntryValueString reports done, then FinishValue.
RECURSIVE ReadEntries(_, _, _)
ReadEntries(st, p, acc) ==
    LET t == At(st, p)
    IN  IF t.op = "entry" THEN ReadEntries(st, p + 1, Append(acc, t.s))
        ELSE IF t.op = "done" THEN FinishValue(st, p + 1, acc)
        ELSE Fail(p)
ReadList(st, p) ==
    LET s == StartValue(st, p, "list")
    IN  IF s.ok THEN ReadEntries(st, s.pos, <<>>) ELSE s

\* Mutant: the field index of another struct type is used as it is.
AccessListIndexNoConvert(decType, index) == index

\* AccessList.VDLRead, lines 232-240: a field of a stream of another type
\* is looked up by its name in vdlTypeStruct1.
AccessListIndex(decType, index) ==
    IF decType # AccessListType THEN FieldIndexByName(Fields[AccessListType], Fields[decType][index + 1])
    ELSE index

\* AccessList.VDLRead, lines 221-255: reset the value, StartValue, then
\* read fields until NextField returns -1; an unknown field is skipped.
RECURSIVE ReadFields(_, _, _, _)
ReadFields(st, p, decType, x) ==
    LET t == At(st, p)
        index == AccessListIndex(decType, t.n)
        skip == SkipValue(st, p + 1)
        l == ReadList(st, p + 1)
    IN  IF t.op # "field" THEN Fail(p)
        ELSE IF t.n = -1 THEN FinishValue(st, p + 1, x)
        ELSE IF index = -1 THEN IF skip.ok THEN ReadFields(st, skip.pos, decType, x) ELSE skip
        ELSE IF ~l.ok THEN l
        ELSE ReadFields(st, l.pos, decType,
                        IF index = 0 THEN [x EXCEPT !.In = l.v] ELSE [x EXCEPT !.NotIn = l.v])
ReadAccessList(st, p) ==
    LET s == StartValue(st, p, "struct")
    IN  IF s.ok THEN ReadFields(st, s.pos, s.v, EmptyAccessList) ELSE s

\* tmpMap[key] = elem.
Put(m, k, e) == [j \in DOMAIN m \cup {k} |-> IF j = k THEN e ELSE m[j]]

\* Mutant: the map being filled is the caller's variable from the start.
RECURSIVE ReadMapEntriesAliased(_, _, _, _)
ReadMapEntriesAliased(st, p, x, tmp) ==
    LET t == At(st, p)
        e == ReadAccessList(st, p + 1)
    IN  IF t.op = "entry" THEN
            IF e.ok THEN ReadMapEntriesAliased(st, e.pos, x, Put(tmp, t.s, e.v))
            ELSE [ok |-> FALSE, x |-> tmp]
        ELSE IF t.op = "done" THEN [ok |-> FinishValue(st, p + 1, tmp).ok, x |-> tmp]
        ELSE [ok |-> FALSE, x |-> tmp]

\* Permissions.VDLRead, lines 338-364: entries go into tmpMap; *x is set
\* to it when NextEntryValueString reports done, before FinishValue.  The
\* result is [ok, x]: success and the caller's variable afterwards.
RECURSIVE ReadMapEntries(_, _, _, _)
ReadMapEntries(st, p, x, tmp) ==
    LET t == At(st, p)
        e == ReadAccessList(st, p + 1)
    IN  IF t.op = "entry" THEN
            IF e.ok THEN ReadMapEntries(st, e.pos, x, Put(tmp, t.s, e.v))
            ELSE [ok |-> FALSE, x |-> x]
        ELSE IF t.op = "done" THEN [ok |-> FinishValue(st, p + 1, tmp).ok, x |-> tmp]
        ELSE [ok |-> FALSE, x |-> x]
ReadPermissions(st, x) ==
    LET s == StartValue(st, 1, "map")
    IN  IF s.ok THEN ReadMapEntries(st, s.pos, x, <<>>) ELSE [ok |-> FALSE, x |-> x]

\* What the reader should get: the written values, each AccessList's In
\* and NotIn taken from the writer's fields of those names.
ProjectedPermissions(v) ==
    [k \in DOMAIN v |->
        [In    |-> IF "In" \in DOMAIN v[k] THEN v[k]["In"] ELSE <<>>,
         NotIn |-> IF "NotIn" \in DOMAIN v[k] THEN v[k]["NotIn"] ELSE <<>>]]

=============================================================================
