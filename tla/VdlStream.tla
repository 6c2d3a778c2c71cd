------------------------------ MODULE VdlStream ------------------------------
(***************************************************************************)
(* The vdl.Encoder / vdl.Decoder calls that generated VDLWrite and         *)
(* VDLRead methods make (implemented by vom, not in this repository), as  *)
(* a stream of tokens: each encoder call appends tokens and each decoder  *)
(* call consumes them in order.  A stream that ends early (a connection   *)
(* closed, a file cut short) makes the next decoder call fail, as does a  *)
(* token of another kind than the call expects.                           *)
(***************************************************************************)
EXTENDS Integers, Sequences

\* The field names of each struct type and the alternative names of each
\* union type a stream may carry, in index order.
CONSTANT Fields

\* A token; s is a string payload (a type name, a string value), n a number
\* (a field index, a length hint, a bool as 0 / 1), k a value's kind.
Tok(op, s, n) == [op |-> op, s |-> s, n |-> n, k |-> ""]
StartTok(type, kind) == [op |-> "start", s |-> type, n |-> 0, k |-> kind]
EOF == Tok("eof", "", 0)

\* Encoder calls.
EncStart(type, kind) == <<StartTok(type, kind)>>
EncLenHint(n) == <<Tok("len", "", n)>>
EncField(i) == <<Tok("field", "", i)>>
EncString(v) == <<Tok("str", v, 0)>>
EncBool(b) == <<Tok("bool", "", IF b THEN 1 ELSE 0)>>
EncNextEntry(done) == <<Tok(IF done THEN "done" ELSE "next", "", 0)>>
EncEntryString(v) == <<Tok("entry", v, 0)>>
EncFinish == <<Tok("finish", "", 0)>>

\* Decoder calls.  A result is [ok, pos, v]: success, the position of the
\* next token, the value read.
At(st, p) == IF p \in 1 .. Len(st) THEN st[p] ELSE EOF
Fail(p) == [ok |-> FALSE, pos |-> p, v |-> ""]
Got(p, v) == [ok |-> TRUE, pos |-> p, v |-> v]

\* Decoder.StartValue(want): a value of a compatible type (the same kind)
\* starts here; a list or a map is followed by its length hint.  v is the
\* type the stream carries (Decoder.Type).
StartValue(st, p, kind) ==
    LET t == At(st, p)
    IN  IF t.op # "start" \/ t.k # kind THEN Fail(p)
        ELSE IF kind \notin {"list", "map"} THEN Got(p + 1, t.s)
        ELSE IF At(st, p + 1).op = "len" THEN Got(p + 2, t.s)
        ELSE Fail(p + 1)

\* Decoder.FinishValue, returning v.
FinishValue(st, p, v) ==
    IF At(st, p).op = "finish" THEN Got(p + 1, v) ELSE Fail(p)

\* Decoder.NextField: the index of the next field, -1 after the last.
NextField(st, p) ==
    IF At(st, p).op = "field" THEN Got(p + 1, At(st, p).n) ELSE Fail(p)

\* Decoder.ReadValueString and Decoder.ReadValueBool.
ReadValueString(st, p) ==
    IF At(st, p).op = "str" THEN Got(p + 1, At(st, p).s) ELSE Fail(p)
ReadValueBool(st, p) ==
    IF At(st, p).op = "bool" THEN Got(p + 1, At(st, p).n = 1) ELSE Fail(p)

\* Decoder.SkipValue: the next value, nested ones included.
RECURSIVE SkipFrom(_, _, _)
SkipFrom(st, p, depth) ==
    LET op == At(st, p).op
    IN  IF op = "eof" THEN Fail(p)
        ELSE IF depth = 0 /\ op \in {"str", "bool"} THEN Got(p + 1, "")
        ELSE IF op = "finish" /\ depth = 1 THEN Got(p + 1, "")
        ELSE SkipFrom(st, p + 1, IF op = "start" THEN depth + 1
                                 ELSE IF op = "finish" THEN depth - 1 ELSE depth)
SkipValue(st, p) == SkipFrom(st, p, 0)

\* vdl.Type.FieldIndexByName over a type's field names (index from 0).
FieldIndexByName(fields, name) ==
    IF \E i \in DOMAIN fields : fields[i] = name
    THEN CHOOSE i \in 0 .. Len(fields) - 1 : fields[i + 1] = name
    ELSE -1

=============================================================================
