------------------------- MODULE AuthorizerProofs -------------------------
(***************************************************************************)
(* Proofs about the permissions authorizer of Authorizer.tla: its type     *)
(* invariant and that every decision follows the documented policy.  The   *)
(* walk over the method tags in authorizer.Authorize is a recursive        *)
(* function; its value is pinned down by a closed form, shown to satisfy   *)
(* the recursion, and by an induction down the tag list (a least           *)
(* counterexample, by the well-foundedness of < on Nat).                   *)
(***************************************************************************)
EXTENDS Authorizer, FiniteSetTheorems, SequenceTheorems, TLAPS

-----------------------------------------------------------------------------
(* The walk of authorizer.Authorize (lines 165-177) and its closed form.   *)

\* One step of the walk from position i (tags 1..i done) with hastag: the
\* body of the recursive function loop in Authorize.
LoopBody(f, p, tt, tags, names, i, hastag) ==
    IF i = Len(tags) THEN IF hastag THEN "ok" ELSE "NoTags"
    ELSE IF tags[i + 1].type # tt THEN f[i + 1][hastag]
    ELSE IF hastag THEN "MultipleTags"
    ELSE IF tags[i + 1].val \notin DOMAIN p
            \/ ~Includes(p[tags[i + 1].val], names) THEN "NoPermissions"
    ELSE f[i + 1][TRUE]

\* The function the definition of loop denotes.
Loop(p, tt, tags, names) ==
    CHOOSE f : f = [i \in 0 .. Len(tags) |-> [hastag \in BOOLEAN |->
                      LoopBody(f, p, tt, tags, names, i, hastag)]]

\* The positions after i holding a tag of the type.
Rel(tt, tags, i) == {k \in i + 1 .. Len(tags) : tags[k].type = tt}

\* The tag at position k is in the permissions and admits the names.
Pass(p, tags, names, k) == tags[k].val \in DOMAIN p /\ Includes(p[tags[k].val], names)

\* k is the first position after i with a tag of the type.
IsFirst(tt, tags, i, k) == k \in Rel(tt, tags, i) /\ \A j \in Rel(tt, tags, i) : k <= j

\* What the walk returns from position i: no tag of the type left; a
\* second one; the first one refused; or exactly one, admitted.
Closed(p, tt, tags, names, i, hastag) ==
    IF Rel(tt, tags, i) = {} THEN IF hastag THEN "ok" ELSE "NoTags"
    ELSE IF hastag THEN "MultipleTags"
    ELSE IF \E k \in Rel(tt, tags, i) : IsFirst(tt, tags, i, k) /\ ~Pass(p, tags, names, k) THEN "NoPermissions"
    ELSE IF \E k \in Rel(tt, tags, i) : Rel(tt, tags, i) = {k} THEN "ok"
    ELSE "MultipleTags"

ClosedFcn(p, tt, tags, names) ==
    [i \in 0 .. Len(tags) |-> [hastag \in BOOLEAN |-> Closed(p, tt, tags, names, i, hastag)]]

-----------------------------------------------------------------------------
(* Lemmas: the walk returns the closed form.                               *)

\* Where the positions after i holding a tag of the type come from.
LEMMA RelStep ==
    ASSUME NEW tt, NEW tags, Len(tags) \in Nat, NEW i \in 0 .. Len(tags) - 1
    PROVE  /\ tags[i + 1].type # tt => Rel(tt, tags, i) = Rel(tt, tags, i + 1)
           /\ tags[i + 1].type = tt =>
                 /\ Rel(tt, tags, i) = {i + 1} \cup Rel(tt, tags, i + 1)
                 /\ \A j \in Rel(tt, tags, i + 1) : j > i + 1
BY DEF Rel

\* One step of the closed form is one step of the walk over it.
LEMMA ClosedStep ==
    ASSUME NEW p, NEW tt, NEW tags, NEW names, Len(tags) \in Nat,
           NEW i \in 0 .. Len(tags), NEW h \in BOOLEAN
    PROVE  Closed(p, tt, tags, names, i, h)
             = LoopBody(ClosedFcn(p, tt, tags, names), p, tt, tags, names, i, h)
<1> DEFINE G == ClosedFcn(p, tt, tags, names)
           N == Len(tags)
           C(j, x) == Closed(p, tt, tags, names, j, x)
           R(j) == Rel(tt, tags, j)
<1>2. i < N => \A x \in BOOLEAN : G[i + 1][x] = C(i + 1, x)
  BY DEF ClosedFcn
<1>3. CASE i = N
  <2>1. R(i) = {}
    BY <1>3 DEF Rel
  <2>2. QED
    BY <1>3, <2>1 DEF Closed, LoopBody
<1>4. CASE i < N /\ tags[i + 1].type # tt
  <2>1. R(i) = R(i + 1)
    BY <1>4, RelStep
  <2>2. C(i, h) = C(i + 1, h)
    BY <2>1 DEF Closed, IsFirst
  <2>3. LoopBody(G, p, tt, tags, names, i, h) = G[i + 1][h]
    BY <1>4 DEF LoopBody
  <2>4. QED
    BY <1>2, <1>4, <2>2, <2>3
<1>5. CASE i < N /\ tags[i + 1].type = tt /\ h
  <2>1. i + 1 \in R(i)
    BY <1>5 DEF Rel
  <2>2. QED
    BY <1>5, <2>1 DEF Closed, LoopBody
<1>6. CASE i < N /\ tags[i + 1].type = tt /\ ~h
  <2>1. /\ R(i) = {i + 1} \cup R(i + 1)
        /\ \A j \in R(i + 1) : j \in Nat /\ j > i + 1
    BY <1>6, RelStep DEF Rel
  <2>2. IsFirst(tt, tags, i, i + 1)
    BY <2>1 DEF IsFirst, Rel
  <2>3. \A k \in R(i) : IsFirst(tt, tags, i, k) => k = i + 1
    BY <2>1 DEF IsFirst, Rel
  <2>4. (\E k \in R(i) : IsFirst(tt, tags, i, k) /\ ~Pass(p, tags, names, k))
          <=> ~Pass(p, tags, names, i + 1)
    BY <2>1, <2>2, <2>3
  <2>5. (\E k \in R(i) : R(i) = {k}) <=> R(i + 1) = {}
    BY <2>1
  <2>6. R(i) # {} /\ i # Len(tags) /\ h = FALSE
    BY <1>6, <2>1
  <2>7. CASE ~Pass(p, tags, names, i + 1)
    <3>1. C(i, h) = "NoPermissions"
      BY <2>4, <2>6, <2>7 DEF Closed
    <3>2. tags[i + 1].val \notin DOMAIN p \/ ~Includes(p[tags[i + 1].val], names)
      BY <2>7 DEF Pass
    <3>3. LoopBody(G, p, tt, tags, names, i, h) = "NoPermissions"
      BY <1>6, <2>6, <3>2 DEF LoopBody
    <3>4. QED
      BY <3>1, <3>3
  <2>8. CASE Pass(p, tags, names, i + 1)
    <3>1. tags[i + 1].val \in DOMAIN p /\ Includes(p[tags[i + 1].val], names)
      BY <2>8 DEF Pass
    <3>2. LoopBody(G, p, tt, tags, names, i, h) = G[i + 1][TRUE]
      BY <1>6, <2>6, <3>1 DEF LoopBody
    <3>3. G[i + 1][TRUE] = IF R(i + 1) = {} THEN "ok" ELSE "MultipleTags"
      BY <1>2, <1>6 DEF Closed
    <3>4. C(i, h) = IF R(i + 1) = {} THEN "ok" ELSE "MultipleTags"
      BY <2>4, <2>5, <2>6, <2>8 DEF Closed
    <3>5. QED
      BY <3>2, <3>3, <3>4
  <2>9. QED
    BY <2>7, <2>8
<1>7. QED
  BY <1>3, <1>4, <1>5, <1>6


\* The closed form satisfies the recursion that defines loop.
LEMMA ClosedIsFixpoint ==
    ASSUME NEW p, NEW tt, NEW tags, NEW names, Len(tags) \in Nat
    PROVE  ClosedFcn(p, tt, tags, names) =
             [i \in 0 .. Len(tags) |-> [hastag \in BOOLEAN |->
                LoopBody(ClosedFcn(p, tt, tags, names), p, tt, tags, names, i, hastag)]]
BY ClosedStep DEF ClosedFcn

\* The function loop denotes is the closed form on its whole domain: a
\* least position, counted from the end, where they differ would differ on
\* the body, which only reads the next position.
LEMMA LoopIsClosed ==
    ASSUME NEW p, NEW tt, NEW tags, NEW names, Len(tags) \in Nat,
           NEW k \in 0 .. Len(tags), NEW b \in BOOLEAN
    PROVE  Loop(p, tt, tags, names)[k][b] = Closed(p, tt, tags, names, k, b)
<1> DEFINE N == Len(tags)
           f == Loop(p, tt, tags, names)
           G == ClosedFcn(p, tt, tags, names)
           Bad == {j \in 0 .. N : \E h \in BOOLEAN : f[N - j][h] # G[N - j][h]}
<1>1. f = [i \in 0 .. N |-> [hastag \in BOOLEAN |-> LoopBody(f, p, tt, tags, names, i, hastag)]]
  <2>1. G = [i \in 0 .. N |-> [hastag \in BOOLEAN |-> LoopBody(G, p, tt, tags, names, i, hastag)]]
    BY ClosedIsFixpoint
  <2>2. \E g : g = [i \in 0 .. N |-> [hastag \in BOOLEAN |-> LoopBody(g, p, tt, tags, names, i, hastag)]]
    BY <2>1, Zenon
  <2>3. QED
    BY <2>2 DEF Loop
<1>2. \A i \in 0 .. N, h \in BOOLEAN :
         /\ f[i][h] = LoopBody(f, p, tt, tags, names, i, h)
         /\ G[i][h] = LoopBody(G, p, tt, tags, names, i, h)
  <2>1. \A i \in 0 .. N, h \in BOOLEAN : f[i][h] = LoopBody(f, p, tt, tags, names, i, h)
    BY <1>1
  <2>2. \A i \in 0 .. N, h \in BOOLEAN : G[i][h] = LoopBody(G, p, tt, tags, names, i, h)
    BY ClosedStep DEF ClosedFcn
  <2>3. QED
    BY <2>1, <2>2
<1>3. Bad = {}
  <2>1. SUFFICES ASSUME Bad # {} PROVE FALSE
    OBVIOUS
  <2>2. IsWellFoundedOn(OpToRel(<, Nat), Nat)
    BY NatLessThanWellFounded
  <2>3. Bad \subseteq Nat
    OBVIOUS
  <2>4. PICK j \in Bad : \A y \in Bad : ~(<<y, j>> \in OpToRel(<, Nat))
    BY <2>1, <2>2, <2>3, WFMin, Zenon
  <2>5. PICK h \in BOOLEAN : f[N - j][h] # G[N - j][h]
    BY <2>4
  <2>6. CASE j = 0
    <3>1. N \in 0 .. N
      OBVIOUS
    <3>2. f[N][h] = LoopBody(f, p, tt, tags, names, N, h)
          /\ G[N][h] = LoopBody(G, p, tt, tags, names, N, h)
      BY <1>2, <3>1
    <3>3. LoopBody(f, p, tt, tags, names, N, h) = LoopBody(G, p, tt, tags, names, N, h)
      BY DEF LoopBody
    <3>4. QED
      BY <2>5, <2>6, <3>2, <3>3
  <2>7. CASE j # 0
    <3> DEFINE i == N - j
    <3>1. i \in 0 .. N - 1 /\ j - 1 \in 0 .. N /\ N - (j - 1) = i + 1
      BY <2>7
    <3>2. j - 1 \notin Bad
      <4>1. j - 1 \in Nat /\ j \in Nat /\ j - 1 < j
        BY <3>1
      <4>2. <<j - 1, j>> \in OpToRel(<, Nat)
        BY <4>1, Zenon DEF OpToRel
      <4>3. QED
        BY <2>4, <4>2, Zenon
    <3>3. \A x \in BOOLEAN : f[i + 1][x] = G[i + 1][x]
      BY <3>1, <3>2
    <3>4. LoopBody(f, p, tt, tags, names, i, h) = LoopBody(G, p, tt, tags, names, i, h)
      BY <3>1, <3>3 DEF LoopBody
    <3>5. QED
      BY <1>2, <2>5, <3>1, <3>4
  <2>8. QED
    BY <2>6, <2>7
<1>4. QED
  <2>1. N - k \in 0 .. N /\ N - (N - k) = k
    OBVIOUS
  <2>2. f[k][b] = G[k][b]
    BY <1>3, <2>1
  <2>3. QED
    BY <2>2 DEF ClosedFcn

\* authorizer.Authorize returns the closed form from the first position.
LEMMA AuthorizeIsClosed ==
    ASSUME NEW perms, NEW tt, NEW tags, NEW names, Len(tags) \in Nat
    PROVE  Authorize(perms, tt, tags, names) = Closed(perms.map, tt, tags, names, 0, FALSE)
<1>1. Loop(perms.map, tt, tags, names)[0][FALSE] = Closed(perms.map, tt, tags, names, 0, FALSE)
  <2>1. 0 \in 0 .. Len(tags) /\ FALSE \in BOOLEAN
    OBVIOUS
  <2>2. QED
    BY <2>1, LoopIsClosed, Zenon
<1>2. Authorize(perms, tt, tags, names) = Loop(perms.map, tt, tags, names)[0][FALSE]
  BY DEF Authorize, Loop, LoopBody, Includes
<1>3. QED
  BY <1>1, <1>2

-----------------------------------------------------------------------------
(* Lemmas: the decision follows the policy.                                *)

\* The walk grants exactly when one tag of the type is left and it admits
\* the caller.
LEMMA ClosedOk ==
    ASSUME NEW p, NEW tt, NEW tags, NEW names, Len(tags) \in Nat
    PROVE  Closed(p, tt, tags, names, 0, FALSE) = "ok"
             <=> \E k : Rel(tt, tags, 0) = {k} /\ Pass(p, tags, names, k)
<1> DEFINE R0 == Rel(tt, tags, 0)
<1>1. CASE R0 = {}
  BY <1>1 DEF Closed
<1>2. CASE \E k : R0 = {k}
  <2>1. PICK k : R0 = {k}
    BY <1>2
  <2>2. k \in Nat
    BY <2>1 DEF Rel
  <2>3. IsFirst(tt, tags, 0, k) /\ \A j \in R0 : IsFirst(tt, tags, 0, j) => j = k
    BY <2>1, <2>2 DEF IsFirst
  <2>4. Closed(p, tt, tags, names, 0, FALSE)
          = IF ~Pass(p, tags, names, k) THEN "NoPermissions" ELSE "ok"
    BY <2>1, <2>3 DEF Closed
  <2>5. (\E j : R0 = {j} /\ Pass(p, tags, names, j)) <=> Pass(p, tags, names, k)
    BY <2>1
  <2>6. QED
    BY <2>4, <2>5
<1>3. CASE R0 # {} /\ \A k : R0 # {k}
  <2>1. Closed(p, tt, tags, names, 0, FALSE) \in {"NoPermissions", "MultipleTags"}
    BY <1>3 DEF Closed
  <2>2. QED
    BY <1>3, <2>1
<1>4. QED
  BY <1>1, <1>2, <1>3

\* What authorizer.Authorize can return.
LEMMA AuthorizeRange ==
    ASSUME NEW perms, NEW tt, NEW tags, NEW names, Len(tags) \in Nat
    PROVE  Authorize(perms, tt, tags, names) \in {"ok", "NoTags", "MultipleTags", "NoPermissions"}
<1>1. Closed(perms.map, tt, tags, names, 0, FALSE) \in {"ok", "NoTags", "MultipleTags", "NoPermissions"}
  BY DEF Closed
<1>2. QED
  BY <1>1, AuthorizeIsClosed

\* A method's tags are a sequence of tag values.
LEMMA TagSeqsAreSeqs ==
    ASSUME NEW tags \in TagSeqs
    PROVE  /\ Len(tags) \in Nat
           /\ DOMAIN tags = 1 .. Len(tags)
<1>1. tags \in Seq(TagVals)
  <2>1. PICK n \in 0 .. MaxTags : tags \in [1 .. n -> TagVals]
    BY DEF TagSeqs
  <2>2. n \in Nat
    <3>1. MaxTags \in Nat
      BY AuthorizerAssumption, Zenon
    <3>2. QED
      BY <2>1, <3>1
  <2>3. QED
    BY <2>1, <2>2, SeqDef
<1>2. QED
  BY <1>1, LenProperties

\* authorizer.Authorize over parsed permissions grants exactly the calls the
\* documented policy grants.
LEMMA AuthorizeMatchesPolicy ==
    ASSUME NEW policy \in Perms \cup {Nil}, NEW tags \in TagSeqs, NEW names
    PROVE  Authorize(policy, tagType, tags, names) = "ok" <=> Granted(policy, tags, names)
<1> DEFINE R0 == Rel(tagType, tags, 0)
           rel == {i \in DOMAIN tags : tags[i].type = tagType}
<1>1. Len(tags) \in Nat /\ DOMAIN tags = 1 .. Len(tags)
  BY TagSeqsAreSeqs
<1>2. rel = R0
  BY <1>1 DEF Rel
<1>3. IsFiniteSet(R0)
  <2>1. IsFiniteSet(1 .. Len(tags))
    BY <1>1, FS_Interval
  <2>2. R0 \subseteq 1 .. Len(tags)
    BY DEF Rel
  <2>3. QED
    BY <2>1, <2>2, FS_Subset
<1>4. Cardinality(R0) = 1 <=> \E k : R0 = {k}
  BY <1>3, FS_Singleton
<1>5. Authorize(policy, tagType, tags, names) = "ok"
        <=> \E k : R0 = {k} /\ Pass(policy.map, tags, names, k)
  <2>1. Authorize(policy, tagType, tags, names) = Closed(policy.map, tagType, tags, names, 0, FALSE)
    BY <1>1, AuthorizeIsClosed
  <2>2. Closed(policy.map, tagType, tags, names, 0, FALSE) = "ok"
          <=> \E k : R0 = {k} /\ Pass(policy.map, tags, names, k)
    BY <1>1, ClosedOk
  <2>3. QED
    BY <2>1, <2>2
<1>6. policy.st \in {"ok", "nil"}
  BY DEF Perms, Nil
<1>7. Granted(policy, tags, names)
        <=> Cardinality(R0) = 1 /\ \A i \in R0 : Pass(policy.map, tags, names, i)
  BY <1>2, <1>6 DEF Granted, Pass
<1>8. QED
  BY <1>4, <1>5, <1>7

\* fileAuthorizer.Authorize grants exactly the calls the policy grants in
\* the file's contents at the call; a file that cannot be read grants
\* nothing.
LEMMA FileAuthorizeMatchesPolicy ==
    ASSUME NEW f \in Perms \cup {Nil, Corrupt}, NEW tags \in TagSeqs, NEW names
    PROVE  FileAuthorize(f, tagType, tags, names) = "ok" <=> Granted(f, tags, names)
<1>1. CASE f = Corrupt
  BY <1>1 DEF FileAuthorize, Granted, Corrupt
<1>2. CASE f # Corrupt
  BY <1>2, AuthorizeMatchesPolicy DEF FileAuthorize
<1>3. QED
  BY <1>1, <1>2

-----------------------------------------------------------------------------
(* The inductive invariant.                                                *)

\* A working authorizer holds parsed permissions or names a file.
AuthzOK ==
    /\ authz.kind = "perms" => authz.perms \in Perms \cup {Nil}
    /\ authz.kind = "file" => authz.file \in FileNames

IInv == TypeOK /\ AuthzOK /\ DecisionMatchesPolicy

-----------------------------------------------------------------------------
LEMMA IInvInit == Init => IInv
<1> SUFFICES ASSUME Init PROVE IInv
  OBVIOUS
<1>1. MaxEdits \in Nat /\ InitFile \in [FileNames -> Perms \cup {Nil, Corrupt}]
  BY AuthorizerAssumption, Zenon
<1>2. TypeOK
  BY <1>1 DEF Init, TypeOK, None, NoCall
<1>3. AuthzOK /\ DecisionMatchesPolicy
  BY DEF Init, AuthzOK, DecisionMatchesPolicy, None
<1>4. QED
  BY <1>2, <1>3 DEF IInv

\* AuthorizerFromSpec returns an authorizer of a known kind; a working one
\* has a string-backed tag type and parsed permissions or a file.
LEMMA ConstructOK ==
    ASSUME NEW ps \in Specs, NEW name \in Services, NEW tt \in Types
    PROVE  LET a == AuthorizerFromSpec(ps, name, tt)
           IN  /\ a.kind \in {"nil", "error", "perms", "file"}
               /\ a.kind \in {"perms", "file"} => tt \in StringTypes
               /\ a.kind = "perms" => a.perms \in Perms \cup {Nil}
               /\ a.kind = "file" => a.file \in FileNames
<1>1. ps.literal # "" => ParseLiteral[ps.literal] \in Perms \cup {Nil, BadLit}
  <2>1. ParseLiteral \in [Literals \ {""} -> Perms \cup {Nil, BadLit}]
    BY AuthorizerAssumption, Zenon
  <2>2. QED
    BY <2>1 DEF Specs
<1>2. ps.files[name] \in FileNames \cup {""}
  BY DEF Specs
<1>3. QED
  BY <1>1, <1>2 DEF AuthorizerFromSpec, PermissionsAuthorizer,
                    PermissionsAuthorizerFromFile, ValidTagType, None

LEMMA IInvStep == IInv /\ [Next]_vars => IInv'
<1> SUFFICES ASSUME IInv, [Next]_vars PROVE IInv'
  OBVIOUS
<1> USE DEF IInv
<1>1. CASE Construct
  <2>1. LET a == AuthorizerFromSpec(spec, svc, tagType)
        IN  /\ a.kind \in {"nil", "error", "perms", "file"}
            /\ a.kind \in {"perms", "file"} => tagType \in StringTypes
            /\ a.kind = "perms" => a.perms \in Perms \cup {Nil}
            /\ a.kind = "file" => a.file \in FileNames
    BY ConstructOK DEF TypeOK
  <2>2. /\ authz' = AuthorizerFromSpec(spec, svc, tagType)
        /\ UNCHANGED <<spec, svc, tagType, file, edits, last>>
    BY <1>1 DEF Construct
  <2>3. TypeOK'
    BY <2>1, <2>2 DEF TypeOK
  <2>4. AuthzOK'
    BY <2>1, <2>2 DEF AuthzOK
  <2>5. DecisionMatchesPolicy'
    <3>1. last' = last /\ tagType' = tagType
      BY <2>2
    <3>2. QED
      BY <3>1 DEF IInv, DecisionMatchesPolicy, Granted
  <2>6. QED
    BY <2>3, <2>4, <2>5
<1>2. CASE EditFile
  <2>1. PICK f \in FileNames, c \in EditContents : file' = [file EXCEPT ![f] = c]
    BY <1>2 DEF EditFile
  <2>2. c \in Perms \cup {Nil, Corrupt}
    BY AuthorizerAssumption
  <2>3. /\ edits < MaxEdits /\ edits' = edits + 1
        /\ UNCHANGED <<spec, svc, tagType, authz, last>>
    BY <1>2 DEF EditFile
  <2>4. MaxEdits \in Nat
    BY AuthorizerAssumption, Zenon
  <2>5. file' \in [FileNames -> Perms \cup {Nil, Corrupt}] /\ edits' \in 0 .. MaxEdits
    BY <2>1, <2>2, <2>3, <2>4 DEF TypeOK
  <2>6. TypeOK'
    BY <2>3, <2>5 DEF TypeOK
  <2>7. AuthzOK' /\ DecisionMatchesPolicy'
    <3>1. last' = last /\ authz' = authz /\ tagType' = tagType
      BY <2>3
    <3>2. QED
      BY <3>1 DEF IInv, AuthzOK, DecisionMatchesPolicy, Granted
  <2>8. QED
    BY <2>6, <2>7
<1>3. CASE Call
  <2>1. PICK tags \in TagSeqs, names \in SUBSET Names :
           last' = IF authz.kind = "perms"
                   THEN [tags |-> tags, names |-> names, policy |-> authz.perms,
                         out |-> Authorize(authz.perms, tagType, tags, names)]
                   ELSE [tags |-> tags, names |-> names, policy |-> file[authz.file],
                         out |-> FileAuthorize(file[authz.file], tagType, tags, names)]
    BY <1>3 DEF Call
  <2>2. UNCHANGED <<spec, svc, tagType, authz, file, edits>>
    BY <1>3 DEF Call
  <2>3. Len(tags) \in Nat
    BY TagSeqsAreSeqs
  <2>4. CASE authz.kind = "perms"
    <3>1. authz.perms \in Perms \cup {Nil}
      BY <2>4 DEF AuthzOK
    <3>2. Authorize(authz.perms, tagType, tags, names) = "ok"
            <=> Granted(authz.perms, tags, names)
      BY <3>1, AuthorizeMatchesPolicy
    <3>3. Authorize(authz.perms, tagType, tags, names)
            \in {"ok", "NoTags", "MultipleTags", "NoPermissions"}
      BY <2>3, AuthorizeRange
    <3>4. QED
      BY <2>1, <2>2, <2>4, <3>2, <3>3 DEF TypeOK, AuthzOK, DecisionMatchesPolicy, Granted
  <2>5. CASE authz.kind # "perms"
    <3>1. file[authz.file] \in Perms \cup {Nil, Corrupt}
      BY <1>3, <2>5 DEF Call, AuthzOK, TypeOK
    <3>2. FileAuthorize(file[authz.file], tagType, tags, names) = "ok"
            <=> Granted(file[authz.file], tags, names)
      BY <3>1, FileAuthorizeMatchesPolicy
    <3>3. FileAuthorize(file[authz.file], tagType, tags, names)
            \in {"ok", "NoTags", "MultipleTags", "NoPermissions", "Internal"}
      BY <2>3, AuthorizeRange DEF FileAuthorize
    <3>4. QED
      BY <2>1, <2>2, <2>5, <3>2, <3>3 DEF TypeOK, AuthzOK, DecisionMatchesPolicy, Granted
  <2>6. QED
    BY <2>4, <2>5
<1>4. CASE Done
  BY <1>4 DEF Done, vars, TypeOK, AuthzOK, DecisionMatchesPolicy, Granted
<1>5. CASE UNCHANGED vars
  BY <1>5 DEF vars, TypeOK, AuthzOK, DecisionMatchesPolicy, Granted
<1>6. QED
  BY <1>1, <1>2, <1>3, <1>4, <1>5 DEF Next

-----------------------------------------------------------------------------
(* Theorems.                                                               *)

\* Every state the server and the administrator reach is well typed: in
\* particular AuthorizerFromSpec hands out a working authorizer only for a
\* string-backed tag type (validateTagType), and every Authorize returns
\* one of its five outcomes.
THEOREM TypeCorrect == Spec => []TypeOK
<1>1. IInv => TypeOK
  BY DEF IInv
<1>2. QED
  BY <1>1, IInvInit, IInvStep, PTL DEF Spec

\* For every tag type, tag list, set of names and permissions, literal or
\* re-read from an edited file, authorizer.Authorize and
\* fileAuthorizer.Authorize grant a call exactly when the documented policy
\* grants it.
THEOREM DecisionMatchesPolicyHolds == Spec => []DecisionMatchesPolicy
<1>1. IInv => DecisionMatchesPolicy
  BY DEF IInv
<1>2. QED
  BY <1>1, IInvInit, IInvStep, PTL DEF Spec

=============================================================================
