----------------------------- MODULE Authorizer -----------------------------
(***************************************************************************)
(* The permissions authorizer of v23/security/access (authorizer.go):      *)
(* AuthorizerFromSpec building an authorizer from a literal or a file,     *)
(* validateTagType, authorizer.Authorize deciding a call from its method   *)
(* tags and the caller's blessing names, and fileAuthorizer re-reading     *)
(* its file on every call while an administrator edits it.                 *)
(*                                                                         *)
(* An access list is abstracted to the set of blessing names it admits:    *)
(* AccessList.Includes (not in this repository) grants when one of the     *)
(* presented names matches an In pattern and no NotIn pattern.             *)
(***************************************************************************)
EXTENDS Naturals, Sequences, FiniteSets

CONSTANTS
    Types,        \* the vdl types of method tags
    StringTypes,  \* those backed by a string
    Values,       \* raw tag strings, e.g. "R", "W"
    Names,        \* blessing names a caller may present
    Services,     \* names AuthorizerFromSpec is asked for
    FileNames,    \* permissions files
    Literals,     \* permissions literals a PermissionsSpec may hold
    ParseLiteral, \* ReadPermissions of each non-empty literal
    InitFile,     \* the files' contents at server start
    EditContents, \* what an administrator may write into a file
    MaxTags,      \* longest list of method tags
    MaxEdits      \* bound on file edits

None == "none"

\* Permissions: maps from some tag values to access lists.
Maps == UNION {[D -> SUBSET Names] : D \in SUBSET Values}
EmptyMap == [v \in {} |-> {}]
\* The result of ReadPermissions: a map; a nil map (the JSON "null"),
\* which to a lookup has no tag; a file that cannot be opened or parsed;
\* a literal that does not parse; or nothing yet.
Perms == [st : {"ok"}, map : Maps]
Nil     == [st |-> "nil", map |-> EmptyMap]
Corrupt == [st |-> "corrupt", map |-> EmptyMap]
BadLit  == [st |-> "bad", map |-> EmptyMap]
NoPerms == [st |-> None, map |-> EmptyMap]

ASSUME AuthorizerAssumption ==
    /\ StringTypes \subseteq Types
    /\ ParseLiteral \in [Literals \ {""} -> Perms \cup {Nil, BadLit}]
    /\ InitFile \in [FileNames -> Perms \cup {Nil, Corrupt}]
    /\ EditContents \subseteq Perms \cup {Nil, Corrupt}
    /\ MaxTags \in Nat /\ MaxEdits \in Nat

TagVals == [type : Types, val : Values]
TagSeqs == UNION {[1 .. n -> TagVals] : n \in 0 .. MaxTags}
Specs   == [literal : Literals, files : [Services -> FileNames \cup {""}]]
NoCall  == [tags |-> <<>>, names |-> {}, out |-> None, policy |-> NoPerms]

VARIABLES
    spec,     \* the PermissionsSpec the server was configured with
    svc,      \* the name it asks an authorizer for
    tagType,  \* the tag type it asks for
    authz,    \* what AuthorizerFromSpec returned
    file,     \* contents of the permissions files
    edits,    \* edits made so far
    last      \* the last Authorize call: inputs, result, policy in effect

vars == <<spec, svc, tagType, authz, file, edits, last>>

-----------------------------------------------------------------------------
(* The code.                                                               *)

\* AccessList.Includes over the abstraction above.
Includes(acl, names) == acl \cap names # {}

\* Mutant: the kind of the tag type is not checked.
ValidTagTypeAny(tt) == TRUE

\* validateTagType, lines 108-113.
ValidTagType(tt) == tt \in StringTypes

\* PermissionsAuthorizer, lines 79-84.
PermissionsAuthorizer(perms, tt) ==
    IF ValidTagType(tt) THEN [kind |-> "perms", perms |-> perms, file |-> None]
    ELSE [kind |-> "error", perms |-> NoPerms, file |-> None]

\* PermissionsAuthorizerFromFile, lines 101-106.
PermissionsAuthorizerFromFile(f, tt) ==
    IF ValidTagType(tt) THEN [kind |-> "file", perms |-> NoPerms, file |-> f]
    ELSE [kind |-> "error", perms |-> NoPerms, file |-> None]

\* AuthorizerFromSpec, lines 140-153: the literal wins; without one, the
\* file named for the service; without that, nil (the caller's default).
AuthorizerFromSpec(ps, name, tt) ==
    IF ps.literal = "" THEN
        IF ps.files[name] = "" THEN [kind |-> "nil", perms |-> NoPerms, file |-> None]
        ELSE PermissionsAuthorizerFromFile(ps.files[name], tt)
    ELSE IF ParseLiteral[ps.literal] = BadLit
         THEN [kind |-> "error", perms |-> NoPerms, file |-> None]
         ELSE PermissionsAuthorizer(ParseLiteral[ps.literal], tt)

\* Mutant: the second tag of the type is not refused.
AuthorizeNoMultiple(perms, tt, tags, names) ==
    LET p == perms.map
        loop[i \in 0 .. Len(tags)] == [hastag \in BOOLEAN |->
          IF i = Len(tags) THEN IF hastag THEN "ok" ELSE "NoTags"
          ELSE IF tags[i + 1].type # tt THEN loop[i + 1][hastag]
          ELSE IF tags[i + 1].val \notin DOMAIN p
                  \/ ~Includes(p[tags[i + 1].val], names) THEN "NoPermissions"
          ELSE loop[i + 1][TRUE]]
    IN  loop[0][FALSE]

\* authorizer.Authorize, lines 160-178: walk the method tags; a second tag
\* of the type, or a tag whose access list is missing or excludes the
\* caller, ends the walk with an error; no tag of the type is an error.
Authorize(perms, tt, tags, names) ==
    LET p == perms.map
        loop[i \in 0 .. Len(tags)] == [hastag \in BOOLEAN |->
          IF i = Len(tags) THEN IF hastag THEN "ok" ELSE "NoTags"
          ELSE IF tags[i + 1].type # tt THEN loop[i + 1][hastag]
          ELSE IF hastag THEN "MultipleTags"
          ELSE IF tags[i + 1].val \notin DOMAIN p
                  \/ ~Includes(p[tags[i + 1].val], names) THEN "NoPermissions"
          ELSE loop[i + 1][TRUE]]
    IN  loop[0][FALSE]

\* Mutant: a file that cannot be read is treated as granting.
FileAuthorizeFailOpen(f, tt, tags, names) ==
    IF f = Corrupt THEN "ok" ELSE Authorize(f, tt, tags, names)

\* fileAuthorizer.Authorize with loadPermissionsFromFile, lines 185-201:
\* read the file now; a read or parse error is an internal error.
FileAuthorize(f, tt, tags, names) ==
    IF f = Corrupt THEN "Internal" ELSE Authorize(f, tt, tags, names)

-----------------------------------------------------------------------------
(* The server and its environment.                                         *)

Init ==
    /\ spec \in Specs
    /\ svc \in Services
    /\ tagType \in Types
    /\ authz = [kind |-> None, perms |-> NoPerms, file |-> None]
    /\ file = InitFile
    /\ edits = 0
    /\ last = NoCall

\* The server builds its authorizer once (the dispatcher's Lookup).
Construct ==
    /\ authz.kind = None
    /\ authz' = AuthorizerFromSpec(spec, svc, tagType)
    /\ UNCHANGED <<spec, svc, tagType, file, edits, last>>

\* An administrator rewrites a permissions file.
EditFile ==
    /\ edits < MaxEdits
    /\ \E f \in FileNames, c \in EditContents :
          file' = [file EXCEPT ![f] = c]
    /\ edits' = edits + 1
    /\ UNCHANGED <<spec, svc, tagType, authz, last>>

\* A call to a method with some tags by a caller presenting some names.
Call ==
    /\ authz.kind \in {"perms", "file"}
    /\ \E tags \in TagSeqs, names \in SUBSET Names :
          last' = IF authz.kind = "perms"
                  THEN [tags |-> tags, names |-> names, policy |-> authz.perms,
                        out |-> Authorize(authz.perms, tagType, tags, names)]
                  ELSE [tags |-> tags, names |-> names, policy |-> file[authz.file],
                        out |-> FileAuthorize(file[authz.file], tagType, tags, names)]
    /\ UNCHANGED <<spec, svc, tagType, authz, file, edits>>

\* No authorizer of this package serves calls: the server failed to start
\* or uses its default authorizer.
Done ==
    /\ authz.kind \in {"nil", "error"}
    /\ UNCHANGED vars

Next == Construct \/ EditFile \/ Call \/ Done

Spec == Init /\ [][Next]_vars

-----------------------------------------------------------------------------
(* Properties.                                                             *)

TypeOK ==
    /\ spec \in Specs /\ svc \in Services /\ tagType \in Types
    /\ authz.kind \in {None, "nil", "error", "perms", "file"}
    \* only string-backed tag types reach a working authorizer
    /\ authz.kind \in {"perms", "file"} => tagType \in StringTypes
    /\ file \in [FileNames -> Perms \cup {Nil, Corrupt}]
    /\ edits \in 0 .. MaxEdits
    /\ last.out \in {None, "ok", "NoTags", "MultipleTags", "NoPermissions", "Internal"}

\* The policy of the package comment (lines 18-30) and of
\* PermissionsAuthorizerFromFile (lines 93-100): a call is granted exactly
\* when its method has one tag of the type and the caller's names are in
\* that tag's access list, in the permissions in effect at the call, i.e.
\* the file's contents as they are when the call is made.
Granted(policy, tags, names) ==
    LET rel == {i \in DOMAIN tags : tags[i].type = tagType}
    IN  /\ policy.st \in {"ok", "nil"}
        /\ Cardinality(rel) = 1
        /\ \A i \in rel : /\ tags[i].val \in DOMAIN policy.map
                          /\ Includes(policy.map[tags[i].val], names)

\* Every Authorize decision, of the literal or of the file authorizer,
\* grants exactly the calls that policy grants.
DecisionMatchesPolicy ==
    last # NoCall => (last.out = "ok" <=> Granted(last.policy, last.tags, last.names))

=============================================================================
