---------------------------- MODULE MCVdlTransfer ----------------------------
(* Permissions over two tags, lists of at most one of two strings, from a  *)
(* writer of this package's AccessList type or of a newer one with its    *)
(* fields reordered and a field the reader does not know; glob replies    *)
(* with one name and at most one mounted server, from servers built with  *)
(* this package's types or with newer ones: unions with their             *)
(* alternatives reordered and one more, a MountEntry with its fields      *)
(* reordered and one more.                                                 *)
EXTENDS VdlTransfer

MCWriterTypes == {"AccessList", "AccessListV2"}
MCWriterUnions == {"GlobReply", "GlobReplyV2", "GlobChildrenReply", "GlobChildrenReplyV2"}
MCWriterEntries == {"MountEntry", "MountEntryV2"}
MCNewerFields ==
    ("AccessList" :> <<"In", "NotIn">>) @@
    ("AccessListV2" :> <<"NotIn", "Extra", "In">>) @@
    ("GlobReplyV2" :> <<"Error", "Other", "Entry">>) @@
    ("GlobChildrenReplyV2" :> <<"Other", "Error", "Name">>) @@
    ("MountEntryV2" :> <<"IsLeaf", "Extra", "Servers", "Name", "ServesMountTable">>)
MCFields == OwnFields @@ MCNewerFields
MCInitPermissions == {<<>>, "R" :> [In |-> <<"b">>, NotIn |-> <<>>]}
MCInitReplies == {NilReply, Reply("Error", ZeroEntry, [Name |-> "a", Error |-> "err"], "")}
=============================================================================
