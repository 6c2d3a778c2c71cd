---------------------------- MODULE MCAuthorizer ----------------------------
(* A server asking for "svc" with tags of type T among T, U (both string  *)
(* backed) and I (an integer type); the literal "lit" grants R to alice   *)
(* and W to bob, "empty" is the map {}, "null" is nil, "bad" does not     *)
(* parse; the file starts as the literal's contents and may be replaced   *)
(* by a map granting R to bob, by nil or by garbage.                      *)
EXTENDS Authorizer

MCTypes == {"T", "U", "I"}
MCStringTypes == {"T", "U"}
MCValues == {"R", "W"}
MCNames == {"alice", "bob"}
MCLit == [v \in {"R", "W"} |-> IF v = "R" THEN {"alice"} ELSE {"bob"}]
MCLiterals == {"", "lit", "empty", "null", "bad"}
MCParseLiteral == [l \in {"lit", "empty", "null", "bad"} |->
                     IF l = "lit" THEN [st |-> "ok", map |-> MCLit]
                     ELSE IF l = "empty" THEN [st |-> "ok", map |-> EmptyMap]
                     ELSE IF l = "null" THEN Nil ELSE BadLit]
MCInitFile == [f \in {"f1"} |-> [st |-> "ok", map |-> MCLit]]
MCEditContents == {[st |-> "ok", map |-> [v \in {"R"} |-> {"bob"}]], Nil, Corrupt}
=============================================================================
