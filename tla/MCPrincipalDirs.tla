-------------------------- MODULE MCPrincipalDirs --------------------------
(* Two directories, the tool's own and one other; key flags: none, an     *)
(* unsupported --key-type, --ssh-key, --ssl-key alone, --ssl-key with     *)
(* --ssl-cert, and --ssh-key with --ssh-public-key.                       *)
EXTENDS PrincipalDirs

MCKeyFlagSets ==
    {NoKeyFlags,
     [NoKeyFlags EXCEPT !.keyTypeOK = FALSE],
     [NoKeyFlags EXCEPT !.ssh = TRUE],
     [NoKeyFlags EXCEPT !.ssl = TRUE],
     [NoKeyFlags EXCEPT !.ssl = TRUE, !.sslca = TRUE, !.copy = TRUE],
     [NoKeyFlags EXCEPT !.ssh = TRUE, !.agent = TRUE]}
=============================================================================
