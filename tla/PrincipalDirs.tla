--------------------------- MODULE PrincipalDirs ---------------------------
(***************************************************************************)
(* The principal command's subcommands that change credentials            *)
(* directories (x/ref/cmd/principal/main.go): create and fork, which run   *)
(* createPersistentPrincipal and may clear a directory first, and set      *)
(* default, set forpeer, recognize and seekblessings, which update the     *)
(* principal the tool runs as.  Invocations run one after the other and    *)
(* the process may be killed between two of its writes.                   *)
(*                                                                         *)
(* A principal is abstracted to its key, where the key came from, and its  *)
(* blessing store and roots; a blessing to the key that signed its root    *)
(* and the key it is for.                                                  *)
(***************************************************************************)
EXTENDS Naturals

CONSTANTS
    Dirs,          \* credentials directories
    Cur,           \* the one V23_CREDENTIALS names (the tool's own principal)
    KeyFlagSets,   \* the KeyFlags an invocation may be given
    MaxRuns,       \* bound on invocations
    MaxFaults      \* bound on I/O failures and kills

\* Keys: 1 is Cur's, 2 an earlier principal's, the others fresh, one per
\* invocation at most.
MaxKeys  == MaxRuns + 2
NoKey    == 0
Provider == MaxKeys + 1          \* the web blesser of seekblessings
Keys     == 1 .. MaxKeys
Signers  == Keys \cup {Provider}
Blessing == [by : Signers, for : Keys]
NoBless  == [by |-> NoKey, for |-> NoKey]
Sources  == {"new", "ssh", "ssl", "agent"}
Empty    == [key |-> NoKey, src |-> "none", def |-> NoBless, peers |-> NoBless, roots |-> {}]
\* KeyFlags (lines 79-88): which key sources are non-empty, --copy-private-key
\* and whether --key-type names a supported type.
KeyFlagsT == [ssh : BOOLEAN, ssl : BOOLEAN, sslca : BOOLEAN, agent : BOOLEAN,
              copy : BOOLEAN, keyTypeOK : BOOLEAN]
NoKeyFlags == [ssh |-> FALSE, ssl |-> FALSE, sslca |-> FALSE, agent |-> FALSE,
               copy |-> FALSE, keyTypeOK |-> TRUE]
Idle == [cmd |-> "none", pc |-> "idle", dir |-> Cur, ow |-> FALSE,
         bl |-> FALSE, src |-> "none", with |-> NoBless, key |-> NoKey, at |-> "none"]

ASSUME PrincipalDirsAssumption ==
    /\ Cur \in Dirs
    /\ KeyFlagSets \subseteq KeyFlagsT
    /\ MaxRuns \in Nat /\ MaxFaults \in Nat

VARIABLES
    dirs,     \* the principal stored in each directory
    run,      \* the invocation in progress
    nextKey,  \* the next fresh key
    runs,     \* invocations started
    faults    \* failures and kills so far

vars == <<dirs, run, nextKey, runs, faults>>

Fault == faults < MaxFaults /\ faults' = faults + 1
Fail(at) == run' = [run EXCEPT !.pc = "err", !.at = at]

-----------------------------------------------------------------------------
(* createPersistentPrincipal and its helpers.                              *)

\* KeyFlags.validate, lines 1341-1370: at most one key source, and an SSL
\* key only with its certificate.
Validate(kf) ==
    LET n == (IF kf.ssh THEN 1 ELSE 0) + (IF kf.ssl \/ kf.sslca THEN 1 ELSE 0)
             + (IF kf.agent THEN 1 ELSE 0)
    IN  [newKey |-> n = 0, err |-> n > 1 \/ (n = 1 /\ (kf.ssl # kf.sslca))]

\* The source chosen by the switch of lines 1458-1465.
KeySource(kf) ==
    IF Validate(kf).newKey THEN "new"
    ELSE IF kf.ssh THEN "ssh" ELSE IF kf.ssl THEN "ssl" ELSE "agent"

\* Lines 1438-1465 up to createPrincipalOpts: validate the flags, prompt
\* for a passphrase when one will be used (1443-1449), create the key
\* (createNewKey, 1372-1382, fails on an unsupported --key-type) or import
\* it (importFromKeyFiles, importForSSHAgent, 1384-1435, fail on a key file
\* that cannot be read). The possible results: TRUE when it gets past them.
PrepareResults(kf, ask) ==
    LET v == Validate(kf) IN
    {ok \in BOOLEAN :
        IF ok THEN ~v.err /\ (v.newKey => kf.keyTypeOK)
        ELSE v.err \/ (ask /\ (v.newKey \/ kf.copy)) \/ ~v.newKey \/ ~kf.keyTypeOK}

\* The flags fork hands createPersistentPrincipal, lines 847-852: those of
\* the create command, which fork never parses, i.e. their defaults
\* (no key source, --with-passphrase=true, --overwrite=false).
ForkCreateFlags == [kf |-> NoKeyFlags, ask |-> TRUE, ow |-> FALSE]

\* Mutant: the existing principal is not noticed.
HasPrincipalNever(d) == FALSE

\* CreatePrincipalOpts refuses a directory that holds a principal (the
\* help text of create, lines 759-761).
HasPrincipal(d) == dirs[d].key # NoKey

\* createPrincipalOpts, lines 1472-1477: with --overwrite, RemoveAll first.
RemoveStep ==
    /\ run.pc = "remove"
    /\ \/ dirs' = [dirs EXCEPT ![run.dir] = Empty]
          /\ run' = [run EXCEPT !.pc = "store"] /\ UNCHANGED faults
       \/ Fail("remove") /\ Fault /\ UNCHANGED dirs
    /\ UNCHANGED <<nextKey, runs>>

\* Lines 1478-1483: create the store and persist the new principal.
StoreStep ==
    /\ run.pc = "store"
    /\ \/ HasPrincipal(run.dir) /\ Fail("exists") /\ UNCHANGED <<dirs, nextKey, faults>>
       \/ ~HasPrincipal(run.dir) /\ Fail("store") /\ Fault /\ UNCHANGED <<dirs, nextKey>>
       \/ /\ ~HasPrincipal(run.dir)
          /\ dirs' = [dirs EXCEPT ![run.dir] = [Empty EXCEPT !.key = nextKey, !.src = run.src]]
          /\ nextKey' = nextKey + 1
          /\ run' = [run EXCEPT !.key = nextKey,
                                !.pc = IF run.cmd = "fork" \/ run.bl THEN "bless" ELSE "ok"]
          /\ UNCHANGED faults
    /\ UNCHANGED runs

\* seclib.SetDefaultBlessings: default, shared with all peers, root added.
SetDefaultBlessings(p, b) ==
    [p EXCEPT !.def = b, !.peers = b, !.roots = @ \cup {b.by}]

\* Mutant: fork blesses the blesser's own key.
NewBlessingBlesser(r) ==
    IF r.cmd = "create" THEN [by |-> r.key, for |-> r.key]
    ELSE [by |-> r.with.by, for |-> r.with.for]

\* The blessing a new principal gets: create's self blessing (lines
\* 786-795); fork's blessing of the new key extending --with (856-861).
NewBlessing(r) ==
    IF r.cmd = "create" THEN [by |-> r.key, for |-> r.key]
    ELSE [by |-> r.with.by, for |-> r.key]

\* Mutant: fork blesses even when it has no blessing to extend.
BlessStepNoWithCheck ==
    /\ run.pc = "bless"
    /\ \/ Fail("bless") /\ Fault /\ UNCHANGED dirs
       \/ /\ dirs' = [dirs EXCEPT ![run.dir] = SetDefaultBlessings(@, NewBlessing(run))]
          /\ run' = [run EXCEPT !.pc = "ok"] /\ UNCHANGED faults
    /\ UNCHANGED <<nextKey, runs>>

\* Lines 786-795 of create and 856-864 of fork: bless, then
\* SetDefaultBlessings; Bless fails when fork extends no blessing.
BlessStep ==
    /\ run.pc = "bless"
    /\ \/ run.cmd = "fork" /\ run.with = NoBless /\ Fail("bless")
          /\ UNCHANGED <<dirs, faults>>
       \/ ~(run.cmd = "fork" /\ run.with = NoBless) /\ Fail("bless") /\ Fault
          /\ UNCHANGED dirs
       \/ /\ ~(run.cmd = "fork" /\ run.with = NoBless)
          /\ dirs' = [dirs EXCEPT ![run.dir] = SetDefaultBlessings(@, NewBlessing(run))]
          /\ run' = [run EXCEPT !.pc = "ok"] /\ UNCHANGED faults
    /\ UNCHANGED <<nextKey, runs>>

\* An invocation may start once the previous one has ended.
StartRun(cmd, d, ow, ok, r) ==
    /\ run.pc \in {"idle", "ok", "err"} /\ runs < MaxRuns
    /\ runs' = runs + 1
    /\ run' = IF ok THEN r ELSE [Idle EXCEPT !.cmd = cmd, !.dir = d, !.ow = ow,
                                              !.pc = "err", !.at = "input"]

\* create <directory> [<blessing>], lines 772-785 with the first half of
\* createPersistentPrincipal.
CreateStart ==
    \E d \in Dirs, kf \in KeyFlagSets, ask, ow, bl \in BOOLEAN :
    \E ok \in PrepareResults(kf, ask) :
       /\ StartRun("create", d, ow, ok,
                   [Idle EXCEPT !.cmd = "create", !.pc = IF ow THEN "remove" ELSE "store",
                                !.dir = d, !.ow = ow, !.bl = bl, !.src = KeySource(kf)])
       /\ UNCHANGED <<dirs, nextKey, faults>>

\* fork <directory> <extension>, lines 823-852: the caveats (828-837: a bad
\* --caveat, or none while --require-caveats), the blessing to extend
\* (838-845: --with, or the default of the tool's principal), then
\* createPersistentPrincipal with ForkCreateFlags; ow is fork's --overwrite.
ForkStart ==
    \E d \in Dirs, ow, cavOK, withOK \in BOOLEAN :
    \E ok \in PrepareResults(ForkCreateFlags.kf, ForkCreateFlags.ask) :
       /\ StartRun("fork", d, ow, ok /\ cavOK /\ withOK,
                   [Idle EXCEPT !.cmd = "fork", !.dir = d, !.ow = ow,
                                !.pc = IF ForkCreateFlags.ow THEN "remove" ELSE "store",
                                !.src = KeySource(ForkCreateFlags.kf),
                                !.with = dirs[Cur].def])
       /\ UNCHANGED <<dirs, nextKey, faults>>

\* The process is killed between two writes of create or fork.
Kill ==
    /\ run.pc \in {"remove", "store", "bless"}
    /\ Fail("killed") /\ Fault
    /\ UNCHANGED <<dirs, nextKey, runs>>

-----------------------------------------------------------------------------
(* Subcommands updating the tool's own principal (getMutablePrincipal,     *)
(* lines 1332-1339, fails when Cur holds none). A blessing file holds a    *)
(* blessing from the provider for some key; it may not decode.             *)

\* A blessing store write, which the store refuses for blessings of
\* another key ("It is an error to call 'set default' with blessings whose
\* public key does not match", lines 718-719 and 578-580).
StoreAccepts(b) == b.for = dirs[Cur].key

\* set default (727-748) and set forpeer (591-613): decode the file, load
\* the principal, set the blessing, then optionally AddToRoots.
SetCmd(cmd, field) ==
    /\ run.pc \in {"idle", "ok", "err"} /\ runs < MaxRuns /\ runs' = runs + 1
    /\ \E b \in [by : {Provider}, for : Keys], decoded, addRoots \in BOOLEAN :
       LET set == [dirs[Cur] EXCEPT ![field] = b] IN
       \/ /\ ~(decoded /\ HasPrincipal(Cur) /\ StoreAccepts(b))
          /\ run' = [Idle EXCEPT !.cmd = cmd, !.pc = "err", !.at = "input"]
          /\ UNCHANGED <<dirs, faults>>
       \/ /\ decoded /\ HasPrincipal(Cur) /\ StoreAccepts(b)
          /\ \/ dirs' = [dirs EXCEPT ![Cur] = IF addRoots THEN [set EXCEPT !.roots = @ \cup {b.by}]
                                                         ELSE set]
                /\ run' = [Idle EXCEPT !.cmd = cmd, !.pc = "ok"] /\ UNCHANGED faults
             \/ addRoots /\ dirs' = [dirs EXCEPT ![Cur] = set] /\ Fault
                /\ run' = [Idle EXCEPT !.cmd = cmd, !.pc = "err", !.at = "roots"]
    /\ UNCHANGED nextKey

SetDefaultCmd == SetCmd("setdefault", "def")
SetForPeerCmd == SetCmd("setforpeer", "peers")

\* recognize (644-668): the root of a blessing file, or a pattern and a
\* base64url key, is added to the roots.
RecognizeCmd ==
    /\ run.pc \in {"idle", "ok", "err"} /\ runs < MaxRuns /\ runs' = runs + 1
    /\ \E k \in Signers, decoded \in BOOLEAN :
       \/ /\ decoded /\ HasPrincipal(Cur)
          /\ dirs' = [dirs EXCEPT ![Cur].roots = @ \cup {k}]
          /\ run' = [Idle EXCEPT !.cmd = "recognize", !.pc = "ok"]
       \/ /\ ~(decoded /\ HasPrincipal(Cur))
          /\ run' = [Idle EXCEPT !.cmd = "recognize", !.pc = "err", !.at = "input"]
          /\ UNCHANGED dirs
    /\ UNCHANGED <<nextKey, faults>>

\* seekblessings (886-921): obtain a blessing for the principal's key from
\* the web blesser, then SetDefault, Set for --for-peer and AddToRoots as
\* the flags say, each of which may fail after the earlier ones took.
SeekBlessingsCmd ==
    /\ run.pc \in {"idle", "ok", "err"} /\ runs < MaxRuns /\ runs' = runs + 1
    /\ HasPrincipal(Cur)
    /\ \E sd, fp, ar \in BOOLEAN, stop \in 0 .. 3 :
       LET b    == [by |-> Provider, for |-> dirs[Cur].key]
           p    == dirs[Cur]
           p1   == IF sd /\ stop # 1 THEN [p EXCEPT !.def = b] ELSE p
           p2   == IF fp /\ stop \notin {1, 2} THEN [p1 EXCEPT !.peers = b] ELSE p1
           p3   == IF ar /\ stop = 0 THEN [p2 EXCEPT !.roots = @ \cup {b.by}] ELSE p2
       IN  \/ stop = 0 /\ dirs' = [dirs EXCEPT ![Cur] = p3]
              /\ run' = [Idle EXCEPT !.cmd = "seek", !.pc = "ok"] /\ UNCHANGED faults
           \/ /\ stop > 0 /\ Fault
              /\ (stop = 1 => sd) /\ (stop = 2 => fp) /\ (stop = 3 => ar)
              /\ dirs' = [dirs EXCEPT ![Cur] = p3]
              /\ run' = [Idle EXCEPT !.cmd = "seek", !.pc = "err", !.at = "store"]
    /\ UNCHANGED nextKey

-----------------------------------------------------------------------------

\* Cur holds a principal with a self blessing; the other directories are
\* empty or hold an earlier principal without blessings.
Init ==
    /\ \E old \in [Dirs \ {Cur} -> BOOLEAN] :
         dirs = [d \in Dirs |->
                  IF d = Cur THEN SetDefaultBlessings([Empty EXCEPT !.key = 1, !.src = "new"],
                                                      [by |-> 1, for |-> 1])
                  ELSE IF old[d] THEN [Empty EXCEPT !.key = 2, !.src = "new"] ELSE Empty]
    /\ run = Idle
    /\ nextKey = 3
    /\ runs = 0
    /\ faults = 0

\* No further invocation.
Done ==
    /\ runs = MaxRuns /\ run.pc \in {"idle", "ok", "err"}
    /\ UNCHANGED vars

Next ==
    \/ CreateStart \/ ForkStart \/ RemoveStep \/ StoreStep \/ BlessStep \/ Kill
    \/ SetDefaultCmd \/ SetForPeerCmd \/ RecognizeCmd \/ SeekBlessingsCmd \/ Done

Spec == Init /\ [][Next]_vars

-----------------------------------------------------------------------------
(* Properties.                                                             *)

TypeOK ==
    /\ dirs \in [Dirs -> [key : {NoKey} \cup Keys, src : Sources \cup {"none"},
                          def : Blessing \cup {NoBless}, peers : Blessing \cup {NoBless},
                          roots : SUBSET Signers]]
    /\ run.pc \in {"idle", "remove", "store", "bless", "ok", "err"}
    /\ run.with \in Blessing \cup {NoBless}
    /\ nextKey \in 3 .. MaxKeys + 1 /\ runs \in 0 .. MaxRuns /\ faults \in 0 .. MaxFaults

\* Whatever sequence of create, fork, set, recognize and seekblessings
\* invocations, failures and kills, every directory's default and peer
\* blessings are for that directory's key (a principal can only use
\* blessings bound to its own key).
DefaultIsOwn ==
    \A d \in Dirs : \A b \in {dirs[d].def, dirs[d].peers} :
        b # NoBless => b.for = dirs[d].key

\* "The operation fails if the directory already contains a principal. In
\* this case the --overwrite flag can be provided to clear the directory"
\* (create, lines 759-761; fork, lines 812-814): a step that removes or
\* replaces a stored principal is a step of a create or fork invocation
\* given --overwrite.  Set, recognize and seekblessings, and a create or
\* fork without it, never destroy one, even across a kill between writes.
OnlyOverwriteDestroys ==
    [][\A d \in Dirs : dirs[d].key # NoKey /\ dirs'[d].key # dirs[d].key
                       => run.cmd \in {"create", "fork"} /\ run.ow]_vars

\* The same help text for fork (lines 812-814): fork --overwrite does not
\* fail because the directory already contains a principal.
ForkHonoursOverwrite ==
    ~(run.cmd = "fork" /\ run.ow /\ run.at = "exists")

=============================================================================
