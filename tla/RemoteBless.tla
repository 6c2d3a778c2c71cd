----------------------------- MODULE RemoteBless -----------------------------
(***************************************************************************)
(* Blessing a principal on another machine with the principal tool         *)
(* (src/x/ref/cmd/principal/main.go).  "principal recvblessings" starts a  *)
(* server with a fresh token and publishes its public key, the token and   *)
(* its object name, on stdout or in a --remote-arg-file.  One or more      *)
(* "principal bless --remote-key K --remote-token T NAME EXT" (or          *)
(* "--remote-arg-file FILE EXT") runs call its Grant method: the granter   *)
(* blesses the server's key only if it is K, and the receiver installs the *)
(* blessings only if the token is T.  An attacker may have taken over the  *)
(* receiver's network address and may call Grant itself.                   *)
(*                                                                         *)
(* The connection under the RPC is the handshake of Handshake.tla: the key *)
(* the granter sees is the key of the server it reached (PeerAuthentic).   *)
(***************************************************************************)
EXTENDS Naturals, Sequences, FiniteSets

CONSTANTS
    Senders,          \* the "principal bless" runs
    Names,            \* object names the receiver's server may get
    NameLen,          \* the length each name adds to the JSON arg file
    UseArgFile,       \* recvblessings --remote-arg-file was given
    RecvSetDefault,   \* recvblessings --set-default
    RecvForPeer,      \* recvblessings --for-peer is non-empty
    AttackerHasAddr,  \* the attacker answers at the receiver's address
    StaleFile,        \* what the arg file held before recvblessings ran
    MaxFaults         \* bound on failing I/O and store operations

Receiver == "receiver"          \* also stands for its public key
Attacker == "attacker"
Blesser  == "blesser"           \* the principal the bless runs act for
Callers  == Senders \cup {Attacker}
Tok      == "tok"               \* the token recvblessings generated
OldTok   == "oldtok"            \* a token of an earlier recvblessings run
Guess    == "guess"             \* the attacker's guess
None     == "none"

\* A blessing: its root (who blessed), the bless run, the key it is for.
Blessings == [root : {Blesser, Attacker}, run : Senders \cup {Attacker},
              for : {Receiver, Attacker}]
NoBlessings == [root |-> None, run |-> None, for |-> None]

\* recvBlessingsInfo (lines 1164-1168), and its JSON encoding: one object
\* followed by as many further cells as the name makes it longer.
Infos == [key : {Receiver}, token : {Tok, OldTok}, name : Names]
Byte == [key |-> "byte", token |-> "byte", name |-> "byte"]
NoInfo == [key |-> None, token |-> None, name |-> None]
Enc(i) == <<i>> \o [k \in 1 .. NameLen[i.name] |-> Byte]

ASSUME RemoteBlessAssumption ==
    /\ Senders # {} /\ Attacker \notin Senders
    /\ NameLen \in [Names -> Nat]
    /\ {UseArgFile, RecvSetDefault, RecvForPeer, AttackerHasAddr} \subseteq BOOLEAN
    /\ StaleFile \in {<<>>} \cup {Enc(i) : i \in Infos}
    /\ MaxFaults \in Nat

VARIABLES
    rpc,        \* where recvblessings' main goroutine is
    name,       \* server.Status().Endpoints[0].Name()
    printed,    \* the arguments printed on stdout, or NoInfo
    argFile,    \* the contents of the --remote-arg-file
    store,      \* the receiver's blessing store and recognized roots
    handler,    \* the Grant call of each caller, run by the receiver
    notified,   \* the blessings of the Grant that reached r.notify
    bless,      \* each "principal bless" run
    atkTokens,  \* tokens the attacker holds
    atkBless,   \* blessings the attacker holds
    faults

vars == <<rpc, name, printed, argFile, store, handler, notified, bless,
          atkTokens, atkBless, faults>>

Running == rpc \in {"publish", "waiting"}
Fault == faults < MaxFaults /\ faults' = faults + 1

Init ==
    /\ rpc = "start"
    /\ name \in Names
    /\ printed = NoInfo
    /\ argFile = StaleFile
    /\ store = [default |-> NoBlessings, peers |-> NoBlessings, roots |-> {}]
    /\ handler = [c \in Callers |-> [pc |-> "idle", bl |-> NoBlessings, tok |-> None]]
    /\ notified = NoBlessings
    /\ bless = [s \in Senders |-> [pc |-> "idle", info |-> NoInfo, why |-> None]]
    /\ atkTokens = {Guess}
    /\ atkBless = {b \in Blessings : b.root = Attacker /\ b.run = Attacker}
    /\ faults = 0

-----------------------------------------------------------------------------
(* recvblessings.                                                          *)

\* Lines 965-983: generate the token, load the principal, start the server.
RecvStart ==
    /\ rpc = "start"
    /\ \/ rpc' = "publish" /\ UNCHANGED faults
       \/ rpc' = "failed" /\ Fault
    /\ UNCHANGED <<name, printed, argFile, store, handler, notified, bless,
                   atkTokens, atkBless>>

\* writeRecvBlessingsInfo (lines 1170-1183) opens the file O_WRONLY|O_CREATE
\* and writes at offset 0: what the old contents had beyond is kept.
Overwrite(old, new) == new \o SubSeq(old, Len(new) + 1, Len(old))

\* Lines 984-1003: publish key, token and name in the file or on stdout.
RecvPublish ==
    LET info == [key |-> Receiver, token |-> Tok, name |-> name] IN
    /\ rpc = "publish"
    /\ \/ /\ UseArgFile
          /\ \/ argFile' = Overwrite(argFile, Enc(info)) /\ rpc' = "waiting"
                /\ UNCHANGED faults
             \/ rpc' = "failed" /\ Fault /\ UNCHANGED argFile
          /\ UNCHANGED printed
       \/ /\ ~UseArgFile
          /\ printed' = info /\ rpc' = "waiting"
          /\ UNCHANGED <<argFile, faults>>
    /\ UNCHANGED <<name, store, handler, notified, bless, atkTokens, atkBless>>

\* Line 1005 with line 1266: the main goroutine takes the first
\* value sent on the unbuffered r.notify and returns; the process exits.
RecvReturn ==
    /\ rpc = "waiting"
    /\ \E c \in Callers :
          /\ handler[c].pc = "notify"
          /\ handler' = [handler EXCEPT ![c].pc = "ok"]
          /\ notified' = handler[c].bl
    /\ rpc' = "done"
    /\ UNCHANGED <<name, printed, argFile, store, bless, atkTokens, atkBless, faults>>

-----------------------------------------------------------------------------
(* recvBlessingsService.Grant, one goroutine per call.                     *)

GrantFail(c) == handler' = [handler EXCEPT ![c].pc = "err"]

\* Mutant: only the length check of line 1241 (every token is 32 bytes).
TokenMatchesLenOnly(t) == t \in {Tok, OldTok, Guess}

\* The token comparison, lines 1247-1249.
TokenMatches(t) == t = Tok

\* Lines 1236-1249: reject empty blessings and a wrong token.
GrantCheck(c) ==
    /\ Running /\ handler[c].pc = "check"
    /\ \/ handler[c].bl = NoBlessings /\ GrantFail(c)
       \/ handler[c].bl # NoBlessings /\ ~TokenMatches(handler[c].tok) /\ GrantFail(c)
       \/ /\ handler[c].bl # NoBlessings /\ TokenMatches(handler[c].tok)
          /\ handler' = [handler EXCEPT ![c].pc = "setDefault"]
    /\ UNCHANGED <<rpc, name, printed, argFile, store, notified, bless,
                   atkTokens, atkBless, faults>>

\* A store update that may fail (BlessingStore.SetDefault and Set refuse
\* blessings for another key, and persisting the store may fail).
StoreStep(c, enabled, update, next) ==
    /\ Running /\ handler[c].pc = next[1]
    /\ \/ ~enabled /\ handler' = [handler EXCEPT ![c].pc = next[2]]
                   /\ UNCHANGED <<store, faults>>
       \/ /\ enabled /\ handler[c].bl.for = Receiver
          /\ store' = update /\ handler' = [handler EXCEPT ![c].pc = next[2]]
          /\ UNCHANGED faults
       \/ /\ enabled /\ handler[c].bl.for # Receiver
          /\ GrantFail(c) /\ UNCHANGED <<store, faults>>
       \/ enabled /\ GrantFail(c) /\ Fault /\ UNCHANGED store
    /\ UNCHANGED <<rpc, name, printed, argFile, notified, bless, atkTokens, atkBless>>

\* Lines 1250-1254: SetDefault when --set-default.
GrantSetDefault(c) ==
    StoreStep(c, RecvSetDefault, [store EXCEPT !.default = handler[c].bl],
              <<"setDefault", "setPeer">>)

\* Lines 1255-1259: Set for the --for-peer pattern.
GrantSetPeer(c) ==
    StoreStep(c, RecvForPeer, [store EXCEPT !.peers = handler[c].bl],
              <<"setPeer", "addRoots">>)

GrantAddRootsLeaf(c) ==
    StoreStep(c, TRUE, [store EXCEPT !.roots = @ \cup {handler[c].bl.for}],
              <<"addRoots", "notify">>)

\* Lines 1260-1266 (addToRoots is always true), then block on r.notify.
GrantAddRoots(c) ==
    StoreStep(c, TRUE, [store EXCEPT !.roots = @ \cup {handler[c].bl.root}],
              <<"addRoots", "notify">>)

-----------------------------------------------------------------------------
(* principal bless --remote-key/--remote-token or --remote-arg-file.       *)

\* blessArgsFromFile (lines 1185-1195): json.Unmarshal of the whole file.
Decode(content) == {i \in Infos : Enc(i) = content}

\* blessArgs, lines 1077-1098: when --remote-arg-file cannot be read or
\* parsed, its error is returned only if the extension is in the
\* arguments; otherwise readFromStdin overwrites err (line 1095), remoteKey
\* stays empty and bless falls to blessOverFileSystem with an empty name
\* (lines 444-451), which fails locally.
BlessArgsError(extInArgs) == IF extInArgs THEN "argfile" ELSE "local"

\* Lines 389-440 with blessArgs (1077-1098): parse the arguments, pick
\* the caveats (confirmNoCaveats, 1100-1112) and read the extension.
BlessStart(s) ==
    /\ bless[s].pc = "idle"
    /\ rpc \notin {"start", "publish"}
    /\ \E extInArgs \in BOOLEAN, confirmed \in BOOLEAN :
         \/ ~confirmed /\ bless' = [bless EXCEPT ![s] = [@ EXCEPT !.pc = "err", !.why = "caveats"]]
         \/ /\ confirmed /\ ~UseArgFile /\ printed # NoInfo
            /\ bless' = [bless EXCEPT ![s] = [@ EXCEPT !.pc = "call", !.info = printed]]
         \/ /\ confirmed /\ UseArgFile
            /\ \/ \E i \in Decode(argFile) :
                     bless' = [bless EXCEPT ![s] = [@ EXCEPT !.pc = "call", !.info = i]]
               \/ /\ Decode(argFile) = {}
                  /\ bless' = [bless EXCEPT ![s] = [@ EXCEPT !.pc = "err",
                                 !.why = BlessArgsError(extInArgs)]]
    /\ UNCHANGED <<rpc, name, printed, argFile, store, handler, notified,
                   atkTokens, atkBless, faults>>

\* Who answers at an object name: the receiver's server while it runs,
\* and the attacker if it has taken over the address.
Answering(n) ==
    (IF n = name /\ Running THEN {Receiver} ELSE {})
    \cup (IF AttackerHasAddr THEN {Attacker} ELSE {})

\* Mutant: the key check of granter.Grant dropped.
GranterAcceptsAny(server, key) == TRUE

\* granter.Grant, lines 1277-1288: the server's key must be the remote key.
GranterAccepts(server, key) == server = key

\* blessOverNetwork, lines 1291-1315: client.Call with the granter; when
\* the granter fails the request (and the token) is never sent.
BlessCall(s) ==
    LET i == bless[s].info IN
    /\ bless[s].pc = "call"
    /\ \/ /\ Answering(i.name) = {}
          /\ bless' = [bless EXCEPT ![s].pc = "err"]
          /\ UNCHANGED <<handler, atkTokens, atkBless>>
       \/ \E srv \in Answering(i.name) :
            LET b == [root |-> Blesser, run |-> s, for |-> srv] IN
            \/ /\ ~GranterAccepts(srv, i.key)
               /\ bless' = [bless EXCEPT ![s].pc = "err"]
               /\ UNCHANGED <<handler, atkTokens, atkBless>>
            \/ /\ GranterAccepts(srv, i.key) /\ srv = Receiver
               /\ handler' = [handler EXCEPT ![s] = [pc |-> "check", bl |-> b, tok |-> i.token]]
               /\ bless' = [bless EXCEPT ![s].pc = "await"]
               /\ UNCHANGED <<atkTokens, atkBless>>
            \/ /\ GranterAccepts(srv, i.key) /\ srv = Attacker
               /\ atkTokens' = atkTokens \cup {i.token}
               /\ atkBless' = atkBless \cup {b}
               /\ bless' = [bless EXCEPT ![s].pc = "err"]
               /\ UNCHANGED handler
    /\ UNCHANGED <<rpc, name, printed, argFile, store, notified, faults>>

\* The Grant RPC returns its result, or fails when the receiver exits.
BlessReturn(s) ==
    /\ bless[s].pc = "await"
    /\ \/ handler[s].pc \in {"ok", "err"}
          /\ bless' = [bless EXCEPT ![s].pc = handler[s].pc]
       \/ handler[s].pc \notin {"ok", "err"} /\ ~Running
          /\ bless' = [bless EXCEPT ![s].pc = "err"]
    /\ UNCHANGED <<rpc, name, printed, argFile, store, handler, notified,
                   atkTokens, atkBless, faults>>

\* The attacker calls Grant with what it holds.
AttackerCall ==
    /\ Running /\ handler[Attacker].pc = "idle"
    /\ \E t \in atkTokens, b \in atkBless \cup {NoBlessings} :
          handler' = [handler EXCEPT ![Attacker] = [pc |-> "check", bl |-> b, tok |-> t]]
    /\ UNCHANGED <<rpc, name, printed, argFile, store, notified, bless,
                   atkTokens, atkBless, faults>>

\* Every bless run has returned and no Grant goroutine can move: the
\* receiver has returned, or waits on r.notify until it is interrupted.
Done ==
    /\ \A s \in Senders : bless[s].pc \in {"ok", "err"}
    /\ \/ rpc \in {"done", "failed"}
       \/ \A c \in Callers : handler[c].pc \in {"idle", "ok", "err"}
    /\ UNCHANGED vars

Next ==
    \/ RecvStart \/ RecvPublish \/ RecvReturn \/ AttackerCall
    \/ \E c \in Callers :
          GrantCheck(c) \/ GrantSetDefault(c) \/ GrantSetPeer(c) \/ GrantAddRoots(c)
    \/ \E s \in Senders : BlessStart(s) \/ BlessCall(s) \/ BlessReturn(s)
    \/ Done

Spec == Init /\ [][Next]_vars

\* The receiver's goroutines and the bless runs keep going; the attacker
\* need not act.
Fairness ==
    /\ WF_vars(RecvStart) /\ WF_vars(RecvPublish) /\ WF_vars(RecvReturn)
    /\ \A c \in Callers : WF_vars(GrantCheck(c)) /\ WF_vars(GrantSetDefault(c))
                          /\ WF_vars(GrantSetPeer(c)) /\ WF_vars(GrantAddRoots(c))
    /\ \A s \in Senders : WF_vars(BlessStart(s)) /\ WF_vars(BlessCall(s))
                          /\ WF_vars(BlessReturn(s))

FairSpec == Spec /\ Fairness

-----------------------------------------------------------------------------
(* Properties.                                                             *)

TypeOK ==
    /\ rpc \in {"start", "publish", "waiting", "done", "failed"}
    /\ name \in Names
    /\ printed \in Infos \cup {NoInfo}
    /\ argFile \in Seq(Infos \cup {Byte})
    /\ store \in [default : Blessings \cup {NoBlessings}, peers : Blessings \cup {NoBlessings},
                  roots : SUBSET {Blesser, Attacker}]
    /\ handler \in [Callers -> [pc : {"idle", "check", "setDefault", "setPeer", "addRoots",
                                      "notify", "ok", "err"},
                                bl : Blessings \cup {NoBlessings},
                                tok : {Tok, OldTok, Guess, None}]]
    /\ notified \in Blessings \cup {NoBlessings}
    /\ bless \in [Senders -> [pc : {"idle", "call", "await", "ok", "err"},
                              info : Infos \cup {NoInfo},
                              why : {None, "caveats", "argfile", "local"}]]
    /\ atkTokens \subseteq {Tok, OldTok, Guess}
    /\ atkBless \subseteq Blessings
    /\ faults \in 0 .. MaxFaults

\* The token and the blessing stay between the two ends (granter.Grant,
\* lines 1277-1288, and the comment there): however the attacker answers
\* at the receiver's address, it never obtains the receiver's token nor a
\* blessing made by the blesser.
AttackerLearnsNothing ==
    /\ Tok \notin atkTokens
    /\ \A b \in atkBless : b.root = Attacker

\* recvBlessingsService.Grant (lines 1236-1267) installs only blessings
\* sent by a holder of the token: the receiver's default and peer
\* blessings are the blesser's blessings for the receiver's key, and only
\* the blesser's root is added to the recognized roots.
OnlySenderBlessings ==
    /\ \A b \in {store.default, store.peers} :
          b = NoBlessings \/ (b.root = Blesser /\ b.for = Receiver)
    /\ store.roots \subseteq {Blesser}

ReportedIsInstalled ==
    rpc = "done" =>
        /\ RecvSetDefault => store.default = notified
        /\ RecvForPeer => store.peers = notified

\* "the remote key, remote token, and principal will be written to the
\* specified file ... This can be provided to principal bless
\* --remote-arg-file" (lines 157-159): a bless run that reads the file
\* after recvblessings wrote it reads the arguments back.
ArgFileRoundTrip ==
    \A s \in Senders : bless[s].why \in {"argfile", "local"} => rpc = "failed"

=============================================================================
