------------------------ MODULE PrincipalDirsProofs ------------------------
(***************************************************************************)
(* Proofs about the credentials directories of PrincipalDirs.tla, for     *)
(* every set of directories, key flags and bounds that satisfies          *)
(* PrincipalDirsAssumption.                                               *)
(***************************************************************************)
EXTENDS PrincipalDirs, TLAPS

\* The stored principals TypeOK admits.
DirT == [key : {NoKey} \cup Keys, src : Sources \cup {"none"},
         def : Blessing \cup {NoBless}, peers : Blessing \cup {NoBless},
         roots : SUBSET Signers]

\* A stored principal whose default and peer blessings are for its key.
OwnBlessings(p) == \A b \in {p.def, p.peers} : b # NoBless => b.for = p.key

\* What an invocation of create or fork carries from one write to the next:
\* the directory it works on and the source of its key; at the blessing
\* step, the key it stored there and which is still there; at the removal,
\* that it is a create given --overwrite; that only create and fork reach
\* these steps; and one fresh key per
\* invocation, so that the keys never run out.
RunOK ==
    /\ run.dir \in Dirs
    /\ run.src \in Sources \cup {"none"}
    /\ run.pc = "bless" => run.key \in Keys /\ run.key = dirs[run.dir].key
    /\ run.pc = "remove" => run.cmd = "create" /\ run.ow
    /\ run.pc \in {"remove", "store", "bless"} => run.cmd \in {"create", "fork"}
    /\ nextKey + (IF run.pc \in {"remove", "store"} THEN 1 ELSE 0) <= runs + 3

\* The inductive invariant behind DefaultIsOwn and OnlyOverwriteDestroys.
IInv == TypeOK /\ DefaultIsOwn /\ RunOK

-----------------------------------------------------------------------------
(* Lemmas about the principals the subcommands store.                      *)

\* The constants the proofs use: Cur is a directory and the keys 1 and 2
\* of Init exist.
LEMMA ConstFacts ==
    /\ Cur \in Dirs /\ MaxRuns \in Nat /\ MaxFaults \in Nat
    /\ MaxKeys \in Nat /\ 1 \in Keys /\ 2 \in Keys
    /\ NoKey \notin Keys /\ NoKey \notin Signers /\ Provider \in Signers
    /\ Keys \subseteq Signers
BY PrincipalDirsAssumption DEF MaxKeys, Keys, NoKey, Signers, Provider

\* A blessing for a key is never the absent blessing.
LEMMA BlessingNotNone ==
    ASSUME NEW b \in Blessing PROVE b # NoBless
BY ConstFacts DEF Blessing, NoBless

\* RemoveAll leaves an empty directory, which holds no blessing.
LEMMA EmptyOK == Empty \in DirT /\ OwnBlessings(Empty)
BY ConstFacts DEF Empty, DirT, OwnBlessings, NoBless, Sources

\* The key source createPersistentPrincipal picks is one of the four.
LEMMA KeySourceType ==
    ASSUME NEW kf PROVE KeySource(kf) \in Sources
BY DEF KeySource, Sources

\* Storing a principal that keeps its blessings to its own key, in one
\* directory, keeps every directory so.
LEMMA UpdateDir ==
    ASSUME NEW f \in [Dirs -> DirT], \A d \in Dirs : OwnBlessings(f[d]),
           NEW c \in Dirs, NEW p \in DirT, OwnBlessings(p)
    PROVE  /\ [f EXCEPT ![c] = p] \in [Dirs -> DirT]
           /\ \A d \in Dirs : OwnBlessings([f EXCEPT ![c] = p][d])
BY DEF OwnBlessings

\* IInv from its parts.
LEMMA Assemble ==
    ASSUME dirs' \in [Dirs -> DirT], \A d \in Dirs : OwnBlessings(dirs'[d]),
           run'.pc \in {"idle", "remove", "store", "bless", "ok", "err"},
           run'.with \in Blessing \cup {NoBless},
           nextKey' \in 3 .. MaxKeys + 1, runs' \in 0 .. MaxRuns,
           faults' \in 0 .. MaxFaults, RunOK'
    PROVE  IInv'
BY DEF IInv, TypeOK, DirT, DefaultIsOwn, OwnBlessings

\* The facts IInv gives, in the form the steps use.
LEMMA Unpack ==
    ASSUME IInv
    PROVE  /\ dirs \in [Dirs -> DirT] /\ \A d \in Dirs : OwnBlessings(dirs[d])
           /\ run.pc \in {"idle", "remove", "store", "bless", "ok", "err"}
           /\ run.with \in Blessing \cup {NoBless}
           /\ nextKey \in 3 .. MaxKeys + 1 /\ runs \in 0 .. MaxRuns
           /\ faults \in 0 .. MaxFaults /\ RunOK
BY DEF IInv, TypeOK, DirT, DefaultIsOwn, OwnBlessings

-----------------------------------------------------------------------------
(* The inductive invariant.                                                *)

LEMMA IInvInit == Init => IInv
<1> SUFFICES ASSUME Init PROVE IInv
  OBVIOUS
<1>1. PICK old \in [Dirs \ {Cur} -> BOOLEAN] :
         dirs = [d \in Dirs |->
                  IF d = Cur THEN SetDefaultBlessings([Empty EXCEPT !.key = 1, !.src = "new"],
                                                      [by |-> 1, for |-> 1])
                  ELSE IF old[d] THEN [Empty EXCEPT !.key = 2, !.src = "new"] ELSE Empty]
  BY DEF Init
<1>2. \A d \in Dirs : dirs[d] \in DirT /\ OwnBlessings(dirs[d])
  <2>1. SUFFICES ASSUME NEW d \in Dirs PROVE dirs[d] \in DirT /\ OwnBlessings(dirs[d])
    OBVIOUS
  <2>2. CASE d = Cur
    <3>1. dirs[d] = [key |-> 1, src |-> "new", def |-> [by |-> 1, for |-> 1],
                     peers |-> [by |-> 1, for |-> 1], roots |-> {1}]
      BY <1>1, <2>2 DEF SetDefaultBlessings, Empty
    <3>2. [by |-> 1, for |-> 1] \in Blessing
      BY ConstFacts DEF Blessing
    <3>3. QED
      BY <3>1, <3>2, ConstFacts DEF DirT, OwnBlessings, Sources
  <2>3. CASE d # Cur /\ old[d]
    <3>1. dirs[d] = [key |-> 2, src |-> "new", def |-> NoBless, peers |-> NoBless, roots |-> {}]
      BY <1>1, <2>3 DEF Empty
    <3>2. QED
      BY <3>1, ConstFacts DEF DirT, OwnBlessings, Sources
  <2>4. CASE d # Cur /\ ~old[d]
    BY <1>1, <2>4, EmptyOK
  <2>5. QED
    BY <2>2, <2>3, <2>4
<1>3. run = Idle /\ nextKey = 3 /\ runs = 0 /\ faults = 0
  BY DEF Init
<1>4. RunOK
  BY <1>3, ConstFacts DEF RunOK, Idle, Sources
<1>5. QED
  BY <1>1, <1>2, <1>3, <1>4, ConstFacts
     DEF IInv, TypeOK, DirT, DefaultIsOwn, OwnBlessings, Idle, NoBless, MaxKeys

\* Between invocations no key is waiting to be stored.
LEMMA IdleKeys ==
    ASSUME IInv, run.pc \in {"idle", "ok", "err"}
    PROVE  nextKey <= runs + 3
BY Unpack DEF RunOK

\* A step that starts an invocation: the directories stay as they are.
LEMMA StartKeeps ==
    ASSUME IInv, NEW cmd, NEW d \in Dirs, NEW ow, NEW ok, NEW r,
           StartRun(cmd, d, ow, ok, r), UNCHANGED <<dirs, nextKey, faults>>,
           r.pc \in {"remove", "store"}, r.with \in Blessing \cup {NoBless},
           r.dir \in Dirs, r.src \in Sources \cup {"none"},
           r.pc = "remove" => r.cmd = "create" /\ r.ow,
           r.cmd \in {"create", "fork"}
    PROVE  IInv'
<1>1. /\ dirs \in [Dirs -> DirT] /\ \A e \in Dirs : OwnBlessings(dirs[e])
      /\ nextKey \in 3 .. MaxKeys + 1 /\ faults \in 0 .. MaxFaults
      /\ runs \in 0 .. MaxRuns
  BY Unpack
<1>2. run.pc \in {"idle", "ok", "err"} /\ runs < MaxRuns /\ runs' = runs + 1
  BY DEF StartRun
<1>3. nextKey <= runs + 3
  BY <1>2, IdleKeys
<1>4. runs' \in 0 .. MaxRuns
  BY <1>1, <1>2, ConstFacts
<1>5. CASE ok
  <2>1. run' = r
    BY <1>5 DEF StartRun
  <2>2. RunOK'
    BY <1>1, <1>2, <1>3, <2>1 DEF RunOK
  <2>3. QED
    BY <1>1, <1>4, <2>1, <2>2, Assemble
<1>6. CASE ~ok
  <2>1. run' = [Idle EXCEPT !.cmd = cmd, !.dir = d, !.ow = ow, !.pc = "err", !.at = "input"]
    BY <1>6 DEF StartRun
  <2>2. run'.pc = "err" /\ run'.with = NoBless /\ run'.dir = d /\ run'.src = "none"
    BY <2>1 DEF Idle
  <2>3. RunOK'
    BY <1>1, <1>2, <1>3, <2>2 DEF RunOK
  <2>4. QED
    BY <1>1, <1>4, <2>2, <2>3, Assemble
<1>7. QED
  BY <1>5, <1>6

LEMMA CreateStartKeeps == IInv /\ CreateStart => IInv'
<1> SUFFICES ASSUME IInv, CreateStart PROVE IInv'
  OBVIOUS
<1>1. PICK d \in Dirs, kf \in KeyFlagSets, ask, ow, bl \in BOOLEAN :
      \E ok \in PrepareResults(kf, ask) :
       /\ StartRun("create", d, ow, ok,
                   [Idle EXCEPT !.cmd = "create", !.pc = IF ow THEN "remove" ELSE "store",
                                !.dir = d, !.ow = ow, !.bl = bl, !.src = KeySource(kf)])
       /\ UNCHANGED <<dirs, nextKey, faults>>
  BY DEF CreateStart
<1>2. PICK ok \in PrepareResults(kf, ask) :
       /\ StartRun("create", d, ow, ok,
                   [Idle EXCEPT !.cmd = "create", !.pc = IF ow THEN "remove" ELSE "store",
                                !.dir = d, !.ow = ow, !.bl = bl, !.src = KeySource(kf)])
       /\ UNCHANGED <<dirs, nextKey, faults>>
  BY <1>1
<1> DEFINE r == [Idle EXCEPT !.cmd = "create", !.pc = IF ow THEN "remove" ELSE "store",
                             !.dir = d, !.ow = ow, !.bl = bl, !.src = KeySource(kf)]
<1>3. KeySource(kf) \in Sources
  BY KeySourceType
<1>4. /\ r.pc \in {"remove", "store"} /\ r.with \in Blessing \cup {NoBless}
      /\ r.dir \in Dirs /\ r.src \in Sources \cup {"none"}
      /\ r.pc = "remove" => r.cmd = "create" /\ r.ow
      /\ r.cmd \in {"create", "fork"}
  BY <1>3 DEF Idle
<1>5. QED
  BY <1>2, <1>4, StartKeeps

LEMMA ForkStartKeeps == IInv /\ ForkStart => IInv'
<1> SUFFICES ASSUME IInv, ForkStart PROVE IInv'
  OBVIOUS
<1> DEFINE r(d, ow) == [Idle EXCEPT !.cmd = "fork", !.dir = d, !.ow = ow,
                                    !.pc = IF ForkCreateFlags.ow THEN "remove" ELSE "store",
                                    !.src = KeySource(ForkCreateFlags.kf),
                                    !.with = dirs[Cur].def]
<1>1. PICK d \in Dirs, ow, cavOK, withOK \in BOOLEAN :
      \E ok \in PrepareResults(ForkCreateFlags.kf, ForkCreateFlags.ask) :
       /\ StartRun("fork", d, ow, ok /\ cavOK /\ withOK, r(d, ow))
       /\ UNCHANGED <<dirs, nextKey, faults>>
  BY DEF ForkStart
<1>2. PICK ok \in PrepareResults(ForkCreateFlags.kf, ForkCreateFlags.ask) :
       /\ StartRun("fork", d, ow, ok /\ cavOK /\ withOK, r(d, ow))
       /\ UNCHANGED <<dirs, nextKey, faults>>
  BY <1>1
<1>3. KeySource(ForkCreateFlags.kf) \in Sources
  BY KeySourceType
<1>4. dirs[Cur].def \in Blessing \cup {NoBless}
  BY Unpack, ConstFacts DEF DirT
<1>5. /\ r(d, ow).pc \in {"remove", "store"} /\ r(d, ow).with \in Blessing \cup {NoBless}
      /\ r(d, ow).dir \in Dirs /\ r(d, ow).src \in Sources \cup {"none"}
      /\ r(d, ow).pc = "remove" => r(d, ow).cmd = "create" /\ r(d, ow).ow
      /\ r(d, ow).cmd \in {"create", "fork"}
  BY <1>3, <1>4 DEF Idle, ForkCreateFlags
<1>6. QED
  BY <1>2, <1>5, StartKeeps

\* A failed or killed step of create or fork: only run and faults change.
LEMMA FailKeeps ==
    ASSUME IInv, NEW at, Fail(at), Fault \/ UNCHANGED faults,
           UNCHANGED <<dirs, nextKey, runs>>,
           run.pc \in {"remove", "store", "bless"}
    PROVE  IInv'
<1>1. /\ dirs \in [Dirs -> DirT] /\ \A e \in Dirs : OwnBlessings(dirs[e])
      /\ nextKey \in 3 .. MaxKeys + 1 /\ runs \in 0 .. MaxRuns
      /\ faults \in 0 .. MaxFaults /\ run.with \in Blessing \cup {NoBless} /\ RunOK
  BY Unpack
<1>2. run' = [run EXCEPT !.pc = "err", !.at = at]
  BY DEF Fail
<1>3. run'.pc = "err" /\ run'.with = run.with /\ run'.dir = run.dir /\ run'.src = run.src
  BY <1>2
<1>4. faults' \in 0 .. MaxFaults
  BY <1>1, ConstFacts DEF Fault
<1>7. run'.cmd = run.cmd
  BY <1>2
<1>5. RunOK'
  BY <1>1, <1>3, <1>7 DEF RunOK
<1>6. QED
  BY <1>1, <1>3, <1>4, <1>5, Assemble

LEMMA KillKeeps == IInv /\ Kill => IInv'
BY FailKeeps DEF Kill

LEMMA RemoveStepKeeps == IInv /\ RemoveStep => IInv'
<1> SUFFICES ASSUME IInv, RemoveStep PROVE IInv'
  OBVIOUS
<1>1. /\ dirs \in [Dirs -> DirT] /\ \A e \in Dirs : OwnBlessings(dirs[e])
      /\ nextKey \in 3 .. MaxKeys + 1 /\ runs \in 0 .. MaxRuns
      /\ faults \in 0 .. MaxFaults /\ run.with \in Blessing \cup {NoBless} /\ RunOK
  BY Unpack
<1>2. run.pc = "remove" /\ UNCHANGED <<nextKey, runs>>
  BY DEF RemoveStep
<1>3. CASE dirs' = [dirs EXCEPT ![run.dir] = Empty]
          /\ run' = [run EXCEPT !.pc = "store"] /\ UNCHANGED faults
  <2>1. dirs' \in [Dirs -> DirT] /\ \A e \in Dirs : OwnBlessings(dirs'[e])
    BY <1>1, <1>3, EmptyOK, UpdateDir DEF RunOK
  <2>2. /\ run'.pc = "store" /\ run'.with = run.with /\ run'.dir = run.dir
        /\ run'.src = run.src /\ run'.cmd = run.cmd
    BY <1>3
  <2>3. RunOK'
    BY <1>1, <1>2, <2>2 DEF RunOK
  <2>4. QED
    BY <1>1, <1>2, <1>3, <2>1, <2>2, <2>3, Assemble
<1>4. CASE Fail("remove") /\ Fault /\ UNCHANGED dirs
  BY <1>2, <1>4, FailKeeps
<1>5. QED
  BY <1>3, <1>4 DEF RemoveStep

LEMMA StoreStepKeeps == IInv /\ StoreStep => IInv'
<1> SUFFICES ASSUME IInv, StoreStep PROVE IInv'
  OBVIOUS
<1>1. /\ dirs \in [Dirs -> DirT] /\ \A e \in Dirs : OwnBlessings(dirs[e])
      /\ nextKey \in 3 .. MaxKeys + 1 /\ runs \in 0 .. MaxRuns
      /\ faults \in 0 .. MaxFaults /\ run.with \in Blessing \cup {NoBless} /\ RunOK
  BY Unpack
<1>2. run.pc = "store" /\ UNCHANGED runs
  BY DEF StoreStep
<1>3. CASE HasPrincipal(run.dir) /\ Fail("exists") /\ UNCHANGED <<dirs, nextKey, faults>>
  BY <1>2, <1>3, FailKeeps
<1>4. CASE ~HasPrincipal(run.dir) /\ Fail("store") /\ Fault /\ UNCHANGED <<dirs, nextKey>>
  BY <1>2, <1>4, FailKeeps
<1>5. CASE /\ ~HasPrincipal(run.dir)
           /\ dirs' = [dirs EXCEPT ![run.dir] = [Empty EXCEPT !.key = nextKey, !.src = run.src]]
           /\ nextKey' = nextKey + 1
           /\ run' = [run EXCEPT !.key = nextKey,
                                 !.pc = IF run.cmd = "fork" \/ run.bl THEN "bless" ELSE "ok"]
           /\ UNCHANGED faults
  <2> DEFINE p == [Empty EXCEPT !.key = nextKey, !.src = run.src]
  <2>1. nextKey \in Keys /\ nextKey + 1 <= runs + 3
    BY <1>1, <1>2, ConstFacts DEF RunOK, MaxKeys, Keys
  <2>2. p \in DirT /\ OwnBlessings(p) /\ p.key = nextKey
    BY <1>1, <2>1, EmptyOK DEF Empty, DirT, OwnBlessings, RunOK
  <2>3. dirs' \in [Dirs -> DirT] /\ \A e \in Dirs : OwnBlessings(dirs'[e])
        /\ dirs'[run.dir].key = nextKey
    BY <1>1, <1>5, <2>2, UpdateDir DEF RunOK
  <2>4. /\ run'.pc \in {"bless", "ok"} /\ run'.key = nextKey /\ run'.with = run.with
        /\ run'.dir = run.dir /\ run'.src = run.src /\ run'.cmd = run.cmd
    BY <1>5
  <2>5. RunOK'
    BY <1>1, <1>2, <1>5, <2>1, <2>3, <2>4 DEF RunOK
  <2>6. nextKey' \in 3 .. MaxKeys + 1
    BY <1>1, <1>5, <2>1, ConstFacts DEF Keys
  <2>7. QED
    BY <1>1, <1>2, <1>5, <2>3, <2>4, <2>5, <2>6, Assemble
<1>6. QED
  BY <1>3, <1>4, <1>5 DEF StoreStep

\* The blessing create or fork gives the key it stored.
LEMMA NewBlessingType ==
    ASSUME run.cmd \in {"create", "fork"}, run.key \in Keys,
           run.with \in Blessing \cup {NoBless}, ~(run.cmd = "fork" /\ run.with = NoBless)
    PROVE  NewBlessing(run) \in Blessing /\ NewBlessing(run).for = run.key
<1>1. CASE run.cmd = "create"
  BY <1>1, ConstFacts DEF NewBlessing, Blessing
<1>2. CASE run.cmd = "fork"
  <2>1. run.with \in Blessing
    BY <1>2
  <2>2. QED
    BY <1>2, <2>1 DEF NewBlessing, Blessing
<1>3. QED
  BY <1>1, <1>2

\* SetDefaultBlessings with a blessing for the principal's own key.
LEMMA SetDefaultBlessingsOK ==
    ASSUME NEW p \in DirT, NEW b \in Blessing, b.for = p.key
    PROVE  SetDefaultBlessings(p, b) \in DirT /\ OwnBlessings(SetDefaultBlessings(p, b))
           /\ SetDefaultBlessings(p, b).key = p.key
BY DEF SetDefaultBlessings, DirT, OwnBlessings, Blessing

LEMMA BlessStepKeeps == IInv /\ BlessStep => IInv'
<1> SUFFICES ASSUME IInv, BlessStep PROVE IInv'
  OBVIOUS
<1>1. /\ dirs \in [Dirs -> DirT] /\ \A e \in Dirs : OwnBlessings(dirs[e])
      /\ nextKey \in 3 .. MaxKeys + 1 /\ runs \in 0 .. MaxRuns
      /\ faults \in 0 .. MaxFaults /\ run.with \in Blessing \cup {NoBless} /\ RunOK
  BY Unpack
<1>2. run.pc = "bless" /\ UNCHANGED <<nextKey, runs>>
  BY DEF BlessStep
<1>3. run.dir \in Dirs /\ run.key \in Keys /\ run.key = dirs[run.dir].key
      /\ run.cmd \in {"create", "fork"}
  BY <1>1, <1>2 DEF RunOK
<1>4. CASE run.cmd = "fork" /\ run.with = NoBless /\ Fail("bless") /\ UNCHANGED <<dirs, faults>>
  BY <1>2, <1>4, FailKeeps
<1>5. CASE ~(run.cmd = "fork" /\ run.with = NoBless) /\ Fail("bless") /\ Fault
           /\ UNCHANGED dirs
  BY <1>2, <1>5, FailKeeps
<1>6. CASE /\ ~(run.cmd = "fork" /\ run.with = NoBless)
           /\ dirs' = [dirs EXCEPT ![run.dir] = SetDefaultBlessings(@, NewBlessing(run))]
           /\ run' = [run EXCEPT !.pc = "ok"] /\ UNCHANGED faults
  <2> DEFINE p == SetDefaultBlessings(dirs[run.dir], NewBlessing(run))
  <2>1. NewBlessing(run) \in Blessing /\ NewBlessing(run).for = run.key
    BY <1>1, <1>3, <1>6, NewBlessingType
  <2>2. p \in DirT /\ OwnBlessings(p)
    BY <1>1, <1>3, <2>1, SetDefaultBlessingsOK
  <2>3. dirs' = [dirs EXCEPT ![run.dir] = p]
    BY <1>6
  <2>4. dirs' \in [Dirs -> DirT] /\ \A e \in Dirs : OwnBlessings(dirs'[e])
    BY <1>1, <1>3, <2>2, <2>3, UpdateDir
  <2>5. run'.pc = "ok" /\ run'.with = run.with /\ run'.dir = run.dir /\ run'.src = run.src
    BY <1>6
  <2>6. RunOK'
    BY <1>1, <1>2, <1>3, <2>5 DEF RunOK
  <2>7. QED
    BY <1>1, <1>2, <1>6, <2>4, <2>5, <2>6, Assemble
<1>7. QED
  BY <1>4, <1>5, <1>6 DEF BlessStep

\* An invocation of set, recognize or seekblessings: one step from the end
\* of the previous invocation to its own end, storing only well-formed
\* principals whose blessings are for their keys.
LEMMA OneStepCmdKeeps ==
    ASSUME IInv, run.pc \in {"idle", "ok", "err"}, runs < MaxRuns, runs' = runs + 1,
           UNCHANGED nextKey, faults' \in 0 .. MaxFaults,
           NEW cmd, NEW pc \in {"ok", "err"}, NEW at,
           run' = [Idle EXCEPT !.cmd = cmd, !.pc = pc, !.at = at]
                  \/ run' = [Idle EXCEPT !.cmd = cmd, !.pc = pc],
           dirs' \in [Dirs -> DirT], \A e \in Dirs : OwnBlessings(dirs'[e])
    PROVE  IInv'
<1>1. nextKey \in 3 .. MaxKeys + 1 /\ runs \in 0 .. MaxRuns /\ nextKey <= runs + 3
  BY Unpack, IdleKeys
<1>2. run'.pc = pc /\ run'.with = NoBless /\ run'.dir = Cur /\ run'.src = "none"
  BY DEF Idle
<1>3. RunOK'
  BY <1>1, <1>2, ConstFacts DEF RunOK
<1>4. runs' \in 0 .. MaxRuns
  BY <1>1, ConstFacts
<1>5. QED
  BY <1>1, <1>2, <1>3, <1>4, Assemble

\* Setting one blessing of a principal to a blessing for its key.
LEMMA SetFieldOK ==
    ASSUME NEW p \in DirT, OwnBlessings(p), NEW field \in {"def", "peers"},
           NEW b \in Blessing, b.for = p.key
    PROVE  /\ [p EXCEPT ![field] = b] \in DirT
           /\ OwnBlessings([p EXCEPT ![field] = b])
           /\ [[p EXCEPT ![field] = b] EXCEPT !.roots = @ \cup {b.by}] \in DirT
           /\ OwnBlessings([[p EXCEPT ![field] = b] EXCEPT !.roots = @ \cup {b.by}])
<1>1. CASE field = "def"
  BY <1>1 DEF DirT, OwnBlessings, Blessing
<1>2. CASE field = "peers"
  BY <1>2 DEF DirT, OwnBlessings, Blessing
<1>3. QED
  BY <1>1, <1>2

LEMMA SetCmdKeeps ==
    ASSUME IInv, NEW cmd, NEW field \in {"def", "peers"}, SetCmd(cmd, field)
    PROVE  IInv'
<1>1. /\ dirs \in [Dirs -> DirT] /\ \A e \in Dirs : OwnBlessings(dirs[e])
      /\ faults \in 0 .. MaxFaults
  BY Unpack
<1>2. run.pc \in {"idle", "ok", "err"} /\ runs < MaxRuns /\ runs' = runs + 1
      /\ UNCHANGED nextKey
  BY DEF SetCmd
<1>3. PICK b \in [by : {Provider}, for : Keys], decoded, addRoots \in BOOLEAN :
       LET set == [dirs[Cur] EXCEPT ![field] = b] IN
       \/ /\ ~(decoded /\ HasPrincipal(Cur) /\ StoreAccepts(b))
          /\ run' = [Idle EXCEPT !.cmd = cmd, !.pc = "err", !.at = "input"]
          /\ UNCHANGED <<dirs, faults>>
       \/ /\ decoded /\ HasPrincipal(Cur) /\ StoreAccepts(b)
          /\ \/ dirs' = [dirs EXCEPT ![Cur] = IF addRoots THEN [set EXCEPT !.roots = @ \cup {b.by}]
                                                         ELSE set]
                /\ run' = [Idle EXCEPT !.cmd = cmd, !.pc = "ok"] /\ UNCHANGED faults
             \/ addRoots /\ dirs' = [dirs EXCEPT ![Cur] = set] /\ Fault
                /\ run' = [Idle EXCEPT !.cmd = cmd, !.pc = "err", !.at = "roots"]
  BY DEF SetCmd
<1> DEFINE set == [dirs[Cur] EXCEPT ![field] = b]
           setR == [set EXCEPT !.roots = @ \cup {b.by}]
<1>4. b \in Blessing
  BY ConstFacts DEF Blessing
<1>5. CASE ~(decoded /\ HasPrincipal(Cur) /\ StoreAccepts(b))
  <2>1. run' = [Idle EXCEPT !.cmd = cmd, !.pc = "err", !.at = "input"]
        /\ UNCHANGED <<dirs, faults>>
    BY <1>3, <1>5
  <2>2. QED
    BY <1>1, <1>2, <2>1, OneStepCmdKeeps
<1>6. CASE decoded /\ HasPrincipal(Cur) /\ StoreAccepts(b)
  <2>1. set \in DirT /\ OwnBlessings(set) /\ setR \in DirT /\ OwnBlessings(setR)
    BY <1>1, <1>4, <1>6, ConstFacts, SetFieldOK DEF StoreAccepts
  <2>2. CASE dirs' = [dirs EXCEPT ![Cur] = IF addRoots THEN setR ELSE set]
             /\ run' = [Idle EXCEPT !.cmd = cmd, !.pc = "ok"] /\ UNCHANGED faults
    <3>1. (IF addRoots THEN setR ELSE set) \in DirT
          /\ OwnBlessings(IF addRoots THEN setR ELSE set)
      BY <2>1
    <3>2. dirs' \in [Dirs -> DirT] /\ \A e \in Dirs : OwnBlessings(dirs'[e])
      BY <1>1, <2>2, <3>1, ConstFacts, UpdateDir
    <3>3. QED
      BY <1>1, <1>2, <2>2, <3>2, OneStepCmdKeeps
  <2>3. CASE addRoots /\ dirs' = [dirs EXCEPT ![Cur] = set] /\ Fault
             /\ run' = [Idle EXCEPT !.cmd = cmd, !.pc = "err", !.at = "roots"]
    <3>1. dirs' \in [Dirs -> DirT] /\ \A e \in Dirs : OwnBlessings(dirs'[e])
      BY <1>1, <2>1, <2>3, ConstFacts, UpdateDir
    <3>2. faults' \in 0 .. MaxFaults
      BY <1>1, <2>3, ConstFacts DEF Fault
    <3>3. QED
      BY <1>2, <2>3, <3>1, <3>2, OneStepCmdKeeps
  <2>4. QED
    BY <1>3, <1>6, <2>2, <2>3
<1>7. QED
  BY <1>5, <1>6

LEMMA RecognizeKeeps == IInv /\ RecognizeCmd => IInv'
<1> SUFFICES ASSUME IInv, RecognizeCmd PROVE IInv'
  OBVIOUS
<1>1. /\ dirs \in [Dirs -> DirT] /\ \A e \in Dirs : OwnBlessings(dirs[e])
      /\ faults \in 0 .. MaxFaults
  BY Unpack
<1>2. run.pc \in {"idle", "ok", "err"} /\ runs < MaxRuns /\ runs' = runs + 1
      /\ UNCHANGED <<nextKey, faults>>
  BY DEF RecognizeCmd
<1>3. PICK k \in Signers, decoded \in BOOLEAN :
       \/ /\ decoded /\ HasPrincipal(Cur)
          /\ dirs' = [dirs EXCEPT ![Cur].roots = @ \cup {k}]
          /\ run' = [Idle EXCEPT !.cmd = "recognize", !.pc = "ok"]
       \/ /\ ~(decoded /\ HasPrincipal(Cur))
          /\ run' = [Idle EXCEPT !.cmd = "recognize", !.pc = "err", !.at = "input"]
          /\ UNCHANGED dirs
  BY DEF RecognizeCmd
<1>4. CASE dirs' = [dirs EXCEPT ![Cur].roots = @ \cup {k}]
           /\ run' = [Idle EXCEPT !.cmd = "recognize", !.pc = "ok"]
  <2> DEFINE p == [dirs[Cur] EXCEPT !.roots = @ \cup {k}]
  <2>1. p \in DirT /\ OwnBlessings(p)
    BY <1>1, ConstFacts DEF DirT, OwnBlessings
  <2>2. dirs' = [dirs EXCEPT ![Cur] = p]
    BY <1>4
  <2>3. dirs' \in [Dirs -> DirT] /\ \A e \in Dirs : OwnBlessings(dirs'[e])
    BY <1>1, <2>1, <2>2, ConstFacts, UpdateDir
  <2>4. QED
    BY <1>1, <1>2, <1>4, <2>3, OneStepCmdKeeps
<1>5. CASE run' = [Idle EXCEPT !.cmd = "recognize", !.pc = "err", !.at = "input"]
           /\ UNCHANGED dirs
  BY <1>1, <1>2, <1>5, OneStepCmdKeeps
<1>6. QED
  BY <1>3, <1>4, <1>5

LEMMA SeekBlessingsKeeps == IInv /\ SeekBlessingsCmd => IInv'
<1> SUFFICES ASSUME IInv, SeekBlessingsCmd PROVE IInv'
  OBVIOUS
<1>1. /\ dirs \in [Dirs -> DirT] /\ \A e \in Dirs : OwnBlessings(dirs[e])
      /\ faults \in 0 .. MaxFaults
  BY Unpack
<1>2. run.pc \in {"idle", "ok", "err"} /\ runs < MaxRuns /\ runs' = runs + 1
      /\ UNCHANGED nextKey /\ HasPrincipal(Cur)
  BY DEF SeekBlessingsCmd
<1>3. PICK sd, fp, ar \in BOOLEAN, stop \in 0 .. 3 :
       LET b    == [by |-> Provider, for |-> dirs[Cur].key]
           p    == dirs[Cur]
           p1   == IF sd /\ stop # 1 THEN [p EXCEPT !.def = b] ELSE p
           p2   == IF fp /\ stop \notin {1, 2} THEN [p1 EXCEPT !.peers = b] ELSE p1
           p3   == IF ar /\ stop = 0 THEN [p2 EXCEPT !.roots = @ \cup {b.by}] ELSE p2
       IN  \/ stop = 0 /\ dirs' = [dirs EXCEPT ![Cur] = p3]
              /\ run' = [Idle EXCEPT !.cmd = "seek", !.pc = "ok"] /\ UNCHANGED faults
           \/ /\ stop > 0 /\ Fault
              /\ (stop = 1 => sd) /\ (stop = 2 => fp) /\ (stop = 3 => ar)
              /\ dirs' = [dirs EXCEPT ![Cur] = p3]
              /\ run' = [Idle EXCEPT !.cmd = "seek", !.pc = "err", !.at = "store"]
  BY DEF SeekBlessingsCmd
<1> DEFINE b    == [by |-> Provider, for |-> dirs[Cur].key]
           p    == dirs[Cur]
           p1   == IF sd /\ stop # 1 THEN [p EXCEPT !.def = b] ELSE p
           p2   == IF fp /\ stop \notin {1, 2} THEN [p1 EXCEPT !.peers = b] ELSE p1
           p3   == IF ar /\ stop = 0 THEN [p2 EXCEPT !.roots = @ \cup {b.by}] ELSE p2
<1>4. p \in DirT /\ OwnBlessings(p) /\ b \in Blessing /\ b.for = p.key
  BY <1>1, <1>2, ConstFacts DEF HasPrincipal, DirT, Blessing
<1>5. p1 \in DirT /\ OwnBlessings(p1) /\ p1.key = p.key
  BY <1>4 DEF DirT, OwnBlessings
<1>6. p2 \in DirT /\ OwnBlessings(p2) /\ p2.key = p.key
  BY <1>4, <1>5 DEF DirT, OwnBlessings
<1>7. p3 \in DirT /\ OwnBlessings(p3)
  BY <1>4, <1>6, ConstFacts DEF DirT, OwnBlessings, Blessing
<1>8. dirs' = [dirs EXCEPT ![Cur] = p3]
      /\ \/ run' = [Idle EXCEPT !.cmd = "seek", !.pc = "ok"] /\ UNCHANGED faults
         \/ run' = [Idle EXCEPT !.cmd = "seek", !.pc = "err", !.at = "store"] /\ Fault
  BY <1>3
<1>9. dirs' \in [Dirs -> DirT] /\ \A e \in Dirs : OwnBlessings(dirs'[e])
  BY <1>1, <1>7, <1>8, ConstFacts, UpdateDir
<1>10. faults' \in 0 .. MaxFaults
  BY <1>1, <1>8, ConstFacts DEF Fault
<1>11. QED
  BY <1>2, <1>8, <1>9, <1>10, OneStepCmdKeeps

LEMMA IInvStep == IInv /\ [Next]_vars => IInv'
<1> SUFFICES ASSUME IInv, [Next]_vars PROVE IInv'
  OBVIOUS
<1>1. CASE SetDefaultCmd
  BY <1>1, SetCmdKeeps DEF SetDefaultCmd
<1>2. CASE SetForPeerCmd
  BY <1>2, SetCmdKeeps DEF SetForPeerCmd
<1>3. CASE Done \/ UNCHANGED vars
  BY <1>3 DEF Done, vars, IInv, TypeOK, DefaultIsOwn, OwnBlessings, RunOK
<1>4. QED
  BY <1>1, <1>2, <1>3, CreateStartKeeps, ForkStartKeeps, RemoveStepKeeps, StoreStepKeeps,
     BlessStepKeeps, KillKeeps, RecognizeKeeps, SeekBlessingsKeeps DEF Next

-----------------------------------------------------------------------------
(* Only a run given --overwrite destroys a principal.                     *)

\* The step predicate of OnlyOverwriteDestroys.
Destroys ==
    \A d \in Dirs : dirs[d].key # NoKey /\ dirs'[d].key # dirs[d].key
                    => run.cmd \in {"create", "fork"} /\ run.ow

\* A write of one directory that keeps its key destroys nothing.
LEMMA SameKey ==
    ASSUME dirs \in [Dirs -> DirT], NEW c \in Dirs, NEW q, q.key = dirs[c].key,
           dirs' = [dirs EXCEPT ![c] = q]
    PROVE  Destroys
BY DEF Destroys

LEMMA SetCmdDestroysNothing ==
    ASSUME IInv, NEW cmd, NEW field \in {"def", "peers"}, SetCmd(cmd, field)
    PROVE  Destroys
<1>1. dirs \in [Dirs -> DirT]
  BY Unpack
<1>2. PICK b \in [by : {Provider}, for : Keys], decoded, addRoots \in BOOLEAN :
       LET set == [dirs[Cur] EXCEPT ![field] = b] IN
       \/ UNCHANGED dirs
       \/ dirs' = [dirs EXCEPT ![Cur] = IF addRoots THEN [set EXCEPT !.roots = @ \cup {b.by}]
                                                  ELSE set]
       \/ dirs' = [dirs EXCEPT ![Cur] = set]
  BY DEF SetCmd
<1> DEFINE set == [dirs[Cur] EXCEPT ![field] = b]
<1>3. set.key = dirs[Cur].key /\ [set EXCEPT !.roots = @ \cup {b.by}].key = dirs[Cur].key
  BY <1>1, ConstFacts DEF DirT
<1>4. CASE UNCHANGED dirs
  BY <1>4 DEF Destroys
<1>5. QED
  BY <1>1, <1>2, <1>3, <1>4, ConstFacts, SameKey

LEMMA RecognizeDestroysNothing ==
    ASSUME IInv, RecognizeCmd PROVE Destroys
<1>1. dirs \in [Dirs -> DirT]
  BY Unpack
<1>2. PICK k \in Signers :
         \/ dirs' = [dirs EXCEPT ![Cur] = [dirs[Cur] EXCEPT !.roots = @ \cup {k}]]
         \/ UNCHANGED dirs
  BY <1>1, ConstFacts DEF RecognizeCmd
<1>3. [dirs[Cur] EXCEPT !.roots = @ \cup {k}].key = dirs[Cur].key
  BY <1>1, ConstFacts DEF DirT
<1>4. CASE UNCHANGED dirs
  BY <1>4 DEF Destroys
<1>5. QED
  BY <1>1, <1>2, <1>3, <1>4, ConstFacts, SameKey

LEMMA SeekDestroysNothing ==
    ASSUME IInv, SeekBlessingsCmd PROVE Destroys
<1>1. dirs \in [Dirs -> DirT]
  BY Unpack
<1>2. PICK sd, fp, ar \in BOOLEAN, stop \in 0 .. 3 :
       LET b    == [by |-> Provider, for |-> dirs[Cur].key]
           p    == dirs[Cur]
           p1   == IF sd /\ stop # 1 THEN [p EXCEPT !.def = b] ELSE p
           p2   == IF fp /\ stop \notin {1, 2} THEN [p1 EXCEPT !.peers = b] ELSE p1
           p3   == IF ar /\ stop = 0 THEN [p2 EXCEPT !.roots = @ \cup {b.by}] ELSE p2
       IN  dirs' = [dirs EXCEPT ![Cur] = p3]
  BY DEF SeekBlessingsCmd
<1> DEFINE b    == [by |-> Provider, for |-> dirs[Cur].key]
           p    == dirs[Cur]
           p1   == IF sd /\ stop # 1 THEN [p EXCEPT !.def = b] ELSE p
           p2   == IF fp /\ stop \notin {1, 2} THEN [p1 EXCEPT !.peers = b] ELSE p1
           p3   == IF ar /\ stop = 0 THEN [p2 EXCEPT !.roots = @ \cup {b.by}] ELSE p2
<1>3. p3.key = p.key
  BY <1>1, ConstFacts DEF DirT
<1>4. QED
  BY <1>1, <1>2, <1>3, ConstFacts, SameKey

\* The writes of create and fork: RemoveAll only under create --overwrite,
\* a new principal only into a directory without one, and the blessing
\* into the principal just stored.
LEMMA CreateForkDestroyOnlyWithOverwrite ==
    ASSUME IInv, RemoveStep \/ StoreStep \/ BlessStep PROVE Destroys
<1>1. dirs \in [Dirs -> DirT] /\ RunOK
  BY Unpack
<1>2. CASE RemoveStep
  BY <1>1, <1>2 DEF RemoveStep, RunOK, Destroys
<1>3. CASE StoreStep
  <2>1. CASE UNCHANGED dirs
    BY <2>1 DEF Destroys
  <2>2. CASE ~HasPrincipal(run.dir)
             /\ dirs' = [dirs EXCEPT ![run.dir] = [Empty EXCEPT !.key = nextKey, !.src = run.src]]
    BY <1>1, <2>2 DEF HasPrincipal, Destroys
  <2>3. QED
    BY <1>3, <2>1, <2>2 DEF StoreStep
<1>4. CASE BlessStep
  <2>1. CASE UNCHANGED dirs
    BY <2>1 DEF Destroys
  <2>2. CASE dirs' = [dirs EXCEPT ![run.dir] = SetDefaultBlessings(dirs[run.dir], NewBlessing(run))]
          /\ run.pc = "bless"
    <3>1. run.dir \in Dirs
      BY <1>1 DEF RunOK
    <3>2. SetDefaultBlessings(dirs[run.dir], NewBlessing(run)).key = dirs[run.dir].key
      BY <1>1, <3>1 DEF SetDefaultBlessings, DirT
    <3>3. QED
      BY <1>1, <2>2, <3>1, <3>2, SameKey
  <2>3. QED
    BY <1>4, <2>1, <2>2 DEF BlessStep
<1>5. QED
  BY <1>2, <1>3, <1>4

LEMMA DestroyStep == IInv /\ [Next]_vars => [Destroys]_vars
<1> SUFFICES ASSUME IInv, [Next]_vars PROVE [Destroys]_vars
  OBVIOUS
<1>1. CASE CreateStart \/ ForkStart \/ Kill \/ Done \/ UNCHANGED vars
  BY <1>1 DEF CreateStart, ForkStart, Kill, Done, vars, Destroys
<1>2. CASE SetDefaultCmd \/ SetForPeerCmd
  BY <1>2, SetCmdDestroysNothing DEF SetDefaultCmd, SetForPeerCmd
<1>3. QED
  BY <1>1, <1>2, CreateForkDestroyOnlyWithOverwrite, RecognizeDestroysNothing,
     SeekDestroysNothing DEF Next

-----------------------------------------------------------------------------
(* Theorems.                                                               *)

\* Every reachable state is well typed, whatever the invocations, failures
\* and kills.
THEOREM TypeCorrect == Spec => []TypeOK
<1>1. IInv => TypeOK
  BY DEF IInv
<1>2. QED
  BY <1>1, IInvInit, IInvStep, PTL DEF Spec

\* Whatever sequence of create, fork, set default, set forpeer, recognize
\* and seekblessings invocations, failed writes and kills, the default and
\* peer blessings of every directory are for that directory's key: fork
\* blesses the key it has just stored, and the blessing store refuses
\* blessings for another key.
THEOREM DefaultIsOwnHolds == Spec => []DefaultIsOwn
<1>1. IInv => DefaultIsOwn
  BY DEF IInv
<1>2. QED
  BY <1>1, IInvInit, IInvStep, PTL DEF Spec

\* A step that removes or replaces a stored principal is a step of a
\* create or fork invocation given --overwrite (createPrincipalOpts'
\* RemoveAll): set, recognize and seekblessings, and create or fork
\* without --overwrite, never destroy one, even after a kill between two
\* writes.
THEOREM OnlyOverwriteDestroysHolds == Spec => OnlyOverwriteDestroys
<1>1. SUFFICES Spec => [][Destroys]_vars
  BY DEF OnlyOverwriteDestroys, Destroys
<1>2. Spec => []IInv
  BY IInvInit, IInvStep, PTL DEF Spec
<1>3. QED
  BY <1>2, DestroyStep, PTL DEF Spec

=============================================================================
