---------------------------- MODULE DeployProofs -----------------------------
(***************************************************************************)
(* The deploys of any number of requests, runtime tools, restarts and aged *)
(* locks.  The lock has one holder as long as no acquirer unlinks a lock   *)
(* of the running process, and the deploys use it as DeployLock says.  One *)
(* at a time, the requests keep a whole tree through an interrupted swap   *)
(* and answer the truth; and runtimes are single unless started in a hurry.*)
(***************************************************************************)
EXTENDS Deploy, TLAPS

\* What the file says of a holder: it is being written by the request that
\* created it, or it names the running process.
HolderWrote ==
    stolen = 0 =>
        \A d \in Holding :
            /\ lock.by = d
            /\ lock.kind = IF pc[d] = "stamp" THEN "empty" ELSE "held"
            /\ lock.kind = "held" => lock.proc = proc

\* A round that was begun was one of the two.
TwoRounds ==
    \A d \in Deployers : pc[d] \in {"create", "stamp", "recheck", "break"} => tries[d] < 2

LockInv == LockTypeOK /\ TwoRounds /\ HolderWrote

LEMMA InitLockInv == LockInit => LockInv
BY LockAssumption DEF LockInit, LockInv, LockTypeOK, TwoRounds, HolderWrote, Holding,
   NoFile, Files, Pcs, Kinds

USE DEF Kinds, Pcs, Files, NoFile, Goes, Ended

------------------------------------------------------------------------------
(* Types.                                                                  *)

LEMMA EpochType == LockTypeOK => EpochOf \in Nat
BY DEF LockTypeOK, EpochOf, Parsed

LEMMA LargerType == \A a, b \in Nat : Larger(a, b) \in Nat
BY DEF Larger

LEMMA NoFileType == NoFile \in Files
OBVIOUS

LEMMA StepTypes ==
    ASSUME LockTypeOK, TwoRounds, NEW d \in Deployers, LockStep(d)
    PROVE  LockTypeOK'
<1>1. CASE Request(d)
  BY <1>1 DEF LockTypeOK, Request
<1>2. CASE Refused(d)
  BY <1>2 DEF LockTypeOK, Refused
<1>3. CASE Look(d)
  BY <1>3, EpochType, LargerType DEF LockTypeOK, Look
<1>4. CASE Create(d)
  <2>1. CASE lock' = [NoFile EXCEPT !.kind = "empty", !.by = d]
    <3>1. lock' = [kind |-> "empty", by |-> d, proc |-> 0, epoch |-> 0, aged |-> "fresh"]
      BY <2>1
    <3>2. lock' \in Files
      BY <3>1
    <3> QED
      BY <1>4, <3>2 DEF LockTypeOK, Create
  <2>2. CASE lock' = lock
    BY <1>4, <2>2 DEF LockTypeOK, Create
  <2> QED
    BY <1>4, <2>1, <2>2 DEF Create
<1>5. CASE Stamp(d)
  <2>1. prev[d] + 1 \in Nat
    BY DEF LockTypeOK
  <2>2. lock' \in Files
    BY <1>5, <2>1 DEF LockTypeOK, Stamp
  <2> QED
    BY <1>5, <2>1, <2>2 DEF LockTypeOK, Stamp
<1>6. CASE Recheck(d)
  BY <1>6, EpochType, LargerType DEF LockTypeOK, Recheck
<1>7. CASE BreakLock(d)
  <2>1. tries[d] + 1 \in 0 .. 2
    BY <1>7 DEF LockTypeOK, TwoRounds, BreakLock
  <2>2. stolen' \in 0 .. 1
    BY <1>7 DEF LockTypeOK, BreakLock
  <2> QED
    BY <1>7, <2>1, <2>2, NoFileType DEF LockTypeOK, BreakLock
<1>8. CASE BreakFails(d)
  BY <1>8 DEF LockTypeOK, BreakFails
<1>9. CASE Enter(d)
  BY <1>9 DEF LockTypeOK, Enter
<1>10. CASE Leave(d)
  BY <1>10 DEF LockTypeOK, Leave
<1>11. CASE Release(d)
  BY <1>11 DEF LockTypeOK, Release
<1>12. CASE Unlink(d)
  BY <1>12, NoFileType DEF LockTypeOK, Unlink
<1> QED
  BY <1>1, <1>2, <1>3, <1>4, <1>5, <1>6, <1>7, <1>8, <1>9, <1>10, <1>11, <1>12 DEF LockStep

LEMMA WorldTypes == LockTypeOK /\ (Age \/ LockRestart) => LockTypeOK'
<1>1. ASSUME LockTypeOK, Age PROVE LockTypeOK'
  <2>1. lock' \in Files
    BY <1>1 DEF LockTypeOK, Age
  <2> QED
    BY <1>1, <2>1 DEF LockTypeOK, Age
<1>2. ASSUME LockTypeOK, LockRestart PROVE LockTypeOK'
  BY <1>2 DEF LockTypeOK, LockRestart
<1> QED
  BY <1>1, <1>2

LEMMA StepRounds ==
    ASSUME LockTypeOK, TwoRounds, NEW d \in Deployers, LockStep(d)
    PROVE  TwoRounds'
BY DEF LockTypeOK, TwoRounds, LockStep, Request, Refused, Look, Create, Stamp, Recheck,
   BreakLock, BreakFails, Enter, Leave, Release, Unlink

------------------------------------------------------------------------------
(* One holder.                                                             *)

\* Steps that leave the file alone, and let nobody in.
LEMMA QuietStep ==
    ASSUME LockTypeOK, HolderWrote, NEW d \in Deployers,
           \/ Request(d) \/ Refused(d) \/ Look(d) \/ Recheck(d) \/ BreakFails(d)
           \/ Enter(d) \/ Leave(d) \/ Release(d)
    PROVE  HolderWrote'
<1>1. lock' = lock /\ proc' = proc /\ stolen' = stolen
  BY DEF Request, Refused, Look, Recheck, BreakFails, Enter, Leave, Release
<1>2. \A e \in Holding' : e \in Holding /\ (pc'[e] = "stamp" <=> pc[e] = "stamp")
  BY DEF LockTypeOK, Holding, Request, Refused, Look, Recheck, BreakFails, Enter, Leave,
     Release
<1> QED
  BY <1>1, <1>2 DEF HolderWrote

\* A file that is not there has no holder, and one that names a process that is
\* gone, or that cannot be parsed though nobody writes it, has none either.
LEMMA NoHolderOf ==
    ASSUME LockTypeOK, HolderWrote, stolen = 0,
           \/ lock.kind = "absent"
           \/ lock.kind = "held" /\ lock.proc # proc
           \/ lock.kind = "empty" /\ ~BeingWritten
    PROVE  Holding = {}
<1> SUFFICES ASSUME NEW e \in Holding PROVE FALSE
  OBVIOUS
<1>1. e \in Deployers
  BY DEF Holding
<1>2. lock.kind = (IF pc[e] = "stamp" THEN "empty" ELSE "held")
      /\ (lock.kind = "held" => lock.proc = proc)
  BY DEF HolderWrote
<1> QED
  BY <1>1, <1>2 DEF BeingWritten

LEMMA CreateKeeps ==
    ASSUME LockTypeOK, HolderWrote, NEW d \in Deployers, Create(d)
    PROVE  HolderWrote'
<1> SUFFICES ASSUME stolen' = 0, NEW e \in Holding'
             PROVE  /\ lock'.by = e
                    /\ lock'.kind = IF pc'[e] = "stamp" THEN "empty" ELSE "held"
                    /\ lock'.kind = "held" => lock'.proc = proc'
  BY DEF HolderWrote
<1>1. stolen = 0 /\ proc' = proc
  BY DEF Create
<1>2. CASE lock.kind = "absent"
  <2>1. Holding = {}
    BY <1>1, <1>2, NoHolderOf
  <2>2. e = d
    BY <2>1 DEF LockTypeOK, Holding, Create
  <2>3. lock'.kind = "empty" /\ lock'.by = d /\ pc'[d] = "stamp"
    BY <1>2 DEF LockTypeOK, Create
  <2> QED
    BY <2>2, <2>3
<1>3. CASE lock.kind # "absent"
  <2>1. lock' = lock /\ e \in Holding /\ pc'[e] = pc[e]
    BY <1>3 DEF LockTypeOK, Holding, Create
  <2> QED
    BY <1>1, <2>1 DEF HolderWrote
<1> QED
  BY <1>2, <1>3

LEMMA StampKeeps ==
    ASSUME LockTypeOK, HolderWrote, NEW d \in Deployers, Stamp(d)
    PROVE  HolderWrote'
<1> SUFFICES ASSUME stolen' = 0, NEW e \in Holding'
             PROVE  /\ lock'.by = e
                    /\ lock'.kind = IF pc'[e] = "stamp" THEN "empty" ELSE "held"
                    /\ lock'.kind = "held" => lock'.proc = proc'
  BY DEF HolderWrote
<1>1. stolen = 0 /\ proc' = proc /\ pc[d] = "stamp"
  BY DEF Stamp
<1>2. d \in Holding /\ e \in Holding
  BY DEF LockTypeOK, Holding, Stamp
<1>3. lock.by = d /\ e = d
  BY <1>1, <1>2 DEF HolderWrote
<1>4. lock'.by = d /\ lock'.kind = "held" /\ lock'.proc = proc /\ pc'[d] = "inside"
  BY <1>3 DEF LockTypeOK, Stamp
<1> QED
  BY <1>1, <1>3, <1>4

LEMMA BreakKeeps ==
    ASSUME LockTypeOK, HolderWrote, NEW d \in Deployers, BreakLock(d)
    PROVE  HolderWrote'
<1> SUFFICES ASSUME stolen' = 0 PROVE Holding' = {}
  BY DEF HolderWrote
<1>1. stolen = 0 /\ ~(lock.kind = "held" /\ lock.proc = proc) /\ ~BeingWritten
  BY DEF LockTypeOK, BreakLock, Parsed
<1>2. lock.kind \in {"absent", "empty", "held"}
  BY DEF LockTypeOK
<1>3. Holding = {}
  BY <1>1, <1>2, NoHolderOf
<1> QED
  BY <1>3 DEF LockTypeOK, Holding, BreakLock

LEMMA UnlinkKeeps ==
    ASSUME LockTypeOK, HolderWrote, NEW d \in Deployers, Unlink(d)
    PROVE  HolderWrote'
<1> SUFFICES ASSUME stolen' = 0 PROVE Holding' = {}
  BY DEF HolderWrote
<1>1. stolen = 0 /\ d \in Holding
  BY DEF Unlink, Holding
<1>2. \A e \in Holding : e = d
  BY <1>1 DEF HolderWrote
<1> QED
  BY <1>2 DEF LockTypeOK, Holding, Unlink

LEMMA WorldKeeps == LockTypeOK /\ HolderWrote /\ (Age \/ LockRestart) => HolderWrote'
<1>1. ASSUME LockTypeOK, HolderWrote, Age PROVE HolderWrote'
  <2>1. lock'.by = lock.by /\ lock'.kind = lock.kind /\ lock'.proc = lock.proc
    BY <1>1 DEF LockTypeOK, Age
  <2>2. Holding' = Holding /\ pc' = pc /\ proc' = proc /\ stolen' = stolen
    BY <1>1 DEF Age, Holding
  <2> QED
    BY <1>1, <2>1, <2>2 DEF HolderWrote
<1>2. ASSUME LockTypeOK, HolderWrote, LockRestart PROVE HolderWrote'
  <2>1. Holding' = {}
    BY <1>2 DEF LockRestart, Holding
  <2> QED
    BY <2>1 DEF HolderWrote
<1> QED
  BY <1>1, <1>2

LEMMA LockInductive == LockInv /\ [LockNext]_lockVars => LockInv'
<1>1. ASSUME LockInv, NEW d \in Deployers, LockStep(d) PROVE LockInv'
  <2>1. LockTypeOK /\ TwoRounds /\ HolderWrote
    BY <1>1 DEF LockInv
  <2>2. LockTypeOK' /\ TwoRounds'
    BY <1>1, <2>1, StepTypes, StepRounds
  <2>3. HolderWrote'
    BY <1>1, <2>1, QuietStep, CreateKeeps, StampKeeps, BreakKeeps, UnlinkKeeps
       DEF LockStep
  <2> QED
    BY <2>2, <2>3 DEF LockInv
<1>2. ASSUME LockInv, Age \/ LockRestart PROVE LockInv'
  <2>1. TwoRounds'
    BY <1>2 DEF LockInv, TwoRounds, Age, LockRestart
  <2> QED
    BY <1>2, <2>1, WorldTypes, WorldKeeps DEF LockInv
<1>3. ASSUME LockInv, UNCHANGED lockVars PROVE LockInv'
  BY <1>3 DEF LockInv, LockTypeOK, TwoRounds, HolderWrote, Holding, lockVars
<1> QED
  BY <1>1, <1>2, <1>3 DEF LockNext

------------------------------------------------------------------------------
(* The theorems.                                                           *)

\* For any number of requests, of process deaths and of locks that outlive their
\* time: as long as no acquirer has unlinked a lock of the running process, the
\* lock file was written by every request that holds the lock, so there is one.
THEOREM LockHasOneHolder == LockSpec => []OneHolder
<1>1. LockInv => OneHolder
  BY DEF LockInv, HolderWrote, OneHolder
<1> QED
  BY <1>1, InitLockInv, LockInductive, PTL DEF LockSpec

LEMMA StepsOfTheLock == [Next]_vars => [LockNext]_lockVars
<1>1. ASSUME NEW d \in Deployers, Begin(d) \/ Step(d)
      PROVE  LockStep(d) \/ UNCHANGED lockVars
  BY <1>1 DEF LockStep, Begin, Step, LockRefuses, Acquiring, Acquired, Edit, EditFails,
     StudioExports, StudioExits, StudioFails, Evicted, StopRuntime, LauncherFails,
     SwapBegins, MoveAside, MoveAsideFails, Place, PlaceFails, DropBackup,
     StartRuntime, Verify, Releasing, At, Quits
<1>2. LockAges => Age
  BY DEF LockAges
<1>3. Restart => LockRestart
  BY DEF Restart
<1>4. UNCHANGED vars => UNCHANGED lockVars
  BY DEF vars
<1>5. ASSUME NEW s \in Starters, ToolStep(s) PROVE UNCHANGED lockVars
  BY <1>5 DEF ToolStep, StartTool, Probe, Spawn, Waited, StopTool, Call, Tool
<1>6. Binds \/ RuntimeEnds => UNCHANGED lockVars
  BY DEF Binds, RuntimeEnds
<1> QED
  BY <1>1, <1>2, <1>3, <1>4, <1>5, <1>6 DEF Next, LockNext

\* The deploys use the lock as the lock's own specification allows: every step of
\* a deploy is a step of the lock or leaves it alone.
THEOREM DeploysKeepTheLock == Spec => LockSpec
<1>1. Init => LockInit
  BY DEF Init
<1> QED
  BY <1>1, StepsOfTheLock, PTL DEF Spec, LockSpec

\* So the deploys of one project have one holder of their lock at a time, under
\* the same condition.
THEOREM DeploysHaveOneHolder == Spec => []OneHolder
BY LockHasOneHolder, DeploysKeepTheLock, PTL

-----------------------------------------------------------------------------
(* The trees and the runtime, for any number of requests and of calls of   *)
(* the runtime tools: as long as requests come one at a time, a request    *)
(* that succeeded has installed its whole export, one that failed has kept *)
(* the tree that was there, and a whole tree survives one swap that was    *)
(* cut short; and a runtime is orphaned only by a hurried start.           *)
HIDE DEF Kinds, Pcs, Files, NoFile


TypeRest ==
    /\ phase \in [Deployers -> Phases]
    /\ bounce \in [Deployers -> BOOLEAN]
    /\ staging \in Trees /\ target \in Trees /\ bak \in Trees
    /\ runtime \in {"down", "starting", "up"}
    /\ tool \in [Starters -> Tools] /\ tools \in Nat
    /\ beside \in BOOLEAN /\ hurried \in BOOLEAN /\ doubled \in BOOLEAN
    /\ out \in [Deployers -> Outcomes]
    /\ overlap \in BOOLEAN
    /\ torn \in 0 .. 2
    /\ installed \in BOOLEAN

DeployTypes == LockInv /\ TypeRest

LEMMA TreesOf ==
    /\ NoTree \in Trees
    /\ \A d \in Deployers \cup {Nobody} : Part(d) \in Trees /\ Full(d) \in Trees
    /\ \A tree \in Trees : Remains(tree) \subseteq Trees
    /\ \A tree \in Trees, d \in Deployers :
         Earlier(tree, d) \in Trees /\ Earlier(tree, d).kind = tree.kind
    /\ \A d \in Deployers : Earlier(NoTree, d) = NoTree
BY DEF Trees, NoTree, Part, Full, Remains, Earlier

LEMMA TypesBefore ==
    ASSUME TypeRest, NEW d \in Deployers,
           Begin(d) \/ LockRefuses(d) \/ Acquiring(d) \/ Acquired(d) \/ Releasing(d)
    PROVE  TypeRest'
<1>1. CASE Begin(d)
  BY <1>1, TreesOf DEF Begin, TypeRest
<1>2. CASE LockRefuses(d) \/ Acquiring(d)
  BY <1>2 DEF LockRefuses, Acquiring, TypeRest, treeVars, trees, toolVars
<1>3. CASE Acquired(d)
  BY <1>3, TreesOf DEF Acquired, To, Phases, TypeRest, toolVars
<1>4. CASE Releasing(d)
  BY <1>4 DEF Releasing, TypeRest, treeVars, trees, toolVars, Outcomes
<1> QED
  BY <1>1, <1>2, <1>3, <1>4

USE DEF treeVars, trees, toolVars, Goes, Ended

LEMMA TypesUnder ==
    ASSUME TypeRest, NEW d \in Deployers,
           \/ Edit(d) \/ StudioExports(d) \/ StudioExits(d) \/ StopRuntime(d) \/ SwapBegins(d)
           \/ MoveAside(d) \/ Place(d) \/ DropBackup(d) \/ StartRuntime(d)
    PROVE  TypeRest'
<1>1. CASE Edit(d)
  BY <1>1 DEF Edit, At, To, Phases, TypeRest
<1>2. CASE StudioExports(d)
  BY <1>2, TreesOf DEF StudioExports, At, To, Phases, TypeRest
<1>3. CASE StudioExits(d)
  BY <1>3, TreesOf DEF StudioExits, At, To, Phases, TypeRest
<1>4. CASE StopRuntime(d)
  BY <1>4 DEF StopRuntime, At, To, Phases, TypeRest
<1>5. CASE SwapBegins(d)
  BY <1>5, TreesOf DEF SwapBegins, To, Phases, TypeRest
<1>6. CASE MoveAside(d)
  BY <1>6, TreesOf DEF MoveAside, At, To, Phases, TypeRest
<1>7. CASE Place(d)
  BY <1>7, TreesOf DEF Place, To, Phases, TypeRest
<1>8. CASE DropBackup(d)
  BY <1>8, TreesOf DEF DropBackup, At, To, Phases, TypeRest
<1>9. CASE StartRuntime(d)
  BY <1>9 DEF StartRuntime, Spawned, To, Phases, TypeRest
<1> QED
  BY <1>1, <1>2, <1>3, <1>4, <1>5, <1>6, <1>7, <1>8, <1>9

LEMMA TypesQuit ==
    ASSUME TypeRest, NEW d \in Deployers,
           \/ EditFails(d) \/ StudioFails(d) \/ Evicted(d) \/ LauncherFails(d)
           \/ MoveAsideFails(d) \/ PlaceFails(d) \/ Verify(d)
    PROVE  TypeRest'
<1>1. ASSUME NEW p, NEW o \in Outcomes, Quits(d, p, o)
      PROVE  /\ phase' \in [Deployers -> Phases] /\ bounce' \in [Deployers -> BOOLEAN]
             /\ out' \in [Deployers -> Outcomes]
             /\ UNCHANGED <<overlap, installed, tool, tools, beside, hurried, doubled>>
  BY <1>1 DEF Quits, Ends, To, Phases, TypeRest
<1>2. {"failed", "evicted", "succeeded"} \subseteq Outcomes
  BY DEF Outcomes
<1>3. CASE EditFails(d) \/ StudioFails(d) \/ Evicted(d) \/ MoveAsideFails(d) \/ Verify(d)
  BY <1>1, <1>2, <1>3 DEF EditFails, StudioFails, Evicted, MoveAsideFails, Verify, TypeRest
<1>4. CASE LauncherFails(d)
  BY <1>1, <1>2, <1>4 DEF LauncherFails, TypeRest
<1>5. CASE PlaceFails(d)
  BY <1>1, <1>2, <1>5, TreesOf DEF PlaceFails, Tear, TypeRest
<1> QED
  BY <1>3, <1>4, <1>5

LEMMA TypesAround ==
    ASSUME TypeRest,
           \/ \E s \in Starters : ToolStep(s)
           \/ Binds \/ RuntimeEnds \/ LockAges \/ Restart \/ UNCHANGED vars
    PROVE  TypeRest'
<1>1. ASSUME NEW s \in Starters, ToolStep(s) PROVE TypeRest'
  <2>1. CASE StartTool(s)
    BY <2>1 DEF StartTool, Call, Tool, ToolTo, Tools, TypeRest
  <2>2. CASE Probe(s)
    BY <2>2 DEF Probe, Tool, ToolTo, Tools, TypeRest
  <2>3. CASE Spawn(s)
    BY <2>3 DEF Spawn, Spawned, Tool, ToolTo, Tools, TypeRest
  <2>4. CASE Waited(s)
    BY <2>4 DEF Waited, Tool, ToolTo, Tools, TypeRest
  <2>5. CASE StopTool(s)
    BY <2>5 DEF StopTool, Call, Tool, TypeRest
  <2> QED
    BY <1>1, <2>1, <2>2, <2>3, <2>4, <2>5 DEF ToolStep
<1>2. CASE Binds \/ RuntimeEnds \/ LockAges \/ UNCHANGED vars
  BY <1>2 DEF Binds, RuntimeEnds, LockAges, vars, TypeRest
<1>3. CASE Restart
  BY <1>3 DEF Restart, Tear, Phases, Outcomes, Tools, TypeRest
<1> QED
  BY <1>1, <1>2, <1>3

LEMMA TypesInductive ==
    /\ Init => DeployTypes
    /\ DeployTypes /\ [Next]_vars => DeployTypes'
<1>1. Init => DeployTypes
  <2> SUFFICES ASSUME Init PROVE DeployTypes
    OBVIOUS
  <2>1. staging \in Trees /\ target \in Trees /\ bak \in Trees
    BY TreesOf DEF Init
  <2>2. phase \in [Deployers -> Phases] /\ out \in [Deployers -> Outcomes]
        /\ tool \in [Starters -> Tools] /\ bounce \in [Deployers -> BOOLEAN]
    BY DEF Init, Phases, Tools, Outcomes
  <2>3. tools \in Nat /\ torn \in 0 .. 2 /\ runtime \in {"down", "starting", "up"}
    BY DeployAssumption DEF Init
  <2>4. {beside, hurried, doubled, overlap, installed} \subseteq BOOLEAN
    BY DEF Init
  <2> QED
    BY <2>1, <2>2, <2>3, <2>4, InitLockInv DEF Init, DeployTypes, TypeRest
<1>2. TypeRest /\ [Next]_vars => TypeRest'
  BY TypesBefore, TypesUnder, TypesQuit, TypesAround DEF Next, Step
<1> QED
  BY <1>1, <1>2, LockInductive, StepsOfTheLock DEF DeployTypes

\* The lock, the trees, the runtime and the requests keep their types.
THEOREM DeployTypeCorrect == Spec => []TypeOK
<1>1. DeployTypes => TypeOK
  BY DEF DeployTypes, LockInv, TypeRest, TypeOK
<1> QED
  BY <1>1, TypesInductive, PTL DEF Spec

------------------------------------------------------------------------------
(* The requests, one at a time.                                            *)

\* A request has a phase only while it holds the lock, and is alone until a second one comes.
AtWork == \A d \in Deployers : phase[d] # "none" => pc[d] \in {"inside", "guarded"}
Alone == ~overlap => \A d, e \in Deployers : pc[d] # "idle" /\ pc[e] # "idle" => d = e

\* Whose export is where, at each phase.
Staged ==
    ~overlap => \A d \in Deployers :
      /\ phase[d] = "exporting" => staging = Part(d)
      /\ phase[d] \in {"stop", "swap", "aside", "place"} => staging = Full(d)
      /\ phase[d] \in {"clean", "start", "verify"} => target = Full(d)

Whole(tree) == tree.kind = "full"
Phased(ps) == \E d \in Deployers : phase[d] \in ps

\* Where the whole tree is: installed, or aside while it is replaced; and after one swap that
\* was cut short perhaps in the backup, which goes only once another one is staged.
Kept ==
    ~overlap /\ installed =>
      /\ torn = 0 => Whole(target) \/ (Phased({"place"}) /\ Whole(bak))
      /\ torn = 1 => Whole(target) \/ Whole(bak) \/ Phased({"aside", "place"})

\* A tree that is installed while requests come one at a time is whole, unless a second swap
\* was cut short; and nothing is set aside before a first one is installed.
NoPart ==
    ~overlap => /\ torn <= 1 => target.kind # "part"
                /\ ~installed => target = NoTree /\ bak = NoTree

OneByOne == AtWork /\ Alone /\ Staged /\ Kept /\ NoPart

LEMMA OneByOneInit == Init => OneByOne
<1> SUFFICES ASSUME Init PROVE OneByOne
  OBVIOUS
<1>1. (\A d \in Deployers : pc[d] = "idle" /\ phase[d] = "none") /\ torn = 0
  BY DEF Init, LockInit
<1>2. target = NoTree \/ target = Full(Nobody)
  BY DEF Init
<1>3. installed => Whole(target)
  <2>1. installed <=> target # NoTree
    BY DEF Init
  <2> QED
    BY <1>2, <2>1 DEF Full, Whole
<1>4. ~installed => target = NoTree /\ bak = NoTree
  BY DEF Init
<1> QED
  BY <1>1, <1>2, <1>3, <1>4 DEF OneByOne, AtWork, Alone, Staged, Kept, NoPart, NoTree, Full

\* Only between stamping the lock and releasing it does a request work on the trees.
LEMMA AtWorkStep ==
    ASSUME DeployTypes, AtWork, NEW d \in Deployers, Begin(d) \/ Step(d)
    PROVE  AtWork'
<1> USE DEF DeployTypes, LockInv, LockTypeOK, TypeRest
<1>1. CASE Begin(d)
  BY <1>1 DEF Begin, Request, AtWork
<1>2. CASE LockRefuses(d) \/ Acquiring(d) \/ Releasing(d)
  BY <1>2 DEF LockRefuses, Acquiring, Releasing, Refused, BreakFails, Look, Create, Recheck,
     BreakLock, Release, Unlink, AtWork
<1>3. CASE Acquired(d)
  BY <1>3 DEF Acquired, Stamp, To, AtWork
<1>4. CASE \/ Edit(d) \/ StudioExports(d) \/ StudioExits(d) \/ StopRuntime(d)
           \/ MoveAside(d) \/ DropBackup(d)
  BY <1>4 DEF Edit, StudioExports, StudioExits, StopRuntime, MoveAside, DropBackup, At, To,
     lockVars, AtWork
<1>5. CASE SwapBegins(d) \/ Place(d) \/ StartRuntime(d)
  BY <1>5 DEF SwapBegins, Place, StartRuntime, Enter, To, lockVars, AtWork
<1>6. CASE \/ EditFails(d) \/ StudioFails(d) \/ Evicted(d) \/ LauncherFails(d)
           \/ MoveAsideFails(d) \/ PlaceFails(d) \/ Verify(d)
  <2>1. PICK p, o : Quits(d, p, o)
    BY <1>6 DEF EditFails, StudioFails, Evicted, LauncherFails, MoveAsideFails, PlaceFails,
       Verify
  <2> QED
    BY <2>1 DEF Quits, Leave, To, AtWork
<1> QED
  BY <1>1, <1>2, <1>3, <1>4, <1>5, <1>6 DEF Step

\* A step of a request is that of one that is under way.
LEMMA StepBusy ==
    ASSUME DeployTypes, NEW d \in Deployers, Step(d)
    PROVE  pc[d] # "idle" /\ overlap' = overlap /\ \A e \in Deployers \ {d} : pc'[e] = pc[e]
<1> USE DEF DeployTypes, LockInv, LockTypeOK
<1>1. CASE LockRefuses(d) \/ Acquiring(d) \/ Acquired(d) \/ Releasing(d)
  BY <1>1 DEF LockRefuses, Acquiring, Acquired, Releasing, Refused, BreakFails, Look, Create,
     Stamp, Recheck, BreakLock, Release, Unlink
<1>2. CASE \/ Edit(d) \/ StudioExports(d) \/ StudioExits(d) \/ StopRuntime(d)
           \/ MoveAside(d) \/ DropBackup(d)
  BY <1>2 DEF Edit, StudioExports, StudioExits, StopRuntime, MoveAside, DropBackup, At, lockVars
<1>3. CASE SwapBegins(d) \/ Place(d) \/ StartRuntime(d)
  BY <1>3 DEF SwapBegins, Place, StartRuntime, Enter, lockVars
<1>4. CASE \/ EditFails(d) \/ StudioFails(d) \/ Evicted(d) \/ LauncherFails(d)
           \/ MoveAsideFails(d) \/ PlaceFails(d) \/ Verify(d)
  <2>1. PICK p, o : Quits(d, p, o)
    BY <1>4 DEF EditFails, StudioFails, Evicted, LauncherFails, MoveAsideFails, PlaceFails,
       Verify
  <2> QED
    BY <2>1 DEF Quits, Leave
<1> QED
  BY <1>1, <1>2, <1>3, <1>4 DEF Step

LEMMA AloneStep ==
    ASSUME DeployTypes, Alone, NEW d \in Deployers, Begin(d) \/ Step(d)
    PROVE  Alone'
<1>1. CASE Begin(d)
  BY <1>1 DEF Begin, Request, DeployTypes, LockInv, LockTypeOK, TypeRest, Alone
<1>2. CASE Step(d)
  BY <1>2, StepBusy DEF Alone
<1> QED
  BY <1>1, <1>2

\* The others are not at work.
LEMMA OthersIdle ==
    ASSUME DeployTypes, AtWork, Alone, ~overlap, NEW d \in Deployers, Step(d)
    PROVE  \A e \in Deployers \ {d} : phase[e] = "none"
BY StepBusy DEF AtWork, Alone

LEMMA TreesBefore ==
    ASSUME DeployTypes, OneByOne, NEW d \in Deployers,
           LockRefuses(d) \/ Acquiring(d) \/ Acquired(d) \/ Releasing(d)
    PROVE  Staged' /\ Kept' /\ NoPart'
<1> SUFFICES ASSUME ~overlap PROVE Staged' /\ Kept' /\ NoPart'
  BY DEF LockRefuses, Acquiring, Acquired, Releasing, Staged, Kept, NoPart
<1>1. CASE LockRefuses(d) \/ Acquiring(d) \/ Releasing(d)
  BY <1>1 DEF LockRefuses, Acquiring, Releasing, OneByOne, Staged, Kept, NoPart, Phased
<1>2. CASE Acquired(d)
  <2>1. \A e \in Deployers \ {d} : phase[e] = "none"
    BY <1>2, OthersIdle DEF Step, OneByOne
  <2>2. phase[d] = "none"
    BY <1>2 DEF Acquired, Stamp, OneByOne, AtWork
  <2>3. phase' = [phase EXCEPT ![d] = "edit"] /\ target'.kind = target.kind /\ bak'.kind = bak.kind
    BY <1>2, TreesOf DEF Acquired, To, DeployTypes, TypeRest
  <2>4. UNCHANGED <<overlap, torn, installed>>
    BY <1>2 DEF Acquired
  <2>5. (target = NoTree => target' = NoTree) /\ (bak = NoTree => bak' = NoTree)
    BY <1>2, TreesOf DEF Acquired
  <2> QED
    BY <2>1, <2>2, <2>3, <2>4, <2>5 DEF DeployTypes, TypeRest, OneByOne, Staged, Kept, NoPart, Phased, Whole
<1> QED
  BY <1>1, <1>2

LEMMA TreesUnder ==
    ASSUME DeployTypes, OneByOne, NEW d \in Deployers,
           \/ Edit(d) \/ StudioExports(d) \/ StudioExits(d) \/ StopRuntime(d) \/ SwapBegins(d)
           \/ MoveAside(d) \/ Place(d) \/ DropBackup(d) \/ StartRuntime(d)
    PROVE  Staged' /\ Kept' /\ NoPart'
<1> SUFFICES ASSUME ~overlap PROVE Staged' /\ Kept' /\ NoPart'
  BY StepBusy DEF Step, Staged, Kept, NoPart
<1>1. (\A e \in Deployers \ {d} : phase[e] = "none") /\ overlap' = overlap
  BY OthersIdle, StepBusy DEF Step, OneByOne
<1> USE DEF DeployTypes, TypeRest, OneByOne, Staged, Kept, NoPart, Phased, Whole, At, To
<1>2. CASE Edit(d)
  BY <1>1, <1>2 DEF Edit
<1>3. CASE StudioExports(d)
  BY <1>1, <1>3 DEF StudioExports
<1>4. CASE StudioExits(d)
  BY <1>1, <1>4 DEF StudioExits
<1>5. CASE StopRuntime(d)
  BY <1>1, <1>5 DEF StopRuntime
<1>6. CASE SwapBegins(d)
  BY <1>1, <1>6 DEF SwapBegins, Remains
<1>7. CASE MoveAside(d)
  BY <1>1, <1>7 DEF MoveAside, NoTree, Trees
<1>8. CASE Place(d)
  BY <1>1, <1>8 DEF Place, Full
<1>9. CASE DropBackup(d)
  BY <1>1, <1>9 DEF DropBackup, Remains, Full
<1>10. CASE StartRuntime(d)
  BY <1>1, <1>10 DEF StartRuntime
<1> QED
  BY <1>2, <1>3, <1>4, <1>5, <1>6, <1>7, <1>8, <1>9, <1>10

LEMMA TreesQuit ==
    ASSUME DeployTypes, OneByOne, NEW d \in Deployers,
           \/ EditFails(d) \/ StudioFails(d) \/ Evicted(d) \/ LauncherFails(d)
           \/ MoveAsideFails(d) \/ PlaceFails(d) \/ Verify(d)
    PROVE  Staged' /\ Kept' /\ NoPart'
<1> SUFFICES ASSUME ~overlap PROVE Staged' /\ Kept' /\ NoPart'
  BY StepBusy DEF Step, Staged, Kept, NoPart
<1>1. (\A e \in Deployers \ {d} : phase[e] = "none") /\ overlap' = overlap
  BY OthersIdle, StepBusy DEF Step, OneByOne
<1>2. PICK p, o : Quits(d, p, o)
  BY DEF EditFails, StudioFails, Evicted, LauncherFails, MoveAsideFails, PlaceFails, Verify
<1>3. phase[d] = p /\ phase' = [phase EXCEPT ![d] = "none"] /\ installed' = installed
  BY <1>2 DEF Quits, To
<1>4. \A e \in Deployers : phase'[e] = "none"
  BY <1>1, <1>3 DEF DeployTypes, TypeRest
<1>5. Staged'
  BY <1>4 DEF Staged
<1>6. CASE ~PlaceFails(d)
  <2>1. UNCHANGED <<target, bak, torn>> /\ phase[d] # "place"
    BY <1>6 DEF EditFails, StudioFails, Evicted, LauncherFails, MoveAsideFails, Verify, Quits
  <2>2. phase[d] = "aside" /\ torn <= 1 => target.kind = "full"
    <3>1. phase[d] = "aside" => target # NoTree
      BY <1>6 DEF EditFails, StudioFails, Evicted, LauncherFails, MoveAsideFails, Verify, Quits
    <3> QED
      BY <3>1 DEF DeployTypes, TypeRest, Trees, NoTree, OneByOne, NoPart
  <2> QED
    BY <1>1, <1>3, <1>5, <2>1, <2>2 DEF OneByOne, Kept, NoPart, Phased, Whole
<1>7. CASE PlaceFails(d)
  <2>1. torn' = IF target'.kind # "full" /\ torn < 2 THEN torn + 1 ELSE torn
    BY <1>7 DEF PlaceFails, Tear
  <2>2. torn \in 0 .. 2 /\ phase[d] = "place"
    BY <1>7 DEF PlaceFails, Quits, DeployTypes, TypeRest
  <2>3. \/ UNCHANGED <<target, bak>>
        \/ target' = bak /\ target = NoTree
    BY <1>7 DEF PlaceFails
  <2>4. UNCHANGED <<target, bak>> \/ (target' = bak /\ bak' = NoTree /\ bak # NoTree)
    BY <1>7 DEF PlaceFails
  <2>5. bak.kind \in {"none", "part", "full"} /\ (bak.kind = "none" <=> bak = NoTree)
    BY DEF DeployTypes, TypeRest, Trees, NoTree
  <2>6. target.kind = "none" => target = NoTree
    BY DEF DeployTypes, TypeRest, Trees, NoTree
  <2>7. CASE torn = 0
    <3>1. NoTree.kind = "none"
      BY DEF NoTree
    <3>2. CASE target' = bak /\ bak' = NoTree /\ bak # NoTree /\ target = NoTree
      BY <1>1, <1>3, <1>5, <2>1, <2>2, <2>7, <3>1, <3>2
         DEF OneByOne, Kept, NoPart, Phased, Whole
    <3>3. CASE UNCHANGED <<target, bak>>
      BY <1>1, <1>3, <1>5, <2>1, <2>2, <2>5, <2>7, <3>1, <3>3
         DEF OneByOne, Kept, NoPart, Phased, Whole
    <3> QED
      BY <1>7, <3>2, <3>3 DEF PlaceFails
  <2>8. CASE torn = 1
    BY <1>1, <1>3, <1>5, <2>1, <2>2, <2>4, <2>5, <2>8 DEF OneByOne, Kept, NoPart, Phased, Whole
  <2>9. CASE torn = 2
    BY <1>1, <1>3, <1>5, <2>1, <2>2, <2>4, <2>5, <2>9 DEF OneByOne, Kept, NoPart, Phased, Whole
  <2> QED
    BY <1>5, <2>2, <2>7, <2>8, <2>9
<1> QED
  BY <1>6, <1>7

LEMMA OneByOneBegin ==
    ASSUME DeployTypes, OneByOne, NEW d \in Deployers, Begin(d)
    PROVE  OneByOne'
<1>1. UNCHANGED <<phase, target, bak, torn, installed>>
  BY DEF Begin
<1>2. AtWork' /\ Alone'
  BY AtWorkStep, AloneStep DEF OneByOne
<1>3. ~overlap' => ~overlap /\ \A e \in Deployers : phase[e] = "none"
  BY DEF Begin, OneByOne, AtWork
<1> QED
  BY <1>1, <1>2, <1>3 DEF OneByOne, Staged, Kept, NoPart, Phased, Whole

LEMMA OneByOneAround ==
    ASSUME DeployTypes, OneByOne,
           \/ \E s \in Starters : ToolStep(s)
           \/ Binds \/ RuntimeEnds \/ LockAges \/ Restart \/ UNCHANGED vars
    PROVE  OneByOne'
<1>1. CASE Restart
  <2>1. \A d \in Deployers : phase'[d] = "none" /\ pc'[d] = "idle"
    BY <1>1 DEF Restart, LockRestart
  <2>2. UNCHANGED <<target, bak, overlap, installed>>
    BY <1>1 DEF Restart
  <2>3. torn' = IF Phased({"aside", "place", "clean"}) /\ torn < 2 THEN torn + 1 ELSE torn
    BY <1>1 DEF Restart, Tear, Phased
  <2>4. torn \in 0 .. 2
    BY DEF DeployTypes, TypeRest
  <2>5. AtWork' /\ Alone' /\ Staged'
    BY <2>1 DEF AtWork, Alone, Staged
  <2>6. NoPart'
    BY <2>2, <2>3, <2>4 DEF OneByOne, NoPart
  <2>7. Kept'
    <3>1. CASE Phased({"aside", "place", "clean"})
      <4>1. Phased({"clean"}) /\ ~overlap => Whole(target)
        BY DEF Phased, OneByOne, Staged, Whole, Full
      <4>2. torn = 0 => torn' = 1
        BY <2>3, <3>1
      <4>3. torn # 0 => torn' = 2
        BY <2>3, <2>4, <3>1
      <4>4. CASE torn = 0
        <5>1. ~overlap /\ installed => Whole(target) \/ Whole(bak)
          BY <4>4 DEF OneByOne, Kept
        <5> QED
          BY <2>2, <4>2, <4>4, <5>1 DEF Kept, Whole
      <4> QED
        BY <4>3, <4>4 DEF Kept
    <3>2. CASE ~Phased({"aside", "place", "clean"})
      BY <2>2, <2>3, <3>2 DEF OneByOne, Kept, Phased, Whole
    <3> QED
      BY <3>1, <3>2
  <2> QED
    BY <2>5, <2>6, <2>7 DEF OneByOne
<1>2. CASE ~Restart
  <2>1. UNCHANGED <<pc, phase, staging, target, bak, overlap, torn, installed>>
    BY <1>2 DEF ToolStep, StartTool, Probe, Spawn, Waited, StopTool, Call, Tool, Binds,
       RuntimeEnds, LockAges, Age, lockVars, vars
  <2> QED
    BY <2>1 DEF OneByOne, AtWork, Alone, Staged, Kept, NoPart, Phased, Whole
<1> QED
  BY <1>1, <1>2

LEMMA OneByOneInductive ==
    DeployTypes /\ OneByOne /\ [Next]_vars => OneByOne'
<1>1. ASSUME DeployTypes, OneByOne, NEW d \in Deployers, Step(d) PROVE OneByOne'
  <2>1. AtWork' /\ Alone'
    BY <1>1, AtWorkStep, AloneStep DEF OneByOne
  <2>2. Staged' /\ Kept' /\ NoPart'
    BY <1>1, TreesBefore, TreesUnder, TreesQuit DEF Step
  <2> QED
    BY <2>1, <2>2 DEF OneByOne
<1> QED
  BY <1>1, OneByOneBegin, OneByOneAround DEF Next

\* For any number of requests and of process deaths: while they come one at a time and one swap
\* at most was cut short, there is a whole tree to run from once one was installed.
THEOREM ATreeSurvives == Spec => []OneTreeSurvives
<1>1. DeployTypes /\ OneByOne => OneTreeSurvives
  <2> SUFFICES ASSUME DeployTypes, OneByOne, installed, ~overlap, torn <= 1
               PROVE  Whole(staging) \/ Whole(target) \/ Whole(bak)
    BY DEF OneTreeSurvives, Whole
  <2>1. torn = 0 \/ torn = 1
    BY DEF DeployTypes, TypeRest
  <2>2. Phased({"aside", "place"}) => Whole(staging)
    BY DEF Phased, OneByOne, Staged, Whole, Full
  <2> QED
    BY <2>1, <2>2 DEF OneByOne, Kept
<1>2. Init => DeployTypes /\ OneByOne
  BY TypesInductive, OneByOneInit
<1>3. DeployTypes /\ OneByOne /\ [Next]_vars => (DeployTypes /\ OneByOne)'
  BY TypesInductive, OneByOneInductive
<1> QED
  BY <1>1, <1>2, <1>3, PTL DEF Spec

\* Only Verify answers "succeeded", and the tools and the lock answer nothing.
LEMMA Answers ==
    ASSUME DeployTypes, [Next]_vars, NEW d \in Deployers, out[d] = "none", out'[d] # "none"
    PROVE  \/ Verify(d) /\ out'[d] \in {"succeeded", "failed"}
           \/ /\ \/ EditFails(d) \/ StudioFails(d) \/ Evicted(d) \/ LauncherFails(d)
                 \/ MoveAsideFails(d) \/ PlaceFails(d)
              /\ out'[d] \in {"failed", "evicted"}
<1>1. PICK e \in Deployers : Step(e)
  BY DEF Next, Begin, ToolStep, StartTool, Probe, Spawn, Waited, StopTool, Call, Tool, Binds,
     RuntimeEnds, LockAges, Restart, vars
<1>2. \/ EditFails(e) \/ StudioFails(e) \/ Evicted(e) \/ LauncherFails(e)
      \/ MoveAsideFails(e) \/ PlaceFails(e) \/ Verify(e)
  BY <1>1 DEF Step, LockRefuses, Acquiring, Acquired, Edit, StudioExports, StudioExits,
     StopRuntime, SwapBegins, MoveAside, Place, DropBackup, StartRuntime, Releasing, At,
     DeployTypes, TypeRest
<1>3. ASSUME NEW p, NEW o, Quits(e, p, o) PROVE e = d /\ out'[d] = o
  BY <1>3 DEF Quits, Ends, DeployTypes, TypeRest
<1> QED
  BY <1>2, <1>3 DEF EditFails, StudioFails, Evicted, LauncherFails, MoveAsideFails, PlaceFails,
     Verify

\* While requests come one at a time, a request that is told "succeeded" has its whole export
\* installed.
THEOREM SuccessIsInstalled == Spec => SucceededInstalled
<1>1. DeployTypes /\ OneByOne /\ [Next]_vars =>
        [\A d \in Deployers :
           ~overlap /\ out[d] = "none" /\ out'[d] = "succeeded" => target = Full(d)]_vars
  <2> SUFFICES ASSUME DeployTypes, OneByOne, [Next]_vars, NEW d \in Deployers,
                      ~overlap, out[d] = "none", out'[d] = "succeeded"
               PROVE  target = Full(d)
    OBVIOUS
  <2>1. Verify(d)
    BY Answers
  <2>2. phase[d] = "verify"
    BY <2>1 DEF Verify, Quits
  <2> QED
    BY <2>2 DEF OneByOne, Staged
<1>2. Init => DeployTypes /\ OneByOne
  BY TypesInductive, OneByOneInit
<1>3. DeployTypes /\ OneByOne /\ [Next]_vars => (DeployTypes /\ OneByOne)'
  BY TypesInductive, OneByOneInductive
<1> QED
  BY <1>1, <1>2, <1>3, PTL DEF Spec, SucceededInstalled

\* While requests come one at a time and no swap was cut short, a request that does not
\* succeed leaves a whole tree where there was one.
THEOREM FailuresKeepTheTree == Spec => FailureKeepsTree
<1>1. DeployTypes /\ OneByOne /\ [Next]_vars =>
        [\A d \in Deployers :
           /\ ~overlap /\ torn' = 0 /\ installed
           /\ out[d] = "none" /\ out'[d] \in {"failed", "evicted"}
           => target'.kind = "full"]_vars
  <2> SUFFICES ASSUME DeployTypes, OneByOne, [Next]_vars, NEW d \in Deployers,
                      ~overlap, torn' = 0, installed, out[d] = "none",
                      out'[d] \in {"failed", "evicted"}
               PROVE  target'.kind = "full"
    OBVIOUS
  <2>1. \/ EditFails(d) \/ StudioFails(d) \/ Evicted(d) \/ LauncherFails(d)
        \/ MoveAsideFails(d) \/ PlaceFails(d) \/ Verify(d)
    BY Answers
  <2>2. CASE PlaceFails(d)
    BY <2>2 DEF PlaceFails, Tear, DeployTypes, TypeRest
  <2>3. CASE ~PlaceFails(d)
    <3>1. UNCHANGED <<target, torn>> /\ phase[d] # "place"
      BY <2>1, <2>3 DEF EditFails, StudioFails, Evicted, LauncherFails, MoveAsideFails, Verify,
         Quits
    <3>2. \A e \in Deployers \ {d} : phase[e] = "none"
      BY <2>1, OthersIdle DEF Step, OneByOne
    <3> QED
      BY <3>1, <3>2 DEF OneByOne, Kept, Phased, Whole
  <2> QED
    BY <2>2, <2>3
<1>2. Init => DeployTypes /\ OneByOne
  BY TypesInductive, OneByOneInit
<1>3. DeployTypes /\ OneByOne /\ [Next]_vars => (DeployTypes /\ OneByOne)'
  BY TypesInductive, OneByOneInductive
<1> QED
  BY <1>1, <1>2, <1>3, PTL DEF Spec, FailureKeepsTree

------------------------------------------------------------------------------
(* The runtime.                                                            *)

\* While the tools are called, and until a start is hurried: a start is alone, it has seen no
\* runtime that is still coming up, and none is there once it is about to spawn one; nor while
\* a swap is past the point where the old tree has to go.
Calm ==
    /\ \A r, s \in Starters : tool[r] # "idle" /\ tool[s] # "idle" => r = s
    /\ \A s \in Starters : tool[s] # "idle" => \A d \in Deployers : pc[d] = "idle"
    /\ \A s \in Starters : tool[s] = "probe" => runtime # "starting"
    /\ \A s \in Starters : tool[s] = "spawn" => runtime = "down"
    /\ \A d \in Deployers : phase[d] \in {"place", "clean", "start"} => runtime = "down"

\* A runtime runs from a tree, and only a hurried start has made two of them.
Runtimes ==
    /\ runtime # "down" => target # NoTree
    /\ beside => \A d, e \in Deployers : pc[d] # "idle" /\ pc[e] # "idle" => d = e
    /\ beside /\ ~hurried => Calm
    /\ doubled => hurried

LEMMA RuntimesInit == Init => Runtimes
<1> SUFFICES ASSUME Init PROVE Runtimes
  OBVIOUS
<1>1. runtime # "down" => target # NoTree
  BY DEF Init
<1> QED
  BY <1>1 DEF Init, LockInit, Runtimes, Calm

\* What a request does that starts no runtime.
LEMMA RuntimesKept ==
    ASSUME DeployTypes, AtWork, Runtimes, NEW d \in Deployers, Step(d), ~StartRuntime(d)
    PROVE  Runtimes'
<1>1. /\ pc[d] # "idle" /\ \A e \in Deployers \ {d} : pc'[e] = pc[e]
  BY StepBusy
<1>2. UNCHANGED toolVars
  BY DEF Step, LockRefuses, Acquiring, Acquired, Edit, EditFails, StudioExports, StudioExits,
     StudioFails, Evicted, StopRuntime, LauncherFails, SwapBegins, MoveAside, MoveAsideFails,
     Place, PlaceFails, DropBackup, Verify, Releasing, At, Quits
<1>3. runtime' \in {"down", runtime}
  BY DEF Step, LockRefuses, Acquiring, Acquired, Edit, EditFails, StudioExports, StudioExits,
     StudioFails, Evicted, StopRuntime, LauncherFails, SwapBegins, MoveAside, MoveAsideFails,
     Place, PlaceFails, DropBackup, Verify, Releasing, At, Quits
<1>4. /\ target' = NoTree => target = NoTree \/ runtime = "down"
      /\ \A e \in Deployers : phase'[e] \in {"place", "clean", "start"} =>
           \/ phase[e] \in {"place", "clean", "start"}
           \/ runtime = "down" \/ target = NoTree
  <2>1. CASE LockRefuses(d) \/ Acquiring(d) \/ Releasing(d)
    BY <2>1 DEF LockRefuses, Acquiring, Releasing
  <2>2. CASE Acquired(d)
    <3>1. target # NoTree => target' # NoTree
      BY <2>2 DEF Acquired, Earlier, NoTree, DeployTypes, TypeRest, Trees
    <3> QED
      BY <2>2, <3>1 DEF Acquired, To, DeployTypes, TypeRest
  <2>3. CASE Edit(d) \/ StudioExports(d) \/ StudioExits(d) \/ StopRuntime(d) \/ SwapBegins(d)
    BY <2>3 DEF Edit, StudioExports, StudioExits, StopRuntime, SwapBegins, At, To,
       DeployTypes, TypeRest
  <2>4. CASE MoveAside(d) \/ Place(d) \/ DropBackup(d)
    BY <2>4 DEF MoveAside, Place, DropBackup, At, To, DeployTypes, TypeRest
  <2>5. CASE \/ EditFails(d) \/ StudioFails(d) \/ Evicted(d) \/ LauncherFails(d)
             \/ MoveAsideFails(d) \/ PlaceFails(d) \/ Verify(d)
    <3>1. phase' = [phase EXCEPT ![d] = "none"]
      BY <2>5 DEF EditFails, StudioFails, Evicted, LauncherFails, MoveAsideFails, PlaceFails,
         Verify, Quits, To
    <3>2. target' = NoTree => target = NoTree
      BY <2>5 DEF EditFails, StudioFails, Evicted, LauncherFails, MoveAsideFails, PlaceFails,
         Verify
    <3> QED
      BY <3>1, <3>2 DEF DeployTypes, TypeRest
  <2> QED
    BY <2>1, <2>2, <2>3, <2>4, <2>5 DEF Step
<1> QED
  BY <1>1, <1>2, <1>3, <1>4 DEF Runtimes, Calm

LEMMA RuntimesStarted ==
    ASSUME DeployTypes, AtWork, Runtimes, NEW d \in Deployers, StartRuntime(d)
    PROVE  Runtimes'
<1>1. pc[d] # "idle" /\ pc' = pc /\ phase[d] = "start" /\ target' = target
  BY DEF StartRuntime, lockVars
<1>2. UNCHANGED <<tool, beside, hurried>>
  BY DEF StartRuntime
<1>3. beside /\ ~hurried => runtime = "down"
  BY <1>1 DEF Runtimes, Calm
<1>4. phase' = [phase EXCEPT ![d] = "verify"]
  BY DEF StartRuntime, To
<1>5. \/ UNCHANGED <<runtime, doubled>>
      \/ target # NoTree /\ (doubled' <=> doubled \/ (beside /\ runtime # "down"))
  BY DEF StartRuntime, Spawned
<1>6. \A e \in Deployers : beside /\ phase'[e] \in {"place", "clean", "start"} => FALSE
  BY <1>1, <1>4 DEF Runtimes, AtWork, DeployTypes, TypeRest
<1>7. beside /\ ~hurried => \A s \in Starters : tool[s] = "idle"
  BY <1>1 DEF Runtimes, Calm
<1>8. beside' /\ ~hurried' => Calm'
  BY <1>2, <1>6, <1>7 DEF Calm
<1>9. (runtime' # "down" => target' # NoTree) /\ (doubled' => hurried')
  BY <1>1, <1>2, <1>3, <1>5 DEF Runtimes
<1> QED
  BY <1>1, <1>2, <1>8, <1>9 DEF Runtimes

LEMMA RuntimesBegin ==
    ASSUME DeployTypes, Runtimes, NEW d \in Deployers, Begin(d)
    PROVE  Runtimes'
<1>1. /\ UNCHANGED <<phase, target, runtime, tool, beside, doubled>>
      /\ pc' = [pc EXCEPT ![d] = "look"]
      /\ beside => \A e \in Deployers : pc[e] = "idle"
      /\ hurried' <=> hurried \/ Starting
  BY DEF Begin, Request, DeployTypes, TypeRest
<1> QED
  BY <1>1 DEF Runtimes, Calm, Starting, DeployTypes, LockInv, LockTypeOK

LEMMA RuntimesTool ==
    ASSUME DeployTypes, Runtimes, AtWork, NEW s \in Starters, ToolStep(s)
    PROVE  Runtimes'
<1>1. UNCHANGED <<pc, phase, target, beside>>
  BY DEF ToolStep, StartTool, Probe, Spawn, Waited, StopTool, Call, Tool, lockVars
<1>2. CASE StartTool(s)
  <2>1. /\ UNCHANGED <<runtime, doubled>>
        /\ tool' = tool \/ tool' = [tool EXCEPT ![s] = "probe"]
        /\ hurried' <=> \/ hurried \/ runtime = "starting" \/ Starting
                        \/ \E d \in Deployers : pc[d] # "idle"
    BY <1>2 DEF StartTool, Call, Tool, ToolTo
  <2> QED
    BY <1>1, <2>1 DEF Runtimes, Calm, Starting, DeployTypes, TypeRest
<1>3. CASE Probe(s)
  <2>1. UNCHANGED <<runtime, doubled, hurried>> /\ tool[s] = "probe"
        /\ tool' = [tool EXCEPT ![s] = IF runtime = "up" THEN "idle" ELSE "spawn"]
    BY <1>3 DEF Probe, Tool, ToolTo
  <2>2. runtime \in {"down", "starting", "up"}
    BY DEF DeployTypes, TypeRest
  <2> QED
    BY <1>1, <2>1, <2>2 DEF Runtimes, Calm, DeployTypes, TypeRest
<1>4. CASE Spawn(s)
  <2>1. hurried' = hurried /\ tool[s] = "spawn"
        /\ tool' \in {[tool EXCEPT ![s] = "wait"], [tool EXCEPT ![s] = "idle"]}
    BY <1>4 DEF Spawn, Tool, ToolTo
  <2>2. \/ UNCHANGED <<runtime, doubled>>
        \/ target # NoTree /\ (doubled' <=> doubled \/ (beside /\ runtime # "down"))
    BY <1>4 DEF Spawn, Spawned
  <2>3. beside /\ ~hurried => runtime = "down"
    BY <2>1 DEF Runtimes, Calm
  <2>4. beside /\ ~hurried => \A d \in Deployers : phase[d] = "none"
    BY <2>1 DEF Runtimes, Calm, AtWork
  <2>5. beside' /\ ~hurried' => Calm'
    BY <1>1, <2>1, <2>4 DEF Runtimes, Calm, DeployTypes, TypeRest
  <2> QED
    BY <1>1, <2>1, <2>2, <2>3, <2>5 DEF Runtimes
<1>5. CASE Waited(s)
  <2>1. UNCHANGED <<runtime, doubled, hurried>> /\ tool' = [tool EXCEPT ![s] = "idle"]
    BY <1>5 DEF Waited, Tool, ToolTo
  <2> QED
    BY <1>1, <2>1 DEF Runtimes, Calm, DeployTypes, TypeRest
<1>6. CASE StopTool(s)
  <2>1. UNCHANGED <<tool, doubled, hurried>> /\ runtime' \in {"down", runtime}
    BY <1>6 DEF StopTool
  <2> QED
    BY <1>1, <2>1 DEF Runtimes, Calm
<1> QED
  BY <1>2, <1>3, <1>4, <1>5, <1>6 DEF ToolStep

LEMMA RuntimesAround ==
    ASSUME DeployTypes, Runtimes, Binds \/ RuntimeEnds \/ LockAges \/ Restart \/ UNCHANGED vars
    PROVE  Runtimes'
<1>1. CASE Restart
  <2>1. /\ \A d \in Deployers : pc'[d] = "idle" /\ phase'[d] = "none"
        /\ \A s \in Starters : tool'[s] = "idle"
        /\ UNCHANGED <<target, runtime, beside, hurried, doubled>>
    BY <1>1 DEF Restart, LockRestart
  <2> QED
    BY <2>1 DEF Runtimes, Calm
<1>2. CASE ~Restart
  <2>1. UNCHANGED <<pc, phase, target, tool, beside, hurried, doubled>>
    BY <1>2 DEF Binds, RuntimeEnds, LockAges, Age, lockVars, vars
  <2>2. runtime' \in {runtime, "down"} \/ (runtime = "starting" /\ runtime' = "up")
    BY <1>2 DEF Binds, RuntimeEnds, LockAges, vars
  <2> QED
    BY <2>1, <2>2 DEF Runtimes, Calm
<1> QED
  BY <1>1, <1>2

\* While requests come one at a time, a runtime is spawned beside another one only after a
\* start was asked for before the last had come up, or beside other work.
THEOREM RuntimesAreSingle == Spec => []OneRuntime
<1>1. DeployTypes /\ OneByOne /\ Runtimes /\ [Next]_vars => Runtimes'
  BY RuntimesKept, RuntimesStarted, RuntimesBegin, RuntimesTool, RuntimesAround
     DEF Next, OneByOne
<1>2. Init => DeployTypes /\ OneByOne /\ Runtimes
  BY TypesInductive, OneByOneInit, RuntimesInit
<1>3. DeployTypes /\ OneByOne /\ Runtimes /\ [Next]_vars => (DeployTypes /\ OneByOne /\ Runtimes)'
  BY <1>1, TypesInductive, OneByOneInductive
<1>4. Runtimes => OneRuntime
  BY DEF Runtimes, OneRuntime
<1> QED
  BY <1>2, <1>3, <1>4, PTL DEF Spec
=============================================================================
