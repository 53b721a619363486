-------------------------------- MODULE Deploy --------------------------------
(***************************************************************************)
(* core.deploy (service/core.py): edit and commit, export with Studio into *)
(* a staging directory, stop the runtime, swap the staged tree in, start   *)
(* the runtime, verify; the part from the edits on under the deploy lock.  *)
(* Beside it, optix_runtime_start and optix_runtime_stop, without a lock.  *)
(*                                                                         *)
(* The requests deploy one project.  Three directories are shared by all   *)
(* of them and by the processes that come and go: staging, the runtime     *)
(* tree target, and its backup bak.  A tree is nothing, a part of an       *)
(* export, or the whole export of one request (of Nobody: the tree that    *)
(* was installed before).  DeployLock is extended: the phases of a request *)
(* that holds the lock are the steps between its Stamp and its Release.    *)
(***************************************************************************)
EXTENDS DeployLock

CONSTANTS
    Starters,   \* calls of the runtime tools that may run at once
    MaxTools    \* bound: calls of the runtime tools

ASSUME DeployAssumption == MaxTools \in Nat

VARIABLES
    phase,      \* per deployer: where in deploy() a holder is
    bounce,     \* per deployer: run_after_deploy of a request that holds the lock
    staging,    \* export-staging/<project>
    target,     \* runtime_dir/<project>
    bak,        \* runtime_dir/<project>.bak
    runtime,    \* FTOptixRuntime of this tree: until its port answers it is starting
    tool,       \* per starter: where in runtime_start() it is
    tools,      \* what is left of the bound
    beside,     \* bound: the tools are called, requests come one at a time, and no lock ages
    out,        \* per deployer: how its request ends, until it has
    overlap,    \* history: a request came while another one was under way
    torn,       \* history: swaps that did not come to an end (2: two or more)
    installed,  \* history: a tree has been installed
    hurried,    \* history: a start came while one had not come up, or beside others at work
    doubled     \* history: a runtime was spawned beside another

trees    == <<staging, target, bak>>
toolVars == <<tool, tools, beside, hurried, doubled>>
treeVars == <<trees, runtime>>
vars     == <<lockVars, phase, bounce, treeVars, out, overlap, torn, installed, toolVars>>

Phases   == {"none", "edit", "export", "exporting", "stop", "swap", "aside",
             "place", "clean", "start", "verify"}
Tools    == {"idle", "probe", "spawn", "wait"}
Outcomes == {"none", "failed", "evicted", "succeeded"}

NoTree  == [kind |-> "none", of |-> Nobody]
Trees   == [kind : {"part", "full"}, of : Deployers \cup {Nobody}] \cup {NoTree}
Part(d) == [kind |-> "part", of |-> d]
Full(d) == [kind |-> "full", of |-> d]

\* What may be left of a tree by an rmtree whose errors are ignored.
Remains(tree) == {NoTree, IF tree = NoTree THEN NoTree ELSE Part(tree.of)}

Init ==
    /\ LockInit
    /\ phase = [d \in Deployers |-> "none"]
    /\ bounce = [d \in Deployers |-> FALSE]
    /\ staging = NoTree
    /\ target \in {NoTree, Full(Nobody)}
    /\ bak = NoTree
    /\ runtime \in IF target = NoTree THEN {"down"} ELSE {"up", "down"}
    /\ out = [d \in Deployers |-> "none"]
    /\ overlap = FALSE
    /\ torn = 0
    /\ installed = (target # NoTree)
    /\ tool = [s \in Starters |-> "idle"]
    /\ beside \in BOOLEAN
    /\ tools = IF beside THEN MaxTools ELSE 0
    /\ hurried = FALSE /\ doubled = FALSE

To(d, p)  == phase' = [phase EXCEPT ![d] = p]
Ends(d, o) == out' = [out EXCEPT ![d] = o]

\* A runtime is spawned, whether or not one is there.  Whether it has come up by now, and what
\* it is beside, is followed where the tools are called.
Spawned ==
    /\ runtime' = IF runtime # "down" THEN runtime ELSE IF beside THEN "starting" ELSE "up"
    /\ doubled' = (doubled \/ (beside /\ runtime # "down"))

Starting == \E s \in Starters : tool[s] # "idle"

------------------------------------------------------------------------------
(* Before the lock.                                                        *)

\* What a previous request left in staging is removed, as far as it can be, before
\* the lock is asked for.
Begin(d) ==
    /\ Request(d)
    /\ beside => \A e \in Deployers : pc[e] = "idle"
    /\ staging' \in Remains(staging)
    /\ overlap' = (overlap \/ \E e \in Deployers : pc[e] # "idle")
    /\ hurried' = (hurried \/ Starting)
    /\ UNCHANGED <<phase, bounce, target, bak, runtime, out, torn, installed, tool, tools, beside, doubled>>

LockRefuses(d) ==
    /\ Refused(d) \/ BreakFails(d)
    /\ UNCHANGED <<phase, bounce, treeVars, out, overlap, torn, installed, toolVars>>

Acquiring(d) ==
    /\ Look(d) \/ Create(d) \/ Recheck(d) \/ BreakLock(d)
    /\ UNCHANGED <<phase, bounce, treeVars, out, overlap, torn, installed, toolVars>>

\* A tree that an earlier request of d left is no longer told apart from others.
Earlier(tree, d) == IF tree.of = d THEN [tree EXCEPT !.of = Nobody] ELSE tree

Acquired(d) ==
    /\ Stamp(d)
    /\ To(d, "edit")
    /\ \E b \in BOOLEAN : bounce' = [bounce EXCEPT ![d] = b]
    /\ staging' = Earlier(staging, d)
    /\ target' = Earlier(target, d)
    /\ bak' = Earlier(bak, d)
    /\ UNCHANGED <<runtime, out, overlap, torn, installed, toolVars>>

------------------------------------------------------------------------------
(* Under the lock.                                                         *)

\* The holder at phase p takes a step of its own; the lock is left alone.
At(d, p) ==
    /\ pc[d] \in {"inside", "guarded"} /\ phase[d] = p
    /\ UNCHANGED <<lockVars, bounce, overlap, torn, installed, toolVars>>

\* An answer or an exception from phase p: acquire()'s finally releases.
Quits(d, p, o) ==
    /\ phase[d] = p
    /\ Leave(d)
    /\ Ends(d, o)
    /\ To(d, "none")
    /\ bounce' = [bounce EXCEPT ![d] = FALSE]
    /\ UNCHANGED <<overlap, installed, toolVars>>

Tear(yes) == torn' = IF yes /\ torn < 2 THEN torn + 1 ELSE torn

\* Editors closed, every edit resolved, the files written and committed.
Edit(d) ==
    /\ At(d, "edit")
    /\ To(d, "export")
    /\ UNCHANGED <<treeVars, out>>

\* An editor has the project open, an edit does not apply, or git fails.
EditFails(d) ==
    /\ Quits(d, "edit", "failed")
    /\ UNCHANGED <<treeVars, torn>>

StudioExports(d) ==
    /\ At(d, "export")
    /\ staging' = Part(d)
    /\ To(d, "exporting")
    /\ UNCHANGED <<target, bak, runtime, out>>

\* Studio exits with 0.  When the directory was removed under it, what is there
\* is at best what it wrote afterwards.
StudioExits(d) ==
    /\ At(d, "exporting")
    /\ staging' = IF staging = Part(d) THEN Full(d) ELSE Part(d)
    /\ To(d, IF bounce[d] THEN "stop" ELSE "swap")
    /\ UNCHANGED <<target, bak, runtime, out>>

\* Slip: the exit code is not looked at.
StudioFailsUnseen(d) ==
    /\ At(d, "exporting")
    /\ To(d, IF bounce[d] THEN "stop" ELSE "swap")
    /\ UNCHANGED <<treeVars, out>>

\* A non-zero exit code, or the timeout.
StudioFails(d) ==
    /\ Quits(d, "exporting", "failed")
    /\ UNCHANGED <<treeVars, torn>>

\* Fencing checkpoint #1 and #2 have the same failing side.
Evicted(d) ==
    /\ \E p \in {"stop", "swap"} : Quits(d, p, "evicted")
    /\ ~StillHeld(d)
    /\ UNCHANGED <<treeVars, torn>>

\* Fencing checkpoint #1, then the runtime is stopped if it can be.
StopRuntime(d) ==
    /\ At(d, "stop") /\ StillHeld(d)
    /\ runtime' \in {"down", runtime}
    /\ To(d, "swap")
    /\ UNCHANGED <<staging, target, bak, out>>

\* The script that stops it, or later the launcher, times out.
LauncherFails(d) ==
    /\ \/ StillHeld(d) /\ Quits(d, "stop", "failed") /\ runtime' \in {"down", runtime}
       \/ Quits(d, "start", "failed") /\ runtime' = runtime
    /\ UNCHANGED <<trees, torn>>

\* Fencing checkpoint #2, and the first step of _atomic_swap: a stale backup goes.
SwapBegins(d) ==
    /\ phase[d] = "swap"
    /\ Enter(d)
    /\ bak' \in Remains(bak)
    /\ To(d, "aside")
    /\ UNCHANGED <<bounce, staging, target, runtime, out, overlap, torn, installed, toolVars>>

\* Slip: the installed tree is removed instead of moved aside.
RemoveTarget(d) ==
    /\ At(d, "aside")
    /\ target' = NoTree
    /\ To(d, "place")
    /\ UNCHANGED <<staging, bak, runtime, out>>

\* A running runtime has files of the tree open, and the rename fails.
MoveAside(d) ==
    /\ At(d, "aside")
    /\ runtime = "down" \/ target = NoTree
    /\ \/ target = NoTree /\ bak' = bak
       \/ target # NoTree /\ bak = NoTree /\ bak' = target
    /\ target' = NoTree
    /\ To(d, "place")
    /\ UNCHANGED <<staging, runtime, out>>

\* TreeSwapFailed: a file of the tree is in use.
MoveAsideFails(d) ==
    /\ Quits(d, "aside", "failed")
    /\ target # NoTree
    /\ UNCHANGED <<treeVars, torn>>

\* The staged tree is renamed.
Place(d) ==
    /\ phase[d] = "place" /\ pc[d] = "guarded"
    /\ staging # NoTree /\ target = NoTree
    /\ target' = staging
    /\ staging' = NoTree
    /\ installed' = TRUE
    /\ To(d, "clean")
    /\ UNCHANGED <<lockVars, bounce, bak, runtime, out, overlap, torn, toolVars>>

\* Slip: the error of the second rename is swallowed.
PlaceFailsUnnoticed(d) ==
    /\ At(d, "place")
    /\ To(d, "clean")
    /\ UNCHANGED <<treeVars, out>>

\* TreeSwapFailed, after an attempt to move the backup back.
PlaceFails(d) ==
    /\ Quits(d, "place", "failed")
    /\ IF bak # NoTree /\ target = NoTree
       THEN \/ target' = bak /\ bak' = NoTree
            \/ UNCHANGED <<target, bak>>
       ELSE UNCHANGED <<target, bak>>
    /\ Tear(target'.kind # "full")
    /\ UNCHANGED <<staging, runtime>>

DropBackup(d) ==
    /\ At(d, "clean")
    /\ bak' \in Remains(bak)
    /\ To(d, IF bounce[d] THEN "start" ELSE "verify")
    /\ UNCHANGED <<staging, target, runtime, out>>

\* RuntimeController.start asks no port whether one is running already.
StartRuntime(d) ==
    /\ phase[d] = "start" /\ pc[d] = "guarded"
    /\ \/ target # NoTree /\ Spawned
       \/ UNCHANGED <<runtime, doubled>>
    /\ To(d, "verify")
    /\ UNCHANGED <<lockVars, bounce, trees, out, overlap, torn, installed, tool, tools, beside,
                   hurried>>

\* The runtime probe is advisory; the check of the tree's mtime is not.
Verify(d) ==
    /\ \/ Quits(d, "verify", "succeeded")
       \/ ~bounce[d] /\ Quits(d, "verify", "failed")
    /\ UNCHANGED <<treeVars, torn>>

Releasing(d) ==
    /\ Release(d) \/ Unlink(d)
    /\ out' = IF pc'[d] = "idle" THEN [out EXCEPT ![d] = "none"] ELSE out
    /\ UNCHANGED <<phase, bounce, treeVars, overlap, torn, installed, toolVars>>

------------------------------------------------------------------------------
(* The runtime tools.                                                      *)

ToolTo(s, p) == tool' = [tool EXCEPT ![s] = p]
Tool(s, p) ==
    /\ tool[s] = p
    /\ UNCHANGED <<lockVars, phase, bounce, trees, out, overlap, torn, installed, beside>>
Call(s) == Tool(s, "idle") /\ tools > 0 /\ tools' = tools - 1

\* runtime_start: without a tree there is nothing to start.
StartTool(s) ==
    /\ Call(s)
    /\ \/ target # NoTree /\ ToolTo(s, "probe")
       \/ target.kind # "full" /\ tool' = tool
    /\ hurried' = (hurried \/ runtime = "starting" \/ Starting \/ \E d \in Deployers : pc[d] # "idle")
    /\ UNCHANGED <<runtime, doubled>>

\* Slip: the port is not asked.
ProbeNothing(s) ==
    /\ Tool(s, "probe")
    /\ ToolTo(s, "spawn")
    /\ UNCHANGED <<runtime, tools, hurried, doubled>>

\* already_running, or nothing answers on the port.
Probe(s) ==
    /\ Tool(s, "probe")
    /\ ToolTo(s, IF runtime = "up" THEN "idle" ELSE "spawn")
    /\ UNCHANGED <<runtime, tools, hurried, doubled>>

\* Or the tree is gone by now.
Spawn(s) ==
    /\ Tool(s, "spawn")
    /\ \/ target # NoTree /\ Spawned /\ ToolTo(s, "wait")
       \/ target.kind # "full" /\ UNCHANGED <<runtime, doubled>> /\ ToolTo(s, "idle")
    /\ UNCHANGED <<tools, hurried>>

\* running, or not_reachable when the time is up.
Waited(s) ==
    /\ Tool(s, "wait")
    /\ ToolTo(s, "idle")
    /\ UNCHANGED <<runtime, tools, hurried, doubled>>

\* runtime_stop kills what it finds, if it can, and always answers stopped.
StopTool(s) ==
    /\ Call(s)
    /\ runtime' \in {"down", runtime}
    /\ UNCHANGED <<tool, hurried, doubled>>

\* The runtime binds its port, or ends, as it also may later.
Binds ==
    /\ runtime = "starting"
    /\ runtime' = "up"
    /\ UNCHANGED <<lockVars, phase, bounce, trees, out, overlap, torn, installed, toolVars>>
RuntimeEnds ==
    /\ beside /\ runtime # "down"
    /\ runtime' = "down"
    /\ UNCHANGED <<lockVars, phase, bounce, trees, out, overlap, torn, installed, toolVars>>

------------------------------------------------------------------------------
(* Around the requests.                                                    *)

LockAges ==
    /\ Age /\ ~beside
    /\ UNCHANGED <<phase, bounce, treeVars, out, overlap, torn, installed, toolVars>>

\* The service dies.  The trees stay as they are.
Restart ==
    /\ LockRestart
    /\ phase' = [d \in Deployers |-> "none"]
    /\ bounce' = [d \in Deployers |-> FALSE]
    /\ out' = [d \in Deployers |-> "none"]
    /\ Tear(\E d \in Deployers : phase[d] \in {"aside", "place", "clean"})
    /\ tool' = [s \in Starters |-> "idle"]
    /\ UNCHANGED <<treeVars, overlap, installed, tools, beside, hurried, doubled>>

Step(d) ==
    \/ LockRefuses(d) \/ Acquiring(d) \/ Acquired(d)
    \/ Edit(d) \/ EditFails(d)
    \/ StudioExports(d) \/ StudioExits(d) \/ StudioFails(d)
    \/ Evicted(d) \/ StopRuntime(d) \/ LauncherFails(d) \/ SwapBegins(d)
    \/ MoveAside(d) \/ MoveAsideFails(d) \/ Place(d) \/ PlaceFails(d)
    \/ DropBackup(d) \/ StartRuntime(d) \/ Verify(d)
    \/ Releasing(d)

ToolStep(s) == StartTool(s) \/ Probe(s) \/ Spawn(s) \/ Waited(s) \/ StopTool(s)

Next ==
    \/ \E d \in Deployers : Begin(d) \/ Step(d)
    \/ \E s \in Starters : ToolStep(s)
    \/ Binds \/ RuntimeEnds
    \/ LockAges
    \/ Restart

Spec == Init /\ [][Next]_vars

------------------------------------------------------------------------------
(* Properties.                                                             *)

\* Type invariant: every variable stays in the set its code counterpart ranges over.
TypeOK ==
    /\ LockTypeOK
    /\ phase \in [Deployers -> Phases]
    /\ bounce \in [Deployers -> BOOLEAN]
    /\ {staging, target, bak} \subseteq Trees
    /\ runtime \in {"down", "starting", "up"}
    /\ tool \in [Starters -> Tools] /\ tools \in Nat /\ {beside, hurried, doubled} \subseteq BOOLEAN
    /\ out \in [Deployers -> Outcomes]
    /\ overlap \in BOOLEAN
    /\ torn \in 0 .. 2
    /\ installed \in BOOLEAN

\* As long as requests come one at a time and at most one swap was cut short, by
\* an error or by the death of the service, there is a whole tree to run from
\* once one was installed, whatever the later requests do before they come to
\* their own swap.
OneTreeSurvives ==
    installed /\ ~overlap /\ torn <= 1 =>
        \E t \in {staging, target, bak} : t.kind = "full"

\* As long as requests come one at a time, "succeeded" is answered only when the
\* whole export of that request is the installed tree.
SucceededInstalled ==
    [][\A d \in Deployers :
         ~overlap /\ out[d] = "none" /\ out'[d] = "succeeded" =>
             target = Full(d)]_vars

\* As long as requests come one at a time and no swap was cut short, a request
\* that does not succeed leaves a whole tree installed if there was one.
FailureKeepsTree ==
    [][\A d \in Deployers :
         /\ ~overlap /\ torn' = 0 /\ installed
         /\ out[d] = "none" /\ out'[d] \in {"failed", "evicted"}
         => target'.kind = "full"]_vars

\* A runtime is not spawned beside another one, which it would orphan: as long as nobody asks
\* for one before the last has come up, or while another start or a deploy is under way.
OneRuntime == doubled => hurried

\* "Single-writer guarantee": while a request works under the lock, the trees are
\* changed by its own steps only.
SingleWriter ==
    [][\A d \in Deployers :
         pc[d] \in {"inside", "guarded"} /\ trees' # trees
             => pc'[d] # pc[d] \/ phase'[d] # phase[d]]_vars
==============================================================================
