# ftx-mcp: models, checks and proofs

`ftx-mcp` is a Python service that lets MCP clients author FactoryTalk Optix
projects. It talks HTTP to a design-time bridge, a C# NetLogic that runs inside
Optix Studio, and drives Studio, its emulator and a headless Chrome. This directory
holds TLA+ models of the parts in which order, failure and concurrency matter, the
TLC configurations that check them, and proofs for the TLA+ proof system.

## The system

One service process (`service/main.py`) serves HTTP on 8765 and MCP on 8766. MCP
tools are synchronous functions that run in worker threads, up to 40 at once, so any
two calls may interleave at any point; five locks in `core.py` cover short critical
sections only. State lives in five places:

| place | what | survives |
|---|---|---|
| Studio (the live model) | nodes and properties | the service, not Studio |
| the bridge's listener | connections, served one at a time | the service |
| files under `state_dir` | batch journals, deploy lock, staging, audit, outcomes | everything |
| the runtime tree | `runtime_dir/<project>` and its `.bak` | everything |
| service memory | remembered create timeouts, CDP tabs, caches, emulator record | nothing |

| component | state | operations | hard behaviour | what makes it correct |
|---|---|---|---|---|
| batched authoring, `core.bridge_edit*` | journal file, the loop's locals | apply, continue, status | crash between model and journal, torn journal, two continues, late operations | nothing skipped or replayed; counters and states true; chunking ends |
| deploy lock, `deploy_lock.py` | lock file, epoch of each holder | acquire, check, release | file races between look, create, break and unlink; dead and slow holders | one holder; evicted holders notice |
| deploy, `core.deploy` | staging, runtime tree, backup, runtime process | edit, export, stop, swap, start, verify | a failure or death at each step, two requests | a whole tree survives; answers true |
| create and verify, `core._create_with_verify` | remembered timeouts | create, read back, roll back | lost answers, abandoned requests that land later | created once; final answers are final; rollbacks told have happened |
| NetLogic source protection | restore registry, snapshots | snapshot, restore, late guard | Studio rewriting files after the call | source never lost, deliberate edits never reverted |
| CDP tabs | tab per project and port | adopt, open, heal, close | probes outside the lock, tabs that vanish | one tab per project, healthy tabs kept |
| bridge routing | registry files, health cache | resolve, scan | stale entries, equal names | writes go to the right Studio |
| emulator record | last process table seen | run, stop, restart, detect | foreign starts and stops during a call | own effects never reported, foreign ones always |
| save, open, arm | keystrokes, windows, file times | save, open, arm | re-sent keystrokes, focus | saved is told only of a written file |
| front ends, tokens, guard, validation | little or none | dispatch, check | none of interest here | - |

Components meet in a few ways. A batch applies its operations through the same bridge
functions as single calls; creates among them go through `_create_with_verify`.
Deploy uses the lock, the editor guard and the runner. Everything that reaches the
live model goes through `_bridge_http` to the one accept loop of the bridge that
`resolve_bridge` has found; keys and clicks go to the Studio that was found through that
bridge, or without it. Emulator runs share the tab registry and the web-port cache with the
CDP calls, and toggle what the user toggles with the same key. `PROJECT.json` lists all
components with their status, and the hazards, each at its line.

## Modules

| module | models | extends |
|---|---|---|
| `BatchPromise` | abstract: what a batch promises to the clients that share it | |
| `BatchEdit` | `bridge_edit`, `bridge_edit_continue`, the journal, crashes, late operations | instance of `BatchPromise` |
| `DeployLock` | `deploy_lock.py` | |
| `Deploy` | `core.deploy`, `_atomic_swap`, and the runtime tools beside them | `DeployLock` |
| `CreateVerify` | `_create_with_verify`, `bridge_add_bound_widget`, the bridge's queue | |
| `NetLogicSource` | snapshot, restore, restore registry and late guard of one `<Class>.cs` | |
| `TabPool` | abstract: what the tab registry promises | |
| `CdpTabs` | the tab registry, the sessions, the recoveries, the healing of Chrome | instance of `TabPool` |
| `Emulator` | run, restart, stop, status, the external-change record | `CdpTabs` |
| `Studio` | Studios, bridges, routing, attribution, save, arm, open, execute, editor guard | `Emulator` |
| `BatchEditProofs`, `BatchEditCountProofs` | theorems about the batch | `BatchEdit` |
| `DeployProofs` | about the lock and the deploys | `Deploy` |
| `CreateVerifyProofs`, `NetLogicProofs` | about creates; about the source protection | their model |
| `CdpTabsProofs`, `EmulatorProofs`, `StudioProofs` | about tabs, emulators, Studios, each on top of the one before | their model |
| `MCBatchEdit`, `MCDeploy`, `MCCreateVerify`, `MCNetLogicSource`, `MCCdpTabs`, `MCStudio` | the instances for TLC: symmetry sets, and the scenes of `Studio` | the above |

Definitions whose comment begins with "Slip:" are plausible bugs. They take no part in
the specifications; each stands just before the definition it would replace, and
`PROJECT.json` says which property then fails. So every property is known to be
breakable by the code it is about.

### BatchEdit

One batch of `NOps` operations, from its submission on. `call[c]` is what a worker
thread knows (the locals of the loop), `journal` the file, `resp[c]` the last answer the
client had. `remaining_ops` is always a suffix of the batch and is represented by its first
index, `from`. Each journal write is two steps, `OpenJournal` and `FillJournal`, since
`Path.write_text` truncates first; either may fail (`JournalError`), which the code
swallows. An operation ends in one of six results (`BridgeApplies`, `BridgeLeaves`,
`BridgeRejects`, `BridgeTimesOut`), and one that timed out may still land (`LateLanding`). One
that fails may leave a part of itself in the model (`dirty`): rows that its answer counts
("partial"), or something that it does not count ("left"), as a node that the bridge made in the
wrong namespace, and which `_op_partial_written` cannot see (finding 1). `Restart`
replaces the process, and its request in flight may or may not be carried out.
`ChunkEnds` is possible after any successful operation with others remaining, because the
time limit may be reached at any moment; the operation limit forces it.

Abstractions: the batch id is fresh and not submitted again; the report, timings, progress
callbacks and `chunk_index` are left out; a create confirmed by its read-back is "ok";
`landed` saturates at 2. `refusedOps` and `mishaps` are history. Properties about exact
counts and replay are stated while `Clean` holds: no two calls at once and no failed
journal write, since the code protects against neither (see *Findings and limits*).

`BatchPromise` is the batch without calls, chunks and journal: which operations the model has
taken, which failed and left a part, which were refused and which are on their way, what each
client was told, and whether the batch is over. An operation lands in its turn, when all before it
have landed or been refused; "succeeded", "failed" and "chunked" are told only when they are so,
where "failed" is mapped to "left" when the operation left something uncounted: then nothing has
landed, and one operation's part is there. When the batch is over only what was on its way still
lands. That it lands once, and that a client told of an end is told
of the end, is promised while `Clean` holds. `PromiseKept` says that `BatchEdit` implements it,
with `over` mapped to: submitted, no call at work, and the journal not chunked.

### DeployLock and Deploy

Each access to the lock file is a step: `Look` and `Recheck` read it, `Create` is the
`O_EXCL` open, `Stamp` the write of the identity, `BreakLock` the unlink by name,
`Release` and `Unlink` the two halves of `_release`. The file system is that of Windows,
where the service runs: an open file cannot be unlinked (`BreakFails`, and the swallowed
alternative of `Unlink`). A holder is known by process and epoch, as in the file; the
field `by` is who really wrote it and no guard reads it. `Age` is the passing of
`stale_seconds`.

`Deploy` extends the lock's variables with the trees and one phase per request between
`Stamp` and `Release`. A tree is nothing, a part of a request's export, or the whole of it.
`SwapBegins`, `MoveAside`, `Place` and `DropBackup` are the steps of `_atomic_swap`, each of
which may be the last one before an error or the death of the service. `Begin` has the
removal of staging that precedes the lock. `Evicted` is the failing side of both
checkpoints. `overlap`, `torn`, `installed` and `stolen` are history. Git, the text of edits
and the editor guard are `Edit` and `EditFails`. Every `rmtree` ignores its errors, so it may
leave a part behind (`Remains`), and a runtime that still runs keeps the tree from being
renamed, which is why the code stops it first. `Earlier` only relabels the trees of a
request that is over, so that "succeeded" is judged by the export of the request it answers.

`runtime` is the process that runs from the installed tree: starting until its port answers.
`Starters` are calls of `optix_runtime_start` and `optix_runtime_stop`, which take no lock:
`Probe` asks the port and `Spawn` acts on the answer a step later. A deploy spawns without
asking (`RuntimeController.start`). `beside` is a bound, chosen at the start: either the tools
are called, and then requests come one at a time and no lock ages, or they are not.
`doubled` and `hurried` are history: a runtime spawned beside another, and a start that came
while one had not come up or others were at work. Not modelled: the outcome buffer, and a
Studio export that survives the death of the service.

### CreateVerify

All calls are about one path, whatever the operation. `queue` is the bridge's connections
in order: the accept loop handles one at a time, and one whose client has hung up is
handled all the same (`ServesAbandoned`). A create is sent once. When no answer comes
(`CreateTimesOut`), when the connection is dropped (`CreateDropped`) or when nothing was
reached (`CreateUnreachable`) the path is read back. What the reads leave unsettled is put
in `remembered`, and a later `name_exists` takes it out again. A composite goes on with
sets, and a failed set with the rollback: delete, check, and a second delete.

`was` marks whose call a node or a create belongs to; it, `landed`, `overlap` and the
content of `answer` are history. Not modelled: `gone_path` of a move, the NetLogic
snapshots in `bridge_delete_node`, re-sent sets (idempotent, merged into one). Reads that
are abandoned have no effect and leave the queue.

### NetLogicSource

One class, so one file and one entry of `_RECENT_NETLOGIC_RESTORES`. A content is a number:
the versions that the user wrote are 1, 2, ..., and there are no file, Studio's template, and
a file into which Studio wrote at an offset. `Begin` retires the entry for a call that is about the
class; every call first runs the late guard, which copies the entry under the lock
(`GuardCopies`) and looks at the file after it. A delete or create takes its `Snapshot`, with
a copy that may fail to be written, sends the request, and goes through `Settled`, `Verified`
and `Replace` until the file is back, its attempts are used up (`GivesUp`) or all is well
(`Restored`). What Studio may still do to the file by itself is `pending`; `StudioTouches`
does it, `StudioSettles` ends it. `_wait_for_quiet` is one step with all its outcomes.
`own` is the version the user wrote last, and `mishaps` is history: what happened that the code does
not protect against. "clash" is a write or a snapshot while another call was at work on the
file; "unprotected" a copy that could not be written or was taken of a file that another
guard still had to put right, an entry dropped while it was needed, or Studio writing after
the service had finished.

### TabPool and CdpTabs

`TabPool` is the promise: every project on a port may have one tab; somebody who works for a
key may give it a tab that nobody else has; tabs are closed only when nobody has them, or
when they are sick, or Chrome starts anew. `CdpTabs` implements it: `owner` is `_CDP_TABS`, `tab`
what Chrome shows, `call` the locals of each CDP call. What happens under `_CDP_TABS_LOCK` is one
step (`FindTab`, `Reresolve`); what is copied under the lock and used after it is two
(`HealFindsBadTabs` and `HealDrops`, `Recreate` and `RecreateCloses`). A probe is no event of
its own: a tab that does not answer in time is `slow`, one without its page `lost`, or `blind` when
the probes do not notice. A call that fails is recovered from once and tried once more; `mode` says
which of the three it is in. Accidents are what the service does not do: a tab that hangs or
comes back, the user, the end of Chrome or of the service.

A call may be told an address to go to first (`navigate_url`, of looks, clicks, texts and keys
alike), and a call without a project (`~Keyed`) attaches to whatever page Chrome lists first
(`FindFirst`), also a project's; neither is told to the registry. `Home` is where a call may leave
its tab without leading it elsewhere: where it is, the project's page, and the one for which the
project had the tab. Led anywhere else, by such a call or by the user, the tab is in `taken`, and
`ActsInOwnTab` promises nothing of it. Addresses that are not the project's, and calls without one,
count as accidents, so that the runs can afford them; the proofs have any number of them.
`lands` and `taken` are history. Not modelled: what a page shows, the viewport, the attach mode without a registry.

### Emulator

The emulator of a project is numbered by the build it comes of, so that "restarted" can be
judged. `job[j]` is an emulator call, with its two comparisons against `record`
(`_EMU_RECORD`) before and after: the processes are listed first and compared later, under
the lock. No lock orders the calls. `Toggled` is F5, which starts what is stopped and stops what
runs or is being built; the key itself belongs to `Studio`, because it goes to whatever that
Studio has open by then (`Press(j, q)`). `_cdp_after_runtime_up` resolves the tab anew
(`ResolveTab`, the same operator as the recovery of `CdpTabs`).

What an emulator call answers is one of five: "failed", with an error; "refused", which carries
neither `error` nor `ok` (the active target is a device, Studio has no window or no focus);
"unserved", when the time is up or what runs does not serve yet; "already"; and "serves". A restart
keeps the old process in `old` until its answer, which says `restarted: true` exactly when `old` is
then still set: all but "failed" (`Answers`). The key is sent whether or not Studio took the focus
(`PressLost`), so any Studio may get it, or none. The script that sends it may take too long, and two
bridges may serve the project when the run looks for one (`LookRaises`); then the call raises, and
the second record is not taken (`Raises`, `cut`). Whose a listener is cannot always be read, and then
it counts as the project's own: in the look, the wait and the gate of a restart (`Misread`).

`known`, `blur`, `cut`, `since` and `misled` are history: the process a project has through the
service or as it was told; projects that two actors had to do with at a time; those whose last call
raised; the builds before the call; a call whose key went astray, or that took another's listener
for its runtime. Left out: why a run does not serve (the diagnosis is text), the waiting for the page
to be ready, a process list that cannot be read, and the save that a run can be asked for, which is the
one of `Studio`.

### Studio

`studio[s]` is what a Studio process has open, has on its command line and has had (history);
`bridge[w]` who listens on a port and whether it tells its directory, as new bridges do;
`files` the registry; `health` the cache of bridge answers. A project is its directory, and `alike` says whether
others share its name. A request goes through routing (`RouteByRegistry`,
`RouteByScan`), and if it needs a Studio rather than a bridge through attribution: the owner of
the bridge's port, the command line, the service's own launches, the window
(`FindOwner`, `AttributeByProcess`, `AttributeByWindow`). Then it writes, presses a key, clicks,
opens, or edits files under the guard. A save is sent again, to the same Studio, while no file
has changed. An arm also replaces the source of the project's bridge (`Sync`), so that the next one tells
its directory. Emulator calls aim their F5 the same way. Users start, switch, close and
arm Studios (`turns` bounds them), and a bridge may be late with an answer.

`guess`, `stale` and `sure` are history, and say what the properties leave out: the
Studio was chosen by no more than its name or as the only one; what was found has changed since
it answered; a bridge has served the project, and answered, all along. The process
list is taken as current (the service keeps it for 2 s), a process id is used once, and an answer
that still holds leaves the health cache only when a late one may follow, as nothing would
differ. Left out: the walk through the project tree to the method that is clicked (one click),
dialogs and version checks, the guard's other editors and its failures to detect, file times.

## Runs

| run | instance | asks |
|---|---|---|
| `batch_one` | 1 client, 3 operations, chunks of 2, 1 restart; 1.1 million states | `AtMostOnce`, `AppliedTruthful`, `ChunkedHasWork`, `StopsForGood`, `Settles` |
| `batch_race` | 2 clients, 2 operations, 1 restart; 293 thousand | `TypeOK`, `JournalSound`, `SucceededComplete`, `FailedTruthful`, `PromiseKept` |
| `batch_failed` | 1 client, 2 operations | finding: `FailedContinueUntouched` |
| `deploy_pair` | 2 requests, 2 runtime tools called twice, 1 restart or 1 aged lock; 2.0 million | `TypeOK`, `OneHolder`, `OneTreeSurvives`, `OneRuntime`, `SucceededInstalled`, `FailureKeepsTree` |
| `deploy_fence` | 2 requests, no crash, no aging | finding: `CheckpointFences` |
| `deploy_staging` | 2 requests | finding: `SingleWriter` |
| `create_pair` | 2 callers, 2 classes, 1 read, 2 abandoned requests, 1 outside event; 933 thousand | `TypeOK`, `OncePerCall`, `AnswerIsFinal`, `DuplicateOnlyUnread`, `RolledBackIsGone` |
| `create_retry`, `create_orphan` | 1 caller, 2 reads | findings: `NeverBareDuplicate`, `NoSilentOrphan` |
| `netlogic_guard` | 2 worker threads, 3 calls, 2 versions, 2 rewrites by Studio, 1 restart; 2.4 million | `TypeOK`, `SourceKept`, `DeliberateStays` |
| `cdp_tabs` | 2 projects, 2 ports, 3 tabs, 2 calls, 1 accident; 940 thousand | `TabsTypeOK`, `TabsExclusive`, `ActsInOwnTab`, `TwiceAtMost`, `PoolImplemented` |
| `studio` | 2 projects, Studios, bridge ports, web ports, tabs, requests and emulator calls, 3 builds, in twelve kinds of scenes; 482 thousand | `TypeOK`, `WriteInOwnModel`, `OwnStudio`, `FoundIfServed`, `EditOutside`, `RecordTruthful`, `AnswerTruthful` |

Bounds. Three operations with chunks of two give a full chunk, a boundary and a last short
chunk; with a refusal in the first chunk the counters differ from the indices. One
restart separates what a dead process left from what the new one finds. Two deployers are
enough for every race on the lock file, as each round involves the creator and one other; there
is a restart or an aged lock, not both (`MaxMishaps`), and the proofs hold for any number of
each together. In `create_pair` `Attempts` is 1 (5 in the code; a poll that misses and another one differ only in time), and two abandoned requests allow a create
and a delete of an earlier call to be served in either order with a new one. In
`netlogic_guard` one attempt gives every way out of the restore, and two rewrites let Studio
undo what was put back (with three it passes as well). Once both mishaps have happened nothing
more begins, as no property promises anything then. The bounded system comes to an end
when calls and events are used up, so deadlock is not checked there. In
`cdp_tabs` three tabs are one for each project and one more; a tab that is open at the start
counts as an accident.

`MCStudio` lists the scenes of `studio`, each an initial condition with bounds of its own, as all of
it at once is out of reach. Four are about requests: two of them from any Studios and bridges
without namesakes; one of them beside one turn of a user, with names either way; two with
namesakes, and one beside three turns, from Studios that have every project open. Eight are
about emulators: two calls at once; one made twice, with the projects on any ports; one beside a CDP
call, an accident, an event, or a turn; one beside two events with an emulator that runs from
before, so that a restart can kill it, be misled and meet the old runtime at its gate; and one with
such an emulator and any bridges among namesakes, so that it can meet two of them. An event is also
what a listener of unknown owner costs, and a turn what a key without focus costs. The proofs have
no such scenes.

Symmetry is used for callers, requests, calls, node classes, projects, ports, tabs and
Studios, in runs with safety properties only; bridge ports are ordered, since a bridge takes the lowest free one.

Fairness. Only `Settles` needs any. `FairSpec` has weak fairness of the steps of the
worker threads, which the operating system schedules, and of the client that does what the
answer to a chunk tells it ("call continue"). With a crash, a failed write or two calls at
once the batch may stay as it is, so `Settles` promises an end only without them. Its limits
are not about waiting for Studio: every request to the bridge has a timeout.

## Proofs

Every safety and every action property of a passing run is a theorem as well, for all values of the
constants: any number of operations, callers, requests, Studios, projects, tabs, restarts. The
assumptions are the named ones of the models (`BatchAssumption`, `LockAssumption`,
`DeployAssumption`, `CreateAssumption`, `SourceAssumption`, `TabsAssumption`,
`EmulatorAssumption`, `StudioAssumption`): bounds are naturals, and the values that stand for "none" are
none of the others. Each inductive invariant was checked by TLC on the runs' instances before it was
proved. In every proof there is one lemma per action or group of actions, and one that puts them
together.

`BatchEditProofs`: `TypeCorrect`, `JournalIsSound` and `SuccessIsComplete`, from the
inductive invariant `IInv`. `JournalSound` is not inductive by itself, since a journal entry
is decided on before it is written and another call may start from it in between. `IInv` adds
that what each call has passed is settled: the operations before `call[c].i`, those before the
`from` of an entry about to be written, and every operation for a call that is about to say
"succeeded". The crash keeps it, as the memory it speaks about is emptied, and the model's own
steps keep it because landing and refusing are never undone.

`BatchEditCountProofs` adds three layers. `Counts` relates each counter to the cardinality of
what has landed below the call's place (`ChunksLeaveWork`, half of `CountersAreTrue`).
`Firsts` says that a call with nothing applied is the first of its batch and alone
(`FailedIsTruthful`: what a told failure leaves is at most a part of the operation that failed).
`Exact` holds while no calls overlap and no write fails: nothing has
landed ahead of the call, and the journal is where the call or its predecessor left it
(`LandsOnce`, the rest of `CountersAreTrue`, `StoppedIsOver`). On top of the three,
`PromiseIsKept`: `Spec => PromiseKept`, the refinement of `BatchPromise`. What a step answers is
true because the invariants hold after it, what lands or is refused is in its turn by `IInv`, and for
what lands late there is one more invariant, `LateSettled`: an operation on its way has had its turn.

`DeployProofs`: `LockHasOneHolder` from `LockInv`, the types together with `TwoRounds` (a create
is attempted at most twice) and `HolderWrote` (without a stolen lock, the file names each holder);
`DeploysKeepTheLock`, that each step of a deploy is a step of the lock or leaves it alone, so
`Spec => LockSpec`; from the two, `DeploysHaveOneHolder`. `DeployTypeCorrect` adds the trees and
tools. `OneByOne` is what holds while requests do not overlap: they work only under the lock
(`AtWork`, `Alone`), whose export is where at each phase (`Staged`), where a whole tree is
(`Kept`), and that no part is installed (`NoPart`). It gives `ATreeSurvives`,
`SuccessIsInstalled` and `FailuresKeepTheTree`. `Runtimes`, with `Calm` for the time before a
hurried start, gives `RuntimesAreSingle`.

`CreateVerifyProofs`: the five properties from `CreateInv`. The queue is a sequence from
whose middle reads and sets disappear, so most lemmas are about queues that embed in longer ones.
`CallsSound` says what the queue holds of each caller: the one request it awaits and, not behind
it, the one create of its call, as long as the call may still take either outcome. `Aging` and
`NodeOfCall` tie nodes and creates to calls in progress or over. `Solo` is about calls that come
one at a time: what was lost lies before what is awaited, and is remembered or by now used up.

`NetLogicProofs`: `SourceTypeCorrect`; `DeliberateEditsStay` from `SourceInv`, whose core is
`OneProtects`: without a clash one call protects the file, or several late guards watch over one
content, and what may be put back is the user's last version or the file no longer has it;
`SourceIsKept` from `Held`, which adds what each of the four places may hold while Studio is
not done.

`CdpTabsProofs`: `TabsTypeCorrect` and `AtMostTwice` from `TabsInv` (a call that is in a
session has a tab; nothing has landed but clicks, and nothing before the first failure);
`TabsAreExclusive`; `OwnTabsOnly`, from an invariant about the calls between their attaching and their acting
(`OnePort`), which covers addresses told, calls without a project and what they make of a tab later on; and `PoolIsImplemented`: initial states map to initial states, and every step to one of
`Settle`, `Purge`, `Relaunch`, `Accident`, or a stutter, by `INSTANCE TabPool WITH`.

`EmulatorProofs` has no theorem of a specification, because Studio presses the keys. It proves that
every step of the emulators keeps `EmuInv`: the tabs' invariant, the types, what a job knows of
its project (`Sees`, in `RecordSound`), and that there is no runtime but one built since the
call began once its key was pressed (`AnswersSound`). It also proves that each of them is a step
of the tab pool.

`StudioProofs` puts it together. `StudioInvariant` is `EmuInv` and `StudioInv`, which share only
the keys. `StudioInv` has the types; that a Studio has had what it has, what its
command line names and what it was launched for, and that bridges are in Studios with a project
(`StudiosSound`); and what each state of a request stands for (`ReqsSound`). A step of
Studio or a user gives the requests less to count on (`Weaker`: more of them are stale, fewer
are sure) and only adds to what a Studio has had, so their knowledge stays true; `Reachable`
is what `sure` rests on. From it: `StudioTypeCorrect`, `WritesInOwnModel`, `KeysGoToOwnStudio`,
`FoundWhileServed`, `EditsOutside`, `RecordIsTruthful`, `AnswersAreTruthful`. And for the
composition: `StudioTabsExclusive`, `StudioTwiceAtMost` and `StudioImplementsPool`, that the
whole of Studios, emulators and calls implements the abstract pool of tabs. `ActsInOwnTab` is not
claimed there: an emulator call reads a port anew between the attaching and the acting of a CDP call.

Proof attempts have changed the models where an invariant turned out not to be inductive:

- F5 goes to a Studio that may have switched projects since it was found; `misled` marks the
  call whose key did, and `AnswerTruthful` says so.
- `project_open` records the Studio it finds as its own launch, also when only the name told
  it; `named` keeps that, and `OwnStudio` treats a key aimed by such a launch as a guess.
- A refused pass of the attributed guard has probed the bridges all the same.

Only model-checked: `Settles`, since liveness is out of this prover's reach. No definition is
recursive. The refinements here are stated for `Spec` without fairness, since the abstract
specifications have none.

## Findings and limits

Each is a run that ends in a violation, with the text it contradicts in `PROJECT.json`.

1. `batch_failed`: a batch whose first operation timed out, and landed, is journalled
   "failed"; continue then says that it "failed before anything was applied". So it does when
   the operation failed and left something uncounted in the model; there the first answer says
   already that "the model is unchanged".
2. `deploy_fence`: a lock file is visible before it is written. An acquirer that reads it
   then unlinks it as corrupt and starts from epoch 1 again: the same epoch in the same process, so the
   first holder passes its checkpoints.
3. `deploy_staging`: a request that will be refused removes the staging directory first,
   under the export that is writing it.
4. `create_retry`: the remembered timeout is used up before the reads that need it.
5. `create_orphan`: a composite does not catch `BridgeLoading`, so neither the rollback nor
   the failure answer happens.

What the provisos of the properties mean for the code: two continues of one batch at once
do apply operations twice (`Clean` in `AtMostOnce`), two requests whose names differ
only by caller share the memory of timeouts (`overlap` in `DuplicateOnlyUnread`), and
`OneHolder` holds only while no live lock is unlinked (`stolen`), which finding 2 shows happening.

Behaviour that was met while modelling, is in the models, and contradicts no text or is not
stated as a property:

- Tabs. The healing may reload a page twice. `recreate_page` closes tabs that do not answer
  whosever they are. A restart of an emulator resolves the tab twice, and the second time closes
  what the first has opened. A tab that the user, a told address or a call without a project has
  led to another application can be adopted for that one's project while a call for the first is
  about to act in it (the proviso `taken` of `ActsInOwnTab`).
- Emulators. A second run while Studio still builds toggles the first one off. A runtime that
  spawns after its call has ended is told as external. A restart whose kill failed meets the old
  runtime: if that serves, the gate says that nothing was restarted, and if it does not,
  `restarted: true` is told. So it is of a run whose time is up, and of one that is refused
  without an error after the kill, although a comment says that a refused run is not a restart
  (`core.py:14598`). A call that raises after a kill, because two bridges serve the project or the
  script that sends the key takes too long, skips the second record, so the next call tells the
  service's own stop as external: this is the proviso `cut` of `RecordTruthful`. A listener of
  unknown owner is told as the runtime that serves (the proviso `misled` of `AnswerTruthful`).
  The web-port cache may be stale for 30 s.
- Runtimes. `optix_runtime_start` repeated before the first runtime has bound its port spawns
  another (the proviso `hurried`); so does a deploy, which asks no port.
- Studios. A cached "refused" deletes the registry file of a bridge that has come up since.
  `project_open` reads any Studio's refusal in the log they share, and closes the Studio it has
  launched with whatever that has open by then. A re-sent Ctrl+S goes to the same Studio even if it has
  switched projects.
- NetLogic source. A snapshot taken between another call's restore and Studio's next rewrite
  protects the wrong content (the mishap "unprotected").

## Plan

What is left, in order:

1. Composition of `BatchEdit` with `CreateVerify`: an abstract contract of one bridge operation
   that `BatchEdit` assumes and `CreateVerify` implements.
2. `ActsInOwnTab` in the composition with moving ports, and the promise of `TabPool` that a
   project comes to a tab of its own, which needs fairness.
3. The composites other than `bridge_add_bound_widget`, and the source check of a move
   (`gone_path`), in `CreateVerify`.

Not planned: window automation beyond what `Studio` has of it (`studio_arm`, `studio_uia`, native
input), whose decisions depend on what the screen shows; pure text functions (validation, schema,
anchored edits); the installers; authentication, which reads a file per request; the client
registry, whose every operation is one critical section. Two hazards have no property: a recycled process id
makes an abandoned batch look alive, and a rollback deletes whatever is at its path; the service has no
way to tell either case.
