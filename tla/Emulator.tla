------------------------------ MODULE Emulator ------------------------------
(***************************************************************************)
(* The local emulators of the projects: run, restart, stop and status, the *)
(* F5 key that toggles, the wait for a runtime to serve, the tab that is   *)
(* resolved anew for it, and the record by which a later call tells that   *)
(* an emulator was started or stopped outside the service.  Composed with  *)
(* the tab registry, through which the calls of CdpTabs look at it.        *)
(*                                                                         *)
(* No lock orders the emulator calls: each runs in a worker thread.        *)
(***************************************************************************)
EXTENDS CdpTabs

CONSTANTS
    Jobs,      \* emulator calls in progress
    Unset,     \* the record before the first call
    MaxBuilds, \* bound: runtimes built
    Scenes     \* how an execution may begin, and its bounds: the ports of the projects, the one
               \* whose emulator runs, the CDP calls, the emulator calls, the accidents to the
               \* tabs, the other events

ASSUME EmulatorAssumption ==
    /\ MaxBuilds \in Nat /\ Unset \notin [Projects -> 0..MaxBuilds]
    /\ \A b \in Scenes : /\ {b.calls, b.accidents, b.events} \subseteq Nat
                         /\ b.jobs \in [Jobs -> Nat] /\ b.ports \subseteq [Projects -> Ports]
                         /\ b.up \in Projects => MaxBuilds > 0

VARIABLES
    runtime,   \* the emulator of each project, numbered by the build it comes of
    webPort,   \* the port each project's model has
    foreign,   \* ports on which another program listens
    record,    \* _EMU_RECORD
    job,       \* the emulator calls in progress
    jobs, events,   \* what is left of the bounds: calls, and what others do
    builds,    \* how many there have been
    known,     \* history: the process each project has through the service, or as it was told
    blur,      \* history: the projects that two actors had to do with at a time
    cut        \* history: the projects that the last call on raised an exception

emuVars == <<runtime, webPort, foreign, record, job, jobs, events, builds, known, blur, cut>>

NoPid == 0
Runtimes == {"down", "building", "up", "serving", "hung", "expired"}
Down == [pid |-> NoPid, is |-> "down", at |-> Blank, ours |-> FALSE]

\* scope: the projects that the call is about.  snap: the processes it listed.  pid: the one
\* that it saw serve.  A restart says that it restarted if its result keeps an old process.
\* History: since, the builds before it; misled, its key went to a Studio that had another
\* project open by then, or none, or another's listener was taken for its runtime.
NoPids == [p \in Projects |-> NoPid]
Off == [pc |-> "idle", kind |-> "status", scope |-> {}, snap |-> NoPids,
        old |-> NoPid, pid |-> NoPid, answer |-> "none", since |-> 0, misled |-> FALSE]

\* An emulator that runs when the service starts.
FromBefore(p) == [pid |-> 1, is |-> "serving", at |-> webPort[p], ours |-> FALSE]

EmuInit(b) ==
    /\ TabsInit /\ port \in b.ports
    /\ calls = b.calls /\ jobs = b.jobs /\ events = b.events
    /\ accidents + Cardinality(Live) = b.accidents
    /\ webPort = port
    /\ runtime = [p \in Projects |-> IF p = b.up THEN FromBefore(p) ELSE Down]
    /\ foreign = {}
    /\ record = Unset
    /\ job = [j \in Jobs |-> Off]
    /\ builds = IF b.up \in Projects THEN 1 ELSE 0
    /\ known = [p \in Projects |-> NoPid] /\ blur = {} /\ cut = {}

Alive(p) == runtime[p].is \notin {"down", "building"}
Pids == [p \in Projects |-> IF Alive(p) THEN runtime[p].pid ELSE NoPid]
Serving(p, w) == runtime[p].is = "serving" /\ runtime[p].at = w
Listening(w) == w \in foreign \/ \E p \in Projects : Serving(p, w)

On(j, pc) == job[j].pc = pc
Project(j) == CHOOSE p \in Projects : job[j].scope = {p}
Goes(j, pc) == job' = [job EXCEPT ![j].pc = pc, ![j].snap = NoPids]

\* A restart whose run half gives no error is said to have restarted, whatever came of it.
Answers(j, answer) ==
    job' = [job EXCEPT ![j].pc = "again", ![j].answer = answer,
                       ![j].old = IF answer = "failed" THEN NoPid ELSE @]

\* An exception goes past the second record.
Raises(j) == job' = [job EXCEPT ![j] = Off] /\ cut' = cut \union job[j].scope

\* _resolve_web_port_uncached: the port is read from the model, and cached.
ReadPort(p) == port' = [port EXCEPT ![p] = webPort[p]]

Involved(p) == \E j \in Jobs : ~On(j, "idle") /\ p \in job[j].scope

-----------------------------------------------------------------------------
(* The record, before and after each call.                                 *)

\* with_external_change_check: the processes are listed, then compared under the lock.  A run
\* and a restart are about one project; the others about one, or all.
BeginJob(j, kind, scope) ==
    /\ On(j, "idle") /\ jobs[j] > 0
    /\ kind \in {"run", "restart"} => \E p \in Projects : scope = {p}
    /\ jobs' = [jobs EXCEPT ![j] = @ - 1]
    /\ job' = [job EXCEPT ![j] = [Off EXCEPT !.pc = "compare", !.kind = kind, !.scope = scope,
                                             !.snap = Pids, !.since = builds]]
    /\ blur' = (blur \ scope) \union {p \in scope : Involved(p)} /\ cut' = cut \ scope
    /\ UNCHANGED <<tabVars, runtime, webPort, foreign, record, events, builds, known>>

\* Slip: every project is recorded, whatever the call is about.
MergedAll(j) == job[j].snap

\* _merge_project_record
Merged(j) == [p \in Projects |-> IF record = Unset \/ p \in job[j].scope THEN job[j].snap[p]
                                 ELSE record[p]]

\* What differs from the record is told as an external change; the first time nothing is.
Compare(j) ==
    /\ On(j, "compare")
    /\ record' = Merged(j)
    /\ known' = [p \in Projects |-> IF record = Unset \/ p \in job[j].scope
                                    THEN job[j].snap[p] ELSE known[p]]
    /\ Goes(j, CASE job[j].kind = "status" -> "again" [] job[j].kind = "run" -> "look"
                 [] OTHER -> "status")
    /\ UNCHANGED <<tabVars, runtime, webPort, foreign, jobs, events, builds, blur, cut>>

ListAgain(j) ==
    /\ On(j, "again")
    /\ job' = [job EXCEPT ![j].pc = "record", ![j].snap = Pids]
    /\ UNCHANGED <<tabVars, runtime, webPort, foreign, record, jobs, events, builds, known,
                   blur, cut>>

Record(j) ==
    /\ On(j, "record")
    /\ record' = Merged(j)
    /\ job' = [job EXCEPT ![j] = Off]
    /\ UNCHANGED <<tabVars, runtime, webPort, foreign, jobs, events, builds, known, blur, cut>>

-----------------------------------------------------------------------------
(* Stopping.                                                               *)

\* A stop and a restart begin with the processes there are; a restart reads the port anew.
Status(j) ==
    /\ On(j, "status")
    /\ IF job[j].kind = "restart" THEN ReadPort(Project(j)) ELSE port' = port
    /\ LET alive == {p \in job[j].scope : Alive(p)} IN
       job' = [job EXCEPT ![j].pc = IF alive # {} THEN "kill"
                                    ELSE IF job[j].kind = "stop" THEN "again" ELSE "look",
                          ![j].snap = Pids,
                          ![j].old = IF job[j].kind = "restart" THEN Pids[Project(j)] ELSE NoPid]
    /\ UNCHANGED <<tab, chrome, owner, call, calls, accidents, taken, runtime, webPort, foreign,
                   record, jobs, events, builds, known, blur, cut>>

\* The processes seen are killed, or may not be; a restart goes on, whatever came of it.
Kill(j) ==
    /\ On(j, "kill")
    /\ \E denied \in BOOLEAN :
         LET dead == {p \in job[j].scope : ~denied /\ Alive(p) /\ Pids[p] = job[j].snap[p]} IN
         /\ runtime' = [p \in Projects |-> IF p \in dead THEN Down ELSE runtime[p]]
         /\ known' = [p \in Projects |-> IF p \in dead THEN NoPid ELSE known[p]]
    /\ Goes(j, IF job[j].kind = "restart" THEN "look" ELSE "again")
    /\ UNCHANGED <<tabVars, webPort, foreign, record, jobs, events, builds, blur, cut>>

-----------------------------------------------------------------------------
(* Running.                                                                *)

\* detect_web_port_clash
Clashes(p) ==
    LET rivals == {q \in Projects \ {p} : webPort[q] = webPort[p]} IN
    \/ \E q \in rivals : Alive(q)
    \/ rivals # {} /\ ~Alive(p) /\ Listening(webPort[p])

TakenByOther(p) == Listening(port[p]) /\ ~Serving(p, port[p])

Event == events > 0 /\ events' = events - 1

\* Whose a listener is cannot always be read; then it counts as the project's own,
\* for the rest of the call.
Misread(j) ==
    TakenByOther(Project(j)) /\ IF job[j].misled THEN events' = events ELSE Event
NotTaken(j) == Misread(j) \/ (~TakenByOther(Project(j)) /\ events' = events)

\* F5 toggles, so it is refused when the port is another's or the process hangs.
Refuse(j) ==
    /\ On(j, "look")
    /\ Answers(j, "failed")
    /\ UNCHANGED <<tabVars, runtime, webPort, foreign, record, jobs, events, builds, known,
                   blur, cut>>

\* _bridge_cfg_for: more than one bridge serves the project.
LookRaises(j) ==
    /\ On(j, "look")
    /\ Raises(j)
    /\ UNCHANGED <<tabVars, runtime, webPort, foreign, record, jobs, events, builds, known, blur>>

\* Nor is it sent to a runtime that is there.  A restart whose kill failed ends up here too.
AlreadyRunning(j) ==
    /\ On(j, "look")
    /\ LET p == Project(j) IN
       /\ ~Clashes(p) /\ NotTaken(j) /\ runtime[p].is \in {"up", "serving"}
       /\ \/ /\ Listening(port[p])
             /\ IF job[j].kind = "restart"
                THEN Goes(j, IF job[j].old # NoPid THEN "gate" ELSE "tab again")
                ELSE Answers(j, "already")
          \/ ~Serving(p, port[p]) /\ Answers(j, "unserved")
    /\ UNCHANGED <<tabVars, runtime, webPort, foreign, record, jobs, builds, known, blur, cut>>

Look(j) ==
    /\ On(j, "look")
    /\ LET p == Project(j) IN
       /\ ~Clashes(p) /\ NotTaken(j)
       /\ runtime[p].is \in {"down", "building", "expired"}
    /\ Goes(j, "press")
    /\ UNCHANGED <<tabVars, runtime, webPort, foreign, record, jobs, builds, known, blur, cut>>

\* The key starts what is stopped, and stops what runs or is being built.
Toggled(p, ours) == IF runtime[p].is = "down"
                    THEN [pid |-> builds + 1, is |-> "building", at |-> Blank, ours |-> ours]
                    ELSE Down
Toggles(p, ours) ==
    /\ runtime[p].is = "down" => builds < MaxBuilds
    /\ runtime' = [runtime EXCEPT ![p] = Toggled(p, ours)]
    /\ builds' = IF runtime[p].is = "down" THEN builds + 1 ELSE builds

\* The Studio that gets the key has the project q open, or none.
Sends(j, q) ==
    /\ On(j, "press")
    /\ LET p == Project(j) IN
       /\ IF q = Nobody THEN UNCHANGED <<runtime, builds>> ELSE Toggles(q, q = p)
       /\ known' = IF q = p THEN [known EXCEPT ![p] = NoPid] ELSE known
       /\ blur' = IF q # p /\ q # Nobody /\ Involved(q) THEN blur \union {q} ELSE blur
    /\ UNCHANGED <<tab, chrome, owner, call, calls, accidents, taken, webPort, foreign, record,
                   jobs, events>>

Press(j, q) ==
    /\ Sends(j, q)
    /\ ReadPort(Project(j))
    /\ job' = [job EXCEPT ![j].pc = "wait", ![j].misled = q # Project(j)]
    /\ cut' = cut

\* The key is sent whether or not the Studio took the focus, so any may get it; or there is no
\* window; or the script that sends it takes too long, and raises.
PressLost(j, q) ==
    /\ Sends(j, q)
    /\ port' = port
    /\ \/ Answers(j, "refused") /\ cut' = cut
       \/ Raises(j)

\* No Studio to send it to; or (known of the configuration alone) a target that is a device.
PressFails(j) ==
    /\ On(j, "press")
    /\ \E answer \in {"failed", "refused"} : Answers(j, answer)
    /\ UNCHANGED <<tabVars, runtime, webPort, foreign, record, jobs, events, builds, known,
                   blur, cut>>

\* The port answers: it counts when the listener is the project's own process.
WaitServed(j) ==
    /\ On(j, "wait")
    /\ LET p == Project(j) IN
       /\ Serving(p, port[p])
       /\ job' = [job EXCEPT ![j].pc = "tab", ![j].pid = Pids[p]]
    /\ UNCHANGED <<tabVars, runtime, webPort, foreign, record, jobs, events, builds, known,
                   blur, cut>>

WaitMisled(j) ==
    /\ On(j, "wait") /\ Misread(j)
    /\ job' = [job EXCEPT ![j].pc = "tab", ![j].pid = Pids[Project(j)], ![j].misled = TRUE]
    /\ UNCHANGED <<tabVars, runtime, webPort, foreign, record, jobs, builds, known, blur, cut>>

WaitTaken(j) ==
    /\ On(j, "wait") /\ TakenByOther(Project(j))
    /\ Answers(j, "failed")
    /\ UNCHANGED <<tabVars, runtime, webPort, foreign, record, jobs, events, builds, known,
                   blur, cut>>

\* The log says that the port could not be bound, or the time is up, which is no error.
WaitEnds(j) ==
    /\ On(j, "wait") /\ ~Listening(port[Project(j)])
    /\ \E answer \in {"failed", "unserved"} : Answers(j, answer)
    /\ UNCHANGED <<tabVars, runtime, webPort, foreign, record, jobs, events, builds, known,
                   blur, cut>>

\* _cdp_after_runtime_up: the tab that was registered is not trusted.  A restart comes here
\* twice, and the second time closes the tab that the first has opened.
AfterTab(j) ==
    IF On(j, "tab") /\ job[j].kind = "restart"
    THEN job' = [job EXCEPT ![j].pc = IF job[j].old # NoPid THEN "gate" ELSE "tab again"]
    ELSE Answers(j, IF job[j].pid = NoPid /\ ~job[j].misled THEN "already" ELSE "serves")

ResolveTab(j) ==
    /\ job[j].pc \in {"tab", "tab again"}
    /\ LET p == Project(j)
           k == <<p, port[p]>>
       IN (\E t \in Tabs, created \in BOOLEAN : Reresolved(k, TRUE, t, created))
            \/ NotReresolved(k, TRUE)
    /\ AfterTab(j)
    /\ UNCHANGED <<chrome, port, call, calls, accidents, taken, runtime, webPort, foreign, record,
                   jobs, events, builds, known, blur, cut>>

Gated(j, misled) ==
    job' = [job EXCEPT ![j].pc = "tab again", ![j].pid = Pids[Project(j)],
                       ![j].misled = @ \/ misled]

\* Slip: any process that serves is taken for the new one.
GateOld(j) ==
    /\ On(j, "gate")
    /\ LET p == Project(j) IN
       \/ /\ Serving(p, port[p]) /\ events' = events
          /\ Gated(j, FALSE)
       \/ ~Serving(p, port[p]) /\ events' = events /\ Answers(j, "failed")
    /\ UNCHANGED <<tabVars, runtime, webPort, foreign, record, jobs, builds, known, blur, cut>>

\* _wait_new_runtime: there is a process other than the one that was there, and the port serves.
Gate(j) ==
    /\ On(j, "gate")
    /\ LET p == Project(j)
           new == Pids[p] \notin {job[j].old, NoPid}
       IN \/ new /\ Serving(p, port[p]) /\ events' = events /\ Gated(j, FALSE)
          \/ new /\ Misread(j) /\ Gated(j, TRUE)
          \/ ~(new /\ Serving(p, port[p])) /\ events' = events /\ Answers(j, "failed")
    /\ UNCHANGED <<tabVars, runtime, webPort, foreign, record, jobs, builds, known, blur, cut>>

-----------------------------------------------------------------------------
(* What Studio, the runtimes and the user do.                              *)

\* The process appears.  What a call had asked for is its own doing until its last listing.
Spawns(p) ==
    /\ runtime[p].is = "building"
    /\ runtime' = [runtime EXCEPT ![p].is = "up"]
    /\ known' = IF runtime[p].ours THEN [known EXCEPT ![p] = runtime[p].pid] ELSE known
    /\ LET awaited == \E j \in Jobs : /\ p \in job[j].scope
                                      /\ job[j].pc \notin {"compare", "record"}
       IN blur' = IF IF runtime[p].ours THEN awaited ELSE ~Involved(p) THEN blur
                  ELSE blur \union {p}
    /\ UNCHANGED <<tabVars, webPort, foreign, record, job, jobs, events, builds, cut>>

\* It serves on the port that it was built with, or hangs because that is taken.
Serves(p) ==
    /\ runtime[p].is = "up"
    /\ runtime' = [runtime EXCEPT ![p].is = IF Listening(webPort[p]) THEN "hung" ELSE "serving",
                                  ![p].at = webPort[p]]
    /\ UNCHANGED <<tabVars, webPort, foreign, record, job, jobs, events, builds, known,
                   blur, cut>>

\* A dialog in Studio eats the key.
Dialog(p) ==
    /\ runtime[p].is = "building" /\ Event
    /\ runtime' = [runtime EXCEPT ![p] = Down]
    /\ UNCHANGED <<tabVars, webPort, foreign, record, job, jobs, builds, known, blur, cut>>

\* An outside start or stop, while a call is about the project, cannot be told apart.
Outside(p) ==
    /\ Event
    /\ blur' = IF Involved(p) THEN blur \union {p} ELSE blur
    /\ UNCHANGED <<tabVars, webPort, foreign, record, job, jobs, known, cut>>

UserPresses(p) == Toggles(p, FALSE) /\ Outside(p)
Crashes(p) == /\ Alive(p) /\ runtime' = [runtime EXCEPT ![p] = Down] /\ builds' = builds
              /\ Outside(p)

\* The demo licence ends: the process stays, and no longer serves.
Expires(p) ==
    /\ runtime[p].is = "serving" /\ Event
    /\ runtime' = [runtime EXCEPT ![p].is = "expired"]
    /\ UNCHANGED <<tabVars, webPort, foreign, record, job, jobs, builds, known, blur, cut>>

\* The port of a project is edited; another program takes or leaves a port.
EditPort(p) ==
    /\ Event
    /\ \E w \in Ports \ {webPort[p]} : webPort' = [webPort EXCEPT ![p] = w]
    /\ UNCHANGED <<tabVars, runtime, foreign, record, job, jobs, builds, known, blur, cut>>

ForeignListener ==
    /\ Event
    /\ \/ foreign # {} /\ foreign' = {}
       \/ \E w \in Ports : ~Listening(w) /\ foreign' = foreign \union {w}
    /\ UNCHANGED <<tabVars, runtime, webPort, record, job, jobs, builds, known, blur, cut>>

\* The cached port is read anew after its time, or because nothing listens on it.
PortExpires(p) ==
    /\ port[p] # webPort[p] /\ ReadPort(p)
    /\ UNCHANGED <<tab, chrome, owner, call, calls, accidents, taken, emuVars>>

\* The service dies with all its calls and what it remembers.
RestartService ==
    /\ ServiceRestarts
    /\ job' = [j \in Jobs |-> Off] /\ record' = Unset
    /\ UNCHANGED <<runtime, webPort, foreign, jobs, events, builds, known, blur, cut>>

JobStep(j) ==
    \/ Compare(j) \/ ListAgain(j) \/ Record(j) \/ Status(j) \/ Kill(j)
    \/ WaitServed(j) \/ WaitMisled(j) \/ WaitTaken(j) \/ WaitEnds(j) \/ ResolveTab(j) \/ Gate(j)

LookStep(j) == Refuse(j) \/ AlreadyRunning(j) \/ Look(j)

Environment ==
    \/ \E p \in Projects : \/ Spawns(p) \/ Serves(p) \/ Dialog(p) \/ Crashes(p)
                           \/ Expires(p) \/ EditPort(p) \/ PortExpires(p)
    \/ ForeignListener

\* All but what Studio has a part in: the keys, and where they are sent.
EmuStep ==
    \/ \E c \in Calls : (CallStep(c) \/ HealStep(c)) /\ UNCHANGED emuVars
    \/ \E c \in Calls, kind \in Kinds, p \in Projects \union {Nobody} :
          BeginCall(c, kind, p) /\ UNCHANGED emuVars
    \/ \E t \in Tabs : (TabChanges(t) \/ UserCloses(t) \/ UserBrowses(t)) /\ UNCHANGED emuVars
    \/ ChromeDies /\ UNCHANGED emuVars
    \/ \E j \in Jobs : JobStep(j)
    \/ \E j \in Jobs, kind \in {"run", "restart", "stop", "status"},
          scope \in {Projects} \union {{p} : p \in Projects} : BeginJob(j, kind, scope)
    \/ Environment

EmuRest == /\ calls = 0 /\ (\A j \in Jobs : jobs[j] = 0) /\ (\A c \in Calls : At(c, "idle"))
           /\ (\A j \in Jobs : On(j, "idle"))

-----------------------------------------------------------------------------
(* Properties.                                                             *)

\* The type invariant, of the tabs as well.
EmuTypeOK ==
    /\ TabsTypeOK
    /\ runtime \in [Projects -> [pid : 0..MaxBuilds, is : Runtimes, at : Ports \union {Blank},
                                 ours : BOOLEAN]]
    /\ webPort \in [Projects -> Ports] /\ foreign \subseteq Ports
    /\ record \in [Projects -> 0..MaxBuilds] \union {Unset}
    /\ job \in [Jobs -> [pc : {"idle", "compare", "again", "record", "status", "kill", "look",
                               "press", "wait", "tab", "tab again", "gate"},
                         kind : {"run", "restart", "stop", "status"}, scope : SUBSET Projects,
                         snap : [Projects -> 0..MaxBuilds], old : 0..MaxBuilds,
                         pid : 0..MaxBuilds,
                         answer : {"none", "failed", "refused", "unserved", "already", "serves"},
                         since : 0..MaxBuilds, misled : BOOLEAN]]
    /\ jobs \in [Jobs -> Nat] /\ builds \in 0..MaxBuilds
    /\ known \in [Projects -> 0..MaxBuilds] /\ {blur, cut} \subseteq SUBSET Projects

\* Between the calls on a project the record holds the process it has through the service or
\* was told to have: the service's own starts and stops are never told as external, and a
\* call on one project swallows no change of another.  Out of its reach are projects that two
\* actors had to do with at a time, or whose process came after the call had ended, or whose
\* last call raised an exception.
RecordTruthful ==
    record # Unset => \A p \in Projects \ (blur \union cut) : ~Involved(p) => record[p] = known[p]

\* A run or restart that says that what it launched serves has seen a runtime of the project
\* serve that was built after the call began, and so with every edit made before it: unless the
\* key went astray, and what it had waited for was built before, or the owner of the port could
\* not be read.
AnswerTruthful ==
    \A j \in Jobs : job[j].answer = "serves" /\ ~job[j].misled => job[j].pid > job[j].since
=============================================================================
