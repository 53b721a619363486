------------------------------- MODULE Studio -------------------------------
(***************************************************************************)
(* The running Studios, the design-time bridges in them, and how the       *)
(* service finds the one that a project is open in: by the bridges' answers*)
(* and registry files for a request to a bridge; by the bridge, the        *)
(* command line, its own launches or the window for a key, a click or an   *)
(* opening.  Composed with the emulators, which Studio's F5 toggles.       *)
(*                                                                         *)
(* A process id is used once.  A project is its directory; others may have *)
(* the same name.                                                          *)
(***************************************************************************)
EXTENDS Emulator

CONSTANTS Studios,      \* process ids
          BridgePorts,  \* the ports that bridges bind
          Requests,     \* requests in progress; the emulator calls aim their keys as well
          NoStudio, NoPort

ASSUME StudioAssumption ==
    /\ BridgePorts \subseteq Nat /\ NoPort \notin BridgePorts
    /\ NoStudio \notin Studios /\ Requests \intersect Jobs = {}
    /\ \A b \in Scenes : b.turns \in Nat /\ b.requests \in [Requests -> Nat] /\ b.settled \in BOOLEAN
                       /\ b.alike \subseteq BOOLEAN

VARIABLES
    studio,    \* the Studios: what each has open, has on its command line, and had (history)
    bridge,    \* the Studio that listens on each port; a new bridge tells its directory
    files,     \* the registry files: the project of each port
    health,    \* _bridge_cache
    launch,    \* _STUDIO_LAUNCH_DIRS
    synced,    \* projects whose bridge source the service has replaced by its own
    alike,     \* whether the projects have one name,
    plain,     \* and which of them is the one of that name in projects_root
    req,       \* the requests in progress
    requests, turns   \* what is left of the bounds: requests, and what users do

kept == <<synced, alike, plain>>
studioVars == <<studio, bridge, files, health, launch, kept, req, requests, turns>>
vars == <<tabVars, emuVars, studioVars>>
emulation == <<tabVars, emuVars>>

NoBridge == [by |-> NoStudio, new |-> FALSE]
Unasked == [is |-> "unknown", of |-> Nobody, dir |-> FALSE]
None == [is |-> "none", has |-> Nobody, cmd |-> Nobody, was |-> {}]

\* port: the bridge it was routed to.  aim: the Studio it found, or launched.  pre: those that
\* ran before the launch.  heard: the log has a refusal.  History: guess, the Studio or bridge
\* was chosen by no more than the name, or as the only one; stale, what was found has changed
\* since it answered; sure, a bridge has served the project, and answered, all along.
\* named: so was the Studio that is recorded for a launch (history).
NotLaunched == [on |-> Nobody, named |-> FALSE]
Quiet == [pc |-> "idle", kind |-> "write", proj |-> Nobody, port |-> NoPort, aim |-> NoStudio,
          pre |-> {}, heard |-> FALSE, guess |-> FALSE, stale |-> FALSE, sure |-> FALSE]
Callers == Requests \union Jobs
RequestKinds == {"write", "save", "arm", "stop", "execute", "open", "edit"}

Running == {s \in Studios : studio[s].is \in {"starting", "home", "open"}}
With(p) == {s \in Running : studio[s].has = p}
Free == {w \in BridgePorts : bridge[w].by = NoStudio}
Own(s) == {w \in BridgePorts : bridge[w].by = s}
Served(w) == IF w \in Free THEN Nobody ELSE studio[bridge[w].by].has

StudioInit(b) ==
    /\ alike \in b.alike /\ plain \in IF alike THEN Projects \union {Nobody} ELSE {Nobody}
    /\ studio \in [Studios -> {None} \union {[is |-> "open", has |-> p, cmd |-> m, was |-> {p}] :
                                             p \in Projects, m \in Projects \union {Nobody}}]
    /\ \A s \in Running : studio[s].cmd \in {Nobody, studio[s].has}
    /\ \A p \in Projects : Cardinality(With(p)) <= 1
    /\ bridge \in [BridgePorts -> {NoBridge} \union [by : Running, new : BOOLEAN]]
    /\ \A s \in Studios : Cardinality(Own(s)) <= 1
    /\ files = [w \in BridgePorts |-> IF bridge[w].new THEN Served(w) ELSE Nobody]
    /\ health = [w \in BridgePorts |-> Unasked]
    /\ launch = [s \in Studios |-> NotLaunched]
    /\ synced = {}
    /\ req = [r \in Callers |-> Quiet]
    /\ requests = b.requests /\ turns = b.turns
    /\ b.settled => \A p \in Projects :
           With(p) # {} /\ \A s \in With(p) : Own(s) # {} /\ studio[s].cmd = Nobody
                                               /\ \A w \in Own(s) : bridge[w].new

Req(r, pc) == req[r].pc = pc
Moves(r, pc) == req' = [req EXCEPT ![r].pc = pc]
Turn == turns > 0 /\ turns' = turns - 1

Quits(r) == req' = [req EXCEPT ![r] = Quiet]
Aims(r, s, pc, guess) == [req EXCEPT ![r].pc = pc, ![r].aim = s, ![r].guess = @ \/ guess]

\* What is found out changes behind the requests when a bridge comes or goes.
Noticed(rs) ==
    LET changed == {w \in BridgePorts : bridge'[w] # bridge[w]}
    IN [r \in Callers |-> [rs[r] EXCEPT !.stale = @ \/ rs[r].port \in changed,
                                        !.sure = @ /\ changed = {}]]

-----------------------------------------------------------------------------
(* Names.                                                                  *)

Namesakes(p) == IF alike THEN Projects \ {p} ELSE {}

\* _same_name_other_dirs: in projects_root, on a command line, or in the registry.
Collision(p, fs) ==
    \E q \in Namesakes(p) : \/ q = plain
                            \/ \E s \in Running : studio[s].cmd = q
                            \/ \E w \in BridgePorts : fs[w] = q

\* _proven_studio_pids
Proven(p) == {s \in Running : studio[s].cmd = p \/ launch[s].on = p}

\* _studio_window_for: the window shows the directory, or just the name.
Windows(p) ==
    With(p) \union {s \in UNION {With(q) : q \in Namesakes(p)} :
                      ~Collision(p, files) \/ s \in Proven(p)}

\* _project_loaded_identity
Bridges(p) ==
    LET tells == {w \in BridgePorts : bridge[w].new /\ Served(w) = p}
        named == {w \in BridgePorts : ~bridge[w].new /\ Served(w) \in {p} \union Namesakes(p)}
    IN {bridge[w].by : w \in tells \union IF Collision(p, files) THEN {} ELSE named}
Loaded(p) == Bridges(p) \union Windows(p)

\* History: nothing but the name tells that s is the Studio of p.
ByName(p, s) == /\ p \notin {studio[s].has, studio[s].cmd}
                /\ launch[s].on = p => launch[s].named

-----------------------------------------------------------------------------
(* Routing: which bridge serves the project.                               *)

\* What a bridge answers: a project, not in time, or the port refuses.
Heard(w, deaf) ==
    IF w \in Free THEN [Unasked EXCEPT !.is = "refused"]
    ELSE IF w \in deaf THEN [Unasked EXCEPT !.is = "busy"]
    ELSE [is |-> "armed", of |-> Served(w), dir |-> bridge[w].new]

\* _bridge_health_at: an answer is kept for a while.
Probed(ws, deaf) == [w \in BridgePorts |-> IF w \in ws /\ health[w].is = "unknown"
                                           THEN Heard(w, deaf) ELSE health[w]]

\* _probe_ports removes the registry files of ports that refuse.
Probes(ws, deaf) ==
    /\ health' = Probed(ws, deaf)
    /\ files' = [w \in BridgePorts |-> IF w \in ws /\ health'[w].is = "refused" THEN Nobody
                                       ELSE files[w]]
    /\ deaf # {} => turns > 0
    /\ turns' = IF deaf = {} THEN turns ELSE turns - 1

\* Slip: a bridge of the name counts, whatever its directory.
MatchesByName(p, ws) ==
    LET armed == {w \in ws : health'[w].is = "armed"}
        byDir == {w \in armed : health'[w].dir /\ health'[w].of = p}
    IN IF byDir # {} THEN byDir ELSE {w \in armed : health'[w].of \in {p} \union Namesakes(p)}

\* Slip: a name that others have rules out the directory as well.
MatchesUnlessAlike(p, ws) ==
    LET armed == {w \in ws : health'[w].is = "armed"}
    IN IF Collision(p, files') THEN {} ELSE {w \in armed : health'[w].of \in {p} \union Namesakes(p)}

\* A directory decides; a name counts without one, unless another project has it.
Matches(p, ws) ==
    LET armed == {w \in ws : health'[w].is = "armed"}
        byDir == {w \in armed : health'[w].dir /\ health'[w].of = p}
        byName == {w \in armed : ~health'[w].dir /\ health'[w].of \in {p} \union Namesakes(p)}
        collision == Collision(p, files')
                     \/ \E w \in armed : health'[w].dir /\ health'[w].of \in Namesakes(p)
    IN IF byDir # {} THEN byDir ELSE IF collision THEN {} ELSE byName

Routed(r, w) ==
    [req EXCEPT ![r].pc = CASE req[r].kind = "write" -> "send" [] req[r].kind = "execute" -> "chain"
                            [] OTHER -> "owner",
                ![r].port = w, ![r].guess = alike /\ ~health'[w].dir,
                ![r].stale = health'[w] # Heard(w, {}),
                ![r].sure = @ /\ health'[w] = Heard(w, {})]

\* A bridge that does not answer in time is not found, and is not while that is kept.
Sure(rs, deaf) == [r \in Callers |-> [rs[r] EXCEPT !.sure = @ /\ deaf = {}]]

\* resolve_bridge: the ports in the registry first; one match is enough.
RouteByRegistry(r) ==
    /\ Req(r, "route")
    /\ LET listed == {w \in BridgePorts : files[w] # Nobody} IN
       \E deaf \in {{}} \union {{w} : w \in listed \ Free} :
         /\ Probes(listed, deaf)
         /\ LET found == Matches(req[r].proj, listed) IN
            \/ \E w \in found : found = {w} /\ req' = Sure(Routed(r, w), deaf)
            \/ /\ Cardinality(found) # 1
               /\ req' = Sure([req EXCEPT ![r].pc = "scan"], deaf)
    /\ UNCHANGED <<emulation, studio, bridge, launch, kept, requests>>

\* Then the whole range.  Without a bridge a key looks for the Studio itself, and the execution
\* of a method for its window.
RouteByScan(r) ==
    /\ Req(r, "scan")
    /\ \E deaf \in {{}} \union {{w} : w \in BridgePorts \ Free} :
         /\ Probes(BridgePorts, deaf)
         /\ LET found == Matches(req[r].proj, BridgePorts)
                missed == CASE req[r].kind = "execute" -> "arm"
                            [] found = {} /\ req[r].kind # "write" -> "attribute"
                            [] OTHER -> "none" IN
            \/ \E w \in found : found = {w} /\ req' = Sure(Routed(r, w), deaf)
            \/ /\ Cardinality(found) # 1
               /\ req' = Sure([req EXCEPT ![r].pc = missed,
                                          ![r].sure = @ /\ found = {}], deaf)
    /\ UNCHANGED <<emulation, studio, bridge, launch, kept, requests>>

\* What was routed once may be sent in many parts, as a batch is.
Send(r) ==
    /\ Req(r, "send")
    /\ Quits(r)
    /\ UNCHANGED <<emulation, studio, bridge, files, health, launch, kept, requests, turns>>

\* live_netlogic_chain, live_method_present: a method that Studio has not loaded is not clicked;
\* if nothing answers, the saved files are read.
ReadChain(r) ==
    /\ Req(r, "chain")
    /\ \/ req' = [req EXCEPT ![r].pc = "arm", ![r].port = NoPort, ![r].guess = FALSE,
                             ![r].stale = FALSE]
       \/ req[r].port \notin Free /\ Quits(r)
    /\ UNCHANGED <<emulation, studio, bridge, files, health, launch, kept, requests, turns>>

-----------------------------------------------------------------------------
(* Attribution: which Studio gets the key.                                 *)

\* _bridge_owner_pid: whoever listens on the port now.  A run has looked at its runtime first.
FindOwner(r) ==
    /\ Req(r, "owner") /\ (r \in Jobs => On(r, "press"))
    /\ LET w == req[r].port IN
       req' = IF w \in Free THEN [req EXCEPT ![r].pc = "attribute"]
              ELSE Aims(r, bridge[w].by, "key", FALSE)
    /\ UNCHANGED <<emulation, studio, bridge, files, health, launch, kept, requests, turns>>

\* _studio_pid_for_project: a command line, or the service's own launch; a launch whose Studio
\* is gone is forgotten.
AttributeByProcess(r) ==
    /\ Req(r, "attribute") /\ (r \in Jobs => On(r, "press"))
    /\ LET p == req[r].proj
           lined == {s \in Running : studio[s].cmd = p}
           launched == {s \in Studios : launch[s].on = p}
       IN \/ /\ \E s \in lined : req' = Aims(r, s, "key", FALSE)
             /\ launch' = launch
          \/ /\ lined = {}
             /\ \E s \in launched :
                  IF s \in Running
                  THEN req' = Aims(r, s, "key", launch[s].named) /\ launch' = launch
                  ELSE Moves(r, "window") /\ launch' = [launch EXCEPT ![s] = NotLaunched]
          \/ lined \union launched = {} /\ Moves(r, "window") /\ launch' = launch
    /\ UNCHANGED <<emulation, studio, bridge, files, health, kept, requests, turns>>

\* Slip: the first window there is.
AttributeToFirst(r) ==
    /\ Req(r, "window")
    /\ \/ \E s \in Running : req' = Aims(r, s, "key", FALSE)
       \/ Running = {} /\ Moves(r, "none")
    /\ UNCHANGED <<emulation, studio, bridge, files, health, launch, kept, requests, turns>>

\* project_name_ambiguity, then _unattributed_studio_verdict: the one window that names the
\* project; none of them readable, the one Studio there is.
AttributeByWindow(r) ==
    /\ Req(r, "window")
    /\ LET p == req[r].proj
           named == With(p) \union UNION {With(q) : q \in Namesakes(p)}
           ambiguous == /\ Collision(p, files) /\ Proven(p) = {}
                        /\ \A w \in BridgePorts : Served(w) = p => ~bridge[w].new
       IN \/ Running # {} /\ ambiguous /\ Moves(r, "none")
          \/ Running = {} /\ Moves(r, "none")
          \/ /\ Running # {} /\ ~ambiguous
             /\ \E seen \in {{}, Running} :
                  \/ \E s \in named \intersect seen :
                       named \intersect seen = {s} /\ req' = Aims(r, s, "key", alike)
                  \/ named \intersect seen = {} /\ seen # Running
                     /\ \E s \in Running : Running = {s} /\ req' = Aims(r, s, "key", TRUE)
                  \/ /\ Cardinality(named \intersect seen) # 1
                     /\ named \intersect seen # {} \/ seen = Running \/ Cardinality(Running) # 1
                     /\ Moves(r, "none")
    /\ UNCHANGED <<emulation, studio, bridge, files, health, launch, kept, requests, turns>>

\* save: Ctrl+S; or the Studio has no window, or is gone by then.
Save(r) ==
    /\ Req(r, "key") /\ req[r].kind = "save"
    /\ \/ req[r].aim \in Running /\ Moves(r, "saving")
       \/ Quits(r)
    /\ UNCHANGED <<emulation, studio, bridge, files, health, launch, kept, requests, turns>>

\* As long as the files have not changed it is sent again, to the same Studio.
SaveAgain(r) ==
    /\ Req(r, "saving")
    /\ Moves(r, "key")
    /\ UNCHANGED <<emulation, studio, bridge, files, health, launch, kept, requests, turns>>

\* They have, or the time is up.
SaveEnds(r) ==
    /\ Req(r, "saving")
    /\ Quits(r)
    /\ UNCHANGED <<emulation, studio, bridge, files, health, launch, kept, requests, turns>>

\* F5 reaches the Studio as it is by then, or another, or none.
PressKey(j) ==
    /\ Req(j, "key")
    /\ \/ req[j].aim \in Running /\ Press(j, studio[req[j].aim].has) /\ turns' = turns
       \/ PressLost(j, Nobody) /\ turns' = turns
       \/ Turn /\ \E s \in Running : PressLost(j, studio[s].has)
    /\ Quits(j)
    /\ UNCHANGED <<studio, bridge, files, health, launch, kept, requests>>

\* The bridge is looked for first of all, but its owner only when the key is to be sent.
AimKey(j) ==
    /\ On(j, "look") /\ Req(j, "idle")
    /\ req' = [req EXCEPT ![j] = [Quiet EXCEPT !.pc = "route", !.kind = "key",
                                               !.proj = Project(j)]]
    /\ UNCHANGED <<emulation, studio, bridge, files, health, launch, kept, requests, turns>>

LookAround(j) ==
    /\ req[j].pc \in {"owner", "attribute"} /\ LookStep(j)
    /\ IF On(j, "look") /\ job'[j].pc = "press" THEN req' = req ELSE Quits(j)
    /\ UNCHANGED <<studio, bridge, files, health, launch, kept, requests, turns>>

NoKey(j) ==
    /\ Req(j, "none")
    /\ IF On(j, "look") THEN LookRaises(j) ELSE PressFails(j)
    /\ Quits(j)
    /\ UNCHANGED <<studio, bridge, files, health, launch, kept, requests, turns>>

-----------------------------------------------------------------------------
(* Arming and opening.                                                     *)

\* StartBridge: nothing if the Studio has a bridge; the lowest port that is free, if any.  The
\* project's source is built.
Arming(s) ==
    IF Own(s) # {} \/ Free = {} \/ studio[s].has = Nobody THEN UNCHANGED <<bridge, files>>
    ELSE \E w \in Free, new \in IF studio[s].has \in synced THEN {TRUE} ELSE BOOLEAN :
           /\ \A v \in Free : w <= v
           /\ bridge' = [bridge EXCEPT ![w] = [by |-> s, new |-> new]]
           /\ files' = IF new THEN [files EXCEPT ![w] = studio[s].has] ELSE files

\* StopBridge removes the registry file; a crash does not.
Stopping(s, crash) ==
    /\ bridge' = [w \in BridgePorts |-> IF w \in Own(s) THEN NoBridge ELSE bridge[w]]
    /\ files' = [w \in BridgePorts |-> IF w \in Own(s) /\ bridge[w].new /\ ~crash
                                       THEN Nobody ELSE files[w]]

Forget == health' = [w \in BridgePorts |-> Unasked]

\* An arm replaces the source of the project's bridge by the service's own, unless told not to,
\* or it cannot be backed up.
Sync(r) == synced' \in {synced, IF req[r].kind = "arm" THEN synced \union {req[r].proj} ELSE synced}

\* An arm is for a Studio without a bridge, and needs a port; a stop is for one with a bridge.
Wanted(r, s) ==
    CASE req[r].kind = "arm" -> Own(s) = {} /\ Free # {}
      [] req[r].kind = "stop" -> Own(s) # {}
      [] OTHER -> TRUE

\* execute_method, up to the click: the project's window.
FindWindow(r) ==
    /\ Req(r, "arm")
    /\ LET p == req[r].proj IN
       \/ /\ \E s \in Windows(p) : Wanted(r, s) /\ req' = Aims(r, s, "click", ByName(p, s))
          /\ UNCHANGED health
       \/ /\ Windows(p) = {} \/ \E s \in Windows(p) : ~Wanted(r, s)
          /\ Quits(r) /\ Forget
    /\ Sync(r)
    /\ UNCHANGED <<emulation, studio, bridge, files, launch, alike, plain, requests, turns>>

\* What another method than these does is its own affair.
Click(r) ==
    /\ Req(r, "click")
    /\ LET s == req[r].aim IN
       IF s \notin Running \/ req[r].kind = "execute" THEN UNCHANGED <<bridge, files>>
       ELSE IF req[r].kind = "arm" THEN Arming(s) ELSE Stopping(s, FALSE)
    /\ req' = Noticed([req EXCEPT ![r].pc = "verify"])
    /\ UNCHANGED <<emulation, studio, health, launch, kept, requests, turns>>

\* Whatever came of it, what the bridges answered is forgotten.
Verify(r) ==
    /\ Req(r, "verify")
    /\ Quits(r) /\ Forget
    /\ UNCHANGED <<emulation, studio, bridge, files, launch, kept, requests, turns>>

\* project_open: the Studio that has it, or a new one.  The command line may not show it.
Open(r) ==
    /\ Req(r, "open")
    /\ LET p == req[r].proj IN
       \/ /\ \E s \in Loaded(p) : req' = Aims(r, s, "told", ByName(p, s))
          /\ UNCHANGED <<studio, launch>>
       \/ /\ Loaded(p) = {}
          /\ \E s \in Studios, cmd \in {p, Nobody} :
               /\ studio[s] = None
               /\ studio' = [studio EXCEPT ![s] = [is |-> "starting", has |-> Nobody,
                                                   cmd |-> cmd, was |-> {p}]]
               /\ launch' = [launch EXCEPT ![s] = [on |-> p, named |-> FALSE]]
               /\ req' = [req EXCEPT ![r].pc = "opening", ![r].aim = s, ![r].pre = Running]
       \/ Loaded(p) = {} /\ Quits(r) /\ UNCHANGED <<studio, launch>>
    /\ UNCHANGED <<emulation, bridge, files, health, kept, requests, turns>>

Opened(r) ==
    /\ Req(r, "opening")
    /\ LET p == req[r].proj IN
       \E s \in Loaded(p) \ req[r].pre :
         /\ req' = Aims(r, s, "told", ByName(p, s))
         /\ launch' = [launch EXCEPT ![s] = [on |-> p, named |-> ByName(p, s)]]
    /\ UNCHANGED <<emulation, studio, bridge, files, health, kept, requests, turns>>

\* A refusal in the log, whosever, or a new Studio that stays on Home, whosever; or it is left
\* as it is.
NotOpened(r) ==
    /\ Req(r, "opening")
    /\ \/ /\ req[r].heard \/ \E s \in Studios \ req[r].pre : studio[s].is = "home"
          /\ Moves(r, "close")
       \/ Quits(r)
    /\ UNCHANGED <<emulation, studio, bridge, files, health, launch, kept, requests, turns>>

Ending(s, crash) ==
    /\ studio' = [studio EXCEPT ![s].is = "gone", ![s].has = Nobody]
    /\ Stopping(s, crash)

\* The Studio that was launched is closed, with whatever it has open by now.
CloseOwn(r) ==
    /\ Req(r, "close")
    /\ IF req[r].aim \in Running THEN Ending(req[r].aim, TRUE)
       ELSE UNCHANGED <<studio, bridge, files>>
    /\ req' = Noticed([req EXCEPT ![r] = Quiet])
    /\ UNCHANGED <<emulation, health, launch, kept, requests, turns>>

Tell(r) ==
    /\ r \in Requests /\ req[r].pc \in {"none", "told"}
    /\ Quits(r)
    /\ UNCHANGED <<emulation, studio, bridge, files, health, launch, kept, requests, turns>>

-----------------------------------------------------------------------------
(* The guard of the file edits, and the beginning of requests.             *)

\* Slip: one bridge of another project suffices, however many Studios there are.
GuardByBridge(r) ==
    /\ Req(r, "guard")
    /\ LET armed == {w \in BridgePorts : health'[w].is = "armed"}
       IN \/ /\ Running = {} /\ Moves(r, "edit") /\ UNCHANGED <<health, files, turns>>
          \/ /\ Probes(BridgePorts, {})
             /\ \E w \in armed :
                  /\ armed = {w} /\ health'[w].of \notin {req[r].proj} \union Namesakes(req[r].proj)
                  /\ req' = [req EXCEPT ![r].pc = "edit", ![r].stale = health'[w] # Heard(w, {})]
          \/ Running # {} /\ Quits(r) /\ UNCHANGED <<health, files, turns>>
    /\ UNCHANGED <<emulation, studio, bridge, launch, kept, requests>>

\* _attributed_studio_pass: the one bridge there is serves another project.
Attributed(r, w) ==
    /\ {v \in BridgePorts : health'[v].is = "armed"} = {w}
    /\ health'[w].of \notin {req[r].proj} \union Namesakes(req[r].proj)

\* require_editors_closed: no Studio; or, if so configured, one whose bridge serves another
\* project.
Guard(r) ==
    /\ Req(r, "guard")
    /\ \/ Running = {} /\ Moves(r, "edit") /\ UNCHANGED <<health, files, turns>>
       \/ Running # {} /\ Quits(r) /\ UNCHANGED <<health, files, turns>>
       \/ /\ \E s \in Running : Running = {s}
          /\ \E deaf \in {{}} \union {{w} : w \in BridgePorts \ Free} :
               /\ Probes(BridgePorts, deaf)
               /\ \/ \E w \in BridgePorts :
                       /\ Attributed(r, w)
                       /\ req' = Sure([req EXCEPT ![r].pc = "edit",
                                                  ![r].stale = health'[w] # Heard(w, {})], deaf)
                  \/ /\ \A w \in BridgePorts : ~Attributed(r, w)
                     /\ req' = Sure([req EXCEPT ![r] = Quiet], deaf)
    /\ UNCHANGED <<emulation, studio, bridge, launch, kept, requests>>

Edit(r) ==
    /\ Req(r, "edit")
    /\ Quits(r)
    /\ UNCHANGED <<emulation, studio, bridge, files, health, launch, kept, requests, turns>>

BeginRequest(r, kind, p) ==
    /\ Req(r, "idle") /\ requests[r] > 0
    /\ requests' = [requests EXCEPT ![r] = @ - 1]
    /\ LET start == CASE kind \in {"write", "save", "execute"} -> "route"
                      [] kind \in {"arm", "stop"} -> "arm"
                      [] kind = "open" -> "open" [] OTHER -> "guard"
           sure == \E w \in BridgePorts : /\ Served(w) = p /\ bridge[w].new
                                          /\ health[w] \in {Unasked, Heard(w, {})}
       IN req' = [req EXCEPT ![r] = [Quiet EXCEPT !.pc = start, !.kind = kind, !.proj = p,
                                                  !.sure = sure]]
    /\ UNCHANGED <<emulation, studio, bridge, files, health, launch, kept, turns>>

-----------------------------------------------------------------------------
(* What Studio and its users do.                                           *)

\* An edit was allowed before the project came to be open.
Edited(rs, p) == [r \in Callers |-> [rs[r] EXCEPT !.stale = @ \/ (rs[r].pc = "edit" /\ rs[r].proj = p)]]

\* The project of the launch is loaded, or refused because another Studio has it: in the log
\* that all Studios share.
StudioLoads(s) ==
    /\ studio[s].is = "starting"
    /\ \E p \in studio[s].was :
         IF With(p) = {}
         THEN /\ studio' = [studio EXCEPT ![s].is = "open", ![s].has = p]
              /\ req' = Edited(req, p)
         ELSE /\ studio' = [studio EXCEPT ![s].is = "home"]
              /\ req' = [r \in Callers |-> [req[r] EXCEPT !.heard = @ \/ Req(r, "opening")]]
    /\ UNCHANGED <<emulation, bridge, files, health, launch, kept, requests, turns>>

\* By hand: Home, or a project's file.
UserStarts(s) ==
    /\ studio[s] = None /\ Turn
    /\ \/ studio' = [studio EXCEPT ![s].is = "home"]
       \/ \E p \in Projects :
            studio' = [studio EXCEPT ![s] = [is |-> "starting", has |-> Nobody, cmd |-> p,
                                             was |-> {p}]]
    /\ UNCHANGED <<emulation, bridge, files, health, launch, kept, req, requests>>

\* Another project in the same Studio, whose bridge stops; or none.
UserSwitches(s, p) ==
    /\ studio[s].is \in {"home", "open"} /\ Turn
    /\ p = Nobody \/ With(p) = {}
    /\ p # studio[s].has
    /\ studio' = [studio EXCEPT ![s].is = IF p = Nobody THEN "home" ELSE "open", ![s].has = p,
                                ![s].was = (@ \union {p}) \ {Nobody}]
    /\ Stopping(s, FALSE)
    /\ req' = Edited(Noticed(req), p)
    /\ UNCHANGED <<emulation, health, launch, kept, requests>>

\* It is closed, or crashes.
StudioEnds(s) ==
    /\ s \in Running /\ Turn
    /\ \E crash \in BOOLEAN : Ending(s, crash)
    /\ req' = Noticed(req)
    /\ UNCHANGED <<emulation, health, launch, kept, requests>>

UserArms(s) ==
    /\ s \in Running /\ Turn
    /\ Arming(s) \/ Stopping(s, FALSE)
    /\ req' = Noticed(req)
    /\ UNCHANGED <<emulation, studio, health, launch, kept, requests>>

\* An answer that still holds expires only while the bridge may be late with the next one: else
\* nothing would differ.
HealthExpires(w) ==
    /\ health[w] # Unasked
    /\ health[w] = Heard(w, {}) => turns > 0
    /\ health' = [health EXCEPT ![w] = Unasked]
    /\ UNCHANGED <<emulation, studio, bridge, files, launch, kept, req, requests, turns>>

\* The user presses F5 in a Studio.
UserKeys(s) ==
    /\ s \in With(studio[s].has) /\ studio[s].has # Nobody
    /\ UserPresses(studio[s].has)
    /\ UNCHANGED studioVars

ServiceDies ==
    /\ RestartService
    /\ req' = [r \in Callers |-> Quiet] /\ Forget
    /\ launch' = [s \in Studios |-> NotLaunched]
    /\ UNCHANGED <<studio, bridge, files, kept, requests, turns>>

RequestStep(r) ==
    \/ RouteByRegistry(r) \/ RouteByScan(r) \/ Send(r) \/ ReadChain(r)
    \/ FindOwner(r) \/ AttributeByProcess(r) \/ AttributeByWindow(r)
    \/ Save(r) \/ SaveAgain(r) \/ SaveEnds(r)
    \/ FindWindow(r) \/ Click(r) \/ Verify(r)
    \/ Open(r) \/ Opened(r) \/ NotOpened(r) \/ CloseOwn(r) \/ Tell(r) \/ Guard(r) \/ Edit(r)

StudioStep(s) ==
    \/ StudioLoads(s) \/ UserStarts(s) \/ StudioEnds(s) \/ UserArms(s) \/ UserKeys(s)
    \/ \E p \in Projects \union {Nobody} : UserSwitches(s, p)

Next ==
    \/ EmuStep /\ UNCHANGED studioVars
    \/ \E j \in Jobs : AimKey(j) \/ LookAround(j) \/ NoKey(j) \/ PressKey(j)
    \/ \E r \in Callers : RequestStep(r)
    \/ \E r \in Requests, kind \in RequestKinds, p \in Projects : BeginRequest(r, kind, p)
    \/ \E s \in Studios : StudioStep(s)
    \/ \E w \in BridgePorts : HealthExpires(w)
    \/ ServiceDies

Settled == /\ EmuRest /\ \A r \in Callers : Req(r, "idle")
           /\ UNCHANGED vars

Spec == (\E b \in Scenes : EmuInit(b) /\ StudioInit(b)) /\ [][Next \/ Settled]_vars

-----------------------------------------------------------------------------
(* Properties.                                                             *)

\* The type invariant, of the emulators and tabs as well.
TypeOK ==
    /\ EmuTypeOK
    /\ studio \in [Studios -> [is : {"none", "starting", "home", "open", "gone"},
                               has : Projects \union {Nobody}, cmd : Projects \union {Nobody},
                               was : SUBSET Projects]]
    /\ bridge \in [BridgePorts -> [by : Studios \union {NoStudio}, new : BOOLEAN]]
    /\ files \in [BridgePorts -> Projects \union {Nobody}]
    /\ health \in [BridgePorts -> [is : {"unknown", "refused", "busy", "armed"},
                                   of : Projects \union {Nobody}, dir : BOOLEAN]]
    /\ launch \in [Studios -> [on : Projects \union {Nobody}, named : BOOLEAN]] /\ synced \subseteq Projects
    /\ req \in [Callers ->
         [pc : {"idle", "route", "scan", "send", "chain", "none", "owner", "attribute", "window", "key",
                "saving", "arm", "click", "verify", "open", "opening", "close", "told", "guard",
                "edit"},
          kind : RequestKinds \union {"key"}, proj : Projects \union {Nobody},
          port : BridgePorts \union {NoPort}, aim : Studios \union {NoStudio},
          pre : SUBSET Studios, heard : BOOLEAN, guess : BOOLEAN, stale : BOOLEAN,
          sure : BOOLEAN]]
    /\ requests \in [Requests -> Nat] /\ turns \in Nat

\* What is written to a bridge, or asked of it, goes to the project's own, also where another
\* project has its name: unless the bridge tells no directory, or has changed since it answered.
WriteInOwnModel ==
    \A r \in Requests : req[r].pc \in {"send", "chain"} /\ ~req[r].guess /\ ~req[r].stale =>
                          Served(req[r].port) = req[r].proj

\* A key or click goes to, and a Studio that is told is, one that has the project or had it,
\* and never one that only has its name: unless nothing but the name told them apart, or the
\* bridge has changed since it answered.
OwnStudio ==
    \A r \in Callers : /\ req[r].pc \in {"key", "click", "told"} /\ req[r].aim \in Running
                       /\ ~req[r].guess /\ ~req[r].stale
                       => req[r].proj \in studio[req[r].aim].was

\* A request is told that no bridge serves its project only when that was so at some time, or
\* the bridge did not answer, or another's old answer misled it: whatever registry files and
\* namesakes there are.
FoundIfServed == \A r \in Callers : req[r].pc \in {"none", "attribute"} => ~req[r].sure

\* A file is edited while no Studio has the project open, as far as the guard could see.
EditOutside == \A r \in Requests : Req(r, "edit") /\ ~req[r].stale => With(req[r].proj) = {}
=============================================================================
