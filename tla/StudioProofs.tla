---------------------------- MODULE StudioProofs ----------------------------
(***************************************************************************)
(* Any number of Studios, bridges, projects, namesakes and requests, with  *)
(* the emulators and tabs beside them: what a request has found about a    *)
(* bridge or a Studio stays true until it is used, or the request was told *)
(* that it may not be (stale), or had no more than a name (guess).         *)
(*                                                                         *)
(* A step of Studio or its user gives the requests less to count on (see   *)
(* Weaker); a step of a request changes nothing of Studios and bridges but *)
(* what it clicks, opens or closes.  The emulators' own invariant, EmuInv, *)
(* is kept beside this one: they share the keys only.                      *)
(***************************************************************************)
EXTENDS Studio, EmulatorProofs

-----------------------------------------------------------------------------
(* The invariant.                                                          *)

HealthType ==
    [is : {"unknown", "refused", "busy", "armed"}, of : Projects \union {Nobody}, dir : BOOLEAN]

StudioRecs ==
    [is : {"none", "starting", "home", "open", "gone"}, has : Projects \union {Nobody},
     cmd : Projects \union {Nobody}, was : SUBSET Projects]

StudioType ==
    /\ studio \in [Studios -> StudioRecs]
    /\ bridge \in [BridgePorts -> [by : Studios \union {NoStudio}, new : BOOLEAN]]
    /\ files \in [BridgePorts -> Projects \union {Nobody}]
    /\ health \in [BridgePorts -> HealthType]
    /\ launch \in [Studios -> [on : Projects \union {Nobody}, named : BOOLEAN]]
    /\ synced \subseteq Projects
    /\ requests \in [Requests -> Nat] /\ turns \in Nat

\* A Studio has a project while it is open, and has had what it has, what its command line
\* names, and what it was launched for; a bridge is in a Studio that has one open.
StudiosSound ==
    /\ \A s \in Studios : /\ studio[s].is = "open" <=> studio[s].has # Nobody
                          /\ {studio[s].has, studio[s].cmd} \ {Nobody} \subseteq studio[s].was
                          /\ launch[s].on # Nobody /\ ~launch[s].named => launch[s].on \in studio[s].was
    /\ \A w \in BridgePorts : w \notin Free => studio[bridge[w].by].is = "open"

\* Some bridge serves p, tells its directory, and was not heard otherwise.
Reachable(p) ==
    \E w \in BridgePorts : /\ Served(w) = p /\ bridge[w].new
                           /\ health[w] \in {Unasked, Heard(w, {})}

Pcs == {"idle", "route", "scan", "send", "chain", "none", "owner", "attribute", "window", "key",
        "saving", "arm", "click", "verify", "open", "opening", "close", "told", "guard", "edit"}

ReqType ==
    [pc : Pcs,
     kind : RequestKinds \union {"key"}, proj : Projects \union {Nobody},
     port : BridgePorts \union {NoPort}, aim : Studios \union {NoStudio},
     pre : SUBSET Studios, heard : BOOLEAN, guess : BOOLEAN, stale : BOOLEAN, sure : BOOLEAN]

\* What each state of a request stands for: what the properties say of the states in which it
\* is sent, pressed or told, and as much of those that lead there.
ReqSound(x) ==
    /\ x \in ReqType
    /\ x.pc # "idle" => x.proj \in Projects
    /\ x.pc \in {"send", "chain", "owner"} =>
         /\ x.port \in BridgePorts
         /\ ~x.guess /\ ~x.stale => Served(x.port) = x.proj
    /\ x.pc \in {"key", "saving", "click", "told"} =>
         /\ x.aim \in Studios
         /\ ~x.guess /\ ~x.stale => x.proj \in studio[x.aim].was
    /\ x.pc \in {"opening", "close"} => x.aim \in Studios
    /\ x.pc \in {"route", "scan"} /\ x.sure => Reachable(x.proj)
    /\ x.pc = "owner" /\ x.sure => x.port \notin Free
    /\ x.pc \in {"none", "attribute", "window"} => ~x.sure
    /\ x.pc = "edit" /\ ~x.stale => With(x.proj) = {}

ReqsSound == /\ req \in [Callers -> ReqType]
             /\ \A r \in Callers : \A x \in {req[r]} : ReqSound(x)

StudioInv == StudioType /\ StudiosSound /\ ReqsSound

-----------------------------------------------------------------------------
(* What a step leaves to the requests.                                     *)

LEMMA Names == Nobody \notin Projects /\ NoStudio \notin Studios /\ NoPort \notin BridgePorts
BY StudioAssumption, TabsAssumption

LEMMA At1 ==
    ASSUME StudioInv, NEW r \in Callers
    PROVE  req \in [Callers -> ReqType] /\ req[r] \in ReqType /\ ReqSound(req[r])
BY DEF StudioInv, ReqsSound

LEMMA QuietSound == Quiet \in ReqType /\ ReqSound(Quiet) /\ ReqSound(Quiet)'
BY DEF Quiet, ReqType, Pcs, RequestKinds, ReqSound

\* Studios and bridges stay, and of these nothing false is heard.
Steady == /\ UNCHANGED <<studio, bridge>>
          /\ \A w \in BridgePorts : health'[w] \in {health[w], Unasked, Heard(w, {})}

LEMMA Stands == ASSUME Steady, NEW x, ReqSound(x) PROVE ReqSound(x)'
BY DEF Steady, ReqSound, Served, Free, With, Running, Reachable, Heard

\* Whatever is heard, where the request does not count on its bridge.
LEMMA StandsUnsure ==
    ASSUME UNCHANGED <<studio, bridge>>, NEW x, ReqSound(x), ~x.sure
    PROVE  ReqSound(x)'
BY DEF ReqSound, Served, Free, With, Running

\* A step of one request that finds or changes nothing of Studios and bridges.
LEMMA OneReq ==
    ASSUME StudioInv, Steady, NEW r \in Callers, NEW y, ReqSound(y), req' = [req EXCEPT ![r] = y]
    PROVE  ReqsSound'
<1>1. ReqSound(y)' /\ y \in ReqType
  BY Stands DEF ReqSound
<1>2. \A q \in Callers : ReqSound(req[q])
  BY At1
<1>3. ASSUME NEW q \in Callers, NEW x, x = req'[q] PROVE ReqSound(x)'
  BY <1>1, <1>2, <1>3, Stands DEF StudioInv, ReqsSound
<1> QED
  BY <1>1, <1>3 DEF StudioInv, ReqsSound

\* A request that is over, that goes on, or that has found a Studio.
LEMMA QuitsKept == ASSUME StudioInv, Steady, NEW r \in Callers, Quits(r) PROVE ReqsSound'
BY QuietSound, OneReq DEF Quits

LEMMA MovesKept ==
    ASSUME StudioInv, Steady, NEW r \in Callers, NEW pc \in Pcs, Moves(r, pc), req[r].pc # "idle",
           pc \in {"none", "attribute", "window"} => ~req[r].sure,
           pc \notin {"route", "scan", "send", "chain", "owner"},
           pc \in {"key", "saving", "click", "told"} => req[r].pc \in {"key", "saving", "click", "told"},
           pc \in {"opening", "close"} => req[r].pc \in {"opening", "close"},
           pc = "edit" => With(req[r].proj) = {}
    PROVE  ReqsSound'
<1> DEFINE y == [req[r] EXCEPT !.pc = pc]
<1>1. ReqSound(y)
  BY At1 DEF ReqSound, ReqType
<1>2. req' = [req EXCEPT ![r] = y]
  BY At1 DEF Moves
<1> QED
  BY <1>1, <1>2, OneReq

LEMMA AimsKept ==
    ASSUME StudioInv, Steady, NEW r \in Callers, NEW s \in Studios,
           NEW pc \in {"key", "told", "click"}, NEW g \in BOOLEAN, req' = Aims(r, s, pc, g),
           req[r].pc # "idle",
           ~g /\ ~req[r].guess /\ ~req[r].stale => req[r].proj \in studio[s].was
    PROVE  ReqsSound'
<1> DEFINE h == req[r].guess \/ g
           y == [req[r] EXCEPT !.pc = pc, !.aim = s, !.guess = h]
<1>a. h \in BOOLEAN /\ (~h => ~g /\ ~req[r].guess)
  BY At1 DEF ReqType
<1>2. req' = [req EXCEPT ![r] = y]
  BY At1 DEF Aims, ReqType
<1> HIDE DEF h
<1>b. req[r] \in ReqType /\ pc \in Pcs
  BY At1 DEF Pcs
<1>c. y.pc = pc /\ y.aim = s
  BY <1>b DEF ReqType
<1>d. y.guess = h
  BY <1>a, <1>b DEF ReqType
<1>e. y.stale = req[r].stale /\ y.proj = req[r].proj
  BY <1>b DEF ReqType
<1>f. y \in ReqType
  BY <1>a, <1>b DEF ReqType
<1>1. /\ y \in ReqType /\ y.pc = pc /\ y.aim = s /\ y.guess = h /\ y.stale = req[r].stale
      /\ y.proj = req[r].proj
  BY <1>c, <1>d, <1>e, <1>f
<1>3. ReqSound(y)
  <2>1. req[r].proj \in Projects
    BY At1 DEF ReqSound
  <2> HIDE DEF y
  <2> QED
    BY <1>1, <1>a, <2>1 DEF ReqSound
<1> QED
  BY <1>2, <1>3, OneReq

\* The rest of the state, where only files, answers and bounds change.
LEMMA WorldKept ==
    ASSUME StudioInv, UNCHANGED <<studio, bridge, launch>>,
           files' = files \/ files' \in [BridgePorts -> Projects \union {Nobody}],
           health' = health \/ health' = [w \in BridgePorts |-> Unasked],
           synced' \subseteq Projects, UNCHANGED requests, turns' \in Nat
    PROVE  StudioType' /\ StudiosSound'
<1>a. Unasked \in HealthType
  BY DEF Unasked, HealthType
<1>1. health' \in [BridgePorts -> HealthType] /\ files' \in [BridgePorts -> Projects \union {Nobody}]
  BY <1>a DEF StudioInv, StudioType
<1>2. StudioType'
  BY <1>1 DEF StudioInv, StudioType
<1>3. StudiosSound'
  BY DEF StudioInv, StudiosSound, Free
<1> QED
  BY <1>2, <1>3

-----------------------------------------------------------------------------
(* The steps of a request that leave Studios and bridges alone.            *)

LEMMA SendKept ==
    ASSUME StudioInv, NEW r \in Callers,
           Send(r) \/ ReadChain(r) \/ Save(r) \/ SaveAgain(r) \/ SaveEnds(r) \/ NotOpened(r)
             \/ Tell(r) \/ Edit(r)
    PROVE  StudioInv'
<1>1. UNCHANGED <<studio, bridge, files, health, launch, kept, requests, turns>> /\ Steady
  BY DEF Send, ReadChain, Save, SaveAgain, SaveEnds, NotOpened, Tell, Edit, Steady
<1>2. StudioType' /\ StudiosSound'
  BY <1>1, WorldKept DEF kept, StudioInv, StudioType
<1>3. ReqsSound'
  <2>1. CASE Quits(r)
    BY <2>1, <1>1, QuitsKept
  <2>2. CASE ReadChain(r) /\ ~Quits(r)
    <3> DEFINE y == [req[r] EXCEPT !.pc = "arm", !.port = NoPort, !.guess = FALSE, !.stale = FALSE]
    <3>1. req' = [req EXCEPT ![r] = y] /\ req[r].pc = "chain"
      BY <2>2, At1 DEF ReadChain, Req, ReqType
    <3>2. y \in ReqType /\ y.pc = "arm" /\ y.proj = req[r].proj /\ req[r].proj \in Projects
      <4>1. req[r] \in ReqType /\ req[r].proj \in Projects
        BY <3>1, At1 DEF ReqSound
      <4> QED
        BY <4>1 DEF ReqType, Pcs
    <3> HIDE DEF y
    <3>3. ReqSound(y)
      BY <3>2 DEF ReqSound
    <3> QED
      BY <1>1, <3>1, <3>3, OneReq
  <2>3. CASE Moves(r, "saving") /\ Req(r, "key")
    BY <2>3, <1>1, MovesKept DEF Req, Pcs
  <2>4. CASE Moves(r, "key") /\ Req(r, "saving")
    BY <2>4, <1>1, MovesKept DEF Req, Pcs
  <2>5. CASE Moves(r, "close") /\ Req(r, "opening")
    BY <2>5, <1>1, MovesKept DEF Req, Pcs
  <2> QED
    BY <2>1, <2>2, <2>3, <2>4, <2>5 DEF Send, ReadChain, Save, SaveAgain, SaveEnds, NotOpened, Tell, Edit
<1> QED
  BY <1>2, <1>3 DEF StudioInv

\* What is known of a Studio that has a project, and of a bridge that serves one.
LEMMA StudiosAre ==
    ASSUME StudioInv, NEW s \in Studios
    PROVE  /\ studio[s].has \in Projects \union {Nobody} /\ studio[s].was \subseteq Projects
           /\ studio[s].has # Nobody => studio[s].has \in studio[s].was
           /\ studio[s].cmd # Nobody => studio[s].cmd \in studio[s].was
           /\ launch[s].on # Nobody /\ ~launch[s].named => launch[s].on \in studio[s].was
           /\ studio[s].is = "open" <=> studio[s].has # Nobody
BY DEF StudioInv, StudioType, StudioRecs, StudiosSound

LEMMA BridgesAre ==
    ASSUME StudioInv, NEW w \in BridgePorts
    PROVE  /\ w \notin Free => /\ bridge[w].by \in Studios /\ bridge[w].by \in Running
                               /\ Served(w) = studio[bridge[w].by].has /\ Served(w) \in Projects
           /\ w \in Free => Served(w) = Nobody
           /\ bridge[w].new \in BOOLEAN
BY DEF StudioInv, StudioType, StudioRecs, StudiosSound, Served, Free, Running

LEMMA FindOwnerKept == ASSUME StudioInv, NEW r \in Callers, FindOwner(r) PROVE StudioInv'
<1>1. UNCHANGED <<studio, bridge, files, health, launch, kept, requests, turns>> /\ Steady
  BY DEF FindOwner, Steady
<1>2. StudioType' /\ StudiosSound'
  BY <1>1, WorldKept DEF kept, StudioInv, StudioType
<1> DEFINE w == req[r].port
<1>3. /\ req[r].pc = "owner" /\ w \in BridgePorts /\ req[r].proj \in Projects
      /\ ~req[r].guess /\ ~req[r].stale => Served(w) = req[r].proj
      /\ req[r].sure => w \notin Free
  BY At1 DEF FindOwner, Req, ReqSound
<1>4. CASE w \in Free
  <2>1. Moves(r, "attribute")
    BY <1>4 DEF FindOwner, Moves
  <2> QED
    BY <1>1, <1>2, <1>3, <1>4, <2>1, MovesKept DEF Pcs, StudioInv
<1>5. CASE w \notin Free
  <2>1. req' = Aims(r, bridge[w].by, "key", FALSE)
    BY <1>5 DEF FindOwner
  <2>2. bridge[w].by \in Studios /\ Served(w) = studio[bridge[w].by].has
    BY <1>3, <1>5, BridgesAre
  <2>3. ~req[r].guess /\ ~req[r].stale => req[r].proj \in studio[bridge[w].by].was
    BY <1>3, <2>2, StudiosAre, Names
  <2> QED
    BY <1>1, <1>2, <1>3, <2>1, <2>2, <2>3, AimsKept DEF StudioInv
<1> QED
  BY <1>4, <1>5

LEMMA AttributeByWindowKept ==
    ASSUME StudioInv, NEW r \in Callers, AttributeByWindow(r) PROVE StudioInv'
<1>1. UNCHANGED <<studio, bridge, files, health, launch, kept, requests, turns>> /\ Steady
  BY DEF AttributeByWindow, Steady
<1>2. StudioType' /\ StudiosSound'
  BY <1>1, WorldKept DEF kept, StudioInv, StudioType
<1>3. req[r].pc = "window" /\ ~req[r].sure /\ req[r].proj \in Projects
  BY At1 DEF AttributeByWindow, Req, ReqSound
<1>4. CASE Moves(r, "none")
  BY <1>1, <1>2, <1>3, <1>4, MovesKept DEF Pcs, StudioInv
<1>5. ASSUME NEW s \in Running, req' = Aims(r, s, "key", TRUE) PROVE ReqsSound'
  BY <1>1, <1>3, <1>5, AimsKept DEF Running
<1>6. ASSUME NEW s \in With(req[r].proj) \union UNION {With(q) : q \in Namesakes(req[r].proj)},
             req' = Aims(r, s, "key", alike)
      PROVE  ReqsSound'
  <2>1. s \in Studios
    BY <1>6 DEF With, Running
  <2>2. ~alike => studio[s].has = req[r].proj
    BY <1>6 DEF Namesakes, With
  <2>3. ~alike => req[r].proj \in studio[s].was
    BY <1>3, <2>1, <2>2, StudiosAre, Names
  <2> DEFINE g == IF alike THEN TRUE ELSE FALSE
  <2>4. req' = Aims(r, s, "key", g) /\ g \in BOOLEAN /\ (~g => ~alike)
    BY <1>6 DEF Aims
  <2> QED
    BY <1>1, <1>3, <2>1, <2>3, <2>4, AimsKept
<1> QED
  BY <1>2, <1>4, <1>5, <1>6 DEF AttributeByWindow, StudioInv

LEMMA AttributeByProcessKept ==
    ASSUME StudioInv, NEW r \in Callers, AttributeByProcess(r) PROVE StudioInv'
<1>1. /\ UNCHANGED <<studio, bridge, files, health, kept, requests, turns>> /\ Steady
      /\ req[r].pc = "attribute"
  BY DEF AttributeByProcess, Steady, Req
<1>2. ~req[r].sure /\ req[r].proj \in Projects
  BY <1>1, At1 DEF ReqSound
<1>3. CASE launch' = launch
  <2>1. StudioType' /\ StudiosSound'
    BY <1>1, <1>3, WorldKept DEF kept, StudioInv, StudioType
  <2>2. CASE Moves(r, "window")
    BY <1>1, <1>2, <2>1, <2>2, MovesKept DEF Pcs, StudioInv
  <2>3. ASSUME NEW s \in Running, studio[s].cmd = req[r].proj, req' = Aims(r, s, "key", FALSE)
        PROVE  ReqsSound'
    <3>1. s \in Studios
      BY <2>3 DEF Running
    <3>2. req[r].proj \in studio[s].was
      BY <1>2, <2>3, <3>1, StudiosAre, Names
    <3> QED
      BY <1>1, <2>3, <3>1, <3>2, AimsKept
  <2>4. ASSUME NEW s \in Studios, launch[s].on = req[r].proj,
               req' = Aims(r, s, "key", launch[s].named)
        PROVE  ReqsSound'
    <3>1. ~launch[s].named => req[r].proj \in studio[s].was
      BY <1>2, <2>4, StudiosAre, Names
    <3>2. launch[s].named \in BOOLEAN
      BY DEF StudioInv, StudioType
    <3> QED
      BY <1>1, <2>4, <3>1, <3>2, AimsKept
  <2> QED
    BY <1>3, <2>1, <2>2, <2>3, <2>4 DEF AttributeByProcess, StudioInv
<1>4. ASSUME NEW s \in Studios, Moves(r, "window"), launch' = [launch EXCEPT ![s] = NotLaunched]
      PROVE  StudioInv'
  <2>1. ReqsSound'
    BY <1>1, <1>2, <1>4, MovesKept DEF Pcs
  <2>2. launch' \in [Studios -> [on : Projects \union {Nobody}, named : BOOLEAN]]
    BY <1>4 DEF StudioInv, StudioType, NotLaunched
  <2>3. StudioType'
    BY <1>1, <2>2 DEF StudioInv, StudioType, kept
  <2>4. StudiosSound'
    BY <1>1, <1>4 DEF StudioInv, StudioType, StudiosSound, Free, NotLaunched
  <2> QED
    BY <2>1, <2>3, <2>4 DEF StudioInv
<1> QED
  BY <1>3, <1>4 DEF AttributeByProcess

\* Whoever gets the key has one project open, or none.
LEMMA PressKeySends ==
    ASSUME StudioInv, NEW j \in Jobs, PressKey(j)
    PROVE  \E q \in Projects \union {Nobody} : Press(j, q) \/ PressLost(j, q)
<1>1. \/ PressLost(j, Nobody)
      \/ \E s \in Studios : Press(j, studio[s].has) \/ PressLost(j, studio[s].has)
  BY DEF PressKey, Running
<1>2. \A s \in Studios : studio[s].has \in Projects \union {Nobody}
  BY DEF StudioInv, StudioType, StudioRecs
<1> QED
  BY <1>1, <1>2

\* A key: the world of the emulators moves on its own.
LEMMA KeysKept ==
    ASSUME StudioInv, EmuInv, NEW j \in Jobs, AimKey(j) \/ LookAround(j) \/ NoKey(j) \/ PressKey(j)
    PROVE  StudioInv' /\ EmuInv'
<1>1. UNCHANGED <<studio, bridge, files, health, launch, kept, requests>> /\ turns' \in Nat /\ Steady
  BY DEF AimKey, LookAround, NoKey, PressKey, Turn, Steady, StudioInv, StudioType
<1>2. StudioType' /\ StudiosSound'
  BY <1>1, WorldKept DEF kept, StudioInv, StudioType
<1>3. j \in Callers
  BY DEF Callers
<1>4. CASE LookAround(j) /\ req' = req
  <2>1. req' = [req EXCEPT ![j] = req[j]]
    BY <1>4, At1, <1>3
  <2>2. ReqsSound'
    BY <1>1, <1>3, <2>1, At1, OneReq
  <2>3. EmuInv'
    BY <1>4, KeysSound DEF LookAround
  <2> QED
    BY <1>2, <2>2, <2>3 DEF StudioInv
<1>5. CASE /\ Quits(j)
           /\ \/ LookStep(j) \/ LookRaises(j) \/ PressFails(j)
              \/ \E q \in Projects \union {Nobody} : Press(j, q) \/ PressLost(j, q)
  BY <1>1, <1>2, <1>3, <1>5, QuitsKept, KeysSound DEF StudioInv
<1>6. CASE AimKey(j)
  <2> DEFINE y == [Quiet EXCEPT !.pc = "route", !.kind = "key", !.proj = Project(j)]
  <2>1. Project(j) \in Projects
    BY <1>6, Beyond DEF AimKey, On, JobSound
  <2>2. ReqSound(y)
    BY <2>1, QuietSound DEF ReqSound, ReqType, Quiet, Pcs
  <2>3. req' = [req EXCEPT ![j] = y] /\ UNCHANGED <<tabVars, emuVars>>
    BY <1>6 DEF AimKey, emulation
  <2> QED
    BY <1>1, <1>2, <1>3, <2>2, <2>3, OneReq, EmuUntouched DEF StudioInv
<1>7. CASE PressKey(j)
  <2>1. \E q \in Projects \union {Nobody} : Press(j, q) \/ PressLost(j, q)
    BY <1>7, PressKeySends
  <2> QED
    BY <1>5, <1>7, <2>1 DEF PressKey
<1> QED
  BY <1>4, <1>5, <1>6, <1>7 DEF LookAround, NoKey, LookStep

LEMMA VerifyKept ==
    ASSUME StudioInv, NEW r \in Callers, FindWindow(r) \/ Verify(r) PROVE StudioInv'
<1>1. /\ UNCHANGED <<studio, bridge, files, launch, requests, turns>>
      /\ health' = health \/ health' = [w \in BridgePorts |-> Unasked]
  BY DEF FindWindow, Verify, Forget, kept
<1>2. Steady
  BY <1>1 DEF Steady
<1>3. req[r].pc \in {"arm", "verify"} /\ req[r].proj \in Projects
  BY At1 DEF FindWindow, Verify, Req, ReqSound
<1>4. synced' \subseteq Projects
  BY <1>3 DEF FindWindow, Verify, Sync, kept, StudioInv, StudioType
<1>5. StudioType' /\ StudiosSound'
  <2>1. turns' \in Nat
    BY <1>1 DEF StudioInv, StudioType
  <2> QED
    BY <1>1, <1>4, <2>1, WorldKept
<1>6. ASSUME NEW s \in Windows(req[r].proj), req' = Aims(r, s, "click", ByName(req[r].proj, s))
      PROVE  ReqsSound'
  <2> DEFINE p == req[r].proj
             g == IF ByName(p, s) THEN TRUE ELSE FALSE
  <2>1. s \in Studios
    BY DEF Windows, With, Running
  <2>2. req' = Aims(r, s, "click", g) /\ g \in BOOLEAN
    BY <1>6 DEF Aims
  <2>3. ~g => p \in studio[s].was
    BY <1>3, <2>1, StudiosAre, Names DEF ByName
  <2> HIDE DEF g
  <2> QED
    BY <1>2, <1>3, <2>1, <2>2, <2>3, AimsKept
<1>7. CASE Quits(r)
  BY <1>2, <1>5, <1>7, QuitsKept DEF StudioInv
<1> QED
  BY <1>5, <1>6, <1>7 DEF FindWindow, Verify, StudioInv

-----------------------------------------------------------------------------
(* What others do leaves the requests with less to count on.               *)

Weaker(x, z) ==
    /\ {x, z} \subseteq ReqType
    /\ z.pc = x.pc /\ z.proj = x.proj /\ z.port = x.port /\ z.aim = x.aim
    /\ z.guess = x.guess /\ (x.stale => z.stale) /\ (z.sure => x.sure)

LEMMA WeakerSound == ASSUME NEW x, NEW z, ReqSound(x), Weaker(x, z) PROVE ReqSound(z)
BY DEF Weaker, ReqSound

LEMMA OthersStand ==
    ASSUME UNCHANGED <<studio, bridge>>, NEW x, NEW z, ReqSound(x), Weaker(x, z), z.sure => Steady
    PROVE  ReqSound(z)'
BY WeakerSound, Stands, StandsUnsure

LEMMA SureIs ==
    ASSUME NEW rs \in [Callers -> ReqType], NEW deaf, NEW q \in Callers
    PROVE  Weaker(rs[q], Sure(rs, deaf)[q]) /\ (Sure(rs, deaf)[q].sure => deaf = {})
<1> DEFINE b == rs[q].sure /\ deaf = {}
           z == [rs[q] EXCEPT !.sure = b]
<1>1. rs[q] \in ReqType /\ b \in BOOLEAN /\ (b => rs[q].sure /\ deaf = {})
  BY DEF ReqType
<1>2. Sure(rs, deaf)[q] = z
  BY DEF Sure
<1> HIDE DEF b
<1>3. z \in ReqType /\ z.sure = b /\ z.pc = rs[q].pc /\ z.proj = rs[q].proj /\ z.port = rs[q].port
      /\ z.aim = rs[q].aim /\ z.guess = rs[q].guess /\ z.stale = rs[q].stale
  BY <1>1 DEF ReqType
<1> HIDE DEF z
<1> QED
  BY <1>1, <1>2, <1>3 DEF Weaker

LEMMA NoticedIs ==
    ASSUME NEW rs \in [Callers -> ReqType], NEW q \in Callers
    PROVE  /\ Weaker(rs[q], Noticed(rs)[q])
           /\ Noticed(rs)[q].sure => \A w \in BridgePorts : bridge'[w] = bridge[w]
           /\ rs[q].port \in BridgePorts /\ ~Noticed(rs)[q].stale =>
                bridge'[rs[q].port] = bridge[rs[q].port]
<1> DEFINE changed == {w \in BridgePorts : bridge'[w] # bridge[w]}
           a == rs[q].stale \/ rs[q].port \in changed
           b == rs[q].sure /\ changed = {}
           z == [rs[q] EXCEPT !.stale = a, !.sure = b]
<1>1. rs[q] \in ReqType /\ {a, b} \subseteq BOOLEAN
  BY DEF ReqType
<1>2. Noticed(rs)[q] = z
  BY DEF Noticed
<1>3. /\ rs[q].stale => a
      /\ b => rs[q].sure /\ \A w \in BridgePorts : bridge'[w] = bridge[w]
      /\ rs[q].port \in BridgePorts /\ ~a => bridge'[rs[q].port] = bridge[rs[q].port]
  OBVIOUS
<1> HIDE DEF a, b
<1>4. z \in ReqType /\ z.sure = b /\ z.pc = rs[q].pc /\ z.proj = rs[q].proj /\ z.port = rs[q].port
      /\ z.aim = rs[q].aim /\ z.guess = rs[q].guess /\ z.stale = a
  BY <1>1 DEF ReqType
<1> HIDE DEF z
<1> QED
  BY <1>1, <1>2, <1>3, <1>4 DEF Weaker

LEMMA EditedIs ==
    ASSUME NEW rs \in [Callers -> ReqType], NEW p, NEW q \in Callers
    PROVE  /\ Weaker(rs[q], Edited(rs, p)[q]) /\ Edited(rs, p)[q].sure = rs[q].sure
           /\ Edited(rs, p)[q].stale <=> rs[q].stale \/ (rs[q].pc = "edit" /\ rs[q].proj = p)
<1> DEFINE a == rs[q].stale \/ (rs[q].pc = "edit" /\ rs[q].proj = p)
           z == [rs[q] EXCEPT !.stale = a]
<1>1. rs[q] \in ReqType /\ a \in BOOLEAN
  BY DEF ReqType
<1>2. Edited(rs, p)[q] = z
  BY DEF Edited
<1>3. a <=> rs[q].stale \/ (rs[q].pc = "edit" /\ rs[q].proj = p)
  OBVIOUS
<1> HIDE DEF a
<1>4. z \in ReqType /\ z.sure = rs[q].sure /\ z.pc = rs[q].pc /\ z.proj = rs[q].proj
      /\ z.port = rs[q].port /\ z.aim = rs[q].aim /\ z.guess = rs[q].guess /\ z.stale = a
  BY <1>1 DEF ReqType
<1> HIDE DEF z
<1> QED
  BY <1>1, <1>2, <1>3, <1>4 DEF Weaker

\* A step of the world: Studios forget nothing that they have had, and one that turns to
\* another project, or none, takes its bridge with it.
Moving == /\ UNCHANGED health
          /\ \A s \in Studios : studio[s].was \subseteq studio'[s].was
          /\ \A w \in BridgePorts : bridge'[w] = bridge[w] => Served(w)' = Served(w)

LEMMA MovingKept ==
    ASSUME StudioInv, Moving, NEW x, NEW z, ReqSound(x), Weaker(x, z),
           z.sure => \A w \in BridgePorts : bridge'[w] = bridge[w],
           x.port \in BridgePorts /\ ~z.stale => bridge'[x.port] = bridge[x.port],
           x.pc = "edit" /\ ~z.stale /\ With(x.proj) = {} => With(x.proj)' = {}
    PROVE  ReqSound(z)'
<1>1. ReqSound(z)
  BY WeakerSound
<1>2. ASSUME z.pc \in {"route", "scan"}, z.sure PROVE Reachable(z.proj)'
  BY <1>1, <1>2 DEF ReqSound, Reachable, Moving, Heard, Free
<1>3. ASSUME z.pc \in {"send", "chain", "owner"} PROVE z.port \in BridgePorts /\ (~z.guess /\ ~z.stale => Served(z.port)' = z.proj)
  BY <1>1, <1>3 DEF ReqSound, Moving, Weaker
<1>4. ASSUME z.pc \in {"key", "saving", "click", "told"}
      PROVE z.aim \in Studios /\ (~z.guess /\ ~z.stale => z.proj \in studio'[z.aim].was)
  BY <1>1, <1>4 DEF ReqSound, Moving
<1>5. ASSUME z.pc = "owner", z.sure PROVE z.port \notin Free'
  BY <1>1, <1>5 DEF ReqSound, Free
<1>6. z.pc = "edit" /\ ~z.stale => With(z.proj)' = {}
  BY <1>1 DEF ReqSound, Weaker
<1> QED
  BY <1>1, <1>2, <1>3, <1>4, <1>5, <1>6 DEF ReqSound

LEMMA MovedAll ==
    ASSUME StudioInv, Moving, NEW rs \in [Callers -> ReqType], \A q \in Callers : ReqSound(rs[q]),
           req' = [q \in Callers |-> req'[q]],
           \A q \in Callers :
             /\ Weaker(rs[q], req'[q])
             /\ req'[q].sure => \A w \in BridgePorts : bridge'[w] = bridge[w]
             /\ rs[q].port \in BridgePorts /\ ~req'[q].stale => bridge'[rs[q].port] = bridge[rs[q].port]
             /\ rs[q].pc = "edit" /\ ~req'[q].stale /\ With(rs[q].proj) = {} => With(rs[q].proj)' = {}
    PROVE  ReqsSound'
<1>1. ASSUME NEW q \in Callers, NEW z, z = req'[q] PROVE ReqSound(z)'
  BY <1>1, MovingKept
<1>2. req' \in [Callers -> ReqType]
  <2>1. \A q \in Callers : req'[q] \in ReqType
    BY DEF Weaker
  <2> QED
    BY <2>1
<1> QED
  BY <1>1, <1>2 DEF ReqsSound

LEMMA NoticedAll ==
    ASSUME StudioInv, Moving, NEW rs \in [Callers -> ReqType], \A q \in Callers : ReqSound(rs[q]),
           req' = Noticed(rs), \A p \in Projects : With(p) = {} => With(p)' = {}
    PROVE  ReqsSound'
<1>1. req' = [q \in Callers |-> req'[q]]
  BY DEF Noticed
<1>2. ASSUME NEW q \in Callers, rs[q].pc = "edit" PROVE rs[q].proj \in Projects
  BY <1>2 DEF ReqSound
<1> QED
  BY <1>1, <1>2, NoticedIs, MovedAll

LEMMA NoticedOne ==
    ASSUME StudioInv, Moving, NEW r \in Callers, NEW y, ReqSound(y),
           req' = Noticed([req EXCEPT ![r] = y]), \A p \in Projects : With(p) = {} => With(p)' = {}
    PROVE  ReqsSound'
<1> DEFINE rs == [req EXCEPT ![r] = y]
<1>1. rs \in [Callers -> ReqType] /\ \A q \in Callers : ReqSound(rs[q])
  <2>1. y \in ReqType
    BY DEF ReqSound
  <2>2. ASSUME NEW q \in Callers PROVE rs[q] \in {y, req[q]}
    BY At1
  <2> QED
    BY <2>1, <2>2, At1
<1> HIDE DEF rs
<1> QED
  BY <1>1, NoticedAll DEF rs

\* One Studio changes; its bridge, if it had one, is gone.
LEMMA OneStudio ==
    ASSUME StudioInv, NEW s \in Studios, NEW t \in StudioRecs, studio' = [studio EXCEPT ![s] = t],
           studio[s].was \subseteq t.was, t.is = "open" <=> t.has # Nobody,
           {t.has, t.cmd} \ {Nobody} \subseteq t.was,
           \/ launch' = launch
           \/ \E p \in t.was : launch' = [launch EXCEPT ![s] = [on |-> p, named |-> FALSE]],
           bridge' \in [BridgePorts -> [by : Studios \union {NoStudio}, new : BOOLEAN]],
           \A w \in BridgePorts : IF bridge[w].by = s THEN bridge'[w] = NoBridge
                                  ELSE bridge'[w] = bridge[w],
           UNCHANGED health
    PROVE  /\ StudiosSound' /\ Moving
           /\ \A p \in Projects : p # t.has /\ With(p) = {} => With(p)' = {}
<1>1. studio'[s] = t /\ \A v \in Studios \ {s} : studio'[v] = studio[v]
  BY DEF StudioInv, StudioType
<1>2. ASSUME NEW v \in Studios
      PROVE  /\ studio'[v].is = "open" <=> studio'[v].has # Nobody
             /\ {studio'[v].has, studio'[v].cmd} \ {Nobody} \subseteq studio'[v].was
             /\ launch'[v].on # Nobody /\ ~launch'[v].named => launch'[v].on \in studio'[v].was
             /\ studio[v].was \subseteq studio'[v].was
  <2>1. CASE v = s
    BY <1>1, <2>1 DEF StudioInv, StudioType, StudiosSound
  <2>2. CASE v # s
    BY <1>1, <2>2 DEF StudioInv, StudioType, StudiosSound
  <2> QED
    BY <2>1, <2>2
<1>3. ASSUME NEW w \in BridgePorts, bridge'[w].by # NoStudio
      PROVE  bridge'[w] = bridge[w] /\ bridge[w].by \in Studios \ {s}
  BY <1>3 DEF NoBridge, StudioInv, StudioType
<1>4. \A w \in BridgePorts : w \notin Free' => studio'[bridge'[w].by].is = "open"
  BY <1>1, <1>3 DEF StudioInv, StudiosSound, Free
<1>5. ASSUME NEW w \in BridgePorts, bridge'[w] = bridge[w] PROVE Served(w)' = Served(w)
  BY <1>1, <1>3, <1>5 DEF Served, Free
<1>6. ASSUME NEW p \in Projects, p # t.has, With(p) = {} PROVE With(p)' = {}
  BY <1>1, <1>6 DEF With, Running
<1> QED
  BY <1>2, <1>4, <1>5, <1>6 DEF StudiosSound, Moving

LEMMA StoppingIs ==
    ASSUME StudioInv, NEW s \in Studios, NEW crash, Stopping(s, crash)
    PROVE  /\ bridge' \in [BridgePorts -> [by : Studios \union {NoStudio}, new : BOOLEAN]]
           /\ files' \in [BridgePorts -> Projects \union {Nobody}]
           /\ \A w \in BridgePorts : IF bridge[w].by = s THEN bridge'[w] = NoBridge
                                     ELSE bridge'[w] = bridge[w]
<1>1. /\ bridge \in [BridgePorts -> [by : Studios \union {NoStudio}, new : BOOLEAN]]
      /\ files \in [BridgePorts -> Projects \union {Nobody}]
      /\ NoBridge \in [by : Studios \union {NoStudio}, new : BOOLEAN]
  BY DEF StudioInv, StudioType, NoBridge
<1>2. /\ bridge' = [w \in BridgePorts |-> IF bridge[w].by = s THEN NoBridge ELSE bridge[w]]
      /\ \E gone \in SUBSET BridgePorts :
           files' = [w \in BridgePorts |-> IF w \in gone THEN Nobody ELSE files[w]]
  <2>1. \A w \in BridgePorts : w \in Own(s) <=> bridge[w].by = s
    BY DEF Own
  <2>2. bridge' = [w \in BridgePorts |-> IF bridge[w].by = s THEN NoBridge ELSE bridge[w]]
    BY <2>1 DEF Stopping
  <2>3. files' = [w \in BridgePorts |-> IF w \in {v \in Own(s) : bridge[v].new /\ ~crash}
                                        THEN Nobody ELSE files[w]]
    BY DEF Stopping
  <2> QED
    BY <2>2, <2>3 DEF Own
<1> QED
  BY <1>1, <1>2

\* A Studio that has nothing open has no bridge.
LEMMA NoneOf ==
    ASSUME StudioInv, NEW s \in Studios, studio[s].is # "open", bridge' = bridge
    PROVE  /\ bridge' \in [BridgePorts -> [by : Studios \union {NoStudio}, new : BOOLEAN]]
           /\ \A w \in BridgePorts : IF bridge[w].by = s THEN bridge'[w] = NoBridge
                                     ELSE bridge'[w] = bridge[w]
BY Names DEF StudioInv, StudioType, StudiosSound, Free

\* The types of the rest, where studio, bridge, files and launch change.
LEMMA TypesKept ==
    ASSUME StudioInv, studio' \in [Studios -> StudioRecs],
           bridge' \in [BridgePorts -> [by : Studios \union {NoStudio}, new : BOOLEAN]],
           files' \in [BridgePorts -> Projects \union {Nobody}],
           launch' \in [Studios -> [on : Projects \union {Nobody}, named : BOOLEAN]],
           UNCHANGED <<health, synced, requests>>, turns' \in Nat
    PROVE  StudioType'
BY DEF StudioInv, StudioType

LEMMA EndingKept ==
    ASSUME StudioInv, NEW s \in Studios, NEW crash, Ending(s, crash), UNCHANGED <<health, launch>>
    PROVE  /\ StudiosSound' /\ Moving /\ studio' \in [Studios -> StudioRecs]
           /\ bridge' \in [BridgePorts -> [by : Studios \union {NoStudio}, new : BOOLEAN]]
           /\ files' \in [BridgePorts -> Projects \union {Nobody}]
           /\ \A p \in Projects : With(p) = {} => With(p)' = {}
<1> DEFINE t == [studio[s] EXCEPT !.is = "gone", !.has = Nobody]
<1>1. studio' = [studio EXCEPT ![s] = t] /\ t \in StudioRecs
  BY ZenonT(40) DEF Ending, StudioInv, StudioType, StudioRecs
<1>2. t.is = "gone" /\ t.has = Nobody /\ t.cmd = studio[s].cmd /\ t.was = studio[s].was
  BY DEF StudioInv, StudioType, StudioRecs
<1> HIDE DEF t
<1>3. {t.has, t.cmd} \ {Nobody} \subseteq t.was
  BY <1>2, StudiosAre
<1>4. /\ bridge' \in [BridgePorts -> [by : Studios \union {NoStudio}, new : BOOLEAN]]
      /\ files' \in [BridgePorts -> Projects \union {Nobody}]
      /\ \A w \in BridgePorts : IF bridge[w].by = s THEN bridge'[w] = NoBridge
                                ELSE bridge'[w] = bridge[w]
  BY StoppingIs DEF Ending
<1>5. studio[s].was \subseteq t.was /\ (t.is = "open" <=> t.has # Nobody)
  BY <1>2
<1>6. StudiosSound' /\ Moving /\ \A p \in Projects : p # t.has /\ With(p) = {} => With(p)' = {}
  BY <1>1, <1>3, <1>4, <1>5, OneStudio
<1>7. studio' \in [Studios -> StudioRecs]
  BY <1>1 DEF StudioInv, StudioType
<1> QED
  BY <1>2, <1>4, <1>6, <1>7, Names

LEMMA StudioEndsKept == ASSUME StudioInv, NEW s \in Studios, StudioEnds(s) PROVE StudioInv'
<1>1. UNCHANGED <<health, launch, kept, requests>> /\ req' = Noticed(req) /\ turns' \in Nat
  BY DEF StudioEnds, Turn, StudioInv, StudioType
<1>2. PICK crash : Ending(s, crash)
  BY DEF StudioEnds
<1>3. StudiosSound' /\ StudioType'
  BY <1>1, <1>2, EndingKept, TypesKept DEF kept, StudioInv, StudioType
<1>4. ReqsSound'
  BY <1>1, <1>2, EndingKept, NoticedAll, At1 DEF StudioInv, ReqsSound
<1> QED
  BY <1>3, <1>4 DEF StudioInv

LEMMA CloseOwnKept == ASSUME StudioInv, NEW r \in Callers, CloseOwn(r) PROVE StudioInv'
<1>1. /\ UNCHANGED <<health, launch, kept, requests, turns>>
      /\ req' = Noticed([req EXCEPT ![r] = Quiet])
  BY DEF CloseOwn
<1>2. CASE req[r].aim \in Running
  <2>1. req[r].aim \in Studios /\ Ending(req[r].aim, TRUE)
    BY <1>2 DEF CloseOwn, Running
  <2>2. StudiosSound' /\ StudioType'
    BY <1>1, <2>1, EndingKept, TypesKept DEF kept, StudioInv, StudioType
  <2>3. ReqsSound'
    BY <1>1, <2>1, EndingKept, NoticedOne, QuietSound
  <2> QED
    BY <2>2, <2>3 DEF StudioInv
<1>3. CASE req[r].aim \notin Running
  <2>1. UNCHANGED <<studio, bridge, files>>
    BY <1>3 DEF CloseOwn
  <2>2. StudiosSound' /\ StudioType'
    BY <1>1, <2>1, WorldKept DEF kept, StudioInv, StudioType
  <2>3. Moving
    BY <1>1, <2>1 DEF Moving, Served, Free
  <2>4. ReqsSound'
    BY <1>1, <2>1, <2>3, NoticedOne, QuietSound DEF With, Running
  <2> QED
    BY <2>2, <2>4 DEF StudioInv
<1> QED
  BY <1>2, <1>3

LEMMA ArmingKept ==
    ASSUME StudioInv, NEW s \in Studios, Arming(s) \/ Stopping(s, FALSE) \/ UNCHANGED <<bridge, files>>,
           UNCHANGED <<studio, health, launch>>
    PROVE  /\ StudiosSound' /\ Moving
           /\ bridge' \in [BridgePorts -> [by : Studios \union {NoStudio}, new : BOOLEAN]]
           /\ files' \in [BridgePorts -> Projects \union {Nobody}]
           /\ \A p \in Projects : With(p) = {} => With(p)' = {}
<1>1. \A p \in Projects : With(p) = {} => With(p)' = {}
  BY DEF With, Running
<1>2. /\ bridge' \in [BridgePorts -> [by : Studios \union {NoStudio}, new : BOOLEAN]]
      /\ files' \in [BridgePorts -> Projects \union {Nobody}]
      /\ \A w \in BridgePorts : \/ bridge'[w] \in {bridge[w], NoBridge}
                                \/ bridge'[w].by = s /\ studio[s].has # Nobody
  <2>1. CASE UNCHANGED <<bridge, files>>
    BY <2>1 DEF StudioInv, StudioType
  <2>2. CASE Stopping(s, FALSE)
    BY <2>2, StoppingIs
  <2>3. CASE Arming(s) /\ ~UNCHANGED <<bridge, files>>
    <3>1. PICK w \in Free, new \in BOOLEAN :
            /\ bridge' = [bridge EXCEPT ![w] = [by |-> s, new |-> new]]
            /\ files' = IF new THEN [files EXCEPT ![w] = studio[s].has] ELSE files
      BY <2>3 DEF Arming
    <3>2. w \in BridgePorts /\ studio[s].has # Nobody
      BY <2>3 DEF Arming, Free
    <3>3. studio[s].has \in Projects \union {Nobody}
      BY StudiosAre
    <3> QED
      BY <3>1, <3>2, <3>3 DEF StudioInv, StudioType
  <2> QED
    BY <2>1, <2>2, <2>3
<1>3. StudiosSound'
  BY <1>2 DEF StudioInv, StudiosSound, Free, NoBridge
<1>4. Moving
  BY DEF Moving, Served, Free
<1> QED
  BY <1>1, <1>2, <1>3, <1>4

LEMMA UserArmsKept == ASSUME StudioInv, NEW s \in Studios, UserArms(s) PROVE StudioInv'
<1>1. /\ UNCHANGED <<studio, health, launch, kept, requests>> /\ req' = Noticed(req)
      /\ Arming(s) \/ Stopping(s, FALSE)
  BY DEF UserArms
<1>a. turns' \in Nat
  BY DEF UserArms, Turn, StudioInv, StudioType
<1>2. StudiosSound' /\ StudioType'
  BY <1>1, <1>a, ArmingKept, TypesKept DEF kept, StudioInv, StudioType
<1>3. ReqsSound'
  BY <1>1, ArmingKept, NoticedAll, At1 DEF StudioInv, ReqsSound
<1> QED
  BY <1>2, <1>3 DEF StudioInv

LEMMA ClickKept == ASSUME StudioInv, NEW r \in Callers, Click(r) PROVE StudioInv'
<1> DEFINE s == req[r].aim
           y == [req[r] EXCEPT !.pc = "verify"]
<1>1. /\ UNCHANGED <<studio, health, launch, kept, requests, turns>>
      /\ req[r].pc = "click" /\ s \in Studios
      /\ Arming(s) \/ Stopping(s, FALSE) \/ UNCHANGED <<bridge, files>>
  BY At1 DEF Click, Req, ReqSound
<1>2. req' = Noticed([req EXCEPT ![r] = y]) /\ ReqSound(y)
  <2>1. req' = Noticed([req EXCEPT ![r] = y])
    BY At1 DEF Click, ReqType
  <2>2. y \in ReqType /\ y.pc = "verify" /\ y.proj = req[r].proj
    BY At1 DEF ReqType, Pcs
  <2>3. req[r].proj \in Projects
    BY <1>1, At1 DEF ReqSound
  <2> HIDE DEF y
  <2> QED
    BY <2>1, <2>2, <2>3 DEF ReqSound
<1> HIDE DEF y
<1>3. StudiosSound' /\ StudioType'
  BY <1>1, ArmingKept, TypesKept DEF kept, StudioInv, StudioType
<1>4. ReqsSound'
  BY <1>1, <1>2, ArmingKept, NoticedOne
<1> QED
  BY <1>3, <1>4 DEF StudioInv

LEMMA StudioLoadsKept == ASSUME StudioInv, NEW s \in Studios, StudioLoads(s) PROVE StudioInv'
<1>1. /\ UNCHANGED <<bridge, files, health, launch, kept, requests, turns>>
      /\ studio[s].is = "starting"
  BY DEF StudioLoads
<1>2. studio[s] \in StudioRecs /\ studio[s].has = Nobody /\ studio[s].was \subseteq Projects
  BY <1>1, StudiosAre DEF StudioInv, StudioType
<1>3. /\ bridge' \in [BridgePorts -> [by : Studios \union {NoStudio}, new : BOOLEAN]]
      /\ \A w \in BridgePorts : IF bridge[w].by = s THEN bridge'[w] = NoBridge
                                ELSE bridge'[w] = bridge[w]
  BY <1>1, NoneOf
<1>4. ASSUME NEW p \in studio[s].was, With(p) = {},
             studio' = [studio EXCEPT ![s].is = "open", ![s].has = p], req' = Edited(req, p)
      PROVE  StudioInv'
  <2> DEFINE t == [studio[s] EXCEPT !.is = "open", !.has = p]
  <2>1. studio' = [studio EXCEPT ![s] = t]
    BY <1>4 DEF StudioInv, StudioType, StudioRecs
  <2>2. t \in StudioRecs /\ t.is = "open" /\ t.has = p /\ t.cmd = studio[s].cmd
        /\ t.was = studio[s].was
    BY <1>2 DEF StudioRecs
  <2> HIDE DEF t
  <2>3. {t.has, t.cmd} \ {Nobody} \subseteq t.was /\ (t.is = "open" <=> t.has # Nobody)
    BY <1>2, <2>2, StudiosAre, Names
  <2>4. /\ StudiosSound' /\ Moving
        /\ \A q \in Projects : q # p /\ With(q) = {} => With(q)' = {}
    BY <1>1, <1>3, <2>1, <2>2, <2>3, OneStudio
  <2>5. StudioType'
    BY <1>1, <1>3, <2>1, <2>2, TypesKept DEF kept, StudioInv, StudioType
  <2>6. ReqsSound'
    <3>1. req' = [q \in Callers |-> req'[q]]
      BY <1>4 DEF Edited
    <3>2. ASSUME NEW q \in Callers, req[q].pc = "edit" PROVE req[q].proj \in Projects
      BY <3>2, At1 DEF ReqSound
    <3>3. ASSUME NEW q \in Callers
          PROVE  /\ Weaker(req[q], req'[q]) /\ req'[q].sure = req[q].sure
                 /\ req'[q].stale <=> req[q].stale \/ (req[q].pc = "edit" /\ req[q].proj = p)
      BY <1>4, EditedIs, At1
    <3>4. ASSUME NEW q \in Callers, req[q].pc = "edit", ~req'[q].stale PROVE req[q].proj # p
      BY <3>3, <3>4
    <3> QED
      BY <1>1, <2>4, <3>1, <3>2, <3>3, <3>4, At1, MovedAll DEF StudioInv, ReqsSound
  <2> QED
    BY <2>4, <2>5, <2>6 DEF StudioInv
<1>5. ASSUME studio' = [studio EXCEPT ![s].is = "home"],
             req' = [r \in Callers |-> [req[r] EXCEPT !.heard = @ \/ Req(r, "opening")]]
      PROVE  StudioInv'
  <2> DEFINE t == [studio[s] EXCEPT !.is = "home"]
  <2>1. studio' = [studio EXCEPT ![s] = t]
    BY <1>5 DEF StudioInv, StudioType, StudioRecs
  <2>2. t \in StudioRecs /\ t.is = "home" /\ t.has = Nobody /\ t.cmd = studio[s].cmd
        /\ t.was = studio[s].was
    BY <1>2 DEF StudioRecs
  <2> HIDE DEF t
  <2>3. {t.has, t.cmd} \ {Nobody} \subseteq t.was /\ (t.is = "open" <=> t.has # Nobody)
    BY <1>2, <2>2, StudiosAre, Names
  <2>4. /\ StudiosSound' /\ Moving
        /\ \A q \in Projects : q # Nobody /\ With(q) = {} => With(q)' = {}
    BY <1>1, <1>3, <2>1, <2>2, <2>3, OneStudio
  <2>5. StudioType'
    BY <1>1, <1>3, <2>1, <2>2, TypesKept DEF kept, StudioInv, StudioType
  <2>6. ReqsSound'
    <3>1. req' = [q \in Callers |-> req'[q]]
      BY <1>5
    <3>2. ASSUME NEW q \in Callers, req[q].pc = "edit" PROVE req[q].proj \in Projects
      BY <3>2, At1 DEF ReqSound
    <3>3. ASSUME NEW q \in Callers PROVE Weaker(req[q], req'[q]) /\ req'[q].stale = req[q].stale
      <4> DEFINE a == req[q].heard \/ Req(q, "opening")
                 z == [req[q] EXCEPT !.heard = a]
      <4>1. req'[q] = z
        BY <1>5
      <4>2. a \in BOOLEAN /\ req[q] \in ReqType
        BY At1 DEF ReqType
      <4> HIDE DEF a
      <4> QED
        BY <4>1, <4>2 DEF ReqType, Weaker
    <3> QED
      BY <1>1, <2>4, <3>1, <3>2, <3>3, At1, MovedAll, Names DEF StudioInv, ReqsSound
  <2> QED
    BY <2>4, <2>5, <2>6 DEF StudioInv
<1> QED
  BY <1>4, <1>5 DEF StudioLoads

LEMMA NoneIs == None.is = "none" /\ None.has = Nobody /\ None.cmd = Nobody /\ None.was = {}
BY DEF None

LEMMA UserStartsKept == ASSUME StudioInv, NEW s \in Studios, UserStarts(s) PROVE StudioInv'
<1>1. /\ UNCHANGED <<bridge, files, health, launch, kept, req, requests>>
      /\ studio[s] = None
  BY DEF UserStarts
<1>2. turns' \in Nat
  BY DEF UserStarts, Turn, StudioInv, StudioType
<1>3. /\ bridge' \in [BridgePorts -> [by : Studios \union {NoStudio}, new : BOOLEAN]]
      /\ \A w \in BridgePorts : IF bridge[w].by = s THEN bridge'[w] = NoBridge
                                ELSE bridge'[w] = bridge[w]
  BY <1>1, NoneIs, NoneOf
<1>4. PICK t \in StudioRecs :
        /\ studio' = [studio EXCEPT ![s] = t] /\ t.is \in {"home", "starting"} /\ t.has = Nobody
        /\ {t.cmd} \ {Nobody} \subseteq t.was
  <2>1. CASE studio' = [studio EXCEPT ![s].is = "home"]
    <3> DEFINE t == [studio[s] EXCEPT !.is = "home"]
    <3>1. studio' = [studio EXCEPT ![s] = t] /\ t \in StudioRecs
      BY <2>1, ZenonT(40) DEF StudioInv, StudioType, StudioRecs
    <3>2. t.is = "home" /\ t.has = Nobody /\ t.cmd = Nobody
      BY <1>1, NoneIs DEF StudioInv, StudioType, StudioRecs
    <3> QED
      BY <3>1, <3>2
  <2>2. CASE \E p \in Projects : studio' = [studio EXCEPT ![s] = [is |-> "starting",
                                            has |-> Nobody, cmd |-> p, was |-> {p}]]
    <3>1. PICK p \in Projects : studio' = [studio EXCEPT ![s] = [is |-> "starting",
                                            has |-> Nobody, cmd |-> p, was |-> {p}]]
      BY <2>2
    <3> DEFINE t == [is |-> "starting", has |-> Nobody, cmd |-> p, was |-> {p}]
    <3>2. t \in StudioRecs /\ t.is = "starting" /\ t.has = Nobody /\ {t.cmd} \ {Nobody} \subseteq t.was
      BY DEF StudioRecs
    <3> QED
      BY <3>1, <3>2
  <2> QED
    BY <2>1, <2>2 DEF UserStarts
<1>5. studio[s].was \subseteq t.was /\ (t.is = "open" <=> t.has # Nobody)
      /\ {t.has, t.cmd} \ {Nobody} \subseteq t.was
  BY <1>1, <1>4, NoneIs
<1>6. /\ StudiosSound' /\ Moving
      /\ \A q \in Projects : q # Nobody /\ With(q) = {} => With(q)' = {}
  BY <1>1, <1>3, <1>4, <1>5, OneStudio
<1>7. StudioType'
  BY <1>1, <1>2, <1>3, <1>4, TypesKept DEF kept, StudioInv, StudioType
<1>8. ReqsSound'
  <2>1. req' = [q \in Callers |-> req'[q]]
    BY <1>1, At1 DEF StudioInv, ReqsSound
  <2>2. ASSUME NEW q \in Callers PROVE Weaker(req[q], req'[q])
    BY <1>1, At1 DEF Weaker
  <2>3. ASSUME NEW q \in Callers, req[q].pc = "edit" PROVE req[q].proj \in Projects
    BY <2>3, At1 DEF ReqSound
  <2> QED
    BY <1>1, <1>6, <2>1, <2>2, <2>3, At1, MovedAll, Names DEF StudioInv, ReqsSound
<1> QED
  BY <1>6, <1>7, <1>8 DEF StudioInv

LEMMA UserSwitchesKept ==
    ASSUME StudioInv, NEW s \in Studios, NEW p \in Projects \union {Nobody}, UserSwitches(s, p)
    PROVE  StudioInv'
<1>1. UNCHANGED <<health, launch, kept, requests>> /\ Stopping(s, FALSE) /\ req' = Edited(Noticed(req), p)
  BY DEF UserSwitches
<1>2. turns' \in Nat
  BY DEF UserSwitches, Turn, StudioInv, StudioType
<1> DEFINE is == IF p = Nobody THEN "home" ELSE "open"
           was == (studio[s].was \union {p}) \ {Nobody}
           t == [studio[s] EXCEPT !.is = is, !.has = p, !.was = was]
<1>a. is \in {"home", "open"} /\ was \in SUBSET Projects /\ (is = "open" <=> p # Nobody)
      /\ studio[s].was \subseteq was /\ (p # Nobody => p \in was)
  BY StudiosAre, Names
<1>3. studio' = [studio EXCEPT ![s] = t]
  BY DEF UserSwitches, StudioInv, StudioType, StudioRecs
<1> HIDE DEF is, was
<1>4. t \in StudioRecs /\ t.is = is /\ t.has = p /\ t.cmd = studio[s].cmd /\ t.was = was
  BY <1>a, ZenonT(40) DEF StudioRecs, StudioInv, StudioType
<1> HIDE DEF t
<1>5. /\ bridge' \in [BridgePorts -> [by : Studios \union {NoStudio}, new : BOOLEAN]]
      /\ files' \in [BridgePorts -> Projects \union {Nobody}]
      /\ \A w \in BridgePorts : IF bridge[w].by = s THEN bridge'[w] = NoBridge
                                ELSE bridge'[w] = bridge[w]
  BY <1>1, StoppingIs
<1>6. {t.has, t.cmd} \ {Nobody} \subseteq t.was
  BY <1>a, <1>4, StudiosAre
<1>7. /\ StudiosSound' /\ Moving
      /\ \A q \in Projects : q # p /\ With(q) = {} => With(q)' = {}
  BY <1>1, <1>a, <1>3, <1>4, <1>5, <1>6, OneStudio
<1>8. StudioType'
  BY <1>1, <1>2, <1>3, <1>4, <1>5, TypesKept DEF kept, StudioInv, StudioType
<1>9. ReqsSound'
  <2> DEFINE rs == Noticed(req)
  <2>1. /\ rs = [q \in Callers |-> rs[q]] /\ req' = [q \in Callers |-> req'[q]]
    BY <1>1 DEF Edited, Noticed
  <2>2. ASSUME NEW q \in Callers
        PROVE  /\ Weaker(req[q], rs[q])
               /\ rs[q].sure => \A w \in BridgePorts : bridge'[w] = bridge[w]
               /\ req[q].port \in BridgePorts /\ ~rs[q].stale => bridge'[req[q].port] = bridge[req[q].port]
    BY NoticedIs, At1
  <2>3. rs \in [Callers -> ReqType]
    <3>1. \A q \in Callers : rs[q] \in ReqType
      BY <2>2 DEF Weaker
    <3> QED
      BY <2>1, <3>1
  <2> HIDE DEF rs
  <2>4. req' = Edited(rs, p)
    BY <1>1 DEF rs
  <2>5. ASSUME NEW q \in Callers
        PROVE  /\ Weaker(rs[q], req'[q]) /\ req'[q].sure = rs[q].sure
               /\ req'[q].stale <=> rs[q].stale \/ (rs[q].pc = "edit" /\ rs[q].proj = p)
    BY <2>3, <2>4, EditedIs
  <2>6. ASSUME NEW q \in Callers
        PROVE  Weaker(req[q], req'[q])
    BY <2>2, <2>5 DEF Weaker
  <2>7. ASSUME NEW q \in Callers, req[q].pc = "edit" PROVE req[q].proj \in Projects
    BY <2>7, At1 DEF ReqSound
  <2>8. ASSUME NEW q \in Callers, req[q].pc = "edit", ~req'[q].stale PROVE req[q].proj # p
    BY <2>2, <2>5, <2>8 DEF Weaker
  <2>9. ASSUME NEW q \in Callers
        PROVE  /\ req'[q].sure => \A w \in BridgePorts : bridge'[w] = bridge[w]
               /\ req[q].port \in BridgePorts /\ ~req'[q].stale => bridge'[req[q].port] = bridge[req[q].port]
    BY <2>2, <2>5
  <2> QED
    BY <1>7, <2>1, <2>6, <2>7, <2>8, <2>9, At1, MovedAll DEF StudioInv, ReqsSound
<1> QED
  BY <1>7, <1>8, <1>9 DEF StudioInv

LEMMA StudioUntouched == ASSUME StudioInv, UNCHANGED studioVars PROVE StudioInv'
<1>1. UNCHANGED <<studio, bridge, files, health, launch, req, requests, turns, synced>> /\ Steady
  BY DEF studioVars, kept, Steady
<1>2. StudioType' /\ StudiosSound'
  BY <1>1, WorldKept DEF StudioInv, StudioType
<1>3. ASSUME NEW q \in Callers, NEW x, x = req'[q] PROVE ReqSound(x)'
  BY <1>1, <1>3, Stands, At1
<1> QED
  BY <1>1, <1>2, <1>3 DEF StudioInv, ReqsSound

-----------------------------------------------------------------------------
(* Opening, expiry and the beginning of requests.                          *)

LEMMA LoadedAre ==
    ASSUME StudioInv, NEW p \in Projects, NEW s \in Loaded(p) PROVE s \in Studios
<1>1. CASE s \in Windows(p)
  BY <1>1 DEF Windows, With, Running
<1>2. CASE s \in Bridges(p)
  <2>1. PICK w \in BridgePorts : s = bridge[w].by /\ Served(w) \in {p} \union Namesakes(p)
    BY <1>2 DEF Bridges
  <2>2. Served(w) \in Projects
    BY <2>1 DEF Namesakes
  <2> QED
    BY <2>1, <2>2, BridgesAre, Names
<1> QED
  BY <1>1, <1>2 DEF Loaded

LEMMA OpenedKept == ASSUME StudioInv, NEW r \in Callers, Opened(r) PROVE StudioInv'
<1> DEFINE p == req[r].proj
<1>1. /\ UNCHANGED <<studio, bridge, files, health, kept, requests, turns>> /\ Steady
      /\ req[r].pc = "opening"
  BY DEF Opened, Steady, Req
<1>2. PICK s \in Loaded(p) :
        /\ req' = Aims(r, s, "told", ByName(p, s))
        /\ launch' = [launch EXCEPT ![s] = [on |-> p, named |-> ByName(p, s)]]
  BY DEF Opened
<1> DEFINE g == IF ByName(p, s) THEN TRUE ELSE FALSE
<1>3. p \in Projects
  BY <1>1, At1 DEF ReqSound
<1>4. s \in Studios
  BY <1>2, <1>3, LoadedAre
<1>5. req' = Aims(r, s, "told", g) /\ g \in BOOLEAN
  BY <1>2 DEF Aims
<1>6. launch' = [launch EXCEPT ![s] = [on |-> p, named |-> g]]
  <2>1. ByName(p, s) = g
    BY DEF ByName
  <2> QED
    BY <1>2, <2>1
<1>7. ~g => p \in studio[s].was
  BY <1>3, <1>4, StudiosAre, Names DEF ByName
<1> HIDE DEF g
<1>8. ReqsSound'
  BY <1>1, <1>4, <1>5, <1>7, AimsKept
<1>9. StudioType'
  <2>1. launch' \in [Studios -> [on : Projects \union {Nobody}, named : BOOLEAN]]
    BY <1>3, <1>4, <1>5, <1>6 DEF StudioInv, StudioType
  <2> QED
    BY <1>1, <2>1 DEF kept, StudioInv, StudioType
<1>10. StudiosSound'
  BY <1>1, <1>4, <1>6, <1>7, SMTT(40) DEF StudioInv, StudioType, StudiosSound, Free
<1> QED
  BY <1>8, <1>9, <1>10 DEF StudioInv

LEMMA OpenKept == ASSUME StudioInv, NEW r \in Callers, Open(r) PROVE StudioInv'
<1> DEFINE p == req[r].proj
<1>1. UNCHANGED <<bridge, files, health, kept, requests, turns>> /\ req[r].pc = "open"
  BY DEF Open, Req
<1>2. p \in Projects /\ req[r] \in ReqType
  BY <1>1, At1 DEF ReqSound
<1>3. ASSUME UNCHANGED <<studio, launch>> PROVE StudioType' /\ StudiosSound' /\ Steady
  BY <1>1, <1>3, WorldKept DEF kept, StudioInv, StudioType, Steady
<1>4. CASE Quits(r) /\ UNCHANGED <<studio, launch>>
  BY <1>3, <1>4, QuitsKept DEF StudioInv
<1>5. ASSUME NEW s \in Loaded(p), req' = Aims(r, s, "told", ByName(p, s)), UNCHANGED <<studio, launch>>
      PROVE  StudioInv'
  <2> DEFINE g == IF ByName(p, s) THEN TRUE ELSE FALSE
  <2>1. s \in Studios
    BY <1>2, <1>5, LoadedAre
  <2>2. req' = Aims(r, s, "told", g) /\ g \in BOOLEAN
    BY <1>5 DEF Aims
  <2>3. ~g => p \in studio[s].was
    BY <1>2, <2>1, StudiosAre, Names DEF ByName
  <2> HIDE DEF g
  <2>4. ReqsSound'
    BY <1>1, <1>3, <1>5, <2>1, <2>2, <2>3, AimsKept
  <2> QED
    BY <1>3, <1>5, <2>4 DEF StudioInv
<1>6. ASSUME NEW s \in Studios, NEW cmd \in {p, Nobody}, studio[s] = None,
             studio' = [studio EXCEPT ![s] = [is |-> "starting", has |-> Nobody, cmd |-> cmd,
                                              was |-> {p}]],
             launch' = [launch EXCEPT ![s] = [on |-> p, named |-> FALSE]],
             req' = [req EXCEPT ![r].pc = "opening", ![r].aim = s, ![r].pre = Running]
      PROVE  StudioInv'
  <2> DEFINE t == [is |-> "starting", has |-> Nobody, cmd |-> cmd, was |-> {p}]
             y == [req[r] EXCEPT !.pc = "opening", !.aim = s, !.pre = Running]
  <2>1. /\ t \in StudioRecs /\ t.is = "starting" /\ t.has = Nobody
        /\ {t.has, t.cmd} \ {Nobody} \subseteq t.was /\ p \in t.was
    BY <1>2 DEF StudioRecs
  <2>2. studio' = [studio EXCEPT ![s] = t]
    BY <1>6
  <2>3. studio[s].was \subseteq t.was /\ studio[s].is # "open"
    BY <1>6, NoneIs
  <2> HIDE DEF t
  <2>4. /\ bridge' \in [BridgePorts -> [by : Studios \union {NoStudio}, new : BOOLEAN]]
        /\ \A w \in BridgePorts : IF bridge[w].by = s THEN bridge'[w] = NoBridge
                                  ELSE bridge'[w] = bridge[w]
    BY <1>1, <2>3, NoneOf
  <2>5. \E q \in t.was : launch' = [launch EXCEPT ![s] = [on |-> q, named |-> FALSE]]
    BY <1>6, <2>1
  <2>6. t.is = "open" <=> t.has # Nobody
    BY <2>1
  <2>7. /\ StudiosSound' /\ Moving
        /\ \A q \in Projects : q # Nobody /\ With(q) = {} => With(q)' = {}
    BY <1>1, <2>1, <2>2, <2>3, <2>4, <2>5, <2>6, OneStudio
  <2>8. StudioType'
    <3>1. launch' \in [Studios -> [on : Projects \union {Nobody}, named : BOOLEAN]]
      BY <1>2, <1>6 DEF StudioInv, StudioType
    <3> QED
      BY <1>1, <2>1, <2>2, <2>4, <3>1, TypesKept DEF kept, StudioInv, StudioType
  <2>9. req' = [req EXCEPT ![r] = y]
    BY <1>2, <1>6, At1 DEF ReqType
  <2>10. y \in ReqType /\ y.pc = "opening" /\ y.proj = p /\ y.aim = s
    BY <1>2 DEF ReqType, Pcs, Running
  <2> HIDE DEF y
  <2>11. ReqSound(y)
    BY <1>2, <2>10 DEF ReqSound
  <2>12. ReqsSound'
    <3> DEFINE rs == [req EXCEPT ![r] = y]
    <3>1. rs \in [Callers -> ReqType]
      BY <2>10, At1
    <3>2. \A q \in Callers : ReqSound(rs[q])
      <4>1. ASSUME NEW q \in Callers PROVE rs[q] \in {y, req[q]}
        BY At1
      <4> QED
        BY <2>11, <4>1, At1
    <3> HIDE DEF rs
    <3>3. req' = rs
      BY <2>9 DEF rs
    <3>4. rs = [q \in Callers |-> rs[q]]
      BY <3>1
    <3>5. \A q \in Callers : Weaker(rs[q], rs[q])
      BY <3>1 DEF Weaker
    <3>6. ASSUME NEW q \in Callers, rs[q].pc = "edit" PROVE rs[q].proj \in Projects
      BY <3>2, <3>6 DEF ReqSound
    <3> QED
      BY <1>1, <2>7, <3>1, <3>2, <3>3, <3>4, <3>5, <3>6, MovedAll, Names
  <2> QED
    BY <2>7, <2>8, <2>12 DEF StudioInv
<1> QED
  BY <1>4, <1>5, <1>6 DEF Open

LEMMA HealthExpiresKept ==
    ASSUME StudioInv, NEW w \in BridgePorts, HealthExpires(w) PROVE StudioInv'
<1>1. /\ UNCHANGED <<studio, bridge, files, launch, kept, req, requests, turns>>
      /\ health' = [health EXCEPT ![w] = Unasked]
  BY DEF HealthExpires
<1>2. Steady
  BY <1>1 DEF Steady, StudioInv, StudioType
<1>3. Unasked \in HealthType
  BY DEF Unasked, HealthType
<1>4. StudioType' /\ StudiosSound'
  BY <1>1, <1>3 DEF StudioInv, StudioType, StudiosSound, Free, kept
<1>5. ASSUME NEW q \in Callers, NEW x, x = req'[q] PROVE ReqSound(x)'
  BY <1>1, <1>2, <1>5, Stands, At1
<1> QED
  BY <1>1, <1>4, <1>5 DEF StudioInv, ReqsSound

LEMMA BeginRequestKept ==
    ASSUME StudioInv, NEW r \in Requests, NEW kind \in RequestKinds, NEW p \in Projects,
           BeginRequest(r, kind, p)
    PROVE  StudioInv'
<1> DEFINE start == CASE kind \in {"write", "save", "execute"} -> "route"
                      [] kind \in {"arm", "stop"} -> "arm"
                      [] kind = "open" -> "open" [] OTHER -> "guard"
           sure == \E w \in BridgePorts : /\ Served(w) = p /\ bridge[w].new
                                          /\ health[w] \in {Unasked, Heard(w, {})}
           y == [Quiet EXCEPT !.pc = start, !.kind = kind, !.proj = p, !.sure = sure]
<1>1. /\ UNCHANGED <<studio, bridge, files, health, launch, kept, turns>> /\ Steady
      /\ requests' = [requests EXCEPT ![r] = @ - 1] /\ requests[r] > 0
      /\ req' = [req EXCEPT ![r] = y]
  BY DEF BeginRequest, Steady
<1>2. start \in {"route", "arm", "open", "guard"}
  OBVIOUS
<1>3. sure \in BOOLEAN /\ (sure => Reachable(p))
  BY DEF Reachable
<1> HIDE DEF start, sure
<1>4. y \in ReqType /\ y.pc = start /\ y.proj = p /\ y.sure = sure
  BY <1>2, <1>3, QuietSound, ZenonT(40) DEF ReqType, Pcs
<1> HIDE DEF y
<1>5. ReqSound(y)
  BY <1>2, <1>3, <1>4 DEF ReqSound
<1>6. ReqsSound'
  BY <1>1, <1>5, OneReq DEF Callers
<1>7. StudioType' /\ StudiosSound'
  BY <1>1 DEF StudioInv, StudioType, StudiosSound, Free, kept
<1> QED
  BY <1>6, <1>7 DEF StudioInv

LEMMA ServiceDiesKept == ASSUME StudioInv, EmuInv, ServiceDies PROVE StudioInv' /\ EmuInv'
<1>1. EmuInv'
  BY RestartKept DEF ServiceDies
<1>2. /\ UNCHANGED <<studio, bridge, files, kept, requests, turns>>
      /\ req' = [r \in Callers |-> Quiet] /\ health' = [w \in BridgePorts |-> Unasked]
      /\ launch' = [s \in Studios |-> NotLaunched]
  BY DEF ServiceDies, Forget
<1>3. Unasked \in HealthType /\ NotLaunched \in [on : Projects \union {Nobody}, named : BOOLEAN]
      /\ NotLaunched.on = Nobody
  BY DEF Unasked, HealthType, NotLaunched
<1>4. StudioType'
  BY <1>2, <1>3 DEF StudioInv, StudioType, kept
<1>5. StudiosSound'
  BY <1>2, <1>3 DEF StudioInv, StudiosSound, Free
<1>6. ReqsSound'
  BY <1>2, QuietSound DEF ReqsSound
<1> QED
  BY <1>1, <1>4, <1>5, <1>6 DEF StudioInv

-----------------------------------------------------------------------------
(* Routing and the guard: the steps that ask the bridges.                  *)

LEMMA ProbesAre ==
    ASSUME StudioInv, NEW ws \in SUBSET BridgePorts, NEW deaf, Probes(ws, deaf),
           UNCHANGED <<studio, bridge, launch, kept, requests>>
    PROVE  StudioType' /\ StudiosSound' /\ (deaf = {} => Steady)
<1>1. ASSUME NEW w \in BridgePorts PROVE Heard(w, deaf) \in HealthType
  <2>1. Served(w) \in Projects \union {Nobody} /\ bridge[w].new \in BOOLEAN
    BY BridgesAre
  <2> QED
    BY <2>1 DEF Heard, Unasked, HealthType
<1>2. health' \in [BridgePorts -> HealthType]
  BY <1>1 DEF Probes, Probed, StudioInv, StudioType
<1>3. files' \in [BridgePorts -> Projects \union {Nobody}]
  BY DEF Probes, StudioInv, StudioType
<1>4. turns' \in Nat
  BY DEF Probes, StudioInv, StudioType
<1>5. StudioType' /\ StudiosSound'
  BY <1>2, <1>3, <1>4 DEF StudioInv, StudioType, StudiosSound, Free, kept
<1>6. ASSUME deaf = {} PROVE Steady
  BY <1>6 DEF Probes, Probed, Steady
<1> QED
  BY <1>5, <1>6

LEMMA SureAll ==
    ASSUME StudioInv, UNCHANGED <<studio, bridge>>, NEW deaf, deaf = {} => Steady,
           NEW r \in Callers, NEW y \in ReqType, req' = Sure([req EXCEPT ![r] = y], deaf),
           \A z : Weaker(y, z) /\ (z.sure => deaf = {}) => ReqSound(z)'
    PROVE  ReqsSound'
<1> DEFINE rs == [req EXCEPT ![r] = y]
<1>1. rs \in [Callers -> ReqType] /\ rs[r] = y /\ \A q \in Callers \ {r} : rs[q] = req[q]
  BY At1
<1>2. req' = Sure(rs, deaf) /\ req' = [q \in Callers |-> req'[q]]
  BY DEF Sure
<1> HIDE DEF rs
<1>3. ASSUME NEW q \in Callers PROVE Weaker(rs[q], req'[q]) /\ (req'[q].sure => deaf = {})
  BY <1>1, <1>2, SureIs
<1>4. ASSUME NEW q \in Callers, NEW z, z = req'[q] PROVE ReqSound(z)'
  <2>1. CASE q = r
    BY <1>1, <1>3, <1>4, <2>1
  <2>2. CASE q # r
    <3>1. ReqSound(req[q]) /\ Weaker(req[q], z) /\ (z.sure => Steady)
      BY <1>1, <1>3, <1>4, <2>2, At1
    <3> QED
      BY <3>1, OthersStand
  <2> QED
    BY <2>1, <2>2
<1>5. req' \in [Callers -> ReqType]
  <2>1. \A q \in Callers : req'[q] \in ReqType
    BY <1>3 DEF Weaker
  <2> QED
    BY <1>2, <2>1
<1> QED
  BY <1>4, <1>5 DEF ReqsSound

\* A bridge that answers for a project, and still would, serves it, where that is told by its
\* directory or by a name that no other has.
\* What was matched just now serves the project; what can be reached is matched.
LEMMA MatchServes ==
    ASSUME NEW p \in Projects, NEW ws \in SUBSET BridgePorts, NEW w \in Matches(p, ws)
    PROVE  /\ w \in ws /\ health'[w].is = "armed"
           /\ health'[w] = Heard(w, {}) =>
                w \notin Free /\ (~alike \/ health'[w].dir => Served(w) = p)
<1>1. w \in ws /\ health'[w].is = "armed" /\ health'[w].of \in {p} \union Namesakes(p)
      /\ (health'[w].dir => health'[w].of = p)
  BY DEF Matches
<1>2. health'[w] = Heard(w, {}) => w \notin Free /\ health'[w].of = Served(w)
  BY <1>1 DEF Heard, Unasked
<1> QED
  BY <1>1, <1>2 DEF Namesakes

\* A project that a bridge serves is found when all bridges are asked, and answer.
LEMMA ReachableFound ==
    ASSUME StudioInv, NEW p \in Projects, Probes(BridgePorts, {}), Reachable(p)
    PROVE  Matches(p, BridgePorts) # {}
<1>1. PICK w \in BridgePorts : Served(w) = p /\ bridge[w].new /\ health[w] \in {Unasked, Heard(w, {})}
  BY DEF Reachable
<1>2. w \notin Free
  BY <1>1, BridgesAre, Names
<1>3. Heard(w, {}) = [is |-> "armed", of |-> p, dir |-> bridge[w].new]
  BY <1>1, <1>2 DEF Heard
<1>4. health'[w] = Heard(w, {})
  BY <1>1, <1>3 DEF Probes, Probed, Unasked
<1>5. health'[w].is = "armed" /\ health'[w].dir /\ health'[w].of = p
  BY <1>1, <1>3, <1>4
<1> QED
  BY <1>1, <1>5 DEF Matches

LEMMA RoutedKept ==
    ASSUME StudioInv, UNCHANGED <<studio, bridge>>, NEW deaf, deaf = {} => Steady,
           NEW r \in Callers, req[r].pc # "idle", NEW ws \in SUBSET BridgePorts,
           NEW w \in Matches(req[r].proj, ws), req' = Sure(Routed(r, w), deaf)
    PROVE  ReqsSound'
<1> DEFINE pc == CASE req[r].kind = "write" -> "send" [] req[r].kind = "execute" -> "chain"
                   [] OTHER -> "owner"
           g == alike /\ ~health'[w].dir
           s == health'[w] # Heard(w, {})
           b == req[r].sure /\ health'[w] = Heard(w, {})
           y == [req[r] EXCEPT !.pc = pc, !.port = w, !.guess = g, !.stale = s, !.sure = b]
<1>1. req[r] \in ReqType /\ req[r].proj \in Projects
  BY At1 DEF ReqSound
<1>2. pc \in {"send", "chain", "owner"} /\ {g, s, b} \subseteq BOOLEAN
  BY <1>1 DEF ReqType
<1>3. /\ w \in BridgePorts
      /\ ~g /\ ~s => Served(w) = req[r].proj
      /\ b => w \notin Free
  BY <1>1, MatchServes
<1>4. Routed(r, w) = [req EXCEPT ![r] = y]
  BY At1, ZenonT(40) DEF Routed
<1> HIDE DEF pc, g, s, b
<1>5. /\ y \in ReqType /\ y.pc = pc /\ y.proj = req[r].proj /\ y.port = w /\ y.guess = g
      /\ y.stale = s /\ y.sure = b
  BY <1>1, <1>2, <1>3 DEF ReqType, Pcs
<1> HIDE DEF y
<1>6. ASSUME NEW z, Weaker(y, z) PROVE ReqSound(z)'
  <2>1. /\ z \in ReqType /\ z.pc \in {"send", "chain", "owner"} /\ z.proj \in Projects
        /\ z.port \in BridgePorts /\ (~z.guess /\ ~z.stale => Served(z.port) = z.proj)
        /\ z.sure => z.port \notin Free
    BY <1>1, <1>2, <1>3, <1>5, <1>6 DEF Weaker
  <2>2. Served(z.port)' = Served(z.port) /\ Free' = Free
    BY DEF Served, Free
  <2> QED
    BY <2>1, <2>2 DEF ReqSound
<1> QED
  BY <1>4, <1>5, <1>6, SureAll

LEMMA RouteByRegistryKept == ASSUME StudioInv, NEW r \in Callers, RouteByRegistry(r) PROVE StudioInv'
<1> DEFINE listed == {w \in BridgePorts : files[w] # Nobody}
<1>1. UNCHANGED <<studio, bridge, launch, kept, requests>> /\ req[r].pc = "route"
  BY DEF RouteByRegistry, Req
<1>2. PICK deaf :
        /\ Probes(listed, deaf)
        /\ \/ \E w \in Matches(req[r].proj, listed) : req' = Sure(Routed(r, w), deaf)
           \/ req' = Sure([req EXCEPT ![r].pc = "scan"], deaf)
  BY DEF RouteByRegistry
<1> HIDE DEF listed
<1>3. listed \in SUBSET BridgePorts
  BY DEF listed
<1>4. StudioType' /\ StudiosSound' /\ (deaf = {} => Steady)
  BY <1>1, <1>2, <1>3, ProbesAre
<1>5. CASE \E w \in Matches(req[r].proj, listed) : req' = Sure(Routed(r, w), deaf)
  BY <1>1, <1>3, <1>4, <1>5, RoutedKept DEF StudioInv
<1>6. CASE req' = Sure([req EXCEPT ![r].pc = "scan"], deaf)
  <2> DEFINE y == [req[r] EXCEPT !.pc = "scan"]
  <2>1. req' = Sure([req EXCEPT ![r] = y], deaf)
    BY <1>6, At1
  <2>2. ReqSound(y)
    BY <1>1, At1 DEF ReqSound, ReqType, Pcs
  <2>3. y \in ReqType
    BY <2>2 DEF ReqSound
  <2> HIDE DEF y
  <2>4. ASSUME NEW z, Weaker(y, z), z.sure => deaf = {} PROVE ReqSound(z)'
    BY <1>1, <1>4, <2>2, <2>4, OthersStand
  <2> QED
    BY <1>1, <1>4, <2>1, <2>3, <2>4, SureAll DEF StudioInv
<1> QED
  BY <1>2, <1>5, <1>6

LEMMA RouteByScanKept == ASSUME StudioInv, NEW r \in Callers, RouteByScan(r) PROVE StudioInv'
<1> DEFINE found == Matches(req[r].proj, BridgePorts)
           missed == CASE req[r].kind = "execute" -> "arm"
                       [] found = {} /\ req[r].kind # "write" -> "attribute"
                       [] OTHER -> "none"
           b == req[r].sure /\ found = {}
           y == [req[r] EXCEPT !.pc = missed, !.sure = b]
<1>1. UNCHANGED <<studio, bridge, launch, kept, requests>> /\ req[r].pc = "scan"
  BY DEF RouteByScan, Req
<1>2. PICK deaf :
        /\ Probes(BridgePorts, deaf)
        /\ \/ \E w \in found : req' = Sure(Routed(r, w), deaf)
           \/ req' = Sure([req EXCEPT ![r].pc = missed, ![r].sure = @ /\ found = {}], deaf)
  BY DEF RouteByScan
<1>3. StudioType' /\ StudiosSound' /\ (deaf = {} => Steady)
  BY <1>1, <1>2, ProbesAre
<1>4. CASE \E w \in found : req' = Sure(Routed(r, w), deaf)
  BY <1>1, <1>3, <1>4, RoutedKept DEF StudioInv
<1>5. CASE req' = Sure([req EXCEPT ![r].pc = missed, ![r].sure = @ /\ found = {}], deaf)
  <2>1. req[r] \in ReqType /\ req[r].proj \in Projects /\ (req[r].sure => Reachable(req[r].proj))
    BY <1>1, At1 DEF ReqSound
  <2>2. req' = Sure([req EXCEPT ![r] = y], deaf)
    <3> HIDE DEF found, missed
    <3>1. [req EXCEPT ![r].pc = missed, ![r].sure = @ /\ found = {}] = [req EXCEPT ![r] = y]
      BY <2>1, At1 DEF ReqType
    <3> QED
      BY <1>5, <3>1
  <2>3. missed \in {"arm", "attribute", "none"} /\ b \in BOOLEAN
    BY <2>1 DEF ReqType
  <2>4. ~(b /\ deaf = {})
    BY <1>2, <2>1, ReachableFound
  <2> HIDE DEF missed, b
  <2>5. y \in ReqType /\ y.pc = missed /\ y.proj = req[r].proj /\ y.sure = b
    BY <2>1, <2>3 DEF ReqType, Pcs
  <2> HIDE DEF y
  <2>6. ASSUME NEW z, Weaker(y, z), z.sure => deaf = {} PROVE ReqSound(z)'
    <3>1. z \in ReqType /\ z.pc \in {"arm", "attribute", "none"} /\ z.proj \in Projects /\ ~z.sure
      BY <2>1, <2>3, <2>4, <2>5, <2>6 DEF Weaker
    <3> QED
      BY <3>1 DEF ReqSound
  <2> QED
    BY <1>1, <1>3, <2>2, <2>5, <2>6, SureAll DEF StudioInv
<1> QED
  BY <1>2, <1>4, <1>5

LEMMA GuardKept == ASSUME StudioInv, NEW r \in Callers, Guard(r) PROVE StudioInv'
<1>1. UNCHANGED <<studio, bridge, launch, kept, requests>> /\ req[r].pc = "guard"
  BY DEF Guard, Req
<1>2. req[r] \in ReqType /\ req[r].proj \in Projects
  BY <1>1, At1 DEF ReqSound
<1>3. ASSUME UNCHANGED <<health, files, turns>> PROVE StudioType' /\ StudiosSound' /\ Steady
  <2>1. turns' \in Nat /\ synced' \subseteq Projects
    BY <1>1, <1>3 DEF kept, StudioInv, StudioType
  <2> QED
    BY <1>1, <1>3, <2>1, WorldKept DEF Steady
<1>4. CASE Running = {} /\ Moves(r, "edit") /\ UNCHANGED <<health, files, turns>>
  <2>1. With(req[r].proj) = {}
    BY <1>4 DEF With
  <2> QED
    BY <1>1, <1>3, <1>4, <2>1, MovesKept DEF Pcs, StudioInv
<1>5. CASE Running # {} /\ Quits(r) /\ UNCHANGED <<health, files, turns>>
  BY <1>3, <1>5, QuitsKept DEF StudioInv
<1>6. ASSUME NEW s \in Running, Running = {s}, NEW deaf, Probes(BridgePorts, deaf),
             \/ \E w \in BridgePorts :
                  /\ Attributed(r, w)
                  /\ req' = Sure([req EXCEPT ![r].pc = "edit",
                                             ![r].stale = health'[w] # Heard(w, {})], deaf)
             \/ req' = Sure([req EXCEPT ![r] = Quiet], deaf)
      PROVE  StudioInv'
  <2>1. StudioType' /\ StudiosSound' /\ (deaf = {} => Steady)
    BY <1>1, <1>6, ProbesAre
  <2>2. CASE req' = Sure([req EXCEPT ![r] = Quiet], deaf)
    <3>1. \A z : Weaker(Quiet, z) /\ (z.sure => deaf = {}) => ReqSound(z)'
      BY <1>1, <2>1, QuietSound, OthersStand
    <3> QED
      BY <1>1, <2>1, <2>2, <3>1, QuietSound, SureAll DEF StudioInv
  <2>3. ASSUME NEW w \in BridgePorts, Attributed(r, w),
               req' = Sure([req EXCEPT ![r].pc = "edit",
                                       ![r].stale = health'[w] # Heard(w, {})], deaf)
        PROVE  StudioInv'
    <3> DEFINE a == health'[w] # Heard(w, {})
               y == [req[r] EXCEPT !.pc = "edit", !.stale = a]
    <3>1. req' = Sure([req EXCEPT ![r] = y], deaf)
      BY <2>3, At1
    <3>2. ~a => With(req[r].proj) = {}
      <4>1. SUFFICES ASSUME health'[w] = Heard(w, {}) PROVE With(req[r].proj) = {}
        OBVIOUS
      <4>2. health'[w].is = "armed" /\ health'[w].of # req[r].proj
        BY <2>3 DEF Attributed
      <4>3. w \notin Free /\ Served(w) # req[r].proj
        BY <4>1, <4>2 DEF Heard, Unasked
      <4>4. bridge[w].by = s /\ studio[s].has # req[r].proj
        BY <1>6, <4>3, BridgesAre
      <4> QED
        BY <1>6, <4>4 DEF With
    <3>3. a \in BOOLEAN
      OBVIOUS
    <3> HIDE DEF a
    <3>4. y \in ReqType /\ y.pc = "edit" /\ y.proj = req[r].proj /\ y.stale = a
      BY <1>2, <3>3 DEF ReqType, Pcs
    <3> HIDE DEF y
    <3>5. ReqSound(y)
      BY <1>2, <3>2, <3>4 DEF ReqSound
    <3>6. \A z : Weaker(y, z) /\ (z.sure => deaf = {}) => ReqSound(z)'
      BY <1>1, <2>1, <3>5, OthersStand
    <3> QED
      BY <1>1, <2>1, <3>1, <3>4, <3>6, SureAll DEF StudioInv
  <2> QED
    BY <1>6, <2>2, <2>3
<1> QED
  BY <1>4, <1>5, <1>6 DEF Guard

-----------------------------------------------------------------------------
(* Every step keeps the invariant.                                         *)

LEMMA RequestStepKept ==
    ASSUME StudioInv, EmuInv, NEW r \in Callers, RequestStep(r) PROVE StudioInv' /\ EmuInv'
<1>1. UNCHANGED <<tabVars, emuVars>>
  BY DEF RequestStep, RouteByRegistry, RouteByScan, Send, ReadChain, FindOwner, AttributeByProcess,
         AttributeByWindow, Save, SaveAgain, SaveEnds, FindWindow, Click, Verify, Open, Opened,
         NotOpened, CloseOwn, Tell, Guard, Edit, emulation
<1>2. EmuInv'
  BY <1>1, EmuUntouched
<1>3. StudioInv'
  BY RouteByRegistryKept, RouteByScanKept, SendKept, FindOwnerKept, AttributeByProcessKept,
     AttributeByWindowKept, VerifyKept, ClickKept, OpenKept, OpenedKept, CloseOwnKept, GuardKept
     DEF RequestStep
<1> QED
  BY <1>2, <1>3

LEMMA StudioStepKept ==
    ASSUME StudioInv, EmuInv, NEW s \in Studios, StudioStep(s) PROVE StudioInv' /\ EmuInv'
<1>1. CASE UserKeys(s)
  <2>1. studio[s].has \in Projects /\ EmuInv'
    BY <1>1, StudiosAre, UserPressesSound DEF UserKeys
  <2>2. UNCHANGED studioVars
    BY <1>1 DEF UserKeys
  <2> QED
    BY <2>1, <2>2, StudioUntouched
<1>2. CASE \/ StudioLoads(s) \/ UserStarts(s) \/ StudioEnds(s) \/ UserArms(s)
           \/ \E p \in Projects \union {Nobody} : UserSwitches(s, p)
  <2>1. UNCHANGED <<tabVars, emuVars>>
    BY <1>2 DEF StudioLoads, UserStarts, StudioEnds, UserArms, UserSwitches, emulation
  <2> QED
    BY <1>2, <2>1, EmuUntouched, StudioLoadsKept, UserStartsKept, StudioEndsKept, UserArmsKept,
       UserSwitchesKept
<1> QED
  BY <1>1, <1>2 DEF StudioStep

LEMMA StudioInductive == StudioInv /\ EmuInv /\ [Next \/ Settled]_vars => StudioInv' /\ EmuInv'
<1> SUFFICES ASSUME StudioInv, EmuInv, [Next \/ Settled]_vars PROVE StudioInv' /\ EmuInv'
  OBVIOUS
<1>1. CASE UNCHANGED vars
  BY <1>1, StudioUntouched, EmuUntouched DEF vars
<1>2. CASE EmuStep /\ UNCHANGED studioVars
  BY <1>2, StudioUntouched, EmuStepSound
<1>3. ASSUME NEW j \in Jobs, AimKey(j) \/ LookAround(j) \/ NoKey(j) \/ PressKey(j)
      PROVE  StudioInv' /\ EmuInv'
  BY <1>3, KeysKept
<1>4. ASSUME NEW r \in Callers, RequestStep(r) PROVE StudioInv' /\ EmuInv'
  BY <1>4, RequestStepKept
<1>5. ASSUME NEW r \in Requests, NEW kind \in RequestKinds, NEW p \in Projects,
             BeginRequest(r, kind, p)
      PROVE  StudioInv' /\ EmuInv'
  BY <1>5, BeginRequestKept, EmuUntouched DEF BeginRequest, emulation
<1>6. ASSUME NEW s \in Studios, StudioStep(s) PROVE StudioInv' /\ EmuInv'
  BY <1>6, StudioStepKept
<1>7. ASSUME NEW w \in BridgePorts, HealthExpires(w) PROVE StudioInv' /\ EmuInv'
  BY <1>7, HealthExpiresKept, EmuUntouched DEF HealthExpires, emulation
<1>8. CASE ServiceDies
  BY <1>8, ServiceDiesKept
<1>9. CASE Next
  BY <1>2, <1>3, <1>4, <1>5, <1>6, <1>7, <1>8, <1>9 DEF Next
<1> QED
  BY <1>1, <1>9 DEF Settled

LEMMA StudioInitInv == ASSUME NEW b \in Scenes, StudioInit(b) PROVE StudioInv
<1>1. /\ b.turns \in Nat /\ b.requests \in [Requests -> Nat]
  BY StudioAssumption
<1>2. studio \in [Studios -> StudioRecs]
  BY DEF StudioInit, None, StudioRecs
<1>3. ASSUME NEW s \in Studios
      PROVE  /\ studio[s].is = "open" <=> studio[s].has # Nobody
             /\ s \in Running <=> studio[s].is = "open"
             /\ {studio[s].has, studio[s].cmd} \ {Nobody} \subseteq studio[s].was
  <2>1. CASE studio[s] = None
    BY <2>1, NoneIs DEF Running
  <2>2. CASE studio[s] # None
    <3>1. PICK p \in Projects, m \in Projects \union {Nobody} :
            studio[s] = [is |-> "open", has |-> p, cmd |-> m, was |-> {p}]
      BY <2>2 DEF StudioInit
    <3>2. s \in Running
      BY <3>1 DEF Running
    <3>3. studio[s].cmd \in {Nobody, studio[s].has}
      BY <3>2 DEF StudioInit
    <3> QED
      BY <3>1, <3>2, <3>3, Names
  <2> QED
    BY <2>1, <2>2
<1>4. ASSUME NEW w \in BridgePorts
      PROVE  \/ bridge[w] = NoBridge
             \/ bridge[w] \in [by : Running, new : BOOLEAN]
  BY DEF StudioInit
<1>5. bridge \in [BridgePorts -> [by : Studios \union {NoStudio}, new : BOOLEAN]]
  <2>1. \A w \in BridgePorts : bridge[w] \in [by : Studios \union {NoStudio}, new : BOOLEAN]
    <3>1. NoBridge \in [by : Studios \union {NoStudio}, new : BOOLEAN]
      BY DEF NoBridge
    <3>2. Running \subseteq Studios
      BY DEF Running
    <3> QED
      BY <1>4, <3>1, <3>2
  <2> QED
    BY <2>1 DEF StudioInit
<1>6. \A w \in BridgePorts : w \notin Free => studio[bridge[w].by].is = "open"
  BY <1>3, <1>4 DEF Free, NoBridge, Running
<1>7. files \in [BridgePorts -> Projects \union {Nobody}]
  <2>1. \A w \in BridgePorts : Served(w) \in Projects \union {Nobody}
    BY <1>2, <1>5 DEF Served, Free, StudioRecs
  <2> QED
    BY <2>1 DEF StudioInit
<1>8. /\ Unasked \in HealthType /\ NotLaunched \in [on : Projects \union {Nobody}, named : BOOLEAN]
      /\ NotLaunched.on = Nobody
  BY DEF Unasked, HealthType, NotLaunched
<1>9. StudioType
  BY <1>1, <1>2, <1>5, <1>7, <1>8 DEF StudioInit, StudioType
<1>10. StudiosSound
  BY <1>3, <1>6, <1>8 DEF StudioInit, StudiosSound
<1>11. ReqsSound
  BY QuietSound DEF StudioInit, ReqsSound
<1> QED
  BY <1>9, <1>10, <1>11 DEF StudioInv

\* Whatever Studios, bridges, requests and emulators do, what each request and each emulator
\* call has found out stands for what it is taken for.
THEOREM StudioInvariant == Spec => [](StudioInv /\ EmuInv)
<1>1. (\E b \in Scenes : EmuInit(b) /\ StudioInit(b)) => StudioInv /\ EmuInv
  BY StudioInitInv, EmuInitInv
<1>2. (StudioInv /\ EmuInv) /\ [Next \/ Settled]_vars => (StudioInv /\ EmuInv)'
  BY StudioInductive
<1> QED
  BY <1>1, <1>2, PTL DEF Spec

-----------------------------------------------------------------------------
(* What follows of it.                                                     *)

\* Every variable of the Studios, the emulators and the tabs keeps its type.
THEOREM StudioTypeCorrect == Spec => []TypeOK
<1>1. StudioInv /\ EmuInv => TypeOK
  BY EmuInvImplies DEF StudioInv, StudioType, ReqsSound, TypeOK, StudioRecs, HealthType, ReqType, Pcs
<1> QED
  BY <1>1, StudioInvariant, PTL

\* What is written to a bridge, or asked of it (save, write, execute: resolve_bridge and the
\* calls that send through it), goes to the project's own: unless the bridge tells no
\* directory, or has changed since it answered.
THEOREM WritesInOwnModel == Spec => []WriteInOwnModel
<1>1. StudioInv => WriteInOwnModel
  BY At1 DEF WriteInOwnModel, ReqSound, Callers
<1> QED
  BY <1>1, StudioInvariant, PTL

\* Keys and clicks go to a Studio that has the project or had it, however it was found: by the
\* owner of the bridge's port, the command line, the service's launch or the window.
THEOREM KeysGoToOwnStudio == Spec => []OwnStudio
<1>1. StudioInv => OwnStudio
  BY At1 DEF OwnStudio, ReqSound
<1> QED
  BY <1>1, StudioInvariant, PTL

\* A bridge that serves a project all along, and answers, is found, whatever registry files,
\* namesakes and other bridges there are.
THEOREM FoundWhileServed == Spec => []FoundIfServed
<1>1. StudioInv => FoundIfServed
  BY At1 DEF FoundIfServed, ReqSound
<1> QED
  BY <1>1, StudioInvariant, PTL

\* Files are edited while no Studio has the project open, as far as the guard could see
\* (require_editors_closed).
THEOREM EditsOutside == Spec => []EditOutside
<1>1. StudioInv => EditOutside
  BY At1 DEF EditOutside, ReqSound, Callers, Req
<1> QED
  BY <1>1, StudioInvariant, PTL

\* The record of the emulators holds, between the calls on a project, the process that it has
\* through the service or was told to have.
THEOREM RecordIsTruthful == Spec => []RecordTruthful
<1>1. StudioInv /\ EmuInv => RecordTruthful
  BY EmuInvImplies
<1> QED
  BY <1>1, StudioInvariant, PTL

\* A run or restart that says it serves has seen a runtime that was built after it began,
\* unless its key went astray.
THEOREM AnswersAreTruthful == Spec => []AnswerTruthful
<1>1. StudioInv /\ EmuInv => AnswerTruthful
  BY EmuInvImplies
<1> QED
  BY <1>1, StudioInvariant, PTL

-----------------------------------------------------------------------------
(* The tabs, among all the rest.                                           *)

\* Every step is one of the pool of tabs, or leaves it alone.
LEMMA StudioPooled ==
    ASSUME StudioInv, EmuInv, TabsExclusive, [Next \/ Settled]_vars
    PROVE  [Pool!PoolNext]_Pool!pool
<1>1. ASSUME UNCHANGED tabVars PROVE UNCHANGED Pool!pool
  BY <1>1, PoolUntouched DEF tabVars
<1>2. CASE EmuStep
  BY <1>2, EmuStepPooled
<1>3. ASSUME NEW j \in Jobs, AimKey(j) \/ LookAround(j) \/ NoKey(j) \/ PressKey(j)
      PROVE  UNCHANGED Pool!pool
  <2>1. CASE AimKey(j)
    BY <1>1, <2>1 DEF AimKey, emulation
  <2>2. CASE LookStep(j) \/ LookRaises(j) \/ PressFails(j)
    BY <2>2, KeysPooled
  <2>3. CASE PressKey(j)
    BY <2>3, PressKeySends, KeysPooled
  <2> QED
    BY <1>3, <2>1, <2>2, <2>3 DEF LookAround, NoKey
<1>4. ASSUME NEW r \in Callers, RequestStep(r) PROVE UNCHANGED tabVars
  BY <1>4 DEF RequestStep, RouteByRegistry, RouteByScan, Send, ReadChain, FindOwner,
     AttributeByProcess, AttributeByWindow, Save, SaveAgain, SaveEnds, FindWindow, Click, Verify,
     Open, Opened, NotOpened, CloseOwn, Tell, Guard, Edit, emulation
<1>5. ASSUME NEW r \in Requests, NEW kind \in RequestKinds, NEW p \in Projects,
             BeginRequest(r, kind, p)
      PROVE  UNCHANGED tabVars
  BY <1>5 DEF BeginRequest, emulation
<1>6. ASSUME NEW s \in Studios, StudioStep(s) PROVE UNCHANGED tabVars
  BY <1>6 DEF StudioStep, StudioLoads, UserStarts, StudioEnds, UserArms, UserKeys, UserPresses,
     Outside, UserSwitches, emulation
<1>7. ASSUME NEW w \in BridgePorts, HealthExpires(w) PROVE UNCHANGED tabVars
  BY <1>7 DEF HealthExpires, emulation
<1>8. CASE ServiceDies
  <2>1. TabsInv /\ Accidents
    BY <1>8 DEF ServiceDies, RestartService, Accidents, EmuInv
  <2> QED
    BY <2>1, AccidentsAre DEF Pool!PoolNext
<1>9. CASE Settled \/ UNCHANGED vars
  BY <1>1, <1>9 DEF Settled, vars
<1> QED
  BY <1>1, <1>2, <1>3, <1>4, <1>5, <1>6, <1>7, <1>8, <1>9 DEF Next

LEMMA StudioTabsApart ==
    StudioInv /\ EmuInv /\ TabsExclusive /\ [Next \/ Settled]_vars => TabsExclusive'
BY StudioPooled, PoolKeepsApart DEF EmuInv

\* No tab is registered for two projects, though emulator runs and restarts resolve tabs
\* anew beside the calls, and read the ports of the projects anew.
THEOREM StudioTabsExclusive == Spec => []TabsExclusive
<1>1. (\E b \in Scenes : EmuInit(b) /\ StudioInit(b)) => TabsExclusive
  BY DEF EmuInit, TabsInit, TabsExclusive
<1> QED
  BY <1>1, StudioInvariant, StudioTabsApart, PTL DEF Spec

\* The whole service implements the pool of tabs: also with the emulators and Studios beside it,
\* no step closes another project's healthy tab, but a restart of Chrome.
THEOREM StudioImplementsPool == Spec => PoolImplemented
<1>1. (\E b \in Scenes : EmuInit(b) /\ StudioInit(b)) => Pool!PoolInit
  BY PoolInitially DEF EmuInit
<1>2. StudioInv /\ EmuInv /\ TabsExclusive /\ [Next \/ Settled]_vars => [Pool!PoolNext]_Pool!pool
  BY StudioPooled
<1> QED
  BY <1>1, <1>2, StudioInvariant, StudioTabsExclusive, PTL DEF Spec, PoolImplemented, Pool!PoolSpec

\* And a click is sent at most twice.
THEOREM StudioTwiceAtMost == Spec => []TwiceAtMost
<1>1. EmuInv => TwiceAtMost
  BY LandsTwiceAtMost DEF EmuInv
<1> QED
  BY <1>1, StudioInvariant, PTL

=============================================================================
