--------------------------- MODULE EmulatorProofs ---------------------------
(***************************************************************************)
(* The emulators of any number of projects, calls and builds: every        *)
(* variable keeps its type, the record tells the truth of a project that   *)
(* one actor had to do with at a time, and what serves at the end of a run *)
(* was built for it.  Emulator has no specification of its own, as Studio  *)
(* presses the keys: what is proved here is about all of its steps.        *)
(***************************************************************************)
EXTENDS Emulator, CdpTabsProofs

-----------------------------------------------------------------------------
(* The invariant.                                                          *)

JobType ==
    [pc : {"idle", "compare", "again", "record", "status", "kill", "look",
           "press", "wait", "tab", "tab again", "gate"},
     kind : {"run", "restart", "stop", "status"}, scope : SUBSET Projects,
     snap : [Projects -> 0..MaxBuilds], old : 0..MaxBuilds, pid : 0..MaxBuilds,
     answer : {"none", "failed", "refused", "unserved", "already", "serves"},
     since : 0..MaxBuilds, misled : BOOLEAN]

RuntimeType == [pid : 0..MaxBuilds, is : Runtimes, at : Ports \union {Blank}, ours : BOOLEAN]

EmuType ==
    /\ runtime \in [Projects -> RuntimeType]
    /\ webPort \in [Projects -> Ports] /\ foreign \subseteq Ports
    /\ record \in [Projects -> 0..MaxBuilds] \union {Unset}
    /\ jobs \in [Jobs -> Nat] /\ builds \in 0..MaxBuilds
    /\ known \in [Projects -> 0..MaxBuilds] /\ {blur, cut} \subseteq SUBSET Projects

\* A run or a restart is about one project, and only they look, press and wait.
JobSound(x) ==
    /\ x \in JobType
    /\ x.pc = "idle" => x.scope = {}
    /\ x.pc # "idle" /\ x.kind \in {"run", "restart"} => \E p \in Projects : x.scope = {p}
    /\ x.pc \in {"look", "press", "wait", "tab", "tab again", "gate"} => x.kind \in {"run", "restart"}
    /\ x.pc \in {"status", "kill"} => x.kind \in {"restart", "stop"}

JobsSound == /\ job \in [Jobs -> JobType]
             /\ \A j \in Jobs : JobSound(job[j])

\* What a call knows of project p: what it has listed while nothing has come of it, what it
\* is about to record, and in between what there is.
Sees(x, p) ==
    CASE x.pc = "compare" -> x.snap[p] = Pids[p]
      [] x.pc = "record" -> x.snap[p] = known[p]
      [] OTHER -> known[p] = Pids[p]

\* The projects of which the record may be wrong.
Fog == blur \union cut

RecordSound ==
    /\ \A j \in Jobs : job[j].pc \notin {"idle", "compare"} => record # Unset
    /\ \A p \in Projects \ Fog :
         /\ \A i, j \in Jobs : p \in job[i].scope \intersect job[j].scope => i = j
         /\ \A j \in Jobs : p \in job[j].scope => Sees(job[j], p)
         /\ record # Unset /\ (\A j \in Jobs : p \notin job[j].scope) => record[p] = known[p]


\* There is no runtime but one that was built since x began.
Newer(x, r) == r.is = "down" \/ r.pid > x.since

\* What a call waits for and will answer, by the runtimes and how many there have been.
AnswerSound(x, rs, n) ==
    /\ x.since <= n
    /\ x.pc \in {"idle", "compare", "status", "kill", "look", "press", "wait"} => x.pid = NoPid
    /\ \A p \in Projects : x.scope = {p} =>
         /\ x.pc = "wait" /\ ~x.misled => Newer(x, rs[p])
         /\ x.kind = "restart" /\ x.old # NoPid => Newer(x, rs[p]) \/ rs[p].pid = x.old
    /\ x.pc = "gate" => x.kind = "restart" /\ x.old # NoPid
    /\ x.pc = "tab" /\ ~x.misled => x.pid > x.since
    /\ x.pc = "tab again" => x.misled \/ x.pid > x.since \/ (x.old = NoPid /\ x.pid = NoPid)
    /\ x.pc \notin {"again", "record"} => x.answer = "none"
    /\ x.answer = "serves" => x.misled \/ x.pid > x.since

AnswersSound == \A j \in Jobs : AnswerSound(job[j], runtime, builds)

EmuInv == TabsInv /\ EmuType /\ JobsSound /\ RecordSound /\ AnswersSound

-----------------------------------------------------------------------------
(* How the parts of the invariant are kept.                                *)

LEMMA Numbers == MaxBuilds \in Nat /\ NoPid \in 0..MaxBuilds /\ NoPids \in [Projects -> 0..MaxBuilds]
BY EmulatorAssumption DEF NoPid, NoPids

LEMMA ProjectIs ==
    ASSUME NEW j \in Jobs, JobSound(job[j]), job[j].pc # "idle", job[j].kind \in {"run", "restart"}
    PROVE  Project(j) \in Projects /\ job[j].scope = {Project(j)}
BY DEF JobSound, Project

LEMMA OffSound == Off.pc = "idle" /\ Off.scope = {} /\ JobSound(Off)
<1>1. Off \in JobType
  BY Numbers DEF JobType, Off
<1>2. Off.pc = "idle" /\ Off.scope = {}
  BY DEF Off
<1> QED
  BY <1>1, <1>2 DEF JobSound

LEMMA PidsType == ASSUME EmuType PROVE Pids \in [Projects -> 0..MaxBuilds]
BY Numbers DEF EmuType, RuntimeType, Pids

LEMMA OneJob ==
    ASSUME JobsSound, NEW j \in Jobs, NEW x, JobSound(x), job' = [job EXCEPT ![j] = x]
    PROVE  JobsSound' /\ job'[j] = x /\ \A k \in Jobs \ {j} : job'[k] = job[k]
BY DEF JobsSound, JobSound

\* A call goes on, between the comparison and the record; or an exception ends it.
GoesOn(x, y) == /\ x.pc \notin {"idle", "compare", "record"}
                /\ \/ y.pc \notin {"idle", "compare", "record"} /\ y.scope = x.scope
                   \/ y.pc = "idle" /\ y.scope = {} /\ x.scope \subseteq cut'

\* A step after the comparison and before the record that blurs every project it does not
\* keep track of.
LEMMA RecordStays ==
    ASSUME JobsSound, RecordSound, record' = record, Fog \subseteq Fog',
           \A k \in Jobs : job'[k] = job[k] \/ GoesOn(job[k], job'[k]),
           \A p \in Projects \ Fog' :
             \/ known'[p] = known[p] /\ (Pids'[p] = Pids[p] \/ \A k \in Jobs : p \notin job[k].scope)
             \/ /\ known'[p] = Pids'[p]
                /\ \E k \in Jobs : p \in job[k].scope /\ job[k].pc \notin {"compare", "record"}
    PROVE  RecordSound'
<1>1. \A k \in Jobs : job'[k].pc \notin {"idle", "compare"} => record' # Unset
  BY DEF RecordSound, GoesOn
<1>2. ASSUME NEW p \in Projects \ Fog'
      PROVE  /\ \A i, k \in Jobs : p \in job'[i].scope \intersect job'[k].scope => i = k
             /\ \A k \in Jobs : p \in job'[k].scope => Sees(job[k], p)'
             /\ record' # Unset /\ (\A k \in Jobs : p \notin job'[k].scope) => record'[p] = known'[p]
  <2>1. p \in Projects \ Fog /\ p \notin cut'
    BY <1>2 DEF Fog
  <2>2. \A i, k \in Jobs : p \in job[i].scope \intersect job[k].scope => i = k
    BY <2>1 DEF RecordSound
  <2>3. \A k \in Jobs : p \in job'[k].scope <=> p \in job[k].scope
    BY <2>1 DEF GoesOn
  <2>4. ASSUME NEW k \in Jobs, p \in job'[k].scope PROVE Sees(job[k], p)'
    <3>1. Sees(job[k], p) /\ p \in job[k].scope
      BY <2>1, <2>3, <2>4 DEF RecordSound
    <3>2. \/ job'[k] = job[k]
          \/ /\ job[k].pc \notin {"idle", "compare", "record"}
             /\ job'[k].pc \notin {"idle", "compare", "record"}
      BY <2>4 DEF GoesOn
    <3>3. CASE known'[p] = known[p] /\ Pids'[p] = Pids[p]
      BY <3>1, <3>2, <3>3 DEF Sees
    <3>4. CASE known'[p] = Pids'[p] /\ job[k].pc \notin {"compare", "record"}
      BY <3>1, <3>2, <3>4 DEF Sees
    <3> QED
      BY <1>2, <2>2, <3>1, <3>3, <3>4
  <2>5. record' # Unset /\ (\A k \in Jobs : p \notin job'[k].scope) => record'[p] = known'[p]
    BY <1>2, <2>1, <2>3 DEF RecordSound
  <2> QED
    BY <2>2, <2>3, <2>4, <2>5
<1> QED
  BY <1>1, <1>2 DEF RecordSound

\* The runtimes go down, stay, or are built anew.
Ages(r, s, n) == s.is = "down" \/ (r.is # "down" /\ s.pid = r.pid) \/ s.pid > n

LEMMA AnswerAges ==
    ASSUME EmuType, NEW x \in JobType, AnswerSound(x, runtime, builds),
           builds' \in Nat, builds' >= builds,
           \A p \in Projects : runtime'[p].pid \in Nat /\ Ages(runtime[p], runtime'[p], builds)
    PROVE  AnswerSound(x, runtime', builds')
<1>1. builds \in Nat /\ \A p \in Projects : runtime[p].pid \in Nat
  BY Numbers DEF EmuType, RuntimeType
<1>2. x.since \in Nat /\ x.since <= builds /\ x.since <= builds'
  <2>1. x.since \in Nat
    <3>1. x.since \in 0..MaxBuilds
      BY DEF JobType
    <3> QED
      BY <3>1
  <2>2. x.since <= builds
    BY DEF AnswerSound
  <2> QED
    BY <1>1, <2>1, <2>2
<1>3. ASSUME NEW p \in Projects PROVE Newer(x, runtime[p]) => Newer(x, runtime'[p])
  BY <1>1, <1>2 DEF Newer, Ages
<1>4. ASSUME NEW p \in Projects, Newer(x, runtime[p]) \/ runtime[p].pid = x.old
      PROVE  Newer(x, runtime'[p]) \/ runtime'[p].pid = x.old
  BY <1>1, <1>2, <1>3, <1>4 DEF Newer, Ages
<1> QED
  BY <1>1, <1>2, <1>3, <1>4 DEF AnswerSound

LEMMA AnswersKept ==
    ASSUME EmuType, JobsSound, AnswersSound, builds' \in Nat, builds' >= builds,
           \A p \in Projects : runtime'[p].pid \in Nat /\ Ages(runtime[p], runtime'[p], builds),
           \A k \in Jobs : job'[k] = job[k] \/ AnswerSound(job'[k], runtime', builds')
    PROVE  AnswersSound'
<1>1. ASSUME NEW k \in Jobs PROVE AnswerSound(job'[k], runtime', builds')
  <2>1. job[k] \in JobType /\ AnswerSound(job[k], runtime, builds)
    BY DEF JobsSound, AnswersSound
  <2> QED
    BY <2>1, AnswerAges
<1> QED
  BY <1>1 DEF AnswersSound

LEMMA AnswersUntouched ==
    ASSUME EmuType, JobsSound, AnswersSound, UNCHANGED <<runtime, builds>>,
           \A k \in Jobs : job'[k] = job[k] \/ AnswerSound(job'[k], runtime, builds)
    PROVE  AnswersSound'
<1>1. builds \in Nat /\ \A p \in Projects : runtime[p].pid \in Nat
  BY Numbers DEF EmuType, RuntimeType
<1>2. \A p \in Projects : Ages(runtime[p], runtime'[p], builds)
  BY DEF Ages
<1>3. \A k \in Jobs : job'[k] = job[k] \/ AnswerSound(job'[k], runtime', builds')
  BY Zenon
<1> QED
  BY <1>1, <1>2, <1>3, AnswersKept

-----------------------------------------------------------------------------
(* The steps that only one call takes part in.                             *)

\* A step of one call between the comparison and the record, that leaves everything but the
\* tabs alone, comes to a sound call.
LEMMA Goes1 ==
    ASSUME EmuInv, NEW j \in Jobs, NEW x,
           job' = [job EXCEPT ![j] = x], JobSound(x), AnswerSound(x, runtime, builds),
           x.scope = job[j].scope, job[j].pc \notin {"idle", "compare", "record"},
           x.pc \notin {"idle", "compare", "record"},
           UNCHANGED <<runtime, webPort, foreign, record, jobs, builds, known, blur, cut>>
    PROVE  EmuType' /\ JobsSound' /\ RecordSound' /\ AnswersSound'
<1>1. EmuType'
  BY DEF EmuInv, EmuType
<1>2. JobsSound' /\ job'[j] = x /\ \A k \in Jobs \ {j} : job'[k] = job[k]
  BY OneJob DEF EmuInv
<1>3. RecordSound'
  <2>1. Pids' = Pids /\ Fog' = Fog
    BY DEF Pids, Alive, Fog
  <2>2. \A k \in Jobs : job'[k] = job[k] \/ GoesOn(job[k], job'[k])
    BY <1>2 DEF GoesOn
  <2> QED
    BY <2>1, <2>2, RecordStays DEF EmuInv
<1>4. AnswersSound'
  BY <1>2, AnswersUntouched DEF EmuInv
<1> QED
  BY <1>1, <1>2, <1>3, <1>4

Untouched == UNCHANGED <<runtime, webPort, foreign, record, jobs, builds, known, blur, cut>>
Kept == EmuType' /\ JobsSound' /\ RecordSound' /\ AnswersSound'

LEMMA Answered ==
    ASSUME EmuInv, NEW j \in Jobs, job[j].pc \notin {"idle", "compare", "record"},
           NEW a \in {"failed", "refused", "unserved", "already", "serves"},
           a = "serves" => job[j].misled \/ job[j].pid > job[j].since,
           Answers(j, a), Untouched
    PROVE  Kept
<1> DEFINE o == IF a = "failed" THEN NoPid ELSE job[j].old
           x == [job[j] EXCEPT !.pc = "again", !.answer = a, !.old = o]
<1>1. job \in [Jobs -> JobType] /\ JobSound(job[j]) /\ AnswerSound(job[j], runtime, builds)
  BY DEF EmuInv, JobsSound, AnswersSound
<1>2. job' = [job EXCEPT ![j] = x]
  BY <1>1 DEF Answers
<1>3. o \in 0..MaxBuilds /\ (o # NoPid => o = job[j].old)
  BY <1>1, Numbers DEF JobType
<1> HIDE DEF o
<1>4. JobSound(x) /\ x.scope = job[j].scope /\ x.pc = "again"
  BY <1>1, <1>3, Numbers DEF JobSound, JobType
<1>5. /\ x.kind = job[j].kind /\ x.old = o /\ x.since = job[j].since
      /\ x.misled = job[j].misled /\ x.answer = a /\ x.pid = job[j].pid
  BY <1>1, ZenonT(40) DEF JobType
<1> HIDE DEF x
<1>6. AnswerSound(x, runtime, builds)
  BY <1>1, <1>3, <1>4, <1>5 DEF AnswerSound, Newer
<1> QED
  BY <1>2, <1>4, <1>6, Goes1 DEF Untouched, Kept

LEMMA Gone1 ==
    ASSUME EmuInv, NEW j \in Jobs, job[j].pc \in {"look", "press", "tab", "status", "kill"},
           NEW pc \in {"press", "look", "gate", "again", "tab again"}, NEW s \in [Projects -> 0..MaxBuilds],
           NEW o \in 0..MaxBuilds,
           pc \in {"press", "look", "gate", "tab again"} => job[j].kind \in {"run", "restart"},
           pc \in {"press", "look"} => job[j].pid = NoPid,
           pc = "gate" => job[j].kind = "restart" /\ o # NoPid,
           pc = "tab again" => \/ job[j].misled \/ job[j].pid > job[j].since
                               \/ o = NoPid /\ job[j].pid = NoPid,
           job[j].kind = "restart" /\ o # NoPid =>
             \A p \in Projects : job[j].scope = {p} =>
               Newer(job[j], runtime[p]) \/ runtime[p].pid = o,
           job' = [job EXCEPT ![j] = [job[j] EXCEPT !.pc = pc, !.snap = s, !.old = o]],
           Untouched
    PROVE  Kept
<1> DEFINE x == [job[j] EXCEPT !.pc = pc, !.snap = s, !.old = o]
<1>1. job \in [Jobs -> JobType] /\ JobSound(job[j]) /\ AnswerSound(job[j], runtime, builds)
  BY DEF EmuInv, JobsSound, AnswersSound
<1>3. JobSound(x) /\ x.scope = job[j].scope
  BY <1>1 DEF JobSound, JobType
<1>4. AnswerSound(x, runtime, builds)
  BY <1>1, ZenonT(40) DEF AnswerSound, JobType, Newer
<1> HIDE DEF x
<1>5. x.pc = pc /\ job' = [job EXCEPT ![j] = x]
  BY <1>1 DEF x, JobType
<1> QED
  BY <1>3, <1>4, <1>5, Goes1 DEF Untouched, Kept

\* Of the jobs: what a call that is beyond the comparison is.
LEMMA Beyond ==
    ASSUME EmuInv, NEW j \in Jobs
    PROVE  /\ job \in [Jobs -> JobType] /\ job[j] \in JobType /\ JobSound(job[j])
           /\ AnswerSound(job[j], runtime, builds)
           /\ job[j].pc # "idle" /\ job[j].kind \in {"run", "restart"} =>
                Project(j) \in Projects /\ job[j].scope = {Project(j)}
BY ProjectIs DEF EmuInv, JobsSound, JobSound, AnswersSound

\* What ends a call by an exception leaves nothing to answer for.
LEMMA OffAnswers == ASSUME NEW rs, NEW n \in Nat PROVE AnswerSound(Off, rs, n)
<1>1. Off.since <= n
  BY DEF Off
<1> QED
  BY ONLY <1>1 DEF Off, AnswerSound, NoPid

LEMMA RaisesKept == ASSUME EmuInv, NEW j \in Jobs, LookRaises(j) PROVE Kept
<1> USE Beyond
<1>1. /\ job[j].pc = "look" /\ job' = [job EXCEPT ![j] = Off] /\ cut' = cut \union job[j].scope
      /\ UNCHANGED <<runtime, webPort, foreign, record, jobs, builds, known, blur>>
  BY DEF LookRaises, Raises, On
<1>2. JobsSound' /\ job'[j] = Off /\ \A k \in Jobs \ {j} : job'[k] = job[k]
  BY <1>1, OffSound, OneJob DEF EmuInv
<1>3. EmuType'
  <2>1. job[j].scope \subseteq Projects
    BY DEF JobType
  <2> QED
    BY <1>1, <2>1 DEF EmuInv, EmuType
<1>4. AnswersSound'
  <2>1. AnswerSound(Off, runtime, builds)
    BY OffAnswers, Numbers DEF EmuInv, EmuType
  <2> QED
    BY <1>1, <1>2, <2>1, AnswersUntouched DEF EmuInv
<1>5. RecordSound'
  <2>1. Pids' = Pids /\ Fog \subseteq Fog'
    BY <1>1 DEF Pids, Alive, Fog
  <2>2. \A k \in Jobs : job'[k] = job[k] \/ GoesOn(job[k], job'[k])
    BY <1>1, <1>2, OffSound DEF GoesOn
  <2> QED
    BY <1>1, <2>1, <2>2, RecordStays DEF EmuInv
<1> QED
  BY <1>2, <1>3, <1>4, <1>5 DEF Kept

LEMMA LookKept == ASSUME EmuInv, NEW j \in Jobs, LookStep(j) PROVE Kept
<1> USE Beyond
<1>1. CASE Refuse(j)
  BY <1>1, Answered DEF Refuse, On, emuVars, Untouched
<1> DEFINE p == Project(j)
           go(pc) == job' = [job EXCEPT ![j] = [job[j] EXCEPT !.pc = pc, !.snap = NoPids, !.old = job[j].old]]
<1>2. \A pc : Goes(j, pc) => go(pc)
  BY DEF Goes, JobType
<1>3. ASSUME On(j, "look")
      PROVE  /\ job[j].kind \in {"run", "restart"} /\ job[j].pid = NoPid
             /\ \A q \in Projects : job[j].scope = {q} /\ job[j].kind = "restart" /\ job[j].old # NoPid
                  => Newer(job[j], runtime[q]) \/ runtime[q].pid = job[j].old
             /\ job[j].old \in 0..MaxBuilds
  BY <1>3 DEF On, JobSound, AnswerSound, JobType
<1> HIDE DEF go
<1>4. CASE AlreadyRunning(j)
  <2>1. Untouched /\ On(j, "look")
    BY <1>4 DEF AlreadyRunning, emuVars, Untouched
  <2>2. \/ job[j].kind = "restart" /\ job[j].old # NoPid /\ go("gate")
        \/ job[j].old = NoPid /\ go("tab again")
        \/ \E a \in {"already", "unserved"} : Answers(j, a)
    BY <1>2, <1>4 DEF AlreadyRunning
  <2>3. CASE \E a \in {"already", "unserved"} : Answers(j, a)
    BY <2>1, <2>3, Answered DEF On
  <2>4. CASE job[j].kind = "restart" /\ job[j].old # NoPid /\ go("gate")
    BY <1>3, <2>1, <2>4, Gone1, Numbers DEF On, go
  <2>5. CASE job[j].old = NoPid /\ go("tab again")
    BY <1>3, <2>1, <2>5, Gone1, Numbers DEF On, go
  <2> QED
    BY <2>2, <2>3, <2>4, <2>5
<1>5. CASE Look(j)
  <2>1. Untouched /\ On(j, "look") /\ go("press")
    BY <1>2, <1>5 DEF Look, emuVars, Untouched
  <2> QED
    BY <1>3, <2>1, Gone1, Numbers DEF On, go
<1> QED
  BY <1>1, <1>4, <1>5 DEF LookStep

LEMMA StatusKept == ASSUME EmuInv, NEW j \in Jobs, Status(j) PROVE Kept
<1> USE Beyond
<1>1. Untouched /\ On(j, "status") /\ job[j].kind \in {"restart", "stop"} /\ job[j].pid = NoPid
  BY DEF Status, On, Untouched, JobSound, AnswerSound
<1>2. Pids \in [Projects -> 0..MaxBuilds]
  BY PidsType DEF EmuInv
<1> DEFINE o == IF job[j].kind = "restart" THEN Pids[Project(j)] ELSE NoPid
           x(pc) == [job[j] EXCEPT !.pc = pc, !.snap = Pids, !.old = o]
<1>3. o \in 0..MaxBuilds
  BY <1>1, <1>2, Numbers DEF On
<1>4. job[j].kind = "restart" /\ o # NoPid =>
        \A p \in Projects : job[j].scope = {p} => Newer(job[j], runtime[p]) \/ runtime[p].pid = o
  BY <1>1 DEF Pids, On
<1>5. PICK pc \in {"kill", "again", "look"} :
        job' = [job EXCEPT ![j] = x(pc)] /\ (pc = "look" => job[j].kind # "stop")
  BY DEF Status, JobType
<1> HIDE DEF o
<1>6. CASE pc # "kill"
  BY <1>1, <1>2, <1>3, <1>4, <1>5, <1>6, Gone1 DEF On
<1>7. CASE pc = "kill"
  <2> DEFINE y == x("kill")
  <2>1. JobSound(y) /\ y.scope = job[j].scope /\ y.pc = "kill"
    BY <1>1, <1>2, <1>3, ZenonT(40) DEF JobSound, JobType, On
  <2>2. AnswerSound(y, runtime, builds)
    BY <1>1, <1>2, <1>3, <1>4, ZenonT(40) DEF AnswerSound, JobType, On, Newer
  <2> HIDE DEF y
  <2>3. job' = [job EXCEPT ![j] = y]
    BY <1>5, <1>7 DEF y
  <2> QED
    BY <1>1, <2>1, <2>2, <2>3, Goes1 DEF Untouched, Kept, On
<1> QED
  BY <1>6, <1>7

\* The call goes on to the tab, with the process that it saw, of a listener that it may have
\* misread.
LEMMA SeesServe ==
    ASSUME EmuInv, NEW j \in Jobs, NEW pc \in {"tab", "tab again"}, NEW misled \in BOOLEAN,
           job[j].pc \in {"wait", "gate"}, job[j].kind \in {"run", "restart"},
           NEW pid \in 0..MaxBuilds,
           misled \/ pid > job[j].since,
           job' = [job EXCEPT ![j] = [job[j] EXCEPT !.pc = pc, !.pid = pid, !.misled = misled]],
           Untouched
    PROVE  Kept
<1> USE Beyond
<1> DEFINE x == [job[j] EXCEPT !.pc = pc, !.pid = pid, !.misled = misled]
<1>1. /\ x.pc = pc /\ x.pid = pid /\ x.misled = misled
      /\ x.scope = job[j].scope /\ x.kind = job[j].kind /\ x.old = job[j].old
      /\ x.since = job[j].since /\ x.answer = job[j].answer
  BY ZenonT(40) DEF JobType
<1>2. x \in JobType
  BY ZenonT(40) DEF JobType
<1>3. job' = [job EXCEPT ![j] = x]
  OBVIOUS
<1> HIDE DEF x
<1>4. JobSound(x)
  BY <1>1, <1>2 DEF JobSound
<1>5. AnswerSound(x, runtime, builds)
  <2>1. AnswerSound(job[j], runtime, builds) /\ job[j].answer = "none"
    BY DEF AnswerSound
  <2> QED
    BY <1>1, <2>1 DEF AnswerSound, Newer
<1> QED
  BY <1>1, <1>3, <1>4, <1>5, Goes1 DEF Untouched, Kept

LEMMA WaitKept ==
    ASSUME EmuInv, NEW j \in Jobs,
           WaitServed(j) \/ WaitMisled(j) \/ WaitTaken(j) \/ WaitEnds(j) \/ PressFails(j)
    PROVE  Kept
<1> USE Beyond
<1>1. Untouched /\ job[j].pc \in {"wait", "press"} /\ job[j].kind \in {"run", "restart"}
  BY DEF WaitServed, WaitMisled, WaitTaken, WaitEnds, PressFails, On, emuVars, Untouched, JobSound
<1>2. Project(j) \in Projects /\ Pids[Project(j)] \in 0..MaxBuilds
  BY <1>1, PidsType DEF EmuInv
<1>3. CASE WaitServed(j)
  <2>1. job[j].pc = "wait" /\ runtime[Project(j)].is = "serving"
    BY <1>3 DEF WaitServed, On, Serving
  <2>2. job' = [job EXCEPT ![j] = [job[j] EXCEPT !.pc = "tab", !.pid = Pids[Project(j)],
                                                 !.misled = job[j].misled]]
    BY <1>3 DEF WaitServed, JobType
  <2>3. job[j].misled \in BOOLEAN
    BY DEF JobType
  <2>4. job[j].misled \/ Pids[Project(j)] > job[j].since
    <3>1. job[j].misled \/ Newer(job[j], runtime[Project(j)])
      BY <1>1, <2>1 DEF AnswerSound
    <3> QED
      BY <1>2, <2>1, <3>1 DEF Pids, Alive, Newer
  <2> QED
    BY <1>1, <1>2, <2>1, <2>2, <2>3, <2>4, SeesServe
<1>4. CASE WaitMisled(j)
  <2>1. /\ job[j].pc = "wait"
        /\ job' = [job EXCEPT ![j] = [job[j] EXCEPT !.pc = "tab", !.pid = Pids[Project(j)],
                                                    !.misled = TRUE]]
    BY <1>4 DEF WaitMisled, On, JobType
  <2> QED
    BY <1>1, <1>2, <2>1, SeesServe
<1>5. CASE WaitTaken(j) \/ WaitEnds(j) \/ PressFails(j)
  BY <1>1, <1>5, Answered DEF WaitTaken, WaitEnds, PressFails
<1> QED
  BY <1>3, <1>4, <1>5

LEMMA GateKept == ASSUME EmuInv, NEW j \in Jobs, Gate(j) PROVE Kept
<1> USE Beyond
<1>1. Untouched /\ job[j].pc = "gate" /\ job[j].kind = "restart" /\ job[j].old # NoPid
  BY DEF Gate, On, emuVars, Untouched, AnswerSound
<1>2. CASE Answers(j, "failed")
  BY <1>1, <1>2, Answered
<1>3. CASE ~Answers(j, "failed")
  <2>1. Project(j) \in Projects /\ Pids[Project(j)] \in 0..MaxBuilds
    BY <1>1, PidsType DEF EmuInv
  <2>2. Pids[Project(j)] \notin {job[j].old, NoPid} /\ (Gated(j, FALSE) \/ Gated(j, TRUE))
    BY <1>3 DEF Gate
  <2>3. Pids[Project(j)] > job[j].since
    <3>1. Newer(job[j], runtime[Project(j)]) \/ runtime[Project(j)].pid = job[j].old
      BY <1>1 DEF AnswerSound
    <3> QED
      BY <2>1, <2>2, <3>1 DEF Newer, Pids, Alive
  <2>4. job[j].misled \in BOOLEAN
    BY DEF JobType
  <2>5. PICK misled \in BOOLEAN :
          job' = [job EXCEPT ![j] = [job[j] EXCEPT !.pc = "tab again", !.pid = Pids[Project(j)],
                                                   !.misled = misled]]
    BY <2>2, <2>4 DEF Gated, JobType
  <2> QED
    BY <1>1, <2>1, <2>3, <2>5, SeesServe
<1> QED
  BY <1>2, <1>3

LEMMA TabKept == ASSUME EmuInv, NEW j \in Jobs, ResolveTab(j) PROVE Kept /\ TabsInv'
<1> USE Beyond
<1>1. Untouched /\ job[j].pc \in {"tab", "tab again"} /\ job[j].kind \in {"run", "restart"}
  BY DEF ResolveTab, Untouched, JobSound
<1>2. Kept
  <2>1. CASE On(j, "tab") /\ job[j].kind = "restart"
    <3> DEFINE x(pc) == [job[j] EXCEPT !.pc = pc, !.snap = job[j].snap, !.old = job[j].old]
    <3>a. ASSUME NEW pc, job' = [job EXCEPT ![j].pc = pc] PROVE job' = [job EXCEPT ![j] = x(pc)]
      BY <3>a DEF JobType
    <3>b. job' = [job EXCEPT ![j].pc = IF job[j].old # NoPid THEN "gate" ELSE "tab again"]
      BY <2>1 DEF ResolveTab, AfterTab
    <3> HIDE DEF x
    <3>1. PICK pc \in {"gate", "tab again"} :
            /\ pc = IF job[j].old # NoPid THEN "gate" ELSE "tab again"
            /\ job' = [job EXCEPT ![j] = x(pc)]
      BY <3>a, <3>b
    <3>2. pc = "tab again" => \/ job[j].misled \/ job[j].pid > job[j].since
                              \/ job[j].old = NoPid /\ job[j].pid = NoPid
      BY <2>1, <3>1 DEF AnswerSound, On
    <3>3. \A p \in Projects : job[j].scope = {p} /\ job[j].old # NoPid =>
            Newer(job[j], runtime[p]) \/ runtime[p].pid = job[j].old
      BY <2>1 DEF AnswerSound
    <3>4. job[j].snap \in [Projects -> 0..MaxBuilds] /\ job[j].old \in 0..MaxBuilds
      BY DEF JobType
    <3> QED
      BY <1>1, <2>1, <3>1, <3>2, <3>3, <3>4, Gone1, ZenonT(40) DEF On, x
  <2>2. CASE ~(On(j, "tab") /\ job[j].kind = "restart")
    <3>1. PICK a \in {"already", "serves"} :
            /\ a = IF job[j].pid = NoPid /\ ~job[j].misled THEN "already" ELSE "serves"
            /\ Answers(j, a)
      BY <2>2 DEF ResolveTab, AfterTab
    <3>2. a = "serves" => job[j].misled \/ job[j].pid > job[j].since
      BY <1>1, <3>1 DEF AnswerSound
    <3> QED
      BY <1>1, <3>1, <3>2, Answered
  <2> QED
    BY <2>1, <2>2
<1>3. TabsInv'
  <2> DEFINE k == <<Project(j), port[Project(j)]>>
  <2>1. k \in Keys /\ WorldType /\ CallsSound
    BY <1>1 DEF Keys, EmuInv, TabsInv, WorldType
  <2>2. tab' \in TabType /\ owner' \in [Keys -> Tabs \union {NoTab}]
    <3> HIDE DEF k
    <3>1. CASE NotReresolved(k, TRUE)
      <4>1. \/ tab' = Closing(Candidates(k)) \/ tab' = tab
        BY <3>1 DEF NotReresolved
      <4>2. owner' = [owner EXCEPT ![k] = NoTab]
        BY <3>1 DEF NotReresolved
      <4> QED
        BY <2>1, <4>1, <4>2, ClosingType DEF WorldType, TabType
    <3>2. CASE \E t \in Tabs, created \in BOOLEAN : Reresolved(k, TRUE, t, created)
      BY <2>1, <3>2, ReresolvedType
    <3> QED
      BY <3>1, <3>2 DEF ResolveTab, k
  <2>3. UNCHANGED <<chrome, port, call, calls, accidents, taken>>
    BY DEF ResolveTab
  <2> QED
    BY <2>1, <2>2, <2>3 DEF TabsInv, WorldType, CallsSound, TabType
<1> QED
  BY <1>2, <1>3

-----------------------------------------------------------------------------
(* The record: the beginning and the end of a call.                        *)

LEMMA BeginKept ==
    ASSUME EmuInv, NEW j \in Jobs, NEW kind \in {"run", "restart", "stop", "status"},
           NEW scope \in SUBSET Projects, BeginJob(j, kind, scope)
    PROVE  Kept
<1> USE Beyond
<1> DEFINE x == [Off EXCEPT !.pc = "compare", !.kind = kind, !.scope = scope, !.snap = Pids,
                            !.since = builds]
<1>1. /\ job[j].pc = "idle" /\ job' = [job EXCEPT ![j] = x] /\ jobs' = [jobs EXCEPT ![j] = @ - 1]
      /\ jobs[j] > 0 /\ (kind \in {"run", "restart"} => \E p \in Projects : scope = {p})
      /\ blur' = (blur \ scope) \union {p \in scope : Involved(p)} /\ cut' = cut \ scope
      /\ UNCHANGED <<runtime, webPort, foreign, record, builds, known>>
  BY DEF BeginJob, On, emuVars
<1>2. /\ x.pc = "compare" /\ x.kind = kind /\ x.scope = scope /\ x.snap = Pids /\ x.since = builds
      /\ x.old = NoPid /\ x.pid = NoPid /\ x.answer = "none" /\ x.misled = FALSE
  BY DEF Off
<1>3. JobSound(x)
  <2>1. Pids \in [Projects -> 0..MaxBuilds] /\ builds \in 0..MaxBuilds
    BY PidsType DEF EmuInv, EmuType
  <2>2. x \in JobType
    BY <2>1, Numbers DEF JobType, Off
  <2> QED
    BY <1>1, <1>2, <2>2 DEF JobSound
<1> HIDE DEF x
<1>4. AnswerSound(x, runtime, builds)
  <2>1. builds \in Nat
    BY Numbers DEF EmuInv, EmuType
  <2>2. x.since <= builds
    BY <1>2, <2>1
  <2> QED
    BY ONLY <1>2, <2>2 DEF AnswerSound, NoPid
<1>5. EmuType'
  BY <1>1 DEF EmuInv, EmuType
<1>6. JobsSound' /\ job'[j] = x /\ \A k \in Jobs \ {j} : job'[k] = job[k]
  BY <1>1, <1>3, OneJob DEF EmuInv
<1>7. AnswersSound'
  BY <1>1, <1>4, <1>6, AnswersUntouched DEF EmuInv
<1>8. Pids' = Pids
  BY <1>1 DEF Pids, Alive
<1>9. RecordSound'
  <2>1. \A k \in Jobs : job'[k].pc \notin {"idle", "compare"} => record' # Unset
    BY <1>1, <1>2, <1>6 DEF EmuInv, RecordSound
  <2>2. ASSUME NEW p \in Projects \ Fog'
        PROVE  /\ \A i, k \in Jobs : p \in job'[i].scope \intersect job'[k].scope => i = k
               /\ \A k \in Jobs : p \in job'[k].scope => Sees(job[k], p)'
               /\ record' # Unset /\ (\A k \in Jobs : p \notin job'[k].scope) => record'[p] = known'[p]
    <3>1. CASE p \in scope
      <4>1. ~Involved(p)
        BY <1>1, <2>2, <3>1 DEF Fog
      <4>2. \A k \in Jobs : p \notin job[k].scope
        BY <4>1 DEF Involved, On, JobSound
      <4>3. \A k \in Jobs : p \in job'[k].scope => k = j
        BY <1>6, <4>2
      <4>4. Sees(job[j], p)'
        BY <1>2, <1>6, <1>8 DEF Sees
      <4> QED
        BY <1>2, <1>6, <3>1, <4>3, <4>4
    <3>2. CASE p \notin scope
      <4>1. p \in Projects \ Fog /\ p \notin job[j].scope /\ p \notin job'[j].scope
        BY <1>1, <1>2, <1>6, <2>2, <3>2 DEF JobSound, Fog
      <4>2. \A k \in Jobs : p \in job'[k].scope => Sees(job[k], p)' /\ k # j
        BY <1>1, <1>6, <1>8, <4>1 DEF Sees, EmuInv, RecordSound
      <4>3. record' # Unset /\ (\A k \in Jobs : p \notin job'[k].scope) => record'[p] = known'[p]
        BY <1>1, <1>6, <4>1 DEF EmuInv, RecordSound
      <4> QED
        BY <1>6, <4>1, <4>2, <4>3 DEF EmuInv, RecordSound
    <3> QED
      BY <3>1, <3>2
  <2> QED
    BY <2>1, <2>2 DEF RecordSound
<1> QED
  BY <1>5, <1>6, <1>7, <1>9 DEF Kept

LEMMA CompareKept == ASSUME EmuInv, NEW j \in Jobs, Compare(j) PROVE Kept
<1> USE Beyond
<1> DEFINE x(pc) == [job[j] EXCEPT !.pc = pc, !.snap = NoPids]
<1>1. PICK pc \in {"again", "look", "status"} :
        /\ job' = [job EXCEPT ![j] = x(pc)]
        /\ pc = "look" => job[j].kind = "run"
        /\ pc = "status" => job[j].kind \in {"restart", "stop"}
  <2> DEFINE pc == CASE job[j].kind = "status" -> "again" [] job[j].kind = "run" -> "look"
                     [] OTHER -> "status"
  <2>1. job' = [job EXCEPT ![j] = x(pc)]
    BY DEF Compare, Goes, JobType
  <2>2. pc \in {"again", "look", "status"} /\ (pc = "look" => job[j].kind = "run")
        /\ (pc = "status" => job[j].kind \in {"restart", "stop"})
    BY DEF JobType
  <2> HIDE DEF pc, x
  <2> QED
    BY <2>1, <2>2
<1>2. /\ job[j].pc = "compare" /\ record' = Merged(j)
      /\ known' = [p \in Projects |-> IF record = Unset \/ p \in job[j].scope
                                      THEN job[j].snap[p] ELSE known[p]]
      /\ UNCHANGED <<runtime, webPort, foreign, jobs, builds, blur, cut>>
  BY DEF Compare, On
<1>3. /\ x(pc).pc = pc /\ x(pc).kind = job[j].kind /\ x(pc).scope = job[j].scope
      /\ x(pc).old = job[j].old /\ x(pc).since = job[j].since /\ x(pc).misled = job[j].misled
      /\ x(pc).answer = job[j].answer /\ x(pc).pid = job[j].pid
  BY ZenonT(40) DEF JobType
<1>4. JobSound(x(pc))
  <2>1. x(pc) \in JobType
    BY Numbers, ZenonT(40) DEF JobType
  <2> HIDE DEF x
  <2> QED
    BY <1>1, <1>2, <1>3, <2>1 DEF JobSound
<1> HIDE DEF x
<1>5. AnswerSound(x(pc), runtime, builds)
  BY <1>1, <1>2, <1>3 DEF AnswerSound, Newer
<1>6. JobsSound' /\ job'[j] = x(pc) /\ \A k \in Jobs \ {j} : job'[k] = job[k]
  BY <1>1, <1>4, OneJob DEF EmuInv
<1>7. AnswersSound'
  BY <1>2, <1>5, <1>6, AnswersUntouched DEF EmuInv
<1>8. job[j].snap \in [Projects -> 0..MaxBuilds]
  BY DEF JobType
<1>9. record' \in [Projects -> 0..MaxBuilds] /\ known' \in [Projects -> 0..MaxBuilds]
  BY <1>2, <1>8 DEF Merged, EmuInv, EmuType
<1>10. EmuType'
  BY <1>2, <1>9 DEF EmuInv, EmuType
<1>11. Pids' = Pids
  BY <1>2 DEF Pids, Alive
<1>12. RecordSound'
  <2>1. record' # Unset
    BY <1>9, EmulatorAssumption
  <2>2. ASSUME NEW p \in Projects \ Fog'
        PROVE  /\ \A i, k \in Jobs : p \in job'[i].scope \intersect job'[k].scope => i = k
               /\ \A k \in Jobs : p \in job'[k].scope => Sees(job[k], p)'
               /\ record' # Unset /\ (\A k \in Jobs : p \notin job'[k].scope) => record'[p] = known'[p]
    <3>1. p \in Projects \ Fog
      BY <1>2, <2>2 DEF Fog
    <3>2. \A k \in Jobs : job'[k].scope = job[k].scope
      BY <1>3, <1>6
    <3>3. \A i, k \in Jobs : p \in job[i].scope \intersect job[k].scope => i = k
      BY <3>1 DEF EmuInv, RecordSound
    <3>4. CASE p \in job[j].scope
      <4>1. known'[p] = Pids'[p]
        BY <1>2, <1>11, <3>1, <3>4 DEF EmuInv, RecordSound, Sees
      <4> QED
        BY <1>1, <1>3, <1>6, <3>2, <3>3, <3>4, <4>1 DEF Sees
    <3>5. CASE p \notin job[j].scope /\ record = Unset
      <4>1. \A k \in Jobs : p \in job[k].scope => job[k].pc = "compare" /\ k # j
        BY <3>1, <3>5 DEF EmuInv, RecordSound, JobsSound, JobSound
      <4>2. \A k \in Jobs : p \in job[k].scope => Sees(job[k], p)'
        BY <1>6, <1>11, <3>1, <4>1 DEF Sees, EmuInv, RecordSound
      <4>3. record'[p] = known'[p]
        BY <1>2, <3>5 DEF Merged
      <4> QED
        BY <3>2, <3>3, <4>2, <4>3
    <3>6. CASE p \notin job[j].scope /\ record # Unset
      <4>1. known'[p] = known[p] /\ record'[p] = record[p]
        BY <1>2, <3>6 DEF Merged
      <4>2. \A k \in Jobs : p \in job[k].scope => Sees(job[k], p) /\ k # j
        BY <3>1, <3>6 DEF EmuInv, RecordSound
      <4>3. \A k \in Jobs : p \in job[k].scope => Sees(job[k], p)'
        BY <1>6, <1>11, <4>1, <4>2 DEF Sees
      <4>4. (\A k \in Jobs : p \notin job[k].scope) => record[p] = known[p]
        BY <3>1, <3>6 DEF EmuInv, RecordSound
      <4> QED
        BY <3>2, <3>3, <4>1, <4>3, <4>4
    <3> QED
      BY <3>4, <3>5, <3>6
  <2> QED
    BY <2>1, <2>2 DEF RecordSound
<1> QED
  BY <1>6, <1>7, <1>10, <1>12 DEF Kept

LEMMA ListKept == ASSUME EmuInv, NEW j \in Jobs, ListAgain(j) PROVE Kept
<1> USE Beyond
<1> DEFINE x == [job[j] EXCEPT !.pc = "record", !.snap = Pids]
<1>1. /\ job[j].pc = "again" /\ job' = [job EXCEPT ![j] = x]
      /\ UNCHANGED <<runtime, webPort, foreign, record, jobs, builds, known, blur, cut>>
  BY DEF ListAgain, On, JobType
<1>2. /\ x.pc = "record" /\ x.kind = job[j].kind /\ x.scope = job[j].scope /\ x.snap = Pids
      /\ x.old = job[j].old /\ x.since = job[j].since /\ x.misled = job[j].misled
      /\ x.answer = job[j].answer /\ x.pid = job[j].pid
  BY DEF JobType
<1>3. JobSound(x)
  <2>1. x \in JobType
    BY PidsType, ZenonT(40) DEF JobType, EmuInv
  <2> HIDE DEF x
  <2> QED
    BY <1>1, <1>2, <2>1 DEF JobSound
<1> HIDE DEF x
<1>4. AnswerSound(x, runtime, builds)
  BY <1>1, <1>2 DEF AnswerSound, Newer
<1>5. JobsSound' /\ job'[j] = x /\ \A k \in Jobs \ {j} : job'[k] = job[k]
  BY <1>1, <1>3, OneJob DEF EmuInv
<1>6. AnswersSound'
  BY <1>1, <1>4, <1>5, AnswersUntouched DEF EmuInv
<1>7. EmuType'
  BY <1>1 DEF EmuInv, EmuType
<1>8. RecordSound'
  <2>1. Pids' = Pids
    BY <1>1 DEF Pids, Alive
  <2>2. record' # Unset
    BY <1>1 DEF EmuInv, RecordSound
  <2>3. (\A k \in Jobs : job'[k].scope = job[k].scope) /\ Fog' = Fog
    BY <1>1, <1>2, <1>5 DEF Fog
  <2>4. ASSUME NEW p \in Projects \ Fog', NEW k \in Jobs, p \in job[k].scope PROVE Sees(job[k], p)'
    <3>1. Sees(job[k], p)
      BY <1>1, <2>4 DEF EmuInv, RecordSound, Fog
    <3>2. CASE k = j
      BY <1>1, <1>2, <1>5, <3>1, <3>2 DEF Sees
    <3>3. CASE k # j
      BY <1>1, <1>5, <2>1, <3>1, <3>3 DEF Sees
    <3> QED
      BY <3>2, <3>3
  <2> QED
    BY <1>1, <2>2, <2>3, <2>4 DEF EmuInv, RecordSound
<1> QED
  BY <1>5, <1>6, <1>7, <1>8 DEF Kept

LEMMA RecordKept == ASSUME EmuInv, NEW j \in Jobs, Record(j) PROVE Kept
<1> USE Beyond
<1>1. /\ job[j].pc = "record" /\ job' = [job EXCEPT ![j] = Off] /\ record' = Merged(j)
      /\ UNCHANGED <<runtime, webPort, foreign, jobs, builds, known, blur, cut>>
  BY DEF Record, On
<1>2. Off.pc = "idle" /\ Off.scope = {} /\ JobSound(Off)
  BY OffSound
<1>3. AnswerSound(Off, runtime, builds)
  BY OffAnswers, Numbers DEF EmuInv, EmuType
<1>4. JobsSound' /\ job'[j] = Off /\ \A k \in Jobs \ {j} : job'[k] = job[k]
  BY <1>1, <1>2, OneJob DEF EmuInv
<1>5. AnswersSound'
  BY <1>1, <1>3, <1>4, AnswersUntouched DEF EmuInv
<1>6. record # Unset /\ record \in [Projects -> 0..MaxBuilds]
  BY <1>1 DEF EmuInv, RecordSound, EmuType
<1>7. record' = [p \in Projects |-> IF p \in job[j].scope THEN job[j].snap[p] ELSE record[p]]
  BY <1>1, <1>6 DEF Merged
<1>8. record' \in [Projects -> 0..MaxBuilds]
  BY <1>6, <1>7 DEF JobType
<1>9. EmuType'
  BY <1>1, <1>8 DEF EmuInv, EmuType
<1>10. RecordSound'
  <2>1. Pids' = Pids
    BY <1>1 DEF Pids, Alive
  <2>2. record' # Unset
    BY <1>8, EmulatorAssumption
  <2>3. ASSUME NEW p \in Projects \ Fog'
        PROVE  /\ \A i, k \in Jobs : p \in job'[i].scope \intersect job'[k].scope => i = k
               /\ \A k \in Jobs : p \in job'[k].scope => Sees(job[k], p)'
               /\ record' # Unset /\ (\A k \in Jobs : p \notin job'[k].scope) => record'[p] = known'[p]
    <3>1. p \in Projects \ Fog
      BY <1>1, <2>3 DEF Fog
    <3>2. \A k \in Jobs : p \in job'[k].scope => k # j /\ job'[k] = job[k]
      BY <1>2, <1>4
    <3>3. \A i, k \in Jobs : p \in job'[i].scope \intersect job'[k].scope => i = k
      BY <3>1, <3>2 DEF EmuInv, RecordSound
    <3>4. \A k \in Jobs : p \in job'[k].scope => Sees(job[k], p)'
      BY <1>1, <2>1, <3>1, <3>2 DEF Sees, EmuInv, RecordSound
    <3>5. ASSUME \A k \in Jobs : p \notin job'[k].scope PROVE record'[p] = known'[p]
      <4>1. CASE p \in job[j].scope
        <5>1. job[j].snap[p] = known[p]
          BY <1>1, <3>1, <4>1 DEF EmuInv, RecordSound, Sees
        <5> QED
          BY <1>1, <1>7, <3>1, <4>1, <5>1
      <4>2. CASE p \notin job[j].scope
        <5>1. \A k \in Jobs : p \notin job[k].scope
          BY <1>4, <3>5, <4>2
        <5>2. record[p] = known[p]
          BY <1>6, <3>1, <5>1 DEF EmuInv, RecordSound
        <5> QED
          BY <1>1, <1>7, <3>1, <4>2, <5>2
      <4> QED
        BY <4>1, <4>2
    <3> QED
      BY <3>3, <3>4, <3>5
  <2> QED
    BY <2>2, <2>3 DEF RecordSound
<1> QED
  BY <1>4, <1>5, <1>9, <1>10 DEF Kept

-----------------------------------------------------------------------------
(* The steps that change the runtimes.                                     *)

\* The runtimes by themselves: no call moves, or one does as it is told.
LEMMA RuntimesMove ==
    ASSUME EmuInv, runtime' \in [Projects -> RuntimeType], builds' \in 0..MaxBuilds,
           builds' >= builds, known' \in [Projects -> 0..MaxBuilds], blur' \subseteq Projects,
           UNCHANGED <<webPort, foreign, record, jobs, job, cut>>, blur \subseteq blur',
           \A p \in Projects : Ages(runtime[p], runtime'[p], builds),
           \A p \in Projects \ Fog' :
             \/ known'[p] = known[p] /\ (Pids'[p] = Pids[p] \/ \A k \in Jobs : p \notin job[k].scope)
             \/ /\ known'[p] = Pids'[p]
                /\ \E k \in Jobs : p \in job[k].scope /\ job[k].pc \notin {"compare", "record"}
    PROVE  Kept
<1>1. EmuType'
  BY DEF EmuInv, EmuType
<1>2. JobsSound'
  BY DEF EmuInv, JobsSound
<1>3. RecordSound'
  <2>1. Fog \subseteq Fog'
    BY DEF Fog
  <2> QED
    BY <2>1, RecordStays DEF EmuInv
<1>4. AnswersSound'
  <2>1. builds' \in Nat /\ \A p \in Projects : runtime'[p].pid \in Nat
    BY Numbers DEF RuntimeType
  <2> QED
    BY <2>1, AnswersKept DEF EmuInv
<1> QED
  BY <1>1, <1>2, <1>3, <1>4 DEF Kept

\* One runtime changes, and what it was is known of it.
LEMMA OneRuntimeMoves ==
    ASSUME EmuInv, NEW p \in Projects, NEW r \in RuntimeType, runtime' = [runtime EXCEPT ![p] = r],
           builds' \in 0..MaxBuilds, builds' >= builds, Ages(runtime[p], r, builds),
           known' \in [Projects -> 0..MaxBuilds], \A q \in Projects \ {p} : known'[q] = known[q],
           blur' \subseteq Projects, blur \subseteq blur',
           UNCHANGED <<webPort, foreign, record, jobs, job, cut>>,
           p \notin blur' =>
             \/ known'[p] = known[p] /\ (Pids'[p] = Pids[p] \/ \A k \in Jobs : p \notin job[k].scope)
             \/ /\ known'[p] = Pids'[p]
                /\ \E k \in Jobs : p \in job[k].scope /\ job[k].pc \notin {"compare", "record"}
    PROVE  Kept
<1>1. runtime' \in [Projects -> RuntimeType] /\ \A q \in Projects \ {p} : runtime'[q] = runtime[q]
  BY DEF EmuInv, EmuType
<1>2. \A q \in Projects : Ages(runtime[q], runtime'[q], builds)
  BY <1>1 DEF Ages, EmuInv, EmuType
<1>3. \A q \in Projects \ {p} : Pids'[q] = Pids[q]
  BY <1>1 DEF Pids, Alive
<1>4. \A q \in Projects \ Fog' :
        \/ known'[q] = known[q] /\ (Pids'[q] = Pids[q] \/ \A k \in Jobs : q \notin job[k].scope)
        \/ /\ known'[q] = Pids'[q]
           /\ \E k \in Jobs : q \in job[k].scope /\ job[k].pc \notin {"compare", "record"}
  BY <1>3 DEF Fog
<1> QED
  BY <1>1, <1>2, <1>4, RuntimesMove

LEMMA Uninvolved ==
    ASSUME EmuInv, NEW p, ~Involved(p) PROVE \A k \in Jobs : p \notin job[k].scope
BY DEF Involved, On, EmuInv, JobsSound, JobSound

LEMMA RuntimeAt ==
    ASSUME EmuInv, NEW p \in Projects
    PROVE  /\ runtime \in [Projects -> RuntimeType] /\ runtime[p] \in RuntimeType
           /\ known \in [Projects -> 0..MaxBuilds] /\ blur \subseteq Projects
           /\ builds \in 0..MaxBuilds /\ MaxBuilds \in Nat
           /\ Pids[p] = IF runtime[p].is \in {"down", "building"} THEN NoPid ELSE runtime[p].pid
BY Numbers DEF EmuInv, EmuType, Pids, Alive

LEMMA PidsAfter ==
    ASSUME NEW p \in Projects
    PROVE  Pids'[p] = IF runtime'[p].is \in {"down", "building"} THEN NoPid ELSE runtime'[p].pid
BY DEF Pids, Alive

LEMMA DownType == Down \in RuntimeType /\ Down.is = "down" /\ Down.pid = NoPid
BY Numbers DEF Down, RuntimeType, Runtimes

LEMMA SpawnsKept == ASSUME EmuInv, NEW p \in Projects, Spawns(p) PROVE Kept
<1> USE RuntimeAt
<1> DEFINE r == [runtime[p] EXCEPT !.is = "up"]
<1>1. /\ runtime[p].is = "building" /\ runtime' = [runtime EXCEPT ![p] = r]
      /\ known' = IF runtime[p].ours THEN [known EXCEPT ![p] = runtime[p].pid] ELSE known
      /\ UNCHANGED <<webPort, foreign, record, job, jobs, builds, cut>>
  BY DEF Spawns, RuntimeType
<1>2. r \in RuntimeType /\ r.is = "up" /\ r.pid = runtime[p].pid /\ Ages(runtime[p], r, builds)
  BY <1>1 DEF RuntimeType, Runtimes, Ages
<1>3. /\ blur \subseteq blur' /\ blur' \subseteq Projects
      /\ p \notin blur' => \/ /\ runtime[p].ours
                              /\ \E k \in Jobs : p \in job[k].scope /\ job[k].pc \notin {"compare", "record"}
                           \/ ~runtime[p].ours /\ ~Involved(p)
  BY DEF Spawns
<1>4. known' \in [Projects -> 0..MaxBuilds] /\ \A q \in Projects \ {p} : known'[q] = known[q]
  BY <1>1 DEF RuntimeType
<1>5. Pids'[p] = runtime[p].pid
  BY <1>1, <1>2, PidsAfter
<1> HIDE DEF r
<1>6. p \notin blur' => \/ known'[p] = known[p] /\ \A k \in Jobs : p \notin job[k].scope
                        \/ /\ known'[p] = Pids'[p]
                           /\ \E k \in Jobs : p \in job[k].scope /\ job[k].pc \notin {"compare", "record"}
  BY <1>1, <1>3, <1>5, Uninvolved
<1>7. builds' \in 0..MaxBuilds /\ builds' >= builds
  BY <1>1
<1> QED
  BY ONLY EmuInv, <1>1, <1>2, <1>3, <1>4, <1>6, <1>7, OneRuntimeMoves

\* It serves, or no longer, or was never there: its process is the same.
LEMMA ServesKept ==
    ASSUME EmuInv, NEW p \in Projects, Serves(p) \/ Expires(p) \/ Dialog(p) PROVE Kept
<1> USE RuntimeAt
<1>1. UNCHANGED <<webPort, foreign, record, job, jobs, builds, known, blur, cut>>
  BY DEF Serves, Expires, Dialog
<1>2. PICK r \in RuntimeType :
        /\ runtime' = [runtime EXCEPT ![p] = r] /\ Ages(runtime[p], r, builds)
        /\ \/ {runtime[p].is, r.is} \subseteq {"down", "building"}
           \/ /\ r.pid = runtime[p].pid
              /\ {runtime[p].is, r.is} \intersect {"down", "building"} = {}
  <2>1. CASE Serves(p)
    <3> DEFINE r == [runtime[p] EXCEPT !.is = IF Listening(webPort[p]) THEN "hung" ELSE "serving",
                                       !.at = webPort[p]]
    <3>1. runtime' = [runtime EXCEPT ![p] = r] /\ runtime[p].is = "up"
      BY <2>1 DEF Serves, RuntimeType
    <3>2. webPort[p] \in Ports
      BY DEF EmuInv, EmuType
    <3>3. r \in RuntimeType /\ r.is \in {"hung", "serving"} /\ r.pid = runtime[p].pid
      BY <3>2 DEF RuntimeType, Runtimes
    <3> HIDE DEF r
    <3> QED
      BY <3>1, <3>3 DEF Ages
  <2>2. CASE Expires(p)
    <3> DEFINE r == [runtime[p] EXCEPT !.is = "expired"]
    <3>1. runtime' = [runtime EXCEPT ![p] = r] /\ runtime[p].is = "serving"
      BY <2>2 DEF Expires, RuntimeType
    <3>2. r \in RuntimeType /\ r.is = "expired" /\ r.pid = runtime[p].pid
      BY DEF RuntimeType, Runtimes
    <3> HIDE DEF r
    <3> QED
      BY <3>1, <3>2 DEF Ages
  <2>3. CASE Dialog(p)
    BY <2>3, DownType DEF Dialog, Ages
  <2> QED
    BY <2>1, <2>2, <2>3
<1>3. Pids'[p] = Pids[p]
  BY <1>2, PidsAfter
<1>4. builds' \in 0..MaxBuilds /\ builds' >= builds
  BY <1>1
<1>5. known' \in [Projects -> 0..MaxBuilds] /\ known' = known /\ blur' \subseteq Projects /\ blur' = blur
  BY <1>1
<1> QED
  BY ONLY EmuInv, <1>1, <1>2, <1>3, <1>4, <1>5, OneRuntimeMoves

LEMMA ToggledIs ==
    ASSUME EmuInv, NEW p \in Projects, NEW ours \in BOOLEAN, Toggles(p, ours)
    PROVE  /\ runtime' = [runtime EXCEPT ![p] = Toggled(p, ours)]
           /\ Toggled(p, ours) \in RuntimeType
           /\ Toggled(p, ours).is \in {"down", "building"}
           /\ Ages(runtime[p], Toggled(p, ours), builds)
           /\ runtime'[p] = Toggled(p, ours)
           /\ Toggled(p, ours).is = "down" \/ Toggled(p, ours).pid > builds
           /\ builds' \in 0..MaxBuilds /\ builds' >= builds
BY RuntimeAt, DownType DEF Toggles, Toggled, RuntimeType, Runtimes, Ages

\* What others do to a runtime while a call is about it blurs what is known of it.
LEMMA OutsideKept ==
    ASSUME EmuInv, NEW p \in Projects, UserPresses(p) \/ Crashes(p) PROVE Kept
<1> USE RuntimeAt
<1>1. /\ UNCHANGED <<webPort, foreign, record, job, jobs, known, cut>>
      /\ blur' = IF Involved(p) THEN blur \union {p} ELSE blur
  BY DEF UserPresses, Crashes, Outside
<1>2. PICK r \in RuntimeType :
        /\ runtime' = [runtime EXCEPT ![p] = r] /\ Ages(runtime[p], r, builds)
        /\ builds' \in 0..MaxBuilds /\ builds' >= builds
  <2>1. CASE UserPresses(p)
    BY <2>1, ToggledIs DEF UserPresses
  <2>2. CASE Crashes(p)
    <3>1. runtime' = [runtime EXCEPT ![p] = Down] /\ builds' = builds
      BY <2>2 DEF Crashes
    <3>2. Ages(runtime[p], Down, builds) /\ builds >= builds
      BY DownType DEF Ages
    <3> QED
      BY <3>1, <3>2, DownType
  <2> QED
    BY <2>1, <2>2
<1>3. blur \subseteq blur' /\ blur' \subseteq Projects
      /\ (p \notin blur' => \A k \in Jobs : p \notin job[k].scope)
  BY <1>1, Uninvolved
<1>4. known' \in [Projects -> 0..MaxBuilds] /\ known' = known
  BY <1>1
<1> QED
  BY ONLY EmuInv, <1>1, <1>2, <1>3, <1>4, OneRuntimeMoves

\* The processes that a call has seen go down, and it knows.
LEMMA KillKept == ASSUME EmuInv, NEW j \in Jobs, Kill(j) PROVE Kept
<1> USE RuntimeAt, Beyond
<1> DEFINE pc == IF job[j].kind = "restart" THEN "look" ELSE "again"
           x == [job[j] EXCEPT !.pc = pc, !.snap = NoPids]
<1>1. /\ job[j].pc = "kill" /\ job' = [job EXCEPT ![j] = x]
      /\ UNCHANGED <<webPort, foreign, record, jobs, builds, blur, cut>>
  BY DEF Kill, Goes, On, JobType
<1>2. PICK dead \in SUBSET job[j].scope :
        /\ runtime' = [p \in Projects |-> IF p \in dead THEN Down ELSE runtime[p]]
        /\ known' = [p \in Projects |-> IF p \in dead THEN NoPid ELSE known[p]]
  BY DEF Kill
<1>3. /\ x.pc = pc /\ x.kind = job[j].kind /\ x.scope = job[j].scope
      /\ x.old = job[j].old /\ x.since = job[j].since /\ x.misled = job[j].misled
      /\ x.answer = job[j].answer /\ x.pid = job[j].pid
  BY ZenonT(40) DEF JobType
<1>4. x \in JobType
  <2>1. pc \in {"look", "again"}
    OBVIOUS
  <2> HIDE DEF pc
  <2> QED
    BY ONLY job[j] \in JobType, <2>1, Numbers DEF JobType
<1> HIDE DEF x
<1>5. JobSound(x)
  BY <1>1, <1>3, <1>4 DEF JobSound
<1>6. JobsSound' /\ job'[j] = x /\ \A k \in Jobs \ {j} : job'[k] = job[k]
  BY <1>1, <1>5, OneJob DEF EmuInv
<1>7. /\ runtime' \in [Projects -> RuntimeType] /\ known' \in [Projects -> 0..MaxBuilds]
      /\ builds' \in Nat /\ builds' >= builds
  <2>1. runtime' \in [Projects -> RuntimeType] /\ known' \in [Projects -> 0..MaxBuilds]
    BY <1>2, DownType, Numbers
  <2>2. builds \in Nat
    BY Numbers DEF EmuInv, EmuType
  <2> QED
    BY ONLY <1>1, <2>1, <2>2
<1>8. EmuType'
  BY <1>1, <1>7 DEF EmuInv, EmuType
<1>9. \A p \in Projects : runtime'[p].pid \in Nat /\ Ages(runtime[p], runtime'[p], builds)
  BY <1>2, <1>7, DownType DEF Ages, RuntimeType
<1>10. AnswerSound(x, runtime', builds')
  <2>1. \A p \in Projects : runtime'[p] = runtime[p] \/ runtime'[p].is = "down"
    BY <1>2, DownType
  <2> QED
    BY <1>1, <1>3, <2>1, ZenonT(40) DEF AnswerSound, Newer
<1>11. AnswersSound'
  BY <1>6, <1>7, <1>9, <1>10, AnswersKept DEF EmuInv
<1>12. RecordSound'
  <2>1. ASSUME NEW p \in Projects
        PROVE  \/ known'[p] = known[p] /\ Pids'[p] = Pids[p]
               \/ /\ known'[p] = Pids'[p]
                  /\ \E k \in Jobs : p \in job[k].scope /\ job[k].pc \notin {"compare", "record"}
    <3>1. CASE p \in dead
      BY <1>1, <1>2, <3>1, PidsAfter, DownType
    <3>2. CASE p \notin dead
      BY <1>2, <3>2, PidsAfter
    <3> QED
      BY <3>1, <3>2
  <2>2. \A k \in Jobs : job'[k] = job[k] \/ GoesOn(job[k], job'[k])
    BY <1>1, <1>3, <1>6 DEF GoesOn
  <2>3. Fog \subseteq Fog'
    BY <1>1 DEF Fog
  <2> QED
    BY ONLY EmuInv, <1>1, <2>1, <2>2, <2>3, RecordStays DEF EmuInv
<1> QED
  BY <1>6, <1>8, <1>11, <1>12 DEF Kept

\* The key starts a runtime that is newer than the call, or stops the one there is; or it goes
\* to another's.
LEMMA SendsRuntimes ==
    ASSUME EmuInv, NEW j \in Jobs, NEW q \in Projects \union {Nobody}, Sends(j, q)
    PROVE  /\ runtime' \in [Projects -> RuntimeType] /\ known' \in [Projects -> 0..MaxBuilds]
           /\ builds' \in 0..MaxBuilds /\ builds' >= builds
           /\ \A r \in Projects : runtime'[r].pid \in Nat /\ Ages(runtime[r], runtime'[r], builds)
           /\ \A r \in Projects \ {q} : runtime'[r] = runtime[r]
           /\ q \in Projects => /\ runtime'[q].is \in {"down", "building"}
                                /\ Newer(job[j], runtime'[q])
<1> USE RuntimeAt, Beyond
<1> DEFINE p == Project(j)
<1>1. /\ job[j].pc = "press" /\ p \in Projects
      /\ IF q = Nobody THEN UNCHANGED <<runtime, builds>> ELSE Toggles(q, q = p)
      /\ known' = IF q = p THEN [known EXCEPT ![p] = NoPid] ELSE known
  BY DEF Sends, On, JobSound
<1> HIDE DEF p
<1>2. known' \in [Projects -> 0..MaxBuilds]
  BY <1>1, Numbers
<1>3. CASE q = Nobody
  <2>1. UNCHANGED <<runtime, builds>> /\ q \notin Projects
    BY <1>1, <1>3, TabsAssumption
  <2>2. builds' \in 0..MaxBuilds /\ builds' >= builds
    BY <2>1, Numbers DEF EmuInv, EmuType
  <2>3. runtime' \in [Projects -> RuntimeType]
    BY <2>1 DEF EmuInv, EmuType
  <2>4. \A r \in Projects : runtime'[r].pid \in Nat
    BY <2>3, Numbers DEF RuntimeType
  <2> QED
    BY ONLY <1>2, <2>1, <2>2, <2>3, <2>4 DEF Ages
<1>4. CASE q # Nobody
  <2>1. Toggles(q, q = p) /\ q \in Projects /\ (q = p) \in BOOLEAN
    BY <1>1, <1>4
  <2> DEFINE r == Toggled(q, q = p)
  <2>2. /\ runtime' = [runtime EXCEPT ![q] = r] /\ r \in RuntimeType
        /\ r.is \in {"down", "building"} /\ Ages(runtime[q], r, builds)
        /\ r.is = "down" \/ r.pid > builds
        /\ builds' \in 0..MaxBuilds /\ builds' >= builds
    BY <2>1, ToggledIs
  <2> HIDE DEF r
  <2>3. job[j].since <= builds /\ job[j].since \in Nat /\ builds \in Nat /\ r.pid \in Nat
    <3>1. job[j].since \in 0..MaxBuilds /\ builds \in 0..MaxBuilds /\ r.pid \in 0..MaxBuilds
      BY <2>2 DEF JobType, EmuInv, EmuType, RuntimeType
    <3>2. job[j].since <= builds
      BY DEF AnswerSound
    <3> QED
      BY <3>1, <3>2
  <2>4. Newer(job[j], r)
    BY <2>2, <2>3 DEF Newer
  <2>5. runtime' \in [Projects -> RuntimeType] /\ runtime'[q] = r
        /\ \A s \in Projects \ {q} : runtime'[s] = runtime[s]
    BY <2>1, <2>2
  <2>6. \A s \in Projects : runtime'[s].pid \in Nat
    BY <2>5, Numbers DEF RuntimeType
  <2>7. \A s \in Projects : Ages(runtime[s], runtime'[s], builds)
    BY <2>2, <2>5 DEF Ages
  <2> QED
    BY ONLY <1>2, <2>1, <2>2, <2>4, <2>5, <2>6, <2>7
<1> QED
  BY <1>3, <1>4

\* Whatever becomes of the call that sends it.
LEMMA SendsKept ==
    ASSUME EmuInv, NEW j \in Jobs, NEW q \in Projects \union {Nobody}, Sends(j, q),
           NEW x, job' = [job EXCEPT ![j] = x], JobSound(x), AnswerSound(x, runtime', builds'),
           cut \subseteq cut', cut' \subseteq Projects, GoesOn(job[j], x)
    PROVE  Kept
<1> USE RuntimeAt, Beyond
<1> DEFINE p == Project(j)
<1>1. /\ job[j].pc = "press" /\ UNCHANGED <<webPort, foreign, record, jobs>>
      /\ q = Nobody => UNCHANGED <<runtime, builds>>
      /\ known' = IF q = p THEN [known EXCEPT ![p] = NoPid] ELSE known
      /\ blur' = IF q # p /\ q # Nobody /\ Involved(q) THEN blur \union {q} ELSE blur
  BY DEF Sends, On
<1>2. p \in Projects /\ job[j].scope = {p}
  BY <1>1 DEF JobSound
<1> HIDE DEF p
<1>3. JobsSound' /\ job'[j] = x /\ \A k \in Jobs \ {j} : job'[k] = job[k]
  BY OneJob DEF EmuInv
<1>4. /\ runtime' \in [Projects -> RuntimeType] /\ known' \in [Projects -> 0..MaxBuilds]
      /\ builds' \in 0..MaxBuilds /\ builds' >= builds
      /\ \A r \in Projects : runtime'[r].pid \in Nat /\ Ages(runtime[r], runtime'[r], builds)
      /\ \A r \in Projects \ {q} : runtime'[r] = runtime[r]
      /\ q \in Projects => runtime'[q].is \in {"down", "building"}
  BY SendsRuntimes
<1>5. EmuType'
  <2>1. blur' \subseteq Projects
    <3>1. blur \subseteq Projects
      BY DEF EmuInv, EmuType
    <3> QED
      BY <1>1, <3>1, TabsAssumption
  <2> QED
    BY <1>1, <1>4, <2>1 DEF EmuInv, EmuType
<1>6. AnswersSound'
  <2>1. builds' \in Nat
    BY <1>4, Numbers
  <2> QED
    BY <1>3, <1>4, <2>1, AnswersKept DEF EmuInv
<1>7. RecordSound'
  <2>1. \A k \in Jobs : job'[k] = job[k] \/ GoesOn(job[k], job'[k])
    BY <1>3
  <2>2. Fog \subseteq Fog' /\ blur' \subseteq Fog'
    BY <1>1 DEF Fog
  <2>3. ASSUME NEW r \in Projects \ Fog'
        PROVE  \/ known'[r] = known[r] /\ (Pids'[r] = Pids[r] \/ \A k \in Jobs : r \notin job[k].scope)
               \/ /\ known'[r] = Pids'[r]
                  /\ \E k \in Jobs : r \in job[k].scope /\ job[k].pc \notin {"compare", "record"}
    <3>1. CASE r # q
      BY <1>1, <1>4, <3>1, PidsAfter
    <3>2. CASE r = q /\ q = p
      <4>1. known'[r] = NoPid /\ Pids'[r] = NoPid
        BY <1>1, <1>4, <3>2, PidsAfter
      <4> QED
        BY <1>1, <1>2, <3>2, <4>1
    <3>3. CASE r = q /\ q # p
      <4>1. ~Involved(r) /\ known'[r] = known[r]
        BY <1>1, <2>2, <2>3, <3>3, TabsAssumption
      <4> QED
        BY <4>1, Uninvolved
    <3> QED
      BY <3>1, <3>2, <3>3
  <2> QED
    BY ONLY EmuInv, <1>1, <2>1, <2>2, <2>3, RecordStays DEF EmuInv
<1> QED
  BY <1>3, <1>5, <1>6, <1>7 DEF Kept

\* The call as it was, by the runtimes and builds after the key.
LEMMA SendsAges ==
    ASSUME EmuInv, NEW j \in Jobs, NEW q \in Projects \union {Nobody}, Sends(j, q)
    PROVE  AnswerSound(job[j], runtime', builds') /\ builds' \in Nat
<1>1. builds' \in Nat
  BY SendsRuntimes, Numbers
<1> QED
  BY <1>1, SendsRuntimes, Beyond, AnswerAges DEF EmuInv

LEMMA PressKept ==
    ASSUME EmuInv, NEW j \in Jobs, NEW q \in Projects \union {Nobody}, Press(j, q) PROVE Kept
<1> USE Beyond
<1> DEFINE p == Project(j)
           missed == q # p
           x == [job[j] EXCEPT !.pc = "wait", !.misled = missed]
<1>1. Sends(j, q) /\ job[j].pc = "press" /\ job' = [job EXCEPT ![j] = x] /\ cut' = cut
  BY DEF Press, Sends, On, JobType
<1>2. p \in Projects /\ job[j].scope = {p} /\ job[j].kind \in {"run", "restart"}
  BY <1>1 DEF JobSound
<1>3. /\ x.pc = "wait" /\ x.kind = job[j].kind /\ x.scope = job[j].scope
      /\ x.old = job[j].old /\ x.since = job[j].since /\ x.misled = missed
      /\ x.answer = job[j].answer /\ x.pid = job[j].pid
  BY ZenonT(40) DEF JobType
<1>4. x \in JobType
  <2>1. missed \in BOOLEAN
    OBVIOUS
  <2> HIDE DEF missed
  <2> QED
    BY ONLY job[j] \in JobType, <2>1 DEF JobType
<1> HIDE DEF x, p
<1>5. JobSound(x)
  BY <1>2, <1>3, <1>4 DEF JobSound
<1>6. AnswerSound(x, runtime', builds')
  <2>1. AnswerSound(job[j], runtime', builds')
    BY <1>1, SendsAges
  <2>2. ~x.misled => Newer(job[j], runtime'[p])
    BY <1>1, <1>2, <1>3, SendsRuntimes
  <2> QED
    BY ONLY <1>1, <1>2, <1>3, <2>1, <2>2 DEF AnswerSound, Newer
<1>7. cut' \subseteq Projects /\ GoesOn(job[j], x)
  BY <1>1, <1>3 DEF EmuInv, EmuType, GoesOn
<1> QED
  BY <1>1, <1>5, <1>6, <1>7, SendsKept

\* The key may have been sent all the same.
LEMMA PressLostKept ==
    ASSUME EmuInv, NEW j \in Jobs, NEW q \in Projects \union {Nobody}, PressLost(j, q) PROVE Kept
<1> USE Beyond
<1>1. Sends(j, q) /\ job[j].pc = "press"
  BY DEF PressLost, Sends, On
<1>2. AnswerSound(job[j], runtime', builds') /\ builds' \in Nat
  BY <1>1, SendsAges
<1>3. CASE Answers(j, "refused") /\ cut' = cut
  <2> DEFINE x == [job[j] EXCEPT !.pc = "again", !.answer = "refused", !.old = job[j].old]
  <2>1. job' = [job EXCEPT ![j] = x]
    BY <1>3 DEF Answers, JobType
  <2>2. /\ x.pc = "again" /\ x.kind = job[j].kind /\ x.scope = job[j].scope
        /\ x.old = job[j].old /\ x.since = job[j].since /\ x.misled = job[j].misled
        /\ x.answer = "refused" /\ x.pid = job[j].pid
    BY ZenonT(40) DEF JobType
  <2>3. x \in JobType
    BY ZenonT(40) DEF JobType
  <2> HIDE DEF x
  <2>4. JobSound(x) /\ AnswerSound(x, runtime', builds')
    BY <1>1, <1>2, <2>2, <2>3 DEF JobSound, AnswerSound, Newer
  <2>5. cut' \subseteq Projects /\ GoesOn(job[j], x)
    BY <1>1, <1>3, <2>2 DEF EmuInv, EmuType, GoesOn
  <2> QED
    BY <1>1, <1>3, <2>1, <2>4, <2>5, SendsKept
<1>4. CASE Raises(j)
  <2>1. job' = [job EXCEPT ![j] = Off] /\ cut' = cut \union job[j].scope
    BY <1>4 DEF Raises
  <2>2. JobSound(Off) /\ AnswerSound(Off, runtime', builds')
    BY <1>2, OffSound, OffAnswers
  <2>3. cut' \subseteq Projects /\ GoesOn(job[j], Off)
    <3>1. job[j].scope \subseteq Projects
      BY DEF JobType
    <3> QED
      BY <1>1, <2>1, <3>1, OffSound DEF EmuInv, EmuType, GoesOn
  <2> QED
    BY <1>1, <2>1, <2>2, <2>3, SendsKept
<1> QED
  BY <1>3, <1>4 DEF PressLost

-----------------------------------------------------------------------------
(* Every step of the emulators, the keys and the service's death.          *)

LEMMA TabsUntouched == ASSUME TabsInv, UNCHANGED tabVars PROVE TabsInv'
BY TabsInductive

\* Nothing of the emulators changes but what is bound to their ports.
LEMMA PortsKept ==
    ASSUME EmuInv, webPort' \in [Projects -> Ports], foreign' \subseteq Ports,
           UNCHANGED <<runtime, record, job, jobs, builds, known, blur, cut>>
    PROVE  Kept
<1>1. EmuType' /\ JobsSound' /\ AnswersSound'
  BY DEF EmuInv, EmuType, JobsSound, AnswersSound
<1>2. Pids' = Pids /\ Fog' = Fog
  BY DEF Pids, Alive, Fog
<1>3. RecordSound'
  BY <1>2, RecordStays DEF EmuInv
<1> QED
  BY <1>1, <1>3 DEF Kept

LEMMA PortRead ==
    ASSUME EmuInv, NEW p \in Projects, ReadPort(p),
           UNCHANGED <<tab, chrome, owner, call, calls, accidents, taken>>
    PROVE  TabsInv'
BY DEF ReadPort, EmuInv, EmuType, TabsInv, WorldType, CallsSound

LEMMA RestartKept == ASSUME EmuInv, RestartService PROVE EmuInv'
<1>1. TabsInv'
  BY AccidentSound DEF RestartService, Accidents, EmuInv
<1>2. /\ job' = [j \in Jobs |-> Off] /\ record' = Unset
      /\ UNCHANGED <<runtime, webPort, foreign, jobs, builds, known, blur, cut>>
  BY DEF RestartService
<1>3. EmuType'
  BY <1>2 DEF EmuInv, EmuType
<1>4. JobsSound'
  BY <1>2, OffSound DEF JobsSound, JobSound
<1>5. RecordSound'
  BY <1>2, OffSound DEF RecordSound
<1>6. AnswersSound'
  <2>1. AnswerSound(Off, runtime, builds)
    BY OffAnswers, Numbers DEF EmuInv, EmuType
  <2>2. \A j \in Jobs : AnswerSound(job'[j], runtime', builds')
    BY <1>2, <2>1
  <2> QED
    BY <2>2 DEF AnswersSound
<1> QED
  BY <1>1, <1>3, <1>4, <1>5, <1>6 DEF EmuInv

LEMMA JobStepSound == ASSUME EmuInv, NEW j \in Jobs, JobStep(j) PROVE EmuInv'
<1>1. CASE Compare(j) \/ ListAgain(j) \/ Record(j) \/ Kill(j) \/ WaitServed(j) \/ WaitMisled(j)
           \/ WaitTaken(j) \/ WaitEnds(j) \/ Gate(j)
  <2>1. UNCHANGED tabVars
    BY <1>1 DEF Compare, ListAgain, Record, Kill, WaitServed, WaitMisled, WaitTaken, WaitEnds,
       Gate
  <2>2. Kept
    BY <1>1, CompareKept, ListKept, RecordKept, KillKept, WaitKept, GateKept
  <2> QED
    BY <2>1, <2>2, TabsUntouched DEF EmuInv, Kept
<1>2. CASE Status(j)
  <2>1. TabsInv'
    <3>1. CASE job[j].kind = "restart"
      <4>1. Project(j) \in Projects
        BY <1>2, <3>1, Beyond DEF Status, On
      <4> QED
        BY <1>2, <3>1, <4>1, PortRead DEF Status
    <3>2. CASE job[j].kind # "restart"
      BY <1>2, <3>2, TabsUntouched DEF Status, tabVars, EmuInv
    <3> QED
      BY <3>1, <3>2
  <2> QED
    BY <1>2, <2>1, StatusKept DEF EmuInv, Kept
<1>3. CASE ResolveTab(j)
  BY <1>3, TabKept DEF EmuInv, Kept
<1> QED
  BY <1>1, <1>2, <1>3 DEF JobStep

LEMMA EnvironmentSound == ASSUME EmuInv, Environment PROVE EmuInv'
<1>1. ASSUME NEW p \in Projects, Spawns(p) \/ Serves(p) \/ Dialog(p) \/ Crashes(p) \/ Expires(p)
      PROVE  EmuInv'
  <2>1. UNCHANGED tabVars
    BY <1>1 DEF Spawns, Serves, Dialog, Crashes, Expires, Outside
  <2>2. Kept
    BY <1>1, SpawnsKept, ServesKept, OutsideKept
  <2> QED
    BY <2>1, <2>2, TabsUntouched DEF EmuInv, Kept
<1>2. ASSUME NEW p \in Projects, EditPort(p) PROVE EmuInv'
  <2>1. UNCHANGED tabVars /\ UNCHANGED <<runtime, foreign, record, job, jobs, builds, known, blur, cut>>
    BY <1>2 DEF EditPort
  <2>2. webPort' \in [Projects -> Ports] /\ foreign' \subseteq Ports
    BY <1>2 DEF EditPort, EmuInv, EmuType
  <2> QED
    BY <2>1, <2>2, TabsUntouched, PortsKept DEF EmuInv, Kept
<1>3. ASSUME NEW p \in Projects, PortExpires(p) PROVE EmuInv'
  <2>1. Kept
    BY <1>3, PortsKept DEF PortExpires, emuVars, EmuInv, EmuType
  <2> QED
    BY <1>3, <2>1, PortRead DEF PortExpires, EmuInv, Kept
<1>4. CASE ForeignListener
  <2>1. UNCHANGED tabVars /\ UNCHANGED <<runtime, webPort, record, job, jobs, builds, known, blur, cut>>
    BY <1>4 DEF ForeignListener
  <2>2. webPort' \in [Projects -> Ports] /\ foreign' \subseteq Ports
    BY <1>4 DEF ForeignListener, EmuInv, EmuType
  <2> QED
    BY <2>1, <2>2, TabsUntouched, PortsKept DEF EmuInv, Kept
<1> QED
  BY <1>1, <1>2, <1>3, <1>4 DEF Environment

LEMMA EmuStepSound == ASSUME EmuInv, EmuStep PROVE EmuInv'
<1>1. CASE TabsNext /\ UNCHANGED emuVars
  <2>1. Kept
    BY <1>1, PortsKept DEF emuVars, EmuInv, EmuType
  <2> QED
    BY <1>1, <2>1, TabsInductive DEF EmuInv, Kept
<1>2. ASSUME NEW j \in Jobs, NEW kind \in {"run", "restart", "stop", "status"},
             NEW scope \in {Projects} \union {{p} : p \in Projects}, BeginJob(j, kind, scope)
      PROVE  EmuInv'
  <2>1. scope \in SUBSET Projects
    OBVIOUS
  <2>2. Kept /\ UNCHANGED tabVars
    BY <1>2, <2>1, BeginKept DEF BeginJob
  <2> QED
    BY <2>2, TabsUntouched DEF EmuInv, Kept
<1> QED
  BY <1>1, <1>2, JobStepSound, EnvironmentSound DEF EmuStep, TabsNext, Accidents

\* The steps that Studio has a part in.
LEMMA KeysSound ==
    ASSUME EmuInv, NEW j \in Jobs,
           \/ LookStep(j) \/ LookRaises(j) \/ PressFails(j)
           \/ \E q \in Projects \union {Nobody} : Press(j, q) \/ PressLost(j, q)
    PROVE  EmuInv'
<1>1. CASE LookStep(j) \/ LookRaises(j) \/ PressFails(j)
  <2>1. Kept
    BY <1>1, LookKept, RaisesKept, WaitKept
  <2>2. UNCHANGED tabVars
    BY <1>1 DEF LookStep, Refuse, LookRaises, AlreadyRunning, Look, PressFails
  <2> QED
    BY <2>1, <2>2, TabsUntouched DEF EmuInv, Kept
<1>2. ASSUME NEW q \in Projects \union {Nobody}, Press(j, q) PROVE EmuInv'
  <2>1. Project(j) \in Projects
    BY <1>2, Beyond DEF Press, Sends, On, JobSound
  <2>2. ReadPort(Project(j)) /\ UNCHANGED <<tab, chrome, owner, call, calls, accidents, taken>>
    BY <1>2 DEF Press, Sends
  <2> QED
    BY <1>2, <2>1, <2>2, PortRead, PressKept DEF EmuInv, Kept
<1>3. ASSUME NEW q \in Projects \union {Nobody}, PressLost(j, q) PROVE EmuInv'
  <2>1. UNCHANGED tabVars
    BY <1>3 DEF PressLost, Sends, tabVars
  <2> QED
    BY <1>3, <2>1, TabsUntouched, PressLostKept DEF EmuInv, Kept
<1> QED
  BY <1>1, <1>2, <1>3

LEMMA UserPressesSound == ASSUME EmuInv, NEW p \in Projects, UserPresses(p) PROVE EmuInv'
BY TabsUntouched, OutsideKept DEF UserPresses, Outside, EmuInv, Kept

LEMMA EmuUntouched == ASSUME EmuInv, UNCHANGED <<tabVars, emuVars>> PROVE EmuInv'
BY TabsUntouched, PortsKept DEF emuVars, EmuInv, EmuType, Kept

LEMMA EmuInitInv == ASSUME NEW b \in Scenes, EmuInit(b) PROVE EmuInv
<1>1. TabsInv /\ port \in [Projects -> Ports]
  BY TabsInitInv DEF EmuInit, TabsInit
<1>2. EmuType
  <2>1. runtime \in [Projects -> RuntimeType]
    <3>1. webPort \in [Projects -> Ports]
      BY <1>1 DEF EmuInit
    <3>2. ASSUME b.up \in Projects PROVE FromBefore(b.up) \in RuntimeType
      <4>1. 1 \in 0..MaxBuilds
        BY <3>2, EmulatorAssumption
      <4> QED
        BY <3>1, <3>2, <4>1 DEF FromBefore, RuntimeType, Runtimes
    <3> QED
      BY <3>2, DownType DEF EmuInit
  <2>2. known \in [Projects -> 0..MaxBuilds] /\ builds \in 0..MaxBuilds
    BY Numbers, EmulatorAssumption DEF EmuInit, NoPid
  <2> QED
    BY <1>1, <2>1, <2>2, EmulatorAssumption DEF EmuInit, EmuType
<1>3. JobsSound
  BY OffSound DEF EmuInit, JobsSound, JobSound
<1>4. RecordSound
  BY OffSound DEF EmuInit, RecordSound
<1>5. AnswersSound
  <2>1. AnswerSound(Off, runtime, builds)
    BY <1>2, OffAnswers, Numbers DEF EmuType
  <2> QED
    BY <2>1 DEF EmuInit, AnswersSound
<1> QED
  BY <1>1, <1>2, <1>3, <1>4, <1>5 DEF EmuInv

LEMMA EmuInvImplies == EmuInv => EmuTypeOK /\ RecordTruthful /\ AnswerTruthful
<1>1. TabsInv => TabsTypeOK
  BY DEF TabsInv, WorldType, CallsSound, Sound, TabsTypeOK, CallType, Kinds, Steps, Recoverable,
         TabType, Health, Gone
<1>2. EmuInv => EmuTypeOK
  BY <1>1 DEF EmuInv, EmuType, JobsSound, JobType, RuntimeType, EmuTypeOK
<1>3. EmuInv => RecordTruthful
  BY Uninvolved DEF EmuInv, RecordSound, RecordTruthful, Fog
<1>4. EmuInv => AnswerTruthful
  BY DEF EmuInv, AnswersSound, AnswerSound, AnswerTruthful
<1> QED
  BY <1>2, <1>3, <1>4

-----------------------------------------------------------------------------
(* The tabs, now that the emulator calls resolve them as well.             *)

LEMMA PoolUntouched == UNCHANGED <<tab, owner, call, accidents>> => UNCHANGED Pool!pool
BY DEF Pool!pool, Live, Suspected

\* The tab that is resolved anew after a runtime came up is the project's own, or nobody's.
LEMMA ResolveTabSettles == ASSUME EmuInv, NEW j \in Jobs, ResolveTab(j) PROVE Pool!PoolNext
<1>1. PICK k : k = <<Project(j), port[Project(j)]>>
  OBVIOUS
<1>2. Project(j) \in Projects
  BY Beyond DEF ResolveTab, JobSound
<1>3. TabsInv /\ k \in Keys
  BY <1>1, <1>2 DEF EmuInv, TabsInv, WorldType, Keys
<1>4. \/ \E t \in Tabs, created \in BOOLEAN : Reresolved(k, TRUE, t, created)
      \/ NotReresolved(k, TRUE)
  BY <1>1 DEF ResolveTab
<1>5. accidents' = accidents
  BY DEF ResolveTab
<1>6. Pool!Settle(k)
  BY <1>3, <1>4, <1>5, ReresolvedSettles, NotReresolvedSettles
<1> QED
  BY <1>3, <1>6 DEF Pool!PoolNext

\* So the emulators leave the pool alone, or do what it allows.
LEMMA EmuStepPooled ==
    ASSUME EmuInv, TabsExclusive, EmuStep PROVE [Pool!PoolNext]_Pool!pool
<1>1. CASE TabsNext
  BY <1>1, PoolStep DEF EmuInv
<1>2. ASSUME NEW j \in Jobs, JobStep(j) PROVE [Pool!PoolNext]_Pool!pool
  <2>1. CASE ResolveTab(j)
    BY <2>1, ResolveTabSettles
  <2>2. CASE ~ResolveTab(j)
    <3>1. UNCHANGED <<tab, owner, call, accidents>>
      BY <1>2, <2>2 DEF JobStep, Compare, ListAgain, Record, Status, Kill, WaitServed, WaitMisled,
         WaitTaken, WaitEnds, Gate, tabVars
    <3> QED
      BY <3>1, PoolUntouched
  <2> QED
    BY <2>1, <2>2
<1>3. ASSUME NEW j \in Jobs, NEW kind \in {"run", "restart", "stop", "status"},
             NEW scope \in {Projects} \union {{p} : p \in Projects}, BeginJob(j, kind, scope)
      PROVE  [Pool!PoolNext]_Pool!pool
  BY <1>3, PoolUntouched DEF BeginJob, tabVars
<1>4. CASE Environment
  <2>1. UNCHANGED <<tab, owner, call, accidents>>
    BY <1>4 DEF Environment, Spawns, Serves, Dialog, Crashes, Outside, Expires, EditPort,
       PortExpires, ForeignListener, tabVars
  <2> QED
    BY <2>1, PoolUntouched
<1> QED
  BY <1>1, <1>2, <1>3, <1>4 DEF EmuStep, TabsNext, Accidents

LEMMA KeysPooled ==
    ASSUME NEW j \in Jobs,
           \/ LookStep(j) \/ LookRaises(j) \/ PressFails(j)
           \/ \E q \in Projects \union {Nobody} : Press(j, q) \/ PressLost(j, q)
    PROVE  UNCHANGED Pool!pool
<1>1. UNCHANGED <<tab, owner, call, accidents>>
  BY DEF LookStep, Refuse, LookRaises, AlreadyRunning, Look, PressFails, Press, PressLost, Sends,
         tabVars
<1> QED
  BY <1>1, PoolUntouched
=============================================================================
