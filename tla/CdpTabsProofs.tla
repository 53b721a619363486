---------------------------- MODULE CdpTabsProofs ----------------------------
(***************************************************************************)
(* The tabs of any number of projects, ports and calls: no tab is          *)
(* registered for two of them, a click is sent at most twice, and what the *)
(* calls, the recoveries and the healing do to the registry and to Chrome  *)
(* is what TabPool allows.                                                 *)
(***************************************************************************)
EXTENDS CdpTabs, TLAPS

CallType ==
    [pc : Steps, kind : Kinds, proj : Projects \union {Nobody},
     tab : Tabs \union {NoTab}, mode : {"first", "mend", "again"},
     why : Recoverable \union {"none", "down", "final", "other"},
     healed : BOOLEAN, healing : BOOLEAN, stale : SUBSET Keys,
     force : Tabs \union {NoTab}, bad : SUBSET Tabs, lands : 0..1]

\* A call has a tab while it has a session; what heals knows it; and nothing has landed that was not a click, or before the first failure.
Sound(x) ==
    /\ x \in CallType
    /\ x.pc \in {"attach", "act", "mend", "reload"} => x.tab \in Tabs
    /\ x.pc \in {"heal", "drop", "relaunch"} => x.healing
    /\ ~Recovers(x.kind) => x.lands = 0
    /\ x.mode = "first" /\ (x.pc \in {"open", "attach", "act"} \/ x.healing) => x.lands = 0

WorldType ==
    /\ tab \in [Tabs -> [at : Ports \union {Blank}, is : Health]] /\ chrome \in BOOLEAN
    /\ owner \in [Keys -> Tabs \union {NoTab}] /\ port \in [Projects -> Ports]
    /\ calls \in 0..MaxCalls /\ accidents \in 0..MaxAccidents /\ taken \subseteq Tabs

CallsSound == /\ call = [c \in Calls |-> call[c]]
              /\ \A c \in Calls : Sound(call[c])

TabsInv == WorldType /\ CallsSound

USE DEF At, To, Steps, Kinds, Recovers, Recoverable, CallType, Begun, Idle

\* A step that changes one call to a sound one.
LEMMA OneCall ==
    ASSUME CallsSound, NEW c \in Calls, NEW x, Sound(x), call' = [call EXCEPT ![c] = x]
    PROVE  CallsSound'
BY DEF CallsSound, Sound

LEMMA DoneSound ==
    ASSUME CallsSound, NEW c \in Calls, call' = Done(c)
    PROVE  CallsSound'
<1>1. Sound(Idle)
  BY DEF Sound
<1> QED
  BY <1>1, OneCall DEF Done

LEMMA FailsSound ==
    ASSUME CallsSound, NEW c \in Calls, NEW why \in Recoverable \union {"none", "down", "final", "other"},
           NEW lands \in {0, 1},
           call[c].pc \in {"open", "attach", "act"} \/ (call[c].pc # "idle" /\ call[c].healing),
           call' = Fails(c, why, lands)
    PROVE  CallsSound'
<1>1. CASE call[c].mode = "first" /\ Recovers(call[c].kind) /\ why \in Recoverable
  <2> DEFINE x == [pc |-> "recover", kind |-> call[c].kind, proj |-> call[c].proj, tab |-> NoTab,
                   mode |-> "first", why |-> why, healed |-> FALSE, healing |-> FALSE,
                   stale |-> {}, force |-> NoTab, bad |-> {}, lands |-> call[c].lands + lands]
  <2>1. call' = [call EXCEPT ![c] = x]
    BY <1>1 DEF Fails, Anew, CallsSound
  <2>2. call[c].lands = 0 /\ Sound(call[c])
    BY <1>1 DEF CallsSound, Sound
  <2>3. Sound(x)
    BY <1>1, <2>2 DEF Sound
  <2> QED
    BY <2>1, <2>3, OneCall
<1>2. CASE ~(call[c].mode = "first" /\ Recovers(call[c].kind) /\ why \in Recoverable)
           /\ call[c].mode = "mend"
  <2> DEFINE x == Begun("recreate", call[c].kind, call[c].proj, call[c].lands)
  <2>1. call' = [call EXCEPT ![c] = x]
    BY <1>2 DEF Fails, Anew, CallsSound
  <2>2. Sound(x)
    BY <1>2 DEF CallsSound, Sound
  <2> QED
    BY <2>1, <2>2, OneCall
<1>3. CASE ~(call[c].mode = "first" /\ Recovers(call[c].kind) /\ why \in Recoverable)
           /\ call[c].mode # "mend"
  BY <1>3, DoneSound DEF Fails
<1> QED
  BY <1>1, <1>2, <1>3

LEMMA AgainSound ==
    ASSUME CallsSound, NEW c \in Calls, call[c].pc # "idle", call' = Again(c)
    PROVE  CallsSound'
<1> DEFINE x == [pc |-> "open", kind |-> call[c].kind, proj |-> call[c].proj, tab |-> NoTab,
                 mode |-> "again", why |-> "none", healed |-> FALSE, healing |-> FALSE,
                 stale |-> {}, force |-> NoTab, bad |-> {}, lands |-> call[c].lands]
<1>1. call' = [call EXCEPT ![c] = x]
  BY DEF Again, Anew, CallsSound
<1>2. Sound(x)
  BY DEF CallsSound, Sound
<1> QED
  BY <1>1, <1>2, OneCall

LEMMA MendsSound ==
    ASSUME CallsSound, NEW c \in Calls, call[c].pc # "idle", call' = Mends(c)
    PROVE  CallsSound'
<1> DEFINE x == [pc |-> "open", kind |-> call[c].kind, proj |-> call[c].proj, tab |-> NoTab,
                 mode |-> "mend", why |-> "none", healed |-> FALSE, healing |-> FALSE,
                 stale |-> {}, force |-> NoTab, bad |-> {}, lands |-> call[c].lands]
<1>1. call' = [call EXCEPT ![c] = x]
  BY DEF Mends, Anew, CallsSound
<1>2. Sound(x)
  BY DEF CallsSound, Sound
<1> QED
  BY <1>1, <1>2, OneCall

\* What a session, a recovery or a healing goes on with.
LEMMA AnewSound ==
    ASSUME CallsSound, NEW c \in Calls, call[c].pc # "idle", NEW f \in Tabs \union {NoTab},
           \/ call' = Anew(c, "force") \/ call' = Anew(c, "recreate")
           \/ call' = [Anew(c, "recreate") EXCEPT ![c].force = f]
    PROVE  CallsSound'
<1> DEFINE x(pc, g) ==
      [pc |-> pc, kind |-> call[c].kind, proj |-> call[c].proj, tab |-> NoTab,
       mode |-> "first", why |-> "none", healed |-> FALSE, healing |-> FALSE,
       stale |-> {}, force |-> g, bad |-> {}, lands |-> call[c].lands]
<1>1. PICK pc \in {"force", "recreate"}, g \in {f, NoTab} : call' = [call EXCEPT ![c] = x(pc, g)]
  BY ZenonT(40) DEF Anew, CallsSound
<1>2. Sound(x(pc, g))
  BY DEF CallsSound, Sound
<1> HIDE DEF x
<1> QED
  BY <1>1, <1>2, OneCall

LEMMA HealsSound ==
    ASSUME CallsSound, NEW c \in Calls, call[c].pc # "idle", call[c].healing, call' = Heals(c)
    PROVE  CallsSound'
<1>1. CASE call[c].kind = "heal"
  BY <1>1, DoneSound DEF Heals
<1>2. CASE call[c].kind # "heal"
  <2> DEFINE x == [call[c] EXCEPT !.pc = "open", !.healing = FALSE, !.why = "none",
                                  !.force = NoTab, !.bad = {}]
  <2>1. call' = [call EXCEPT ![c] = x]
    BY <1>2 DEF Heals, CallsSound, Sound
  <2>2. Sound(x)
    <3>1. call[c] \in CallType
      BY DEF CallsSound, Sound
    <3>2. x \in CallType
      BY <3>1, ZenonT(40)
    <3> QED
      BY <3>1, <3>2 DEF CallsSound, Sound
  <2> QED
    BY <2>1, <2>2, OneCall
<1> QED
  BY <1>1, <1>2

LEMMA NotRecreatedSound ==
    ASSUME CallsSound, NEW c \in Calls, call[c].pc \in {"recreate", "close"}, NotRecreated(c)
    PROVE  CallsSound'
<1>1. CASE call[c].healing
  <2> DEFINE x == [call[c] EXCEPT !.pc = "relaunch", !.force = NoTab, !.bad = {}]
  <2>1. call' = [call EXCEPT ![c] = x]
    BY <1>1 DEF NotRecreated, CallsSound, Sound
  <2>2. Sound(x)
    <3>1. call[c] \in CallType
      BY DEF CallsSound, Sound
    <3>2. x \in CallType
      BY <3>1
    <3> QED
      BY <1>1, <3>1, <3>2 DEF CallsSound, Sound
  <2> QED
    BY <2>1, <2>2, OneCall
<1>2. CASE ~call[c].healing
  BY <1>2, DoneSound DEF NotRecreated
<1> QED
  BY <1>1, <1>2

LEMMA SessionFailsSound ==
    ASSUME CallsSound, NEW c \in Calls, call[c].pc \in {"open", "attach"},
           NEW why \in {"down", "detached"}, SessionFails(c, why)
    PROVE  CallsSound'
<1>1. CASE call[c].healed
  BY <1>1, FailsSound DEF SessionFails
<1>2. CASE ~call[c].healed
  <2> DEFINE x == [call[c] EXCEPT !.pc = "heal", !.healed = TRUE, !.healing = TRUE,
                                  !.why = why, !.tab = NoTab]
  <2>1. call' = [call EXCEPT ![c] = x]
    BY <1>2 DEF SessionFails, CallsSound, Sound
  <2>2. Sound(x)
    <3>1. call[c] \in CallType
      BY DEF CallsSound, Sound
    <3>2. x \in CallType
      BY <3>1
    <3> QED
      BY <3>1, <3>2 DEF CallsSound, Sound
  <2> QED
    BY <2>1, <2>2, OneCall
<1> QED
  BY <1>1, <1>2

-----------------------------------------------------------------------------
(* Types of the registry and of Chrome.                                    *)

TabType == [Tabs -> [at : Ports \union {Blank}, is : Health]]
USE DEF TabType, Health, Gone, Showing

LEMMA KeyType ==
    ASSUME TabsInv, NEW c \in Calls, Keyed(c)
    PROVE  Key(c) \in Keys /\ Key(c)[1] = call[c].proj /\ Key(c)[2] \in Ports
BY DEF TabsInv, WorldType, Key, Keys, Keyed

LEMMA ClosingType == ASSUME tab \in TabType, NEW ts PROVE Closing(ts) \in TabType
BY DEF Closing

LEMMA OpeningType ==
    ASSUME tab \in TabType, NEW ts, NEW t \in Tabs, NEW at \in Ports \union {Blank}
    PROVE  Opening(ts, t, at) \in TabType
BY ClosingType DEF Opening

LEMMA AnyOpening ==
    ASSUME WorldType
    PROVE  \A ts : \A t \in Tabs : Opening(ts, t, Blank) \in TabType
BY OpeningType DEF WorldType

LEMMA VanishedType ==
    ASSUME WorldType, NEW ts PROVE Vanished(ts) \in [Keys -> Tabs \union {NoTab}]
BY DEF WorldType, Vanished

LEMMA KeepersInTabs ==
    ASSUME WorldType, NEW k \in Keys PROVE Keepers(k) \subseteq Live /\ Live \subseteq Tabs
BY DEF Keepers, Candidates, Live, Answering

LEMMA FindTabSound ==
    ASSUME TabsInv, NEW c \in Calls, FindTab(c)
    PROVE  TabsInv'
<1>1. Key(c) \in Keys /\ WorldType /\ CallsSound
  BY KeyType DEF FindTab, TabsInv
<1>2. \E t \in Tabs : /\ tab' \in TabType
                      /\ owner' = [Vanished(Live) EXCEPT ![Key(c)] = t]
                      /\ call' = [To(c, "attach") EXCEPT ![c].tab = t]
  <2>1. \A t \in Keepers(Key(c)) : t \in Tabs
    BY <1>1, KeepersInTabs
  <2>2. \A ts : Closing(ts) \in TabType
    BY <1>1, ClosingType DEF WorldType
  <2>3. \A t \in Tabs : Opening({}, t, Blank) \in TabType
    BY <1>1, OpeningType DEF WorldType
  <2> QED
    BY <2>1, <2>2, <2>3 DEF FindTab, Fresh
<1>3. PICK t \in Tabs : /\ tab' \in TabType
                       /\ owner' = [Vanished(Live) EXCEPT ![Key(c)] = t]
                       /\ call' = [To(c, "attach") EXCEPT ![c].tab = t]
  BY <1>2
<1>4. WorldType'
  BY <1>1, <1>3, VanishedType DEF FindTab, WorldType
<1>5. CallsSound'
  <2> DEFINE x == [call[c] EXCEPT !.pc = "attach", !.tab = t]
  <2>1. call' = [call EXCEPT ![c] = x]
    BY <1>1, <1>3 DEF CallsSound, Sound
  <2>2. Sound(x)
    <3>1. call[c] \in CallType /\ call[c].pc = "open"
      BY <1>1 DEF CallsSound, Sound, FindTab
    <3>2. x \in CallType
      BY <3>1
    <3> QED
      BY <1>1, <3>1, <3>2 DEF CallsSound, Sound
  <2> QED
    BY <1>1, <2>1, <2>2, OneCall
<1> QED
  BY <1>4, <1>5 DEF TabsInv

LEMMA AttachSound ==
    ASSUME TabsInv, NEW c \in Calls, Attach(c)
    PROVE  TabsInv'
<1>1. WorldType'
  BY SMTT(40) DEF TabsInv, WorldType, CallsSound, Sound, Attach
<1>2. CallsSound'
  <2> DEFINE x == [call[c] EXCEPT !.pc = IF call[c].mode = "mend" THEN "mend" ELSE "act",
                                  !.healed = FALSE]
  <2>1. call' = [call EXCEPT ![c] = x]
    BY DEF TabsInv, CallsSound, Sound, Attach
  <2>2. Sound(x)
    <3>1. Sound(call[c]) /\ call[c].pc = "attach"
      BY DEF TabsInv, CallsSound, Attach
    <3>2. x \in CallType
      BY <3>1 DEF Sound
    <3> QED
      BY <3>1, <3>2 DEF Sound
  <2> QED
    BY <2>1, <2>2, OneCall DEF TabsInv
<1> QED
  BY <1>1, <1>2 DEF TabsInv

LEMMA NavigatesType ==
    ASSUME TabsInv, NEW c \in Calls, call[c].pc = "act", Navigates(c)
    PROVE  tab' \in TabType /\ taken' \subseteq Tabs /\ accidents' \in 0..MaxAccidents
<1>1. call[c].tab \in Tabs /\ WorldType
  BY DEF TabsInv, CallsSound, Sound
<1>2. tab' \in TabType
  BY <1>1 DEF WorldType, Navigates
<1>3. taken' \subseteq Tabs
  BY <1>1 DEF WorldType, Navigates
<1> QED
  BY <1>1, <1>2, <1>3, TabsAssumption DEF WorldType, Navigates, Accident

\* The steps of a session that end it or fail.
LEMMA SessionSound ==
    ASSUME TabsInv, NEW c \in Calls,
           \/ FindFirst(c) \/ FindTabFails(c)
           \/ AttachTimesOut(c) \/ ReadTimesOut(c) \/ AttachFails(c)
           \/ Act(c) \/ Walk(c) \/ ActTimesOut(c) \/ ActMeetsNoPage(c)
    PROVE  TabsInv'
<1>1. WorldType /\ CallsSound
  BY DEF TabsInv
<1>2. CASE FindTabFails(c)
  BY <1>1, <1>2, SessionFailsSound, VanishedType DEF FindTabFails, TabsInv, WorldType
<1>3. CASE AttachTimesOut(c)
  BY <1>1, <1>3, FailsSound DEF AttachTimesOut, TabsInv, WorldType
<1>4. CASE ReadTimesOut(c)
  BY <1>1, <1>4, FailsSound DEF ReadTimesOut, TabsInv, WorldType
<1>5. CASE AttachFails(c)
  BY <1>1, <1>5, SessionFailsSound DEF AttachFails, TabsInv, WorldType
<1>6. CASE Act(c)
  BY <1>1, <1>6, NavigatesType, DoneSound DEF Act, TabsInv, WorldType
<1>7. CASE Walk(c)
  BY <1>1, <1>7, NavigatesType DEF Walk, TabsInv, WorldType, CallsSound
<1>8. CASE FindFirst(c)
  <2>1. PICK t \in Tabs : call' = [To(c, "attach") EXCEPT ![c].tab = t]
    BY <1>8 DEF FindFirst, Live
  <2> DEFINE x == [call[c] EXCEPT !.pc = "attach", !.tab = t]
  <2>2. call' = [call EXCEPT ![c] = x]
    BY <1>1, <2>1 DEF CallsSound, Sound
  <2>3. call[c] \in CallType /\ call[c].pc = "open"
    BY <1>1, <1>8 DEF CallsSound, Sound, FindFirst
  <2>4. x \in CallType
    BY <2>3
  <2>5. Sound(x)
    BY <1>1, <2>3, <2>4 DEF CallsSound, Sound
  <2> QED
    BY <1>1, <1>8, <2>2, <2>5, OneCall DEF FindFirst, TabsInv, WorldType
<1>9. CASE ActTimesOut(c)
  <2>1. PICK lands \in {0, 1} : call' = Fails(c, "timeout", lands)
    BY <1>9 DEF ActTimesOut
  <2> QED
    BY <1>1, <1>9, <2>1, NavigatesType, FailsSound DEF ActTimesOut, TabsInv, WorldType
<1>10. CASE ActMeetsNoPage(c)
  BY <1>1, <1>10, FailsSound DEF ActMeetsNoPage, TabsInv, WorldType
<1> QED
  BY <1>2, <1>3, <1>4, <1>5, <1>6, <1>7, <1>8, <1>9, <1>10

LEMMA ReresolvedType ==
    ASSUME WorldType, NEW k \in Keys, NEW forced, NEW t \in Tabs, NEW created,
           Reresolved(k, forced, t, created)
    PROVE  tab' \in TabType /\ owner' \in [Keys -> Tabs \union {NoTab}]
<1>1. PICK woken, refused :
        tab' = [u \in Tabs |->
                  IF u \in Candidates(k) \ ({t} \union refused) THEN Gone
                  ELSE IF created /\ u = t THEN Showing(k[2])
                  ELSE [v \in Tabs |-> IF v \in woken THEN Showing(tab[v].at) ELSE tab[v]][u]]
  BY ZenonT(40) DEF Reresolved
<1>2. k[2] \in Ports
  BY DEF Keys
<1> QED
  BY <1>1, <1>2 DEF WorldType, Reresolved

\* The steps of a recovery.
LEMMA RecoverySound ==
    ASSUME TabsInv, NEW c \in Calls,
           \/ Reattached(c) \/ Reresolve(c) \/ ReresolveFails(c) \/ RecoverFirst(c)
           \/ Reload(c) \/ Mend(c)
    PROVE  TabsInv'
<1>1. WorldType /\ CallsSound
  BY DEF TabsInv
<1>2. CASE Reattached(c)
  BY <1>1, <1>2, AgainSound DEF Reattached, TabsInv, WorldType
<1>3. CASE Reresolve(c)
  <2>1. PICK t \in Tabs, created \in BOOLEAN :
          /\ Reresolved(Key(c), At(c, "force"), t, created)
          /\ call' = IF At(c, "force") \/ created THEN Again(c)
                     ELSE [To(c, "reload") EXCEPT ![c].tab = t]
    BY <1>3 DEF Reresolve
  <2>2. Key(c) \in Keys /\ call[c].pc # "idle"
    BY <1>3, KeyType DEF Reresolve
  <2>3. WorldType'
    <3>1. tab' \in TabType /\ owner' \in [Keys -> Tabs \union {NoTab}]
      BY <1>1, <2>1, <2>2, ReresolvedType
    <3> QED
      BY <1>1, <1>3, <3>1 DEF Reresolve, WorldType
  <2>4. CASE At(c, "force") \/ created
    BY <1>1, <2>1, <2>2, <2>3, <2>4, AgainSound DEF TabsInv
  <2>5. CASE ~(At(c, "force") \/ created)
    <3> DEFINE x == [call[c] EXCEPT !.pc = "reload", !.tab = t]
    <3>1. call' = [call EXCEPT ![c] = x]
      BY <1>1, <2>1, <2>5 DEF CallsSound, Sound
    <3>2. Sound(x)
      <4>1. call[c] \in CallType /\ call[c].pc = "recover"
        BY <1>1, <1>3, <2>5 DEF CallsSound, Sound, Reresolve
      <4>2. x \in CallType
        BY <4>1
      <4> QED
        BY <1>1, <4>1, <4>2 DEF CallsSound, Sound
    <3> QED
      BY <1>1, <2>3, <3>1, <3>2, OneCall DEF TabsInv
  <2> QED
    BY <2>4, <2>5
<1>4. CASE ReresolveFails(c)
  <2>1. tab' \in TabType /\ owner' \in [Keys -> Tabs \union {NoTab}]
    BY <1>1, <1>4, ClosingType DEF ReresolveFails, NotReresolved, WorldType
  <2> QED
    BY <1>1, <1>4, <2>1, MendsSound DEF ReresolveFails, TabsInv, WorldType
<1>5. CASE Reload(c)
  BY <1>1, <1>5, AgainSound, MendsSound, AnewSound DEF Reload, TabsInv, WorldType
<1>6. CASE Mend(c)
  <2>1. call[c].tab \in Tabs \union {NoTab} /\ call[c].pc # "idle"
    BY <1>1, <1>6 DEF Mend, CallsSound, Sound
  <2> QED
    BY <1>1, <1>6, <2>1, AgainSound, AnewSound, DoneSound DEF Mend, TabsInv, WorldType
<1>7. CASE RecoverFirst(c)
  BY <1>1, <1>7, MendsSound DEF RecoverFirst, TabsInv, WorldType
<1> QED
  BY <1>2, <1>3, <1>4, <1>5, <1>6, <1>7

\* The steps of the healing.
LEMMA HealingSound ==
    ASSUME TabsInv, NEW c \in Calls, HealStep(c)
    PROVE  TabsInv'
<1>1. WorldType /\ CallsSound
  BY DEF TabsInv
<1>2. CASE HealFindsAllWell(c)
  <2>1. call[c].pc # "idle" /\ call[c].healing
    BY <1>1, <1>2 DEF HealFindsAllWell, CallsSound, Sound
  <2> QED
    BY <1>1, <1>2, <2>1, HealsSound, VanishedType DEF HealFindsAllWell, TabsInv, WorldType
<1>3. CASE HealFindsBadTabs(c)
  <2>1. PICK stale \in SUBSET Keys, f \in Tabs :
          call' = [To(c, "drop") EXCEPT ![c].stale = stale, ![c].force = f]
    BY <1>3 DEF HealFindsBadTabs, Live
  <2> DEFINE x == [call[c] EXCEPT !.pc = "drop", !.stale = stale, !.force = f]
  <2>2. call' = [call EXCEPT ![c] = x]
    BY <1>1, <2>1 DEF CallsSound, Sound
  <2>3. call[c] \in CallType /\ call[c].pc = "heal"
    BY <1>1, <1>3 DEF CallsSound, Sound, HealFindsBadTabs
  <2>4. x \in CallType
    BY <2>3
  <2>5. Sound(x)
    BY <1>1, <2>3, <2>4 DEF CallsSound, Sound
  <2> QED
    BY <1>1, <1>3, <2>2, <2>5, OneCall, VanishedType DEF HealFindsBadTabs, TabsInv, WorldType
<1>4. CASE HealDrops(c)
  <2> DEFINE x == [call[c] EXCEPT !.pc = "recreate", !.stale = {}]
  <2>1. call' = [call EXCEPT ![c] = x]
    BY <1>1, <1>4 DEF CallsSound, Sound, HealDrops
  <2>2. call[c] \in CallType /\ call[c].pc = "drop"
    BY <1>1, <1>4 DEF CallsSound, Sound, HealDrops
  <2>3. x \in CallType
    BY <2>2
  <2>4. Sound(x)
    BY <1>1, <2>2, <2>3 DEF CallsSound, Sound
  <2>5. owner' \in [Keys -> Tabs \union {NoTab}]
    BY <1>1, <1>4 DEF HealDrops, WorldType
  <2> QED
    BY <1>1, <1>4, <2>1, <2>4, <2>5, OneCall DEF HealDrops, TabsInv, WorldType
<1>5. CASE HealFindsBadPage(c)
  <2> DEFINE x == [call[c] EXCEPT !.pc = "recreate"]
  <2>1. call' = [call EXCEPT ![c] = x]
    BY <1>1, <1>5 DEF CallsSound, Sound, HealFindsBadPage
  <2>2. call[c].pc = "heal"
    BY <1>5 DEF HealFindsBadPage
  <2>3. Sound(x)
    BY <1>1, <2>2 DEF CallsSound, Sound
  <2> QED
    BY <1>1, <1>5, <2>1, <2>3, OneCall DEF HealFindsBadPage, TabsInv, WorldType
<1>6. CASE HealFindsNoPage(c)
  <2>1. call[c].pc # "idle" /\ call[c].healing /\ call[c] \in CallType
    BY <1>1, <1>6 DEF HealFindsNoPage, CallsSound, Sound
  <2>2. CallsSound'
    BY <1>1, <1>6, <2>1, HealsSound, FailsSound DEF HealFindsNoPage
  <2>3. tab' \in TabType
    BY <1>1, <1>6, AnyOpening DEF HealFindsNoPage, Fresh, WorldType
  <2> QED
    BY <1>1, <1>6, <2>2, <2>3 DEF HealFindsNoPage, TabsInv, WorldType
<1>7. CASE Recreate(c)
  <2>1. PICK bad \in SUBSET Tabs : call' = [To(c, "close") EXCEPT ![c].bad = bad]
    BY <1>7 DEF Recreate, Live
  <2> DEFINE x == [call[c] EXCEPT !.pc = "close", !.bad = bad]
  <2>2. call' = [call EXCEPT ![c] = x]
    BY <1>1, <2>1 DEF CallsSound, Sound
  <2>3. call[c] \in CallType /\ call[c].pc = "recreate"
    BY <1>1, <1>7 DEF CallsSound, Sound, Recreate
  <2>4. x \in CallType
    BY <2>3
  <2>5. Sound(x)
    BY <1>1, <2>3, <2>4 DEF CallsSound, Sound
  <2> QED
    BY <1>1, <1>7, <2>2, <2>5, OneCall DEF Recreate, TabsInv, WorldType
<1>8. CASE RecreateFindsNothing(c)
  BY <1>1, <1>8, NotRecreatedSound DEF RecreateFindsNothing, TabsInv, WorldType
<1>9. CASE RecreateCloses(c)
  <2>1. CallsSound'
    BY <1>1, <1>9, HealsSound, AgainSound, NotRecreatedSound DEF RecreateCloses
  <2>2. tab' \in TabType
    BY <1>1, <1>9, AnyOpening DEF RecreateCloses, Fresh, WorldType
  <2>3. owner' \in [Keys -> Tabs \union {NoTab}]
    BY <1>1, <1>9, VanishedType DEF RecreateCloses, WorldType
  <2> QED
    BY <1>1, <1>9, <2>1, <2>2, <2>3 DEF RecreateCloses, TabsInv, WorldType
<1>10. CASE RecreateFails(c)
  BY <1>1, <1>10, NotRecreatedSound DEF RecreateFails, TabsInv, WorldType
<1>11. CASE Relaunch(c)
  <2>1. call[c].pc # "idle" /\ call[c].healing /\ call[c] \in CallType
    BY <1>1, <1>11 DEF Relaunch, CallsSound, Sound
  <2>2. CallsSound'
    BY <1>1, <1>11, <2>1, HealsSound, FailsSound DEF Relaunch
  <2>3. tab' \in TabType
    BY <1>1, <1>11, ClosingType, AnyOpening DEF Relaunch, Fresh, WorldType
  <2> QED
    BY <1>1, <1>11, <2>2, <2>3 DEF Relaunch, TabsInv, WorldType
<1> QED
  BY <1>2, <1>3, <1>4, <1>5, <1>6, <1>7, <1>8, <1>9, <1>10, <1>11 DEF HealStep

LEMMA BeginSound ==
    ASSUME TabsInv, NEW c \in Calls, NEW kind \in Kinds,
           NEW p \in Projects \union {Nobody}, BeginCall(c, kind, p)
    PROVE  TabsInv'
<1> DEFINE x(pc) == [pc |-> pc, kind |-> kind, proj |-> p, tab |-> NoTab, mode |-> "first",
                     why |-> "none", healed |-> FALSE, healing |-> (pc = "heal"), stale |-> {},
                     force |-> NoTab, bad |-> {}, lands |-> 0]
<1>1. PICK pc \in {"heal", "open"} : call' = [call EXCEPT ![c] = x(pc)]
  BY DEF BeginCall
<1>2. Sound(x(pc))
  <2>1. CASE pc = "heal"
    <3>1. x("heal") \in CallType
      OBVIOUS
    <3> QED
      BY <2>1, <3>1 DEF Sound
  <2>2. CASE pc = "open"
    BY <2>2 DEF Sound
  <2> QED
    BY <2>1, <2>2
<1>3. CallsSound'
  BY <1>1, <1>2, OneCall DEF TabsInv
<1>4. WorldType'
  BY TabsAssumption DEF BeginCall, Accident, TabsInv, WorldType
<1> QED
  BY <1>3, <1>4 DEF TabsInv

LEMMA AccidentSound == ASSUME TabsInv, Accidents PROVE TabsInv'
<1>1. Accident => accidents' \in 0..MaxAccidents
  BY TabsAssumption DEF Accident, TabsInv, WorldType
<1>2. CASE ServiceRestarts
  <2>1. Sound(Idle)
    BY DEF Sound
  <2> QED
    BY <1>1, <1>2, <2>1 DEF ServiceRestarts, TabsInv, WorldType, CallsSound
<1>3. CASE ChromeDies
  BY <1>1, <1>3, ClosingType DEF ChromeDies, TabsInv, WorldType, CallsSound
<1>4. ASSUME NEW t \in Tabs, TabChanges(t) \/ UserCloses(t) \/ UserBrowses(t) PROVE TabsInv'
  <2>1. tab' \in TabType
    BY <1>4, ClosingType DEF TabChanges, UserCloses, UserBrowses, TabsInv, WorldType
  <2> QED
    BY <1>1, <1>4, <2>1 DEF TabChanges, UserCloses, UserBrowses, TabsInv, WorldType, CallsSound
<1> QED
  BY <1>2, <1>3, <1>4 DEF Accidents

LEMMA TabsInductive == TabsInv /\ [TabsNext \/ Rest]_tabVars => TabsInv'
<1>1. ASSUME TabsInv, NEW c \in Calls, CallStep(c) PROVE TabsInv'
  BY <1>1, FindTabSound, AttachSound, SessionSound, RecoverySound DEF CallStep
<1>2. ASSUME TabsInv, Rest \/ UNCHANGED tabVars PROVE TabsInv'
  BY <1>2 DEF Rest, tabVars, TabsInv, WorldType, CallsSound
<1> QED
  BY <1>1, <1>2, HealingSound, BeginSound, AccidentSound DEF TabsNext

LEMMA TabsInitInv == TabsInit => TabsInv
<1>1. Sound(Idle)
  BY DEF Sound
<1>2. ASSUME TabsInit
      PROVE  /\ tab \in TabType /\ owner \in [Keys -> Tabs \union {NoTab}]
             /\ port \in [Projects -> Ports]
             /\ calls \in 0..MaxCalls /\ accidents \in 0..MaxAccidents
  BY <1>2, TabsAssumption DEF TabsInit
<1>3. TabsInit => chrome \in BOOLEAN /\ taken \subseteq Tabs
  BY DEF TabsInit
<1>4. TabsInit => CallsSound
  BY <1>1 DEF TabsInit, CallsSound
<1> QED
  BY <1>2, <1>3, <1>4 DEF TabsInv, WorldType

\* The registry, Chrome and the calls keep their types, for any number of each.
THEOREM TabsTypeCorrect == TabsSpec => []TabsTypeOK
<1>1. TabsInv => TabsTypeOK
  BY DEF TabsInv, WorldType, CallsSound, Sound, TabsTypeOK
<1> QED
  BY <1>1, TabsInitInv, TabsInductive, PTL DEF TabsSpec

LEMMA LandsTwiceAtMost == TabsInv => TwiceAtMost
BY DEF TabsInv, CallsSound, Sound, TwiceAtMost

\* A call that was recovered from is retried once: what it sends has landed at most once, and
\* what is never retried has not.
THEOREM AtMostTwice == TabsSpec => []TwiceAtMost
BY LandsTwiceAtMost, TabsInitInv, TabsInductive, PTL DEF TabsSpec

-----------------------------------------------------------------------------
(* The pool of tabs.                                                       *)

Forgets == \A k \in Keys : owner'[k] \in {owner[k], NoTab}

LEMMA LiveAfter == \A ts : tab' = Closing(ts) => Live' = Live \ ts
BY DEF Live, Closing

LEMMA LiveWith ==
    ASSUME WorldType, NEW ts, NEW t \in Tabs, tab' = Opening(ts, t, Blank)
    PROVE  Live' = (Live \ ts) \union {t}
<1>1. tab' = [u \in Tabs |-> IF u = t THEN Showing(Blank) ELSE Closing(ts)[u]]
  BY DEF Opening, Closing
<1>2. \A u \in Tabs \ {t} : tab'[u].is # "gone" <=> u \in Live \ ts
  BY <1>1 DEF Closing, Live
<1>3. tab'[t].is # "gone"
  BY <1>1
<1> QED
  BY <1>2, <1>3 DEF Live

LEMMA VanishedForgets ==
    ASSUME NEW ts PROVE \A k \in Keys : Vanished(ts)[k] \in {owner[k], NoTab}
BY DEF Vanished

\* Steps that open and close nothing.
LEMMA QuietPurges ==
    ASSUME Live' = Live, Forgets, accidents' = accidents
    PROVE  Pool!Purge
BY DEF Pool!Purge, Pool!Forgotten, Forgets

LEMMA NavigatesQuietly ==
    ASSUME TabsInv, NEW c \in Calls, call[c].pc = "act", Navigates(c)
    PROVE  Live' = Live /\ (accidents' = accidents \/ Accident)
<1>1. call[c].tab \in Tabs /\ tab \in TabType
  BY DEF TabsInv, WorldType, CallsSound, Sound
<1>2. PICK at : tab' = [tab EXCEPT ![call[c].tab].at = at]
  BY DEF Navigates
<1>3. accidents' = accidents \/ Accident
  BY DEF Navigates
<1> QED
  BY <1>1, <1>2, <1>3 DEF Live

LEMMA AccidentPurges ==
    ASSUME WorldType, Live' = Live, Forgets, accidents' = accidents \/ Accident
    PROVE  Pool!Purge \/ Pool!Accident
BY QuietPurges, TabsAssumption DEF WorldType, Accident, Pool!Accident, Pool!Forgotten, Forgets

\* Sessions that act, and may be led astray.
LEMMA ActingSteps ==
    ASSUME TabsInv, NEW c \in Calls, Act(c) \/ Walk(c) \/ ActTimesOut(c)
    PROVE  Pool!Purge \/ Pool!Accident
<1>1. Live' = Live /\ (accidents' = accidents \/ Accident)
  BY NavigatesQuietly DEF Act, Walk, ActTimesOut
<1>2. Forgets
  BY DEF Act, Walk, ActTimesOut, Forgets
<1> QED
  BY <1>1, <1>2, AccidentPurges DEF TabsInv

LEMMA QuietSteps ==
    ASSUME TabsInv, NEW c \in Calls,
           \/ FindFirst(c) \/ FindTabFails(c) \/ Attach(c) \/ AttachTimesOut(c)
           \/ ReadTimesOut(c) \/ AttachFails(c) \/ ActMeetsNoPage(c) \/ Reattached(c)
           \/ RecoverFirst(c) \/ Reload(c) \/ Mend(c)
           \/ HealFindsAllWell(c) \/ HealFindsBadTabs(c) \/ HealDrops(c)
           \/ HealFindsBadPage(c) \/ Recreate(c) \/ RecreateFindsNothing(c)
           \/ RecreateFails(c)
    PROVE  Pool!Purge
<1>1. accidents' = accidents
  BY ZenonT(40) DEF FindFirst, FindTabFails, Attach, AttachTimesOut, ReadTimesOut, AttachFails,
     ActMeetsNoPage, Reattached, RecoverFirst, Reload, Mend, HealFindsAllWell,
     HealFindsBadTabs, HealDrops, HealFindsBadPage, Recreate, RecreateFindsNothing,
     RecreateFails
<1>2. Forgets
  BY VanishedForgets
     DEF Forgets, FindFirst, FindTabFails, Attach, AttachTimesOut, ReadTimesOut, AttachFails,
     ActMeetsNoPage, Reattached, RecoverFirst, Reload, Mend,
     HealFindsAllWell, HealFindsBadTabs, HealDrops, HealFindsBadPage, Recreate,
     RecreateFindsNothing, RecreateFails
<1>3. CASE Attach(c)
  <2>1. Live' = Live
    BY <1>3 DEF Attach, TabsInv, WorldType, Live
  <2> QED
    BY <1>1, <1>2, <2>1, QuietPurges
<1>6. CASE tab' = tab
  BY <1>1, <1>2, <1>6, QuietPurges DEF Live
<1> QED
  BY <1>3, <1>6, ZenonT(40) DEF FindFirst, FindTabFails, AttachTimesOut, ReadTimesOut, AttachFails,
     ActMeetsNoPage, Reattached, RecoverFirst, Reload, Mend, HealFindsAllWell, HealFindsBadTabs, HealDrops,
     HealFindsBadPage, Recreate, RecreateFindsNothing, RecreateFails

\* A key comes to have t, or nothing, and closes what only it may close.
LEMMA Settles ==
    ASSUME NEW k \in Keys, NEW t, t \in (Live' \ Pool!Others(k)) \union {NoTab},
           owner'[k] = t, \A j \in Keys \ {k} : owner'[j] \in {owner[j], NoTab},
           Live' \subseteq Live \union {t}, Live \ Live' \subseteq Candidates(k),
           accidents' = accidents
    PROVE  Pool!Settle(k)
BY DEF Pool!Settle, Pool!Others, Pool!Forgotten, Candidates

LEMMA FindTabSettles ==
    ASSUME TabsInv, TabsExclusive, NEW c \in Calls, FindTab(c)
    PROVE  Pool!Settle(Key(c))
<1>0. PICK k : k = Key(c)
  OBVIOUS
<1>1. k \in Keys /\ accidents' = accidents
  BY <1>0, KeyType DEF FindTab
<1>2. \A t \in Tabs : owner' = [Vanished(Live) EXCEPT ![k] = t]
        => owner'[k] = t /\ \A j \in Keys \ {k} : owner'[j] \in {owner[j], NoTab}
  BY <1>1, VanishedForgets DEF Vanished
<1>3. CASE \E t \in Keepers(k), refused \in {{}, Candidates(k)} :
             /\ tab' = Closing(Candidates(k) \ ({t} \union refused))
             /\ owner' = [Vanished(Live) EXCEPT ![k] = t]
  <2>1. PICK t \in Keepers(k), refused \in {{}, Candidates(k)} :
             /\ tab' = Closing(Candidates(k) \ ({t} \union refused))
             /\ owner' = [Vanished(Live) EXCEPT ![k] = t]
    BY <1>3
  <2>2. t \in Live /\ t \in Tabs
    BY <1>1, KeepersInTabs DEF TabsInv
  <2>3. Live' = Live \ (Candidates(k) \ ({t} \union refused))
    BY <2>1, LiveAfter
  <2>4. t = owner[k] \/ t \in Candidates(k)
    BY DEF Keepers
  <2>5. t \notin Pool!Others(k)
    BY <1>1, <2>2, <2>4, TabsAssumption DEF Candidates, Pool!Others, TabsExclusive
  <2> QED
    BY <1>0, <1>1, <1>2, <2>1, <2>2, <2>3, <2>5, Settles
<1>4. CASE \E t \in Fresh : tab' = Opening({}, t, Blank) /\ owner' = [Vanished(Live) EXCEPT ![k] = t]
  <2>1. PICK t \in Fresh : tab' = Opening({}, t, Blank) /\ owner' = [Vanished(Live) EXCEPT ![k] = t]
    BY <1>4
  <2>2. t \in Tabs /\ t \notin Pool!Others(k)
    BY DEF Fresh, Pool!Others
  <2>3. Live' = Live \union {t}
    BY <2>1, <2>2, LiveWith DEF TabsInv
  <2> QED
    BY <1>0, <1>1, <1>2, <2>1, <2>2, <2>3, Settles
<1> QED
  BY <1>0, <1>3, <1>4 DEF FindTab

\* What is left of Chrome's tabs when k has come to have t.
Tidied(k, t, created) ==
    \E woken, refused :
      /\ woken \subseteq Live
      /\ tab' = [u \in Tabs |->
                  IF u \in Candidates(k) \ ({t} \union refused) THEN Gone
                  ELSE IF created /\ u = t THEN Showing(k[2])
                  ELSE [v \in Tabs |-> IF v \in woken THEN Showing(tab[v].at) ELSE tab[v]][u]]

LEMMA ReresolvedTabs ==
    ASSUME NEW k, NEW forced, NEW t, NEW created, Reresolved(k, forced, t, created)
    PROVE  Tidied(k, t, created)
<1> DEFINE slow == {u \in Candidates(k) \ IF forced THEN {owner[k]} ELSE {} : tab[u].is = "slow"}
<1>1. PICK woken, refused :
        /\ woken \in SUBSET slow
        /\ tab' = [u \in Tabs |->
                    IF u \in Candidates(k) \ ({t} \union refused) THEN Gone
                    ELSE IF created /\ u = t THEN Showing(k[2])
                    ELSE [v \in Tabs |-> IF v \in woken THEN Showing(tab[v].at) ELSE tab[v]][u]]
  BY ZenonT(40) DEF Reresolved
<1>2. woken \subseteq Live
  BY <1>1 DEF Candidates
<1> QED
  BY <1>1, <1>2 DEF Tidied

\* Whoever resolves the tab of k anew, for a call or after a runtime came up, settles k.
LEMMA ReresolvedSettles ==
    ASSUME TabsInv, NEW k \in Keys, NEW forced, NEW t \in Tabs, NEW created \in BOOLEAN,
           Reresolved(k, forced, t, created), accidents' = accidents
    PROVE  Pool!Settle(k)
<1>3. t \in IF created THEN Fresh ELSE Candidates(k)
  BY DEF Reresolved
<1>4. t \notin Pool!Others(k) /\ (~created => t \in Live)
  BY <1>3 DEF Fresh, Candidates, Pool!Others
<1>5. owner'[k] = t /\ \A j \in Keys \ {k} : owner'[j] \in {owner[j], NoTab}
  BY DEF Reresolved, TabsInv, WorldType
<1>6. PICK woken, refused :
        /\ woken \subseteq Live
        /\ tab' = [u \in Tabs |->
                    IF u \in Candidates(k) \ ({t} \union refused) THEN Gone
                    ELSE IF created /\ u = t THEN Showing(k[2])
                    ELSE [v \in Tabs |-> IF v \in woken THEN Showing(tab[v].at) ELSE tab[v]][u]]
  <2>1. Tidied(k, t, created)
    BY ReresolvedTabs
  <2> QED
    BY <2>1 DEF Tidied
<1>7. Live' = (Live \ (Candidates(k) \ ({t} \union refused))) \union {t}
  BY <1>4, <1>6 DEF Live, Candidates
<1> QED
  BY <1>4, <1>5, <1>7, Settles

LEMMA NotReresolvedSettles ==
    ASSUME TabsInv, NEW k \in Keys, NEW forced, NotReresolved(k, forced), accidents' = accidents
    PROVE  Pool!Settle(k)
<1>1. owner'[k] = NoTab /\ \A j \in Keys \ {k} : owner'[j] \in {owner[j], NoTab}
  BY DEF NotReresolved, TabsInv, WorldType
<1>2. Live' = Live \/ Live' = Live \ Candidates(k)
  BY LiveAfter DEF NotReresolved, Live
<1> QED
  BY <1>1, <1>2, Settles

LEMMA ReresolveSettles ==
    ASSUME TabsInv, NEW c \in Calls, Reresolve(c) \/ ReresolveFails(c)
    PROVE  Pool!Settle(Key(c))
<1>0. PICK k : k = Key(c)
  OBVIOUS
<1>1. k \in Keys /\ accidents' = accidents
  BY <1>0, KeyType DEF Reresolve, ReresolveFails
<1>2. \/ \E t \in Tabs, created \in BOOLEAN : Reresolved(k, At(c, "force"), t, created)
      \/ NotReresolved(k, At(c, "force"))
  BY <1>0 DEF Reresolve, ReresolveFails
<1> QED
  BY <1>0, <1>1, <1>2, ReresolvedSettles, NotReresolvedSettles

LEMMA ClosesTheSick ==
    ASSUME TabsInv, NEW c \in Calls, HealFindsNoPage(c) \/ RecreateCloses(c)
    PROVE  Pool!Purge
<1>1. PICK t \in Fresh \union {NoTab}, ts \in SUBSET call[c].bad :
        Live' = IF t \in Fresh THEN (Live \ ts) \union {t} ELSE Live
  <2>1. CASE HealFindsNoPage(c)
    <3>1. (\E t \in Fresh : tab' = Opening({}, t, Blank)) \/ tab' = tab
      BY <2>1 DEF HealFindsNoPage
    <3> QED
      <4>1. ASSUME NEW t \in Fresh, tab' = Opening({}, t, Blank)
            PROVE  Live' = Live \union {t}
        BY <4>1, LiveWith DEF Fresh, TabsInv
      <4>2. NoTab \notin Fresh /\ (tab' = tab => Live' = Live)
        BY TabsAssumption DEF Fresh, Live
      <4> QED
        BY <3>1, <4>1, <4>2
  <2>2. CASE RecreateCloses(c)
    <3>1. PICK t \in Fresh, refused \in {{}, call[c].bad} : tab' = Opening(call[c].bad \ refused, t, Blank)
      BY <2>2 DEF RecreateCloses
    <3> QED
      BY <3>1, LiveWith DEF Fresh, TabsInv
  <2> QED
    BY <2>1, <2>2
<1>2. Forgets /\ accidents' = accidents
  BY VanishedForgets DEF HealFindsNoPage, RecreateCloses, Forgets
<1>3. call[c].bad \subseteq Suspected
  BY DEF Suspected
<1>4. Live \ Live' \subseteq call[c].bad /\ (Live' \ Live) \subseteq Fresh
  BY <1>1
<1> QED
  BY <1>2, <1>3, <1>4 DEF Pool!Purge, Pool!Forgotten, Forgets, Fresh

LEMMA ChromeStartsAnew ==
    ASSUME TabsInv, NEW c \in Calls, Relaunch(c)
    PROVE  Pool!Relaunch
<1>1. Live' \subseteq Fresh
  <2>1. CASE \E t \in Fresh : tab' = Opening(Live, t, Blank)
    <3>1. PICK t \in Fresh : tab' = Opening(Live, t, Blank)
      BY <2>1
    <3>2. Live' = (Live \ Live) \union {t}
      BY <3>1, LiveWith DEF Fresh, TabsInv
    <3> QED
      BY <3>2
  <2>2. CASE tab' = Closing(Live)
    BY <2>2, LiveAfter
  <2> QED
    BY <2>1, <2>2 DEF Relaunch
<1>2. owner' = owner /\ accidents' = accidents
  BY DEF Relaunch
<1> QED
  BY <1>1, <1>2 DEF Pool!Relaunch, Pool!Forgotten, Fresh

LEMMA AccidentsAre ==
    ASSUME TabsInv, Accidents
    PROVE  Pool!Accident
<1>1. Accident
  BY DEF Accidents, TabChanges, UserCloses, UserBrowses, ChromeDies, ServiceRestarts
<1>2. Forgets
  BY DEF Accidents, TabChanges, UserCloses, UserBrowses, ChromeDies, ServiceRestarts, Forgets
<1> QED
  BY <1>1, <1>2, TabsAssumption DEF Accident, Pool!Accident, Pool!Forgotten, Forgets, TabsInv, WorldType

LEMMA PoolStep ==
    TabsInv /\ TabsExclusive /\ [TabsNext \/ Rest]_tabVars => [Pool!PoolNext]_Pool!pool
<1> SUFFICES ASSUME TabsInv, TabsExclusive, [TabsNext \/ Rest]_tabVars
             PROVE  [Pool!PoolNext]_Pool!pool
  OBVIOUS
<1>1. ASSUME NEW c \in Calls, CallStep(c) \/ HealStep(c) PROVE Pool!PoolNext
  <2>1. FindTab(c) \/ Reresolve(c) \/ ReresolveFails(c) => Key(c) \in Keys
    BY KeyType DEF FindTab, Reresolve, ReresolveFails
  <2> QED
    BY <1>1, <2>1, QuietSteps, ActingSteps, FindTabSettles, ReresolveSettles,
       ClosesTheSick, ChromeStartsAnew DEF CallStep, HealStep, Pool!PoolNext
<1>2. ASSUME NEW c \in Calls, NEW kind \in Kinds, NEW p \in Projects \union {Nobody},
             BeginCall(c, kind, p)
      PROVE  Pool!PoolNext
  <2>1. Live' = Live /\ Forgets /\ (accidents' = accidents \/ Accident)
    BY <1>2 DEF BeginCall, Live, Forgets
  <2> QED
    BY <2>1, AccidentPurges DEF TabsInv, Pool!PoolNext
<1>3. ASSUME Accidents PROVE Pool!PoolNext
  BY <1>3, AccidentsAre DEF Pool!PoolNext
<1>4. ASSUME Rest \/ UNCHANGED tabVars PROVE UNCHANGED Pool!pool
  BY <1>4 DEF Rest, tabVars, Pool!pool, Live, Suspected
<1> QED
  BY <1>1, <1>2, <1>3, <1>4 DEF TabsNext

\* Whoever keeps to the pool keeps the tabs apart.
LEMMA PoolKeepsApart == TabsInv /\ TabsExclusive /\ [Pool!PoolNext]_Pool!pool => TabsExclusive'
<1> SUFFICES ASSUME TabsInv, TabsExclusive, [Pool!PoolNext]_Pool!pool PROVE TabsExclusive'
  OBVIOUS
<1>1. ASSUME NEW k \in Keys, Pool!Settle(k) PROVE TabsExclusive'
  BY <1>1 DEF Pool!Settle, Pool!Others, Pool!Forgotten, TabsExclusive
<1>2. ASSUME Pool!Forgotten(Keys) PROVE TabsExclusive'
  BY <1>2 DEF Pool!Forgotten, TabsExclusive
<1>3. ASSUME UNCHANGED Pool!pool PROVE TabsExclusive'
  BY <1>3 DEF Pool!pool, TabsExclusive
<1> QED
  BY <1>1, <1>2, <1>3 DEF Pool!PoolNext, Pool!Purge, Pool!Relaunch, Pool!Accident

LEMMA ApartInductive ==
    /\ TabsInit => TabsInv /\ TabsExclusive
    /\ TabsInv /\ TabsExclusive /\ [TabsNext \/ Rest]_tabVars => (TabsInv /\ TabsExclusive)'
<1>1. TabsInit => TabsExclusive
  BY DEF TabsInit, TabsExclusive
<1> QED
  BY <1>1, TabsInitInv, TabsInductive, PoolStep, PoolKeepsApart

\* No tab is ever registered for two keys, however calls, recoveries, healings and accidents
\* interleave.
THEOREM TabsAreExclusive == TabsSpec => []TabsExclusive
BY ApartInductive, PTL DEF TabsSpec

LEMMA PoolInitially == TabsInit => Pool!PoolInit
<1>1. ASSUME TabsInit PROVE Live \subseteq Tabs /\ \A t \in Live : tab[t].is = "ok"
  BY <1>1 DEF TabsInit, Live
<1>2. ASSUME TabsInit PROVE Suspected \intersect Live = {}
  BY <1>2, TabsAssumption DEF TabsInit, Suspected, Live
<1>3. ASSUME TabsInit PROVE accidents \in Nat /\ owner = [k \in Keys |-> NoTab]
  BY <1>3, TabsAssumption DEF TabsInit
<1> QED
  BY <1>1, <1>2, <1>3 DEF Pool!PoolInit

\* The registry implements the pool of tabs: only a sick tab, or one's own, is ever closed
\* without restarting Chrome, and none is given away that another key has.
THEOREM PoolIsImplemented == TabsSpec => PoolImplemented
<1>1. TabsInv /\ TabsExclusive /\ [TabsNext \/ Rest]_tabVars => [Pool!PoolNext]_Pool!pool
  BY PoolStep
<1> QED
  BY PoolInitially, <1>1, ApartInductive, PTL DEF TabsSpec, PoolImplemented, Pool!PoolSpec

-----------------------------------------------------------------------------
(* Whose page a session is on.                                             *)

\* A call for a project has a session.
InSession(c) == Keyed(c) /\ call[c].pc \in {"attach", "act"}

\* Somebody on port w has t: it is registered, or in a session.
Claimed(t, w) ==
    \/ \E k \in Keys : owner[k] = t /\ k[2] = w
    \/ \E c \in Calls : InSession(c) /\ call[c].tab = t /\ Key(c)[2] = w

\* Who has a tab that was led nowhere is on the port that it shows, or it shows nothing yet; and
\* they are all on one.
OnePort ==
    \A t \in Live \ taken, w \in Ports :
      Claimed(t, w) => /\ tab[t].at \in {w, Blank}
                       /\ \A v \in Ports : Claimed(t, v) => v = w

LetsGo(c) ==
    /\ \A d \in Calls \ {c} : call'[d] = call[d]
    /\ call'[c].pc \notin {"attach", "act"}

LEMMA Leaving ==
    ASSUME CallsSound, NEW c \in Calls, NEW why, NEW lands,
           \/ call' = Done(c) \/ call' = Again(c) \/ call' = Mends(c) \/ call' = Heals(c)
           \/ call' = Fails(c, why, lands) \/ NotRecreated(c) \/ SessionFails(c, why)
    PROVE  LetsGo(c)
<1>1. CASE call' = Done(c)
  BY <1>1 DEF LetsGo, Done, CallsSound
<1>2. CASE call' = Again(c)
  BY <1>2 DEF LetsGo, Again, Anew, CallsSound
<1>3. CASE call' = Mends(c)
  BY <1>3 DEF LetsGo, Mends, Anew, CallsSound
<1>4. CASE call' = Heals(c)
  BY <1>4 DEF LetsGo, Heals, Done, CallsSound, Sound
<1>5. CASE call' = Fails(c, why, lands)
  BY <1>5 DEF LetsGo, Fails, Done, Anew, CallsSound
<1>6. CASE NotRecreated(c)
  BY <1>6 DEF LetsGo, NotRecreated, Done, CallsSound, Sound
<1>7. CASE SessionFails(c, why)
  BY <1>7 DEF LetsGo, SessionFails, Fails, Done, Anew, CallsSound, Sound
<1> QED
  BY <1>1, <1>2, <1>3, <1>4, <1>5, <1>6, <1>7

\* Steps after which nobody has a tab that did not have it, and that lead no tab elsewhere.
LEMMA Unclaimed ==
    ASSUME OnePort, taken \subseteq taken',
           \A t \in Live' \ taken', w \in Ports :
             Claimed(t, w)' => t \in Live /\ Claimed(t, w) /\ tab'[t].at = tab[t].at
    PROVE  OnePort'
BY DEF OnePort

\* A call goes, and others keep what they have.
LEMMA GoneUnclaimed ==
    ASSUME TabsInv, OnePort, NEW c \in Calls, LetsGo(c), Forgets, taken' = taken, port' = port,
           \A t \in Live' : t \in Fresh \/ (t \in Live /\ tab'[t].at = tab[t].at)
    PROVE  OnePort'
<1>1. ASSUME NEW t \in Live', NEW w \in Ports, Claimed(t, w)'
      PROVE  t \in Live /\ Claimed(t, w) /\ tab'[t].at = tab[t].at
  <2>1. t \in Tabs
    BY DEF Live
  <2>2. CASE \E k \in Keys : owner'[k] = t /\ k[2] = w
    <3>1. PICK k \in Keys : owner'[k] = t /\ k[2] = w
      BY <2>2
    <3>2. owner[k] = t
      BY <2>1, <3>1, TabsAssumption DEF Forgets
    <3> QED
      BY <3>1, <3>2 DEF Claimed, Fresh
  <2>3. CASE \E d \in Calls : InSession(d)' /\ call'[d].tab = t /\ Key(d)'[2] = w
    <3>1. PICK d \in Calls : InSession(d)' /\ call'[d].tab = t /\ Key(d)'[2] = w
      BY <2>3
    <3>2. d # c /\ call'[d] = call[d]
      BY <3>1 DEF LetsGo, InSession
    <3>3. InSession(d) /\ call[d].tab = t /\ Key(d)[2] = w
      BY <3>1, <3>2 DEF InSession, Key, Keyed
    <3> QED
      BY <3>3 DEF Claimed, Fresh
  <2> QED
    BY <1>1, <2>2, <2>3 DEF Claimed
<1> QED
  BY <1>1, Unclaimed

\* What a call does that is not the finding of a tab, and not in a session.
LEMMA StepsUnclaimed ==
    ASSUME TabsInv, OnePort, NEW c \in Calls,
           \/ FindTabFails(c) \/ AttachTimesOut(c) \/ ReadTimesOut(c) \/ AttachFails(c)
           \/ ActMeetsNoPage(c) \/ Reattached(c) \/ ReresolveFails(c) \/ RecoverFirst(c)
           \/ Reload(c) \/ Mend(c) \/ HealStep(c)
    PROVE  OnePort'
<1>1. CallsSound
  BY DEF TabsInv
<1>2. LetsGo(c)
  <2>1. CASE FindTabFails(c) \/ AttachTimesOut(c) \/ ReadTimesOut(c) \/ AttachFails(c)
             \/ ActMeetsNoPage(c) \/ Reattached(c) \/ ReresolveFails(c) \/ RecoverFirst(c)
    BY <1>1, <2>1, Leaving DEF FindTabFails, AttachTimesOut, ReadTimesOut, AttachFails,
       ActMeetsNoPage, Reattached, ReresolveFails, RecoverFirst
  <2>2. CASE Reload(c)
    BY <1>1, <2>2, Leaving DEF Reload, LetsGo, Anew, CallsSound
  <2>3. CASE Mend(c)
    BY <1>1, <2>3, Leaving DEF Mend, LetsGo, Anew, CallsSound
  <2>4. CASE HealFindsAllWell(c) \/ HealFindsNoPage(c) \/ RecreateFindsNothing(c)
             \/ RecreateCloses(c) \/ RecreateFails(c) \/ Relaunch(c)
    BY <1>1, <2>4, Leaving DEF HealFindsAllWell, HealFindsNoPage, RecreateFindsNothing,
       RecreateCloses, RecreateFails, Relaunch
  <2>5. CASE HealFindsBadTabs(c) \/ HealDrops(c) \/ HealFindsBadPage(c) \/ Recreate(c)
    <3>1. CASE HealFindsBadTabs(c)
      <4>1. PICK stale, f : call' = [To(c, "drop") EXCEPT ![c].stale = stale, ![c].force = f]
        BY <3>1 DEF HealFindsBadTabs
      <4> QED
        BY <1>1, <4>1 DEF LetsGo, CallsSound, Sound
    <3>2. CASE HealDrops(c)
      BY <1>1, <3>2 DEF HealDrops, LetsGo, CallsSound, Sound
    <3>3. CASE HealFindsBadPage(c)
      BY <1>1, <3>3 DEF HealFindsBadPage, LetsGo, CallsSound, Sound
    <3>4. CASE Recreate(c)
      BY <1>1, <3>4, SMTT(40) DEF Recreate, LetsGo, CallsSound, Sound
    <3> QED
      BY <2>5, <3>1, <3>2, <3>3, <3>4
  <2> QED
    BY <2>1, <2>2, <2>3, <2>4, <2>5 DEF HealStep
<1>3. taken' = taken /\ port' = port
  BY DEF FindTabFails, AttachTimesOut, ReadTimesOut, AttachFails, ActMeetsNoPage, Reattached,
     ReresolveFails, RecoverFirst, Reload, Mend, HealStep, HealFindsAllWell, HealFindsBadTabs, HealDrops,
     HealFindsBadPage, HealFindsNoPage, Recreate, RecreateFindsNothing, RecreateCloses,
     RecreateFails, Relaunch
<1>4. Forgets
  <2>1. ReresolveFails(c) => Key(c) \in Keys /\ owner' = [owner EXCEPT ![Key(c)] = NoTab]
    BY KeyType DEF ReresolveFails, NotReresolved
  <2> QED
    BY <2>1, VanishedForgets
       DEF TabsInv, WorldType, Forgets, FindTabFails, AttachTimesOut, ReadTimesOut, AttachFails,
       ActMeetsNoPage, Reattached, RecoverFirst, Reload, Mend, HealStep, HealFindsAllWell,
       HealFindsBadTabs, HealDrops, HealFindsBadPage, HealFindsNoPage, Recreate,
       RecreateFindsNothing, RecreateCloses, RecreateFails, Relaunch
<1>5. \/ tab' = tab
      \/ \E ts : tab' = Closing(ts)
      \/ \E ts : \E t \in Fresh : tab' = Opening(ts, t, Blank)
  BY DEF FindTabFails, AttachTimesOut, ReadTimesOut, AttachFails, ActMeetsNoPage, Reattached,
     ReresolveFails, NotReresolved, RecoverFirst, Reload, Mend, HealStep, HealFindsAllWell, HealFindsBadTabs,
     HealDrops, HealFindsBadPage, HealFindsNoPage, Recreate, RecreateFindsNothing,
     RecreateCloses, RecreateFails, Relaunch
<1>6. \A t \in Live' : t \in Fresh \/ (t \in Live /\ tab'[t].at = tab[t].at)
  <2>1. CASE tab' = tab
    BY <2>1 DEF Live
  <2>2. CASE \E ts : tab' = Closing(ts)
    BY <2>2 DEF Live, Closing
  <2>3. CASE \E ts : \E t \in Fresh : tab' = Opening(ts, t, Blank)
    <3>0. PICK ts : \E u \in Fresh : tab' = Opening(ts, u, Blank)
      BY <2>3
    <3>1. PICK u \in Fresh : tab' = Opening(ts, u, Blank)
      BY <3>0
    <3>2. Live' = (Live \ ts) \union {u}
      BY <3>1, LiveWith DEF Fresh, TabsInv
    <3>3. \A t \in Tabs \ ({u} \union ts) : tab'[t] = tab[t]
      BY <3>1 DEF Opening, Closing
    <3> QED
      BY <3>2, <3>3 DEF Live
  <2> QED
    BY <1>5, <2>1, <2>2, <2>3
<1> QED
  BY <1>2, <1>3, <1>4, <1>6, GoneUnclaimed

\* A tab that the key k may come to have is claimed for no other port.
LEMMA Claimable ==
    ASSUME TabsInv, OnePort, NEW k \in Keys, NEW t \in Tabs \ taken,
           t \in Fresh \/ t \in Candidates(k) \/ (t \in Live /\ t = owner[k])
    PROVE  \A w \in Ports : Claimed(t, w) => w = k[2]
<1>1. k[2] \in Ports
  BY DEF Keys
<1>2. CASE t \in Fresh
  BY <1>2 DEF Fresh, Claimed
<1>3. CASE t \in Candidates(k)
  <2>1. t \in Live /\ tab[t].at = k[2] /\ k[2] # Blank
    BY <1>1, <1>3, TabsAssumption DEF Candidates
  <2> QED
    BY <2>1 DEF OnePort
<1>4. CASE t \in Live /\ t = owner[k]
  <2>1. Claimed(t, k[2])
    BY <1>4 DEF Claimed
  <2> QED
    BY <1>1, <1>4, <2>1 DEF OnePort
<1> QED
  BY <1>2, <1>3, <1>4

\* A key comes to have a tab that it may have, and its call a session there perhaps.
LEMMA ClaimsOne ==
    ASSUME TabsInv, OnePort, NEW c \in Calls, NEW k \in Keys, NEW t \in Tabs,
           k = Key(c), call'[c].proj = call[c].proj,
           t \in Fresh \/ t \in Candidates(k) \/ (t \in Live /\ t = owner[k]),
           owner'[k] = t, \A j \in Keys \ {k} : owner'[j] \in {owner[j], NoTab},
           \A d \in Calls \ {c} : call'[d] = call[d],
           call'[c].pc \in {"attach", "act"} => call'[c].tab = t,
           taken' = taken, port' = port,
           \A u \in Live' \ {t} : u \in Live /\ tab'[u].at = tab[u].at,
           t \in Live => tab'[t].at = tab[t].at,
           t \notin Live => tab'[t].at \in {k[2], Blank}
    PROVE  OnePort'
<1> SUFFICES ASSUME NEW u \in Live' \ taken, NEW w \in Ports, Claimed(u, w)'
             PROVE  /\ tab'[u].at \in {w, Blank}
                    /\ \A v \in Ports : Claimed(u, v)' => v = w
  BY DEF OnePort
<1>1. k[2] \in Ports /\ u \in Tabs
  BY DEF Keys, Live
<1>2. \A v \in Ports : Claimed(u, v)' => Claimed(u, v) \/ (u = t /\ v = k[2])
  <2> SUFFICES ASSUME NEW v \in Ports, Claimed(u, v)'
               PROVE  Claimed(u, v) \/ (u = t /\ v = k[2])
    OBVIOUS
  <2>1. CASE \E j \in Keys : owner'[j] = u /\ j[2] = v
    <3>1. PICK j \in Keys : owner'[j] = u /\ j[2] = v
      BY <2>1
    <3>2. j # k => owner[j] = u
      BY <1>1, <3>1, TabsAssumption
    <3> QED
      BY <3>1, <3>2 DEF Claimed
  <2>2. CASE \E d \in Calls : InSession(d)' /\ call'[d].tab = u /\ Key(d)'[2] = v
    <3>1. PICK d \in Calls : InSession(d)' /\ call'[d].tab = u /\ Key(d)'[2] = v
      BY <2>2
    <3>2. Key(d)' = Key(d)
      BY DEF Key
    <3>3. d # c => InSession(d) /\ call[d].tab = u
      BY <3>1 DEF InSession, Keyed
    <3>4. d = c => u = t /\ v = k[2]
      BY <3>1, <3>2 DEF InSession
    <3> QED
      BY <3>1, <3>2, <3>3, <3>4 DEF Claimed
  <2> QED
    BY <2>1, <2>2 DEF Claimed
<1>3. t \notin taken => \A v \in Ports : Claimed(t, v) => v = k[2]
  BY Claimable
<1>4. CASE u # t
  BY <1>2, <1>4 DEF OnePort
<1>5. CASE u = t
  <2>1. \A v \in Ports : Claimed(u, v)' => v = k[2]
    BY <1>2, <1>3, <1>5
  <2>2. tab'[u].at \in {k[2], Blank}
    <3>1. CASE t \notin Live
      BY <1>5, <3>1
    <3>2. CASE t \in Live /\ t = owner[k]
      BY <1>1, <1>5, <3>2 DEF OnePort, Claimed
    <3>3. CASE t \in Live /\ t \in Candidates(k)
      BY <1>5, <3>3 DEF Candidates
    <3> QED
      BY <3>1, <3>2, <3>3 DEF Fresh
  <2> QED
    BY <2>1, <2>2
<1> QED
  BY <1>4, <1>5

LEMMA FindTabClaims ==
    ASSUME TabsInv, OnePort, NEW c \in Calls, FindTab(c)
    PROVE  OnePort'
<1>0. PICK k : k = Key(c)
  OBVIOUS
<1>1. k \in Keys /\ taken' = taken /\ port' = port
  BY <1>0, KeyType DEF FindTab
<1>2. PICK t \in Tabs :
        /\ t \in Fresh \/ t \in Candidates(k) \/ (t \in Live /\ t = owner[k])
        /\ \/ t \in Fresh /\ tab' = Opening({}, t, Blank)
           \/ \E ts : t \in Live /\ t \notin ts /\ tab' = Closing(ts)
        /\ owner' = [Vanished(Live) EXCEPT ![k] = t]
        /\ call' = [To(c, "attach") EXCEPT ![c].tab = t]
  <2>1. CASE \E t \in Keepers(k), refused \in {{}, Candidates(k)} :
               /\ tab' = Closing(Candidates(k) \ ({t} \union refused))
               /\ owner' = [Vanished(Live) EXCEPT ![k] = t]
               /\ call' = [To(c, "attach") EXCEPT ![c].tab = t]
    <3>1. PICK t \in Keepers(k), refused \in {{}, Candidates(k)} :
               /\ tab' = Closing(Candidates(k) \ ({t} \union refused))
               /\ owner' = [Vanished(Live) EXCEPT ![k] = t]
               /\ call' = [To(c, "attach") EXCEPT ![c].tab = t]
      BY <2>1
    <3>2. t \in Live /\ t \in Tabs /\ t \notin Candidates(k) \ ({t} \union refused)
      BY <1>1, KeepersInTabs DEF TabsInv
    <3>3. t = owner[k] \/ t \in Candidates(k)
      BY DEF Keepers
    <3> QED
      BY <3>1, <3>2, <3>3
  <2>2. CASE \E t \in Fresh : /\ tab' = Opening({}, t, Blank)
                              /\ owner' = [Vanished(Live) EXCEPT ![k] = t]
                              /\ call' = [To(c, "attach") EXCEPT ![c].tab = t]
    BY <2>2 DEF Fresh
  <2> QED
    BY <1>0, <2>1, <2>2 DEF FindTab
<1>3. owner'[k] = t /\ \A j \in Keys \ {k} : owner'[j] \in {owner[j], NoTab}
  BY <1>1, <1>2, VanishedForgets DEF Vanished
<1>4. /\ call'[c].proj = call[c].proj /\ call'[c].tab = t
      /\ \A d \in Calls \ {c} : call'[d] = call[d]
  BY <1>2 DEF TabsInv, CallsSound, Sound
<1>5. /\ \A u \in Live' \ {t} : u \in Live /\ tab'[u].at = tab[u].at
      /\ t \in Live => tab'[t].at = tab[t].at
      /\ t \notin Live => tab'[t].at = Blank
  BY <1>2 DEF Opening, Closing, Live, Fresh, TabsInv, WorldType
<1>6. t \in Fresh \/ t \in Candidates(k) \/ (t \in Live /\ t = owner[k])
  BY <1>2
<1> QED
  BY <1>0, <1>1, <1>3, <1>4, <1>5, <1>6, ClaimsOne

LEMMA ReresolveClaims ==
    ASSUME TabsInv, OnePort, NEW c \in Calls, Reresolve(c)
    PROVE  OnePort'
<1>0. PICK k : k = Key(c)
  OBVIOUS
<1>1. k \in Keys /\ taken' = taken /\ port' = port
  BY <1>0, KeyType DEF Reresolve
<1>2. PICK t \in Tabs, created \in BOOLEAN :
        /\ Reresolved(k, At(c, "force"), t, created)
        /\ call' = IF At(c, "force") \/ created THEN Again(c)
                   ELSE [To(c, "reload") EXCEPT ![c].tab = t]
  BY <1>0 DEF Reresolve
<1>2a. Reresolved(k, At(c, "force"), t, created)
  BY <1>2
<1>3. t \in IF created THEN Fresh ELSE Candidates(k)
  BY <1>2 DEF Reresolved
<1>4. owner'[k] = t /\ \A j \in Keys \ {k} : owner'[j] \in {owner[j], NoTab}
  BY <1>1, <1>2 DEF Reresolved, TabsInv, WorldType
<1>5. PICK woken, refused :
        /\ woken \subseteq Live
        /\ tab' = [u \in Tabs |->
                    IF u \in Candidates(k) \ ({t} \union refused) THEN Gone
                    ELSE IF created /\ u = t THEN Showing(k[2])
                    ELSE [v \in Tabs |-> IF v \in woken THEN Showing(tab[v].at) ELSE tab[v]][u]]
  <2>1. Tidied(k, t, created)
    BY <1>2a, ReresolvedTabs
  <2> QED
    BY <2>1 DEF Tidied
<1>6. /\ \A u \in Live' \ {t} : u \in Live /\ tab'[u].at = tab[u].at
      /\ ~created => tab'[t].at = tab[t].at
      /\ created => tab'[t].at = k[2]
  BY <1>5 DEF Live
<1>7. t \in Live <=> ~created
  BY <1>3 DEF Fresh, Candidates
<1>8. /\ call'[c].proj = call[c].proj /\ call'[c].pc \notin {"attach", "act"}
      /\ \A d \in Calls \ {c} : call'[d] = call[d]
  <2>1. CASE call' = Again(c)
    BY <2>1 DEF Again, Anew, TabsInv, CallsSound
  <2>2. CASE call' = [To(c, "reload") EXCEPT ![c].tab = t]
    BY <2>2 DEF TabsInv, CallsSound, Sound
  <2> QED
    BY <1>2, <2>1, <2>2
<1> QED
  BY <1>0, <1>1, <1>3, <1>4, <1>6, <1>7, <1>8, ClaimsOne

\* A session without a project registers and claims nothing.
LEMMA FirstClaims ==
    ASSUME TabsInv, OnePort, NEW c \in Calls, FindFirst(c)
    PROVE  OnePort'
<1>1. UNCHANGED <<tab, owner, port, taken>> /\ ~Keyed(c)
  BY DEF FindFirst
<1>2. PICK t : call' = [To(c, "attach") EXCEPT ![c].tab = t]
  BY DEF FindFirst
<1>3. call'[c].proj = call[c].proj /\ \A d \in Calls \ {c} : call'[d] = call[d]
  BY <1>2 DEF TabsInv, CallsSound, Sound
<1>4. \A d \in Calls : InSession(d)' => d # c /\ InSession(d)
  BY <1>1, <1>3 DEF InSession, Keyed
<1>5. \A u, w : Claimed(u, w)' => Claimed(u, w)
  BY <1>1, <1>3, <1>4 DEF Claimed, Key
<1> QED
  BY <1>1, <1>5, Unclaimed DEF Live

\* Where the project of c has the tab s for.
HomesOf(c, s) == {Key(c)[2]} \union {w \in Ports : owner[<<call[c].proj, w>>] = s}

\* A session takes its tab nowhere but to where it is claimed for, or it is led astray.
LEMMA SessionsStay ==
    ASSUME TabsInv, OnePort, NEW c \in Calls, Attach(c) \/ Act(c) \/ Walk(c) \/ ActTimesOut(c)
    PROVE  OnePort'
<1>1. port' = port /\ owner' = owner /\ call[c].pc \in {"attach", "act"}
  BY DEF Attach, Act, Walk, ActTimesOut
<1>2. PICK s : s = call[c].tab
  OBVIOUS
<1>3. s \in Tabs /\ s \in Live
  <2>1. tab[s].is # "gone"
    BY <1>2 DEF Attach, Act, Walk, ActTimesOut
  <2>2. s \in Tabs
    BY <1>1, <1>2 DEF TabsInv, CallsSound, Sound
  <2> QED
    BY <2>1, <2>2 DEF Live
<1>4. \A d \in Calls : InSession(d)' => /\ InSession(d) /\ call'[d].tab = call[d].tab
                                      /\ call'[d].proj = call[d].proj
  <2>1. CASE Attach(c)
    BY <2>1 DEF Attach, InSession, Keyed, TabsInv, CallsSound, Sound
  <2>2. CASE Walk(c)
    BY <2>2 DEF Walk, InSession, Keyed
  <2>3. CASE Act(c) \/ ActTimesOut(c)
    <3>1. LetsGo(c)
      BY <2>3, Leaving DEF Act, ActTimesOut, TabsInv
    <3> QED
      BY <3>1 DEF LetsGo, InSession, Keyed
  <2> QED
    BY <2>1, <2>2, <2>3
<1>5. \A t, w : Claimed(t, w)' => Claimed(t, w)
  BY <1>1, <1>4 DEF Claimed, Key
<1>6. \A t \in Tabs : t \in Live' <=> t \in Live
  <2>1. CASE Act(c) \/ Walk(c) \/ ActTimesOut(c)
    BY <2>1, NavigatesQuietly DEF Act, Walk, ActTimesOut
  <2>2. CASE Attach(c)
    BY <2>2 DEF Attach, TabsInv, WorldType, Live
  <2> QED
    BY <2>1, <2>2
<1>7. \A t \in Tabs \ {s} : tab'[t].at = tab[t].at
  BY <1>2, <1>3 DEF Attach, Act, Walk, ActTimesOut, Navigates, TabsInv, WorldType
<1>8. taken \subseteq taken'
  BY DEF Attach, Act, Walk, ActTimesOut, Navigates
<1>9. s \in taken' \/ tab'[s].at = tab[s].at \/ (InSession(c) /\ tab'[s].at \in HomesOf(c, s))
  <2>1. CASE Attach(c)
    BY <1>2, <1>3, <2>1 DEF Attach, TabsInv, WorldType
  <2>2. CASE Act(c) \/ Walk(c) \/ ActTimesOut(c)
    <3>1. PICK at : /\ tab' = [tab EXCEPT ![s].at = at]
                    /\ at \in Home(c) \/ s \in taken'
      BY <1>2, <2>2 DEF Act, Walk, ActTimesOut, Navigates
    <3>2. tab'[s].at = at
      BY <1>3, <3>1 DEF TabsInv, WorldType
    <3>3. at \in Home(c) \/ s \in taken'
      BY <3>1
    <3>4. at \in Home(c) => at = tab[s].at \/ (InSession(c) /\ at \in HomesOf(c, s))
      BY <1>1, <1>2 DEF Home, HomesOf, InSession
    <3> QED
      BY <3>2, <3>3, <3>4
  <2> QED
    BY <2>1, <2>2
<1> SUFFICES ASSUME NEW t \in Live' \ taken', NEW w \in Ports, Claimed(t, w)'
             PROVE  /\ tab'[t].at \in {w, Blank}
                    /\ \A v \in Ports : Claimed(t, v)' => v = w
  BY DEF OnePort
<1>10. t \in Tabs /\ t \in Live \ taken /\ Claimed(t, w)
  BY <1>5, <1>6, <1>8 DEF Live
<1>11. tab[t].at \in {w, Blank} /\ \A v \in Ports : Claimed(t, v) => v = w
  BY <1>10 DEF OnePort
<1>12. CASE t = s /\ InSession(c)
  <2>1. Key(c)[2] \in Ports /\ Claimed(s, Key(c)[2])
    BY <1>2, <1>12, KeyType DEF Claimed, InSession
  <2>2. Key(c)[2] = w
    BY <1>11, <1>12, <2>1
  <2>3. ASSUME NEW v \in Ports, owner[<<call[c].proj, v>>] = s PROVE v = w
    <3>1. <<call[c].proj, v>> \in Keys
      BY <1>12 DEF InSession, Keyed, Keys
    <3>2. Claimed(s, v)
      BY <2>3, <3>1 DEF Claimed
    <3> QED
      BY <1>11, <1>12, <3>2
  <2> QED
    BY <1>5, <1>9, <1>11, <1>12, <2>2, <2>3 DEF HomesOf
<1> QED
  BY <1>5, <1>7, <1>9, <1>10, <1>11, <1>12

LEMMA OtherClaims ==
    ASSUME TabsInv, OnePort,
           \/ \E c \in Calls, kind \in Kinds, p \in Projects \union {Nobody} : BeginCall(c, kind, p)
           \/ Accidents
    PROVE  OnePort'
<1>1. ASSUME NEW c \in Calls, NEW kind \in Kinds, NEW p \in Projects \union {Nobody},
             BeginCall(c, kind, p)
      PROVE  OnePort'
  <2>1. LetsGo(c)
    BY <1>1 DEF BeginCall, LetsGo, TabsInv, CallsSound
  <2> QED
    BY <1>1, <2>1, GoneUnclaimed DEF BeginCall, Forgets, Live
<1>2. CASE \E t \in Tabs : UserBrowses(t)
  <2>1. PICK t \in Tabs : UserBrowses(t)
    BY <1>2
  <2>2. UNCHANGED <<owner, port, call>> /\ taken' = taken \union {t}
    BY <2>1 DEF UserBrowses
  <2>3. \A u, w : Claimed(u, w)' <=> Claimed(u, w)
    BY <2>2 DEF Claimed, InSession, Keyed, Key
  <2>4. \A u \in Live' \ {t} : u \in Live /\ tab'[u].at = tab[u].at
    BY <2>1 DEF UserBrowses, Live, TabsInv, WorldType
  <2> QED
    BY <2>2, <2>3, <2>4, Unclaimed
<1>3. CASE ServiceRestarts
  <2>1. \A t \in Tabs : \A w : ~Claimed(t, w)'
    BY <1>3, TabsAssumption DEF ServiceRestarts, Claimed, InSession
  <2> QED
    BY <2>1 DEF OnePort, Live
<1>4. CASE ChromeDies \/ \E t \in Tabs : TabChanges(t) \/ UserCloses(t)
  <2>1. UNCHANGED <<owner, port, call, taken>>
    BY <1>4 DEF ChromeDies, TabChanges, UserCloses
  <2>2. \A t, w : Claimed(t, w)' <=> Claimed(t, w)
    BY <2>1 DEF Claimed, InSession, Keyed, Key
  <2>3. \A t \in Live' : t \in Live /\ tab'[t].at = tab[t].at
    BY <1>4 DEF ChromeDies, TabChanges, UserCloses, Live, Closing, TabsInv, WorldType
  <2> QED
    BY <2>1, <2>2, <2>3, Unclaimed
<1> QED
  BY <1>1, <1>2, <1>3, <1>4 DEF Accidents

LEMMA OnePortInductive ==
    TabsInv /\ OnePort /\ [TabsNext \/ Rest]_tabVars => OnePort'
<1>1. ASSUME TabsInv, OnePort, NEW c \in Calls, CallStep(c) \/ HealStep(c) PROVE OnePort'
  BY <1>1, FindTabClaims, FirstClaims, ReresolveClaims, SessionsStay, StepsUnclaimed DEF CallStep
<1>2. ASSUME OnePort, Rest \/ UNCHANGED tabVars PROVE OnePort'
  <2>1. \A t, w : Claimed(t, w)' <=> Claimed(t, w)
    BY <1>2 DEF Rest, tabVars, Claimed, InSession, Keyed, Key
  <2>2. Live' = Live /\ tab' = tab /\ taken' = taken
    BY <1>2 DEF Rest, tabVars, Live
  <2> QED
    BY <1>2, <2>1, <2>2, Unclaimed
<1> QED
  BY <1>1, <1>2, OtherClaims DEF TabsNext

\* A call for a project acts in no tab that is registered for a project on another port, unless
\* that tab was led to another application, for any number of calls and accidents.
THEOREM OwnTabsOnly == TabsSpec => []ActsInOwnTab
<1>1. TabsInv /\ OnePort => ActsInOwnTab
  <2> SUFFICES ASSUME TabsInv, OnePort, NEW c \in Calls, NEW k \in Keys, At(c, "act"),
                      Keyed(c), call[c].tab \notin taken, k[2] # Key(c)[2], tab[call[c].tab].is # "gone", owner[k] = call[c].tab
               PROVE  FALSE
    BY DEF ActsInOwnTab
  <2>1. call[c].tab \in Live /\ Key(c)[2] \in Ports /\ k[2] \in Ports
    BY KeyType DEF TabsInv, CallsSound, Sound, Live, Keys
  <2>2. Claimed(call[c].tab, k[2]) /\ Claimed(call[c].tab, Key(c)[2])
    BY DEF Claimed, InSession
  <2> QED
    BY <2>1, <2>2 DEF OnePort
<1>2. TabsInit => OnePort
  BY TabsAssumption DEF TabsInit, OnePort, Claimed, InSession, Live
<1> QED
  BY <1>1, <1>2, TabsInitInv, TabsInductive, OnePortInductive, PTL DEF TabsSpec
=============================================================================
