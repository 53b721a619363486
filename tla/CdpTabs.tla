------------------------------ MODULE CdpTabs ------------------------------
(***************************************************************************)
(* The browser tabs through which the service looks at and clicks in the   *)
(* running applications: the registry of one tab per project and web port, *)
(* the sessions that attach to it, the healing of Chrome, and the one      *)
(* recovery and one retry of a call that failed.                           *)
(*                                                                         *)
(* A probe is not an event of its own: a tab that does not answer in time  *)
(* is `slow`, one whose session is detached is `lost`, and `blind` if it   *)
(* is detached although the probes pass.                                   *)
(***************************************************************************)
EXTENDS Naturals, FiniteSets

CONSTANTS
    Projects, Ports, Tabs, Calls,
    NoTab, Nobody, Blank,
    MaxCalls,      \* bound: calls that begin
    MaxAccidents   \* bound: what the service does not do itself; a tab open at the start is one,
                   \* and so is a call for no project, or told an address that is not its own

ASSUME TabsAssumption ==
    /\ NoTab \notin Tabs /\ Nobody \notin Projects /\ Blank \notin Ports
    /\ MaxCalls \in Nat /\ MaxAccidents \in Nat

VARIABLES
    tab,      \* what Chrome shows: where each tab is, and how it does
    chrome,   \* whether Chrome runs
    owner,    \* _CDP_TABS
    port,     \* the web port each project is taken to serve (_WEB_PORT_CACHE)
    call,     \* the CDP calls in progress
    calls, accidents,  \* what is left of the bounds
    taken     \* history: the tabs led to an application that is not their project's

tabVars == <<tab, chrome, owner, port, call, calls, accidents, taken>>

Keys == Projects \X Ports
Keyed(c) == call[c].proj \in Projects
Key(c) == <<call[c].proj, port[call[c].proj]>>

Health == {"ok", "slow", "lost", "blind", "gone"}
Gone == [at |-> Blank, is |-> "gone"]
Showing(at) == [at |-> at, is |-> "ok"]

\* shot: a look at the page, as a picture or as text.  type: text, keys, and routes of clicks.
Kinds == {"shot", "click", "type", "heal"}
Steps == {"idle", "open", "attach", "act", "recover", "reload", "force", "mend",
          "heal", "drop", "recreate", "close", "relaunch"}

\* The calls that are tried again after a recovery.
Recovers(kind) == kind \in {"shot", "click"}

\* What went wrong and is recovered from: a hang, or a page that is not attached.
Recoverable == {"timeout", "detached"}

\* mode: the call itself, the session of its recovery, or its retry.  stale, force and bad:
\* what the healing is to forget, to replace and to close.  lands: how often the page
\* took the click (history).
Begun(pc, kind, p, lands) ==
    [pc |-> pc, kind |-> kind, proj |-> p, tab |-> NoTab, mode |-> "first", why |-> "none",
     healed |-> FALSE, healing |-> pc = "heal", stale |-> {}, force |-> NoTab, bad |-> {},
     lands |-> lands]
Idle == Begun("idle", "heal", Nobody, 0)

Live == {t \in Tabs : tab[t].is # "gone"}

\* The service starts, beside whatever tabs are open.
TabsInit ==
    /\ tab \in [Tabs -> {Gone} \union {Showing(at) : at \in Ports}]
    /\ chrome = TRUE
    /\ owner = [k \in Keys |-> NoTab]
    /\ port \in [Projects -> Ports]
    /\ call = [c \in Calls |-> Idle]
    /\ calls \in 0..MaxCalls /\ accidents \in 0..MaxAccidents
    /\ Cardinality(Live) + accidents <= MaxAccidents
    /\ taken = {}

Answering == {t \in Live : tab[t].is \in {"ok", "blind"}}
\* Chrome gives a new tab an identifier that none has had.
Fresh == {t \in Tabs \ (Live \union taken) :
            /\ \A k \in Keys : owner[k] # t
            /\ \A c \in Calls : t \notin {call[c].tab, call[c].force} \union call[c].bad}

\* Slip: also those that other keys have.
CandidatesOfAny(k) == {t \in Live : tab[t].at = k[2]}

\* Slip: wherever they are.
CandidatesAnywhere(k) == Live \ {owner[j] : j \in Keys \ {k}}

\* The tabs that show a key's port and that no other key has.
Candidates(k) == {t \in Live : tab[t].at = k[2]} \ {owner[j] : j \in Keys \ {k}}

\* _CDP_TABS without the tabs that Chrome does not list.
Vanished(listed) == [k \in Keys |-> IF owner[k] \in listed THEN owner[k] ELSE NoTab]

Closing(ts) == [t \in Tabs |-> IF t \in ts THEN Gone ELSE tab[t]]
Opening(ts, t, at) == [Closing(ts) EXCEPT ![t] = Showing(at)]

Accident == accidents > 0 /\ accidents' = accidents - 1

At(c, pc) == call[c].pc = pc
To(c, pc) == [call EXCEPT ![c].pc = pc]

\* The call is done; or it goes on at pc with nothing but what it is and how often it landed.
Done(c) == [call EXCEPT ![c] = Idle]
Anew(c, pc) == [call EXCEPT ![c] = Begun(pc, call[c].kind, call[c].proj, call[c].lands)]
Ends(c) == call' = Done(c)

-----------------------------------------------------------------------------
(* The session: the project's tab, and attaching to it.                    *)

\* Without a project (Nobody) a call takes whatever page Chrome lists first.
BeginCall(c, kind, p) ==
    /\ At(c, "idle") /\ calls > 0 /\ (kind = "heal" => p = Nobody)
    /\ calls' = calls - 1
    /\ IF p = Nobody /\ kind # "heal" THEN Accident ELSE UNCHANGED accidents
    /\ call' = [call EXCEPT ![c] = Begun(IF kind = "heal" THEN "heal" ELSE "open", kind, p, 0)]
    /\ UNCHANGED <<tab, chrome, owner, port, taken>>

\* The registered tab, or else one that shows the port; of several, one that answers.
Keepers(k) ==
    LET on == Candidates(k)
        first == IF owner[k] \in Live THEN {owner[k]} ELSE on
        well == (first \union on) \intersect Answering
    IN IF Cardinality(on) <= 1 \/ well = {} THEN first
       ELSE IF first \intersect well # {} THEN first \intersect well ELSE well

FindFirst(c) ==
    /\ At(c, "open") /\ chrome /\ ~Keyed(c)
    /\ \E t \in Live : call' = [To(c, "attach") EXCEPT ![c].tab = t]
    /\ UNCHANGED <<tab, chrome, owner, port, calls, accidents, taken>>

\* cdp_tab_for, all of it under the lock; Chrome may refuse to close a tab.
FindTab(c) ==
    /\ At(c, "open") /\ chrome /\ Keyed(c)
    /\ LET k == Key(c) IN
       \/ \E t \in Keepers(k), refused \in {{}, Candidates(k)} :
            /\ tab' = Closing(Candidates(k) \ ({t} \union refused))
            /\ owner' = [Vanished(Live) EXCEPT ![k] = t]
            /\ call' = [To(c, "attach") EXCEPT ![c].tab = t]
       \/ \E t \in Fresh :
            /\ Keepers(k) = {}
            /\ tab' = Opening({}, t, Blank)
            /\ owner' = [Vanished(Live) EXCEPT ![k] = t]
            /\ call' = [To(c, "attach") EXCEPT ![c].tab = t]
    /\ UNCHANGED <<chrome, port, calls, accidents, taken>>

\* Slip: recovered from each time.
FailsAgain(c, why, lands) ==
    CASE Recovers(call[c].kind) /\ why \in Recoverable ->
           [Anew(c, "recover") EXCEPT ![c].why = why, ![c].lands = call[c].lands + lands]
      [] call[c].mode = "mend" -> Anew(c, "recreate")
      [] OTHER -> Done(c)

\* An error that reaches the caller: recovered from once, and never again.
Fails(c, why, lands) ==
    CASE call[c].mode = "first" /\ Recovers(call[c].kind) /\ why \in Recoverable ->
           [Anew(c, "recover") EXCEPT ![c].why = why, ![c].lands = call[c].lands + lands]
      [] call[c].mode = "mend" -> Anew(c, "recreate")
      [] OTHER -> Done(c)

\* A session that cannot be had heals Chrome, once.
SessionFails(c, why) ==
    call' = IF call[c].healed THEN Fails(c, why, 0)
            ELSE [To(c, "heal") EXCEPT ![c].healed = TRUE, ![c].healing = TRUE,
                                       ![c].why = why, ![c].tab = NoTab]

FindTabFails(c) ==
    /\ At(c, "open") /\ (chrome => IF Keyed(c) THEN Keepers(Key(c)) = {} ELSE Live = {})
    /\ SessionFails(c, "down")
    /\ owner' = IF chrome /\ Keyed(c) THEN Vanished(Live) ELSE owner
    /\ UNCHANGED <<tab, chrome, port, calls, accidents, taken>>

\* Activating a throttled tab may wake it.  The session is had; that it was healed is forgotten.
Attach(c) ==
    /\ At(c, "attach") /\ tab[call[c].tab].is \in {"ok", "slow", "blind"}
    /\ tab' = [tab EXCEPT ![call[c].tab].is = IF @ = "slow" THEN "ok" ELSE @]
    /\ call' = [To(c, IF call[c].mode = "mend" THEN "mend" ELSE "act") EXCEPT ![c].healed = FALSE]
    /\ UNCHANGED <<chrome, owner, port, calls, accidents, taken>>

\* Two timeouts are not healed: a screenshot answers cdp_tab_timeout, the others raise it.
AttachTimesOut(c) ==
    /\ At(c, "attach") /\ tab[call[c].tab].is = "slow"
    /\ call' = Fails(c, IF call[c].kind = "shot" THEN "final" ELSE "timeout", 0)
    /\ UNCHANGED <<tab, chrome, owner, port, calls, accidents, taken>>

\* So does the reading of the page's text.
ReadTimesOut(c) ==
    /\ At(c, "attach") /\ call[c].kind = "shot" /\ tab[call[c].tab].is = "slow"
    /\ call' = Fails(c, "timeout", 0)
    /\ UNCHANGED <<tab, chrome, owner, port, calls, accidents, taken>>

AttachFails(c) ==
    /\ At(c, "attach") /\ tab[call[c].tab].is \in {"lost", "gone"}
    /\ SessionFails(c, IF tab[call[c].tab].is = "lost" THEN "detached" ELSE "down")
    /\ UNCHANGED <<tab, chrome, owner, port, calls, accidents, taken>>

-----------------------------------------------------------------------------
(* The call itself, and its recovery.                                      *)

\* Where a call may leave its tab without leading it elsewhere: where it is, the project's page,
\* and the one that the project had the tab for.
Home(c) ==
    {tab[call[c].tab].at} \union
    {w \in Ports : Keyed(c) /\ (w = Key(c)[2] \/ owner[<<call[c].proj, w>>] = call[c].tab)}

\* Any call may be told an address to go to first.  Told none, looks and the filling of fields go
\* to the project's page, and a sweep back to the page it found; the others stay.
Navigates(c) ==
    \E at \in Ports \union {Blank} :
      /\ tab' = [tab EXCEPT ![call[c].tab].at = at]
      /\ \/ at \in Home(c) /\ UNCHANGED <<accidents, taken>>
         \/ /\ at \notin Home(c) /\ taken' = taken \union {call[c].tab}
            /\ IF Keyed(c) THEN Accident ELSE UNCHANGED accidents

Act(c) ==
    /\ At(c, "act") /\ tab[call[c].tab].is \in {"ok", "slow"}
    /\ Navigates(c)
    /\ call' = Done(c)
    /\ UNCHANGED <<chrome, owner, port, calls>>

\* A route, or a sweep, goes on in the one session, whatever became of the tab since.
Walk(c) ==
    /\ At(c, "act") /\ call[c].kind = "type" /\ tab[call[c].tab].is \in {"ok", "slow"}
    /\ Navigates(c)
    /\ UNCHANGED <<chrome, owner, port, call, calls>>

\* The page may have taken the click, or the text, whose answer does not come.
ActTimesOut(c) ==
    /\ At(c, "act") /\ tab[call[c].tab].is \in {"ok", "slow"}
    /\ Navigates(c)
    /\ \E lands \in IF call[c].kind = "shot" THEN {0} ELSE {0, 1} :
         call' = Fails(c, "timeout", lands)
    /\ UNCHANGED <<chrome, owner, port, calls>>

ActMeetsNoPage(c) ==
    /\ At(c, "act") /\ tab[call[c].tab].is \in {"lost", "blind", "gone"}
    /\ \E why \in {"detached", "other"} : call' = Fails(c, why, 0)
    /\ UNCHANGED <<tab, chrome, owner, port, calls, accidents, taken>>

\* The page that was probed answers again, and the call is tried again as it is.
Again(c) == [Anew(c, "open") EXCEPT ![c].mode = "again"]

Polled(c) == IF Keyed(c) /\ owner[Key(c)] \in Live THEN {owner[Key(c)]} ELSE Live

Reattached(c) ==
    /\ At(c, "recover") /\ call[c].why = "detached"
    /\ Polled(c) \intersect Answering # {}
    /\ call' = Again(c)
    /\ UNCHANGED <<tab, chrome, owner, port, calls, accidents, taken>>

\* cdp_reresolve_tab, under the lock, comes to keep t.  Each tab on the port is activated and
\* probed; one that answers is kept, or else one that only timed out; the others are closed.
\* When forced, the tab that was registered is not trusted.
Reresolved(k, forced, t, created) ==
    LET on == Candidates(k)
        trusted == on \ IF forced THEN {owner[k]} ELSE {}
        slow == {u \in trusted : tab[u].is = "slow"}
    IN /\ chrome
       /\ owner' = [owner EXCEPT ![k] = t]
       /\ \E woken \in SUBSET slow, refused \in {{}, on} :
            LET well == (trusted \intersect Answering) \union woken
                awake == [u \in Tabs |-> IF u \in woken THEN Showing(tab[u].at) ELSE tab[u]]
            IN /\ IF created THEN well \union slow = {} /\ t \in Fresh
                  ELSE t \in IF well # {} THEN well ELSE slow
               /\ tab' = [u \in Tabs |->
                            IF u \in on \ ({t} \union refused) THEN Gone
                            ELSE IF created /\ u = t THEN Showing(k[2]) ELSE awake[u]]

\* The entry is dropped first, and stays so if there is no Chrome, or no new tab.
NotReresolved(k, forced) ==
    LET on == Candidates(k) IN
    /\ chrome => \A t \in on \ IF forced THEN {owner[k]} ELSE {} : tab[t].is = "lost"
    /\ tab' = IF chrome THEN Closing(on) ELSE tab
    /\ owner' = [owner EXCEPT ![k] = NoTab]

Reresolve(c) ==
    /\ call[c].pc \in {"recover", "force"} /\ Keyed(c)
    /\ \E t \in Tabs, created \in BOOLEAN :
         /\ Reresolved(Key(c), At(c, "force"), t, created)
         /\ call' = IF At(c, "force") \/ created THEN Again(c)
                    ELSE [To(c, "reload") EXCEPT ![c].tab = t]
    /\ UNCHANGED <<chrome, port, calls, accidents, taken>>

\* The session of the recovery is one that may heal Chrome.
Mends(c) == [Anew(c, "open") EXCEPT ![c].mode = "mend"]

ReresolveFails(c) ==
    /\ call[c].pc \in {"recover", "force"} /\ Keyed(c)
    /\ NotReresolved(Key(c), At(c, "force"))
    /\ call' = Mends(c)
    /\ UNCHANGED <<chrome, port, calls, accidents, taken>>

RecoverFirst(c) ==
    /\ At(c, "recover") /\ ~Keyed(c)
    /\ call' = Mends(c)
    /\ UNCHANGED <<tab, chrome, owner, port, calls, accidents, taken>>

\* The adopted tab is reloaded; one that turns out to be detached is replaced.
Reload(c) ==
    /\ At(c, "reload")
    /\ LET is == tab[call[c].tab].is IN
       \/ is \in {"ok", "slow"} /\ call' = Again(c)
       \/ is \in {"slow", "gone"} /\ call' = Mends(c)
       \/ is \in {"lost", "blind"} /\ call' = Anew(c, "force")
    /\ UNCHANGED <<tab, chrome, owner, port, calls, accidents, taken>>

\* Or it is reloaded through the session; a page that is detached is forced out.
Mend(c) ==
    /\ At(c, "mend")
    /\ LET is == tab[call[c].tab].is IN
       \/ is \in {"ok", "slow"} /\ call' = Again(c)
       \/ is \in {"slow", "gone"} /\ call' = Anew(c, "recreate")
       \/ is = "gone" /\ call' = Done(c)
       \/ is \in {"lost", "blind"}
          /\ call' = [Anew(c, "recreate") EXCEPT ![c].force = call[c].tab]
    /\ UNCHANGED <<tab, chrome, owner, port, calls, accidents, taken>>

-----------------------------------------------------------------------------
(* Healing, and the replacement of pages that are detached.                *)

Heals(c) == IF call[c].kind = "heal" THEN Done(c)
            ELSE [To(c, "open") EXCEPT ![c].healing = FALSE, ![c].why = "none",
                                       ![c].force = NoTab, ![c].bad = {}]

\* ensure_chrome_cdp: the first page that Chrome lists answers, and so do the registered tabs.
HealFindsAllWell(c) ==
    /\ At(c, "heal") /\ chrome /\ Live \intersect Answering # {}
    /\ {owner[k] : k \in Keys} \intersect Live \subseteq Answering
    /\ owner' = Vanished(Live)
    /\ call' = Heals(c)
    /\ UNCHANGED <<tab, chrome, port, calls, accidents, taken>>

\* The registered tabs are copied under the lock and probed after it.
HealFindsBadTabs(c) ==
    /\ At(c, "heal") /\ chrome /\ Live \intersect Answering # {}
    /\ LET stale == {k \in Keys : owner[k] \in Live \ Answering} IN
       \E k \in stale :
         call' = [To(c, "drop") EXCEPT ![c].stale = stale, ![c].force = owner[k]]
    /\ owner' = Vanished(Live)
    /\ UNCHANGED <<tab, chrome, port, calls, accidents, taken>>

\* They are forgotten whichever tab they have by now.
HealDrops(c) ==
    /\ At(c, "drop")
    /\ owner' = [k \in Keys |-> IF k \in call[c].stale THEN NoTab ELSE owner[k]]
    /\ call' = [To(c, "recreate") EXCEPT ![c].stale = {}]
    /\ UNCHANGED <<tab, chrome, port, calls, accidents, taken>>

HealFindsBadPage(c) ==
    /\ At(c, "heal") /\ chrome /\ Live \ Answering # {}
    /\ call' = To(c, "recreate")
    /\ UNCHANGED <<tab, chrome, owner, port, calls, accidents, taken>>

HealFindsNoPage(c) ==
    /\ At(c, "heal") /\ chrome /\ Live = {}
    /\ \/ \E t \in Fresh : tab' = Opening({}, t, Blank) /\ call' = Heals(c)
       \/ tab' = tab /\ call' = Fails(c, call[c].why, 0)
    /\ UNCHANGED <<chrome, owner, port, calls, accidents, taken>>

\* recreate_page probes every page, whosever it is, and does not activate it first.
Recreate(c) ==
    /\ At(c, "recreate") /\ chrome
    /\ LET bad == (Live \ Answering) \union ({call[c].force} \intersect Live) IN
       /\ Live = {} \/ bad # {}
       /\ call' = [To(c, "close") EXCEPT ![c].bad = bad]
    /\ UNCHANGED <<tab, chrome, owner, port, calls, accidents, taken>>

NotRecreated(c) ==
    call' = IF call[c].healing THEN [To(c, "relaunch") EXCEPT ![c].force = NoTab, ![c].bad = {}]
            ELSE Done(c)

RecreateFindsNothing(c) ==
    /\ At(c, "recreate")
    /\ chrome => Live # {} /\ Live \subseteq Answering /\ call[c].force \notin Live
    /\ NotRecreated(c)
    /\ UNCHANGED <<tab, chrome, owner, port, calls, accidents, taken>>

\* A new page first, then the bad ones go.  The recovery also forgets tabs that are gone.
RecreateCloses(c) ==
    /\ At(c, "close") /\ chrome
    /\ \E t \in Fresh, refused \in {{}, call[c].bad} :
         tab' = Opening(call[c].bad \ refused, t, Blank)
    /\ owner' = IF call[c].healing THEN owner ELSE Vanished(Live')
    /\ \/ call' = IF call[c].healing
                  THEN Heals(c) ELSE Again(c)
       \/ call[c].healing /\ NotRecreated(c)
    /\ UNCHANGED <<chrome, port, calls, accidents, taken>>

RecreateFails(c) ==
    /\ At(c, "close")
    /\ NotRecreated(c)
    /\ UNCHANGED <<tab, chrome, owner, port, calls, accidents, taken>>

\* What is left of Chrome is killed, and it starts with a page of its own; or it does not.
Relaunch(c) ==
    /\ At(c, "relaunch") \/ (At(c, "heal") /\ ~chrome)
    /\ \/ /\ chrome' = TRUE /\ call' = Heals(c)
          /\ \E t \in Fresh : tab' = Opening(Live, t, Blank)
       \/ /\ chrome' = FALSE /\ call' = Fails(c, call[c].why, 0)
          /\ tab' = Closing(Live)
    /\ UNCHANGED <<owner, port, calls, accidents, taken>>

-----------------------------------------------------------------------------
(* What the service does not do.                                           *)

\* A tab hangs, loses its page with or without the probes noticing, or comes back.
TabChanges(t) ==
    /\ Accident /\ t \in Live
    /\ \E is \in {"ok", "slow", "lost", "blind"} \ {tab[t].is} :
         tab' = [tab EXCEPT ![t].is = is]
    /\ UNCHANGED <<chrome, owner, port, call, calls, taken>>

\* The user closes a tab, or takes it elsewhere.
UserCloses(t) ==
    /\ Accident /\ t \in Live
    /\ tab' = Closing({t})
    /\ UNCHANGED <<chrome, owner, port, call, calls, taken>>

UserBrowses(t) ==
    /\ Accident /\ t \in Live
    /\ \E at \in Ports \ {tab[t].at} : tab' = [tab EXCEPT ![t].at = at]
    /\ taken' = taken \union {t}
    /\ UNCHANGED <<chrome, owner, port, call, calls>>

ChromeDies ==
    /\ Accident /\ chrome
    /\ chrome' = FALSE /\ tab' = Closing(Live)
    /\ UNCHANGED <<owner, port, call, calls, taken>>

\* The registry is in memory; the tabs stay.
ServiceRestarts ==
    /\ Accident
    /\ owner' = [k \in Keys |-> NoTab]
    /\ call' = [c \in Calls |-> Idle]
    /\ UNCHANGED <<tab, chrome, port, calls, taken>>

CallStep(c) ==
    \/ FindTab(c) \/ FindFirst(c) \/ FindTabFails(c)
    \/ Attach(c) \/ AttachTimesOut(c) \/ ReadTimesOut(c) \/ AttachFails(c)
    \/ Act(c) \/ Walk(c) \/ ActTimesOut(c) \/ ActMeetsNoPage(c)
    \/ Reattached(c) \/ Reresolve(c) \/ ReresolveFails(c) \/ RecoverFirst(c)
    \/ Reload(c) \/ Mend(c)

HealStep(c) ==
    \/ HealFindsAllWell(c) \/ HealFindsBadTabs(c) \/ HealDrops(c) \/ HealFindsBadPage(c)
    \/ HealFindsNoPage(c)
    \/ Recreate(c) \/ RecreateFindsNothing(c) \/ RecreateCloses(c) \/ RecreateFails(c)
    \/ Relaunch(c)

Accidents == (\E t \in Tabs : TabChanges(t) \/ UserCloses(t) \/ UserBrowses(t))
             \/ ChromeDies \/ ServiceRestarts

TabsNext ==
    \/ \E c \in Calls : CallStep(c) \/ HealStep(c)
    \/ \E c \in Calls, kind \in Kinds, p \in Projects \union {Nobody} : BeginCall(c, kind, p)
    \/ Accidents

Rest == calls = 0 /\ (\A c \in Calls : At(c, "idle")) /\ UNCHANGED tabVars

TabsSpec == TabsInit /\ [][TabsNext \/ Rest]_tabVars

-----------------------------------------------------------------------------
(* Properties.                                                             *)

\* The type invariant.
TabsTypeOK ==
    /\ tab \in [Tabs -> [at : Ports \union {Blank}, is : Health]] /\ chrome \in BOOLEAN
    /\ owner \in [Keys -> Tabs \union {NoTab}] /\ port \in [Projects -> Ports]
    /\ call \in [Calls -> [pc : Steps, kind : Kinds, proj : Projects \union {Nobody},
                          tab : Tabs \union {NoTab}, mode : {"first", "mend", "again"},
                          why : Recoverable \union {"none", "down", "final", "other"},
                          healed : BOOLEAN, healing : BOOLEAN, stale : SUBSET Keys,
                          force : Tabs \union {NoTab}, bad : SUBSET Tabs, lands : 0..1]]
    /\ calls \in 0..MaxCalls /\ accidents \in 0..MaxAccidents /\ taken \subseteq Tabs

\* No tab is registered for two projects: their calls would act in each other's application.
TabsExclusive == \A k, j \in Keys : owner[k] = owner[j] /\ k # j => owner[k] = NoTab

\* A call for a project acts in no tab that is registered for a project on another port, whatever
\* was closed, adopted, healed or navigated between its attaching and its acting; except in a tab
\* that the user, or a call told an address or no project, led to another application.
ActsInOwnTab ==
    \A c \in Calls, k \in Keys :
      At(c, "act") /\ Keyed(c) /\ call[c].tab \notin taken /\ tab[call[c].tab].is # "gone"
        /\ k[1] # call[c].proj /\ k[2] # Key(c)[2] => owner[k] # call[c].tab

\* A click whose answer was lost is sent once more and not twice, and a text never: when
\* one is about to be sent, it has landed at most once before.
TwiceAtMost ==
    \A c \in Calls : At(c, "act") => call[c].lands <= IF Recovers(call[c].kind) THEN 1 ELSE 0

\* The registry and the recoveries implement the pool of tabs, one per key: nobody closes a
\* tab of another project unless it is sick, or Chrome is started anew.
Suspected == UNION {call[c].bad \union {call[c].force} : c \in Calls}
Pool == INSTANCE TabPool WITH
          has <- owner, open <- Live,
          sick <- {t \in Live : tab[t].is # "ok"} \union (Suspected \intersect Live)
PoolImplemented == Pool!PoolSpec
=============================================================================
