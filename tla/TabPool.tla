------------------------------ MODULE TabPool ------------------------------
(***************************************************************************)
(* What the tab registry promises to the projects that share one Chrome:   *)
(* a tab belongs to one project, and whoever works for a project closes    *)
(* tabs that no other project has, or that are sick; short of a restart    *)
(* of Chrome, or an accident.                                              *)
(***************************************************************************)
EXTENDS Naturals

CONSTANTS Keys,   \* a project on a web port
          Tabs,
          NoTab   \* what a key has that has no tab

VARIABLES has,        \* the tab of each key
          open,       \* the tabs Chrome has open
          sick,       \* those of them that do not answer, or were seen not to
          accidents   \* accidents that may still come

pool == <<has, open, sick, accidents>>

Others(k) == {has[j] : j \in Keys \ {k}}

PoolInit == /\ has = [k \in Keys |-> NoTab] /\ open \in SUBSET Tabs
            /\ sick = {} /\ accidents \in Nat

\* An entry may be forgotten at any time; none appears.
Forgotten(keys) == \A k \in keys : has'[k] \in {has[k], NoTab}

\* A key gets a tab that is open and nobody else's, or none; and no tab of another key is closed.
Settle(k) ==
    /\ has'[k] \in (open' \ Others(k)) \union {NoTab}
    /\ open' \subseteq open \union {has'[k]}
    /\ open \intersect Others(k) \subseteq open'
    /\ Forgotten(Keys \ {k})
    /\ UNCHANGED accidents

\* Only sick tabs are closed, of whichever key; a new tab may be opened, for nobody.
Purge ==
    /\ open \ open' \subseteq sick
    /\ (open' \ open) \intersect {has[k] : k \in Keys} = {}
    /\ Forgotten(Keys)
    /\ UNCHANGED accidents

\* Chrome starts anew.
Relaunch ==
    /\ open' \intersect {has[k] : k \in Keys} = {}
    /\ Forgotten(Keys)
    /\ UNCHANGED accidents

\* What the service does not do: the user, a crash, its own death.
Accident == accidents' < accidents /\ Forgotten(Keys)

PoolNext == (\E k \in Keys : Settle(k)) \/ Purge \/ Relaunch \/ Accident

PoolSpec == PoolInit /\ [][PoolNext]_pool
=============================================================================
