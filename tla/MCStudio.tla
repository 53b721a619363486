------------------------------ MODULE MCStudio ------------------------------
\* Studio, Emulator and CdpTabs on a small instance for TLC; the cfg names the sets.
EXTENDS Studio, TLC

Each(n, ks) == [k \in ks |-> n]
Lone(n, ks) == {[k \in ks |-> IF k = l THEN n ELSE 0] : l \in ks}

\* From any Studios and bridges, with nothing going on in the emulators.
OnePort == {f \in [Projects -> Ports] : \A a, b \in Projects : f[a] = f[b]}
StudioScene(rs, t, as) ==
    [calls |-> 0, jobs |-> Each(0, Jobs), accidents |-> 0, events |-> 0, ports |-> OnePort, up |-> Nobody,
     requests |-> rs, turns |-> t, alike |-> as, settled |-> FALSE]

\* From Studios that have every project open and armed.
EmulatorScene(cs, js, a, e, t) ==
    [calls |-> cs, jobs |-> js, accidents |-> a, events |-> e, ports |-> OnePort, up |-> Nobody,
     requests |-> Each(0, Requests), turns |-> t, alike |-> {FALSE},
     settled |-> TRUE]

MCScenes ==
    {StudioScene(Each(1, Requests), 0, {FALSE})}
    \union {StudioScene(rs, 1, BOOLEAN) : rs \in Lone(1, Requests)}
    \union {[StudioScene(Each(1, Requests), 0, {TRUE}) EXCEPT !.settled = TRUE]}
    \union {[StudioScene(rs, 3, {FALSE}) EXCEPT !.settled = TRUE] : rs \in Lone(1, Requests)}
    \union {EmulatorScene(0, Each(1, Jobs), 0, 0, 0)}
    \union {[EmulatorScene(0, js, 0, 0, 0) EXCEPT !.ports = [Projects -> Ports]] :
              js \in Lone(2, Jobs)}
    \union {EmulatorScene(1, js, 0, 0, 0) : js \in Lone(1, Jobs)}
    \union {EmulatorScene(0, js, 1, 0, 0) : js \in Lone(1, Jobs)}
    \union {EmulatorScene(0, js, 0, 1, 0) : js \in Lone(1, Jobs)}
    \union {EmulatorScene(0, js, 0, 0, 1) : js \in Lone(1, Jobs)}
    \union {[EmulatorScene(0, js, 0, 2, 0) EXCEPT !.up = p] :
              js \in Lone(1, Jobs), p \in Projects}
    \union {[EmulatorScene(0, js, 0, 0, 0) EXCEPT !.up = p, !.alike = {TRUE}, !.settled = FALSE] :
              js \in Lone(1, Jobs), p \in Projects}

MCSymmetry == Permutations(Requests) \union Permutations(Projects) \union Permutations(Studios)
              \union Permutations(Jobs) \union Permutations(Ports)
=============================================================================
