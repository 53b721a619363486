----------------------------- MODULE MCCdpTabs -----------------------------
\* CdpTabs on a small instance for TLC; the cfg names the symmetric sets.
EXTENDS CdpTabs, TLC

TabsSymmetry == Permutations(Tabs) \union Permutations(Calls)
                \union Permutations(Projects) \union Permutations(Ports)
=============================================================================
