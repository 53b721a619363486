------------------------------ MODULE MCDeploy -------------------------------
(* The deploys of one project by two requests.                             *)
EXTENDS Deploy, TLC

DeployerSymmetry == Permutations(Deployers) \union Permutations(Starters)
==============================================================================
