----------------------------- MODULE MCBranches -----------------------------
(* Instance of PipelineBranches for TLC: a branch with a mux that comes back *)
(* to the main branch, another, last in the file, that forks from it, and an *)
(* optional element in the main branch.                                      *)
EXTENDS PipelineBranches, TLC

MCBranchOf == <<"main", "main", "main", "main", "side", "side", "side", "fork">>
MCFeeds    == 2 :> "side" @@ 6 :> "fork"
=============================================================================
