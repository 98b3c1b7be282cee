------------------------------ MODULE MCCampaign ------------------------------
(* Campaign on small instances.                                            *)
EXTENDS Campaign, TLC

CONSTANTS s1, s2, A, B, p, i

Task(role, wave, deps, from, workspace) ==
  [kind |-> "implementation", role |-> role, wave |-> wave, deps |-> deps,
   from |-> from, workspace |-> workspace]

(* A slice, its integration in another worktree, and the next wave there.  *)
TwoWaves == << Task("task", 1, {}, None, A), Task("integration", 1, {1}, None, B),
               Task("task", 2, {2}, 2, B) >>

(* Two repositories: the second wave of one need not wait for the other.   *)
TwoRepositories == << Task("integration", 1, {}, None, A), Task("task", 1, {}, None, B),
                      Task("task", 2, {1}, 1, A) >>

OneRepository == [w \in Workspaces |-> "repository"]
OwnRepository == [w \in Workspaces |-> w]
=============================================================================
