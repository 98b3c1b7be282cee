-------------------------- MODULE MCFollowupChain --------------------------
(* FollowupChain on small instances.                                       *)
EXTENDS FollowupChain, TLC

CONSTANTS A, B, wS, wQ, wA, wB, w1, w2, w3, w4

Was(x) == [change |-> x, copy |-> 0]
OldSource == {Was("s")}
NewSource == {Was("s"), Was("s2")}
Clean(head) == [head |-> head, dirty |-> {}]

Baseline(w, base, head, dirty, verified) ==
  [ws |-> w, base |-> base, tree |-> [head |-> head, dirty |-> dirty], own |-> head \ base, verified |-> verified]

OneTask(published) ==
  (A :> [deps |-> {}, parent |-> Source, published |-> published, active |-> FALSE,
         baseline |-> Baseline(wA, OldSource, OldSource \cup {Was("a")}, {}, TRUE)])

OnePublished == OneTask(TRUE)

(* A reviewed branch, and one on it, not reviewed, that its writer has not left.*)
TwoTasks ==
  (A :> [deps |-> {}, parent |-> Source, published |-> FALSE, active |-> FALSE,
         baseline |-> Baseline(wA, OldSource, OldSource \cup {Was("a")}, {}, TRUE)])
  @@
  (B :> [deps |-> {A}, parent |-> A, published |-> FALSE, active |-> TRUE,
         baseline |-> Baseline(wB, OldSource \cup {Was("a")}, OldSource \cup {Was("a"), Was("b")}, {}, FALSE)])

Start ==
  [w \in Worktrees |->
     IF w \in {Contract[t].baseline.ws : t \in Tasks}
     THEN (CHOOSE b \in {Contract[t].baseline : t \in Tasks} : b.ws = w).tree
     ELSE Clean(NewSource)]

(* Every build, and on a leaf the tests it needs.                          *)
Needed == [t \in Tasks |-> {Build(t)} \cup (IF t \in Leaves THEN ChainTests(t) ELSE {})]

Attempts == [t \in Tasks |-> IF t = A THEN 2 ELSE 1]

(* A replay is replaced by the next one, or its worktree goes back.        *)
Switches == {<<w1, w4>>, <<w2, w1>>}

(* What the writers have prepared: a replay of the first branch with an edit that is not committed, the
   commit of it, the second branch on top, a newer source, and the first branch on top of that. *)
Again(x) == [change |-> x, copy |-> 1]
Prepared ==
  [Start EXCEPT ![w1] = [Clean(NewSource \cup {Again("a")}) EXCEPT !.dirty = {"x"}],
                ![w2] = Clean(NewSource \cup {Again("a"), Was("x")}),
                ![w3] = Clean(NewSource \cup {Again("a"), Was("x"), Again("b")}),
                ![wQ] = Clean(NewSource \cup {Was("s3")}),
                ![w4] = Clean(NewSource \cup {Was("s3"), Again("a"), Again("x")})]

(* Two newer sources and a worktree that has only the last of them.        *)
Emptied ==
  [Start EXCEPT ![wQ] = Clean(NewSource \cup {Was("s3")}), ![w1] = Clean(NewSource),
                ![w2] = Clean(NewSource \cup {Was("s3")})]
=============================================================================
