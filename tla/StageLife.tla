------------------------------- MODULE StageLife -------------------------------
(***************************************************************************)
(* What a stage promises the service that started it.  It is live until it *)
(* is published; a cancelled one can only end as interrupted, another one  *)
(* never does; what it ended with is recorded in state.json when it is     *)
(* published, or never.  HarnessRun uses stages in this way.               *)
(***************************************************************************)

CONSTANTS Outcomes, Interrupted, Running

VARIABLES
  life,      \* "live", "cancelled" or "published"
  recorded   \* what state.json says of the stage

Init == life = "live" /\ recorded = Running

Cancel ==
  /\ life = "live"
  /\ life' = "cancelled"
  /\ UNCHANGED recorded

Possible == IF life = "cancelled" THEN {Interrupted} ELSE Outcomes \ {Interrupted}

End ==
  /\ life # "published"
  /\ life' = "published"
  /\ recorded' \in {Running} \cup Possible

Next == Cancel \/ End

Spec == Init /\ [][Next]_<<life, recorded>>

FairSpec == Spec /\ WF_<<life, recorded>>(End)
=============================================================================
