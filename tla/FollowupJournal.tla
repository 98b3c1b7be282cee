--------------------------- MODULE FollowupJournal ---------------------------
(***************************************************************************)
(* What FollowupStore promises of its journals: each is a list of accepted *)
(* requests that only grows, has a request once, and keeps every request   *)
(* it has confirmed at the revision the caller expected it to follow.      *)
(***************************************************************************)
EXTENDS Naturals, Sequences

CONSTANTS Chains, Ids, Creation, Payloads, Requests, None

VARIABLES
  journal,   \* of each chain: None, or its creation and the entries that follow
  confirmed  \* requests whose caller was told they are recorded

Entries == [id : Ids, payload : Payloads]
Journals == {None} \cup [created : Payloads, entries : Seq(Entries)]

NoRepeats(entries) == \A i, j \in DOMAIN entries : entries[i].id = entries[j].id => i = j

Extends(new, old) ==
  old # None =>
    /\ new # None /\ new.created = old.created
    /\ Len(old.entries) <= Len(new.entries)
    /\ \A i \in DOMAIN old.entries : new.entries[i] = old.entries[i]

(* A journal has a request as the successor of the revision it expected.   *)
Holds(j, r) ==
  /\ j # None
  /\ IF r.id = Creation THEN j.created = r.payload
     ELSE /\ r.expected < Len(j.entries)
          /\ j.entries[r.expected + 1] = [id |-> r.id, payload |-> r.payload]

Init == journal = [c \in Chains |-> None] /\ confirmed = {}

(* What was written reaches the disk, of several chains at once perhaps.   *)
Record ==
  /\ journal' \in [Chains -> Journals]
  /\ \A c \in Chains : /\ Extends(journal'[c], journal[c])
                       /\ journal'[c] # None => NoRepeats(journal'[c].entries)
  /\ UNCHANGED confirmed

Confirm(r) ==
  /\ Holds(journal[r.chain], r)
  /\ confirmed' = confirmed \cup {r}
  /\ UNCHANGED journal

Next == Record \/ \E r \in Requests : Confirm(r)

Spec == Init /\ [][Next]_<<journal, confirmed>>

(* Nothing that was confirmed is ever lost, moved or done twice.           *)
ConfirmedKept ==
  /\ \A r \in confirmed : Holds(journal[r.chain], r)
  /\ \A c \in Chains : journal[c] # None => NoRepeats(journal[c].entries)
=============================================================================
