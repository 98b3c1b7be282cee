---------------------------- MODULE FollowupStore ----------------------------
(***************************************************************************)
(* The journals of follow-up chains under one Git directory, and the       *)
(* server processes that replace them under one exclusive lock: waiting,   *)
(* decision, temporary file, rename, fsync of the directory, unlock.       *)
(* Processes die and the power fails between any two steps.                *)
(*                                                                         *)
(* Abstracted: what an update computes is FollowupChain's business; here   *)
(* it may be refused, or leaves the chain with any worktrees reserved.     *)
(* owner_id is part of the payload.  A rename is visible at once and       *)
(* reaches the disk by itself later, in order, or by fsync.  Readers,      *)
(* which take the lock as shared, and the checks of file types are left    *)
(* out.                                                                    *)
(***************************************************************************)
EXTENDS Naturals, Sequences, FiniteSets

CONSTANTS
  Servers, Chains, Worktrees, Payloads,
  Ids, Creation,    \* request_id of mutations, and what stands for it in create
  Requests,         \* what callers send
  Reservations,     \* what an update may leave reserved
  MaxCalls, MaxFaults,  \* bounds
  None

Entries == [id : Ids, payload : Payloads]
RequestForms == [chain : Chains, id : Ids \cup {Creation}, expected : Nat, payload : Payloads]

ASSUME StoreAssumption ==
  /\ Creation \notin Ids /\ None \notin Servers
  /\ Requests \subseteq RequestForms /\ Reservations \subseteq SUBSET Worktrees
  /\ MaxCalls \in Nat /\ MaxFaults \in Nat

VARIABLES
  visible, durable,  \* journal.json of each chain, as processes see it and as the disk has it
  lock,              \* who holds the flock
  call,              \* of each server: its request, how far it is, the document in hand, the answer
  answers,           \* history: requests with their answers
  calls, faults      \* bounded counters

disk == <<visible, durable>>
vars == <<visible, durable, lock, call, answers, calls, faults>>

Documents ==
  [created : Payloads, events : Seq(Entries), revision : Nat, receipts : SUBSET Entries,
   reserved : SUBSET Worktrees]

Steps == {"waiting", "locked", "written", "replaced", "done"}
Answers == {"recorded", "repeated", "refused", "failed"}

Call(r, step, doc, answer) == [req |-> r, step |-> step, doc |-> doc, answer |-> answer]
At(s, step) == call[s] # None /\ call[s].step = step

Init ==
  /\ visible = [c \in Chains |-> None] /\ durable = visible
  /\ lock = None /\ call = [s \in Servers |-> None]
  /\ answers = {} /\ calls = 0 /\ faults = 0

----------------------------------------------------------------------------
(* The decision, on the document that was read.                            *)

(* create finds its own document; mutate finds its own receipt.            *)
Repeats(r) ==
  LET d == visible[r.chain] IN
  /\ d # None
  /\ IF r.id = Creation THEN d.created = r.payload
     ELSE [id |-> r.id, payload |-> r.payload] \in d.receipts

Accepts(r) ==
  LET d == visible[r.chain] IN
  IF r.id = Creation THEN d = None
  ELSE /\ d # None
       /\ \A e \in d.receipts : e.id # r.id
       /\ d.revision = r.expected

(* _reject_overlap: a journal that is missing reserves nothing.            *)
Free(c, reserved) ==
  \A other \in Chains \ {c} : visible[other] # None => visible[other].reserved \cap reserved = {}

MutNewDocument(r, reserved) ==
  LET d == visible[r.chain] IN
  IF r.id = Creation
  THEN [created |-> r.payload, events |-> << >>, revision |-> 0, receipts |-> {}, reserved |-> reserved]
  ELSE [d EXCEPT !.events = Append(d.events, [id |-> r.id, payload |-> r.payload]),
                 !.revision = d.revision + 1, !.reserved = reserved]

NewDocument(r, reserved) ==
  LET d == visible[r.chain]
      e == [id |-> r.id, payload |-> r.payload] IN
  IF r.id = Creation
  THEN [created |-> r.payload, events |-> << >>, revision |-> 0, receipts |-> {}, reserved |-> reserved]
  ELSE [d EXCEPT !.events = Append(d.events, e), !.revision = d.revision + 1,
                 !.receipts = d.receipts \cup {e}, !.reserved = reserved]

----------------------------------------------------------------------------
(* One call, step by step.                                                 *)

Receive(s, r) ==
  /\ call[s] = None /\ calls < MaxCalls
  /\ call' = [call EXCEPT ![s] = Call(r, "waiting", None, None)]
  /\ calls' = calls + 1
  /\ UNCHANGED <<disk, lock, answers, faults>>

(* One lock for each journal instead of one for all.                       *)
MutAcquire(s) ==
  /\ At(s, "waiting")
  /\ {t \in Servers \ {s} : call[t] # None /\ call[t].step # "waiting"
                            /\ call[t].req.chain = call[s].req.chain} = {}
  /\ lock' = s
  /\ call' = [call EXCEPT ![s].step = "locked"]
  /\ UNCHANGED <<disk, answers, calls, faults>>

Acquire(s) ==
  /\ At(s, "waiting") /\ lock = None
  /\ lock' = s
  /\ call' = [call EXCEPT ![s].step = "locked"]
  /\ UNCHANGED <<disk, answers, calls, faults>>

Ends(s, answer) ==
  /\ call' = [call EXCEPT ![s] = Call(call[s].req, "done", None, answer)]
  /\ UNCHANGED <<lock, answers, calls, faults>>

Repeat(s) ==
  /\ At(s, "locked") /\ Repeats(call[s].req)
  /\ Ends(s, "repeated") /\ UNCHANGED disk

(* A conflict of the request, or the update itself says no.                *)
Refuse(s) ==
  /\ At(s, "locked") /\ ~ Repeats(call[s].req)
  /\ Ends(s, "refused") /\ UNCHANGED disk

(* The temporary file is complete and synced.                              *)
Write(s, reserved) ==
  LET r == call[s].req IN
  /\ At(s, "locked")
  /\ ~ Repeats(r) /\ Accepts(r) /\ Free(r.chain, reserved)
  /\ call' = [call EXCEPT ![s] = Call(r, "written", NewDocument(r, reserved), None)]
  /\ UNCHANGED <<disk, lock, answers, calls, faults>>

Replace(s) ==
  /\ At(s, "written")
  /\ visible' = [visible EXCEPT ![call[s].req.chain] = call[s].doc]
  /\ call' = [call EXCEPT ![s].step = "replaced"]
  /\ UNCHANGED <<durable, lock, answers, calls, faults>>

MutSync(s) ==
  /\ At(s, "replaced")
  /\ Ends(s, "recorded") /\ UNCHANGED disk

Sync(s) ==
  /\ At(s, "replaced")
  /\ durable' = visible /\ UNCHANGED visible
  /\ Ends(s, "recorded")

Return(s) ==
  /\ At(s, "done")
  /\ lock' = None
  /\ answers' = answers \cup {[req |-> call[s].req, answer |-> call[s].answer]}
  /\ call' = [call EXCEPT ![s] = None]
  /\ UNCHANGED <<disk, calls, faults>>

----------------------------------------------------------------------------
(* Faults, and the disk on its own.                                        *)

(* Writing, renaming or fsync reports an error; what happened so far stays.*)
Fail(s) ==
  /\ At(s, "written") \/ At(s, "replaced")
  /\ faults < MaxFaults
  /\ call' = [call EXCEPT ![s] = Call(call[s].req, "done", None, "failed")]
  /\ faults' = faults + 1
  /\ UNCHANGED <<disk, lock, answers, calls>>

MutCrash(s) ==
  /\ call[s] # None /\ faults < MaxFaults
  /\ call' = [call EXCEPT ![s] = None]
  /\ faults' = faults + 1
  /\ UNCHANGED <<disk, lock, answers, calls>>

(* The kernel drops the flock of a process that dies.                      *)
Crash(s) ==
  /\ call[s] # None /\ faults < MaxFaults
  /\ call' = [call EXCEPT ![s] = None]
  /\ lock' = IF lock = s THEN None ELSE lock
  /\ faults' = faults + 1
  /\ UNCHANGED <<disk, answers, calls>>

PowerFails ==
  /\ faults < MaxFaults
  /\ visible' = durable /\ UNCHANGED durable
  /\ call' = [s \in Servers |-> None] /\ lock' = None
  /\ faults' = faults + 1
  /\ UNCHANGED <<answers, calls>>

Flush ==
  /\ durable # visible
  /\ durable' = visible
  /\ UNCHANGED <<visible, lock, call, answers, calls, faults>>

----------------------------------------------------------------------------

Step(s) ==
  \/ Acquire(s) \/ Repeat(s) \/ Refuse(s)
  \/ \E reserved \in Reservations : Write(s, reserved)
  \/ Replace(s) \/ Sync(s) \/ Return(s)

Next ==
  \/ \E s \in Servers :
       \/ \E r \in Requests : Receive(s, r)
       \/ Step(s) \/ Fail(s) \/ Crash(s)
  \/ PowerFails \/ Flush

Spec == Init /\ [][Next]_vars

(* A server goes on with its call, and flock does not pass over one that   *)
(* waits for ever.                                                         *)
FairSpec == Spec /\ \A s \in Servers : WF_vars(Step(s)) /\ SF_vars(Acquire(s))

----------------------------------------------------------------------------
(* Properties.                                                             *)

Calls ==
  [req : Requests, step : Steps, doc : {None} \cup Documents, answer : {None} \cup Answers]

ASSUME NoneAssumption == None \notin Documents \cup Calls \cup [created : Payloads, entries : Seq(Entries)]

(* Every variable has its type, and a journal is one _validate_journal     *)
(* reads: as many receipts as revisions, one for each event.               *)
Valid(d) ==
  /\ d \in Documents
  /\ d.revision = Len(d.events)
  /\ d.receipts = {d.events[i] : i \in DOMAIN d.events}

TypeOK ==
  /\ \A c \in Chains : (visible[c] = None \/ Valid(visible[c])) /\ (durable[c] = None \/ Valid(durable[c]))
  /\ DOMAIN visible = Chains /\ DOMAIN durable = Chains
  /\ lock \in Servers \cup {None}
  /\ call \in [Servers -> {None} \cup Calls]
  /\ answers \subseteq [req : Requests, answer : Answers]
  /\ calls \in Nat /\ faults \in Nat

(* A worktree is reserved by one chain at most, whatever processes died or *)
(* finished on the way, before a power failure and after it.               *)
Disjoint(journals) ==
  \A c, d \in Chains :
    c # d /\ journals[c] # None /\ journals[d] # None => journals[c].reserved \cap journals[d].reserved = {}
ReservedOnce == Disjoint(visible) /\ Disjoint(durable)

(* Every call returns, or its process ends: nobody keeps the lock.         *)
CallsReturn == \A s \in Servers : call[s] # None ~> call[s] = None

(* The store keeps the promise of FollowupJournal: a request is recorded   *)
(* once, as the successor of the revision the caller expected, and one     *)
(* that was confirmed survives crashes, errors and power failures.         *)
JournalOf(d) == IF d = None THEN None ELSE [created |-> d.created, entries |-> d.events]
Promise ==
  INSTANCE FollowupJournal WITH
    journal <- [c \in Chains |-> JournalOf(durable[c])],
    confirmed <- {a.req : a \in {a \in answers : a.answer = "recorded"}}
ImplementsJournal == Promise!Spec
=============================================================================
