--------------------------- MODULE FollowupStoreProofs ---------------------------
(* What holds of FollowupStore for any number of servers, chains, requests *)
(* and faults: the store implements FollowupJournal, so that what it has   *)
(* confirmed is never lost, and no worktree is reserved twice.             *)
EXTENDS FollowupStore, SequenceTheorems, TLAPS

USE StoreAssumption

----------------------------------------------------------------------------
(* The inductive invariant.                                                *)

(* Only the holder of the lock is past waiting.                            *)
Locked == \A s \in Servers : call[s] # None => call[s].step = "waiting" \/ lock = s

(* The journal has the request in the place it asked for.                  *)
Has(d, r) == d # None /\ Promise!Holds(JournalOf(d), r)

(* What is new in a document leaves the old one as it was.                 *)
Follows(new, old) == Promise!Extends(JournalOf(new), JournalOf(old))

Whole(d) == Valid(d) /\ Promise!NoRepeats(d.events)

(* The document in hand is the next one of its chain, and reserves nothing *)
(* others reserve, as long as the lock is held.                            *)
WrittenNext ==
  \A s \in Servers : call[s] # None /\ call[s].step = "written" =>
    LET r == call[s].req
        d == call[s].doc IN
    Whole(d) /\ Has(d, r) /\ Follows(d, visible[r.chain]) /\ Free(r.chain, d.reserved)

ReplacedHas ==
  \A s \in Servers : call[s] # None /\ call[s].step = "replaced" =>
    Has(visible[call[s].req.chain], call[s].req)

Answered == \A s \in Servers : call[s] # None /\ call[s].step = "done" => call[s].answer \in Answers

(* Whoever is or was told "recorded" has the request on the disk.          *)
RecordedKept ==
  /\ \A s \in Servers : call[s] # None /\ call[s].step = "done" /\ call[s].answer = "recorded" =>
       Has(durable[call[s].req.chain], call[s].req)
  /\ \A a \in answers : a.answer = "recorded" => Has(durable[a.req.chain], a.req)

JournalsWhole ==
  \A c \in Chains :
    /\ visible[c] # None => Whole(visible[c])
    /\ durable[c] # None => Whole(durable[c])
    /\ Follows(visible[c], durable[c])

Typed ==
  /\ visible \in [Chains -> {None} \cup Documents] /\ durable \in [Chains -> {None} \cup Documents]
  /\ lock \in Servers \cup {None}
  /\ call \in [Servers -> {None} \cup Calls]
  /\ answers \subseteq [req : Requests, answer : Answers]
  /\ calls \in Nat /\ faults \in Nat

IInv ==
  Typed /\ Locked /\ WrittenNext /\ ReplacedHas /\ Answered /\ RecordedKept /\ JournalsWhole /\ ReservedOnce

----------------------------------------------------------------------------
(* Requests and documents.                                                 *)

LEMMA RequestType ==
  ASSUME NEW r \in Requests
  PROVE  /\ r.chain \in Chains /\ r.id \in Ids \cup {Creation} /\ r.expected \in Nat /\ r.payload \in Payloads
         /\ r.id # Creation => [id |-> r.id, payload |-> r.payload] \in Entries
  BY DEF RequestForms, Entries

LEMMA DocumentIsSome ==
  ASSUME NEW d \in Documents
  PROVE  /\ d # None /\ JournalOf(d) = [created |-> d.created, entries |-> d.events]
         /\ JournalOf(d) \in [created : Payloads, entries : Seq(Entries)] /\ JournalOf(d) # None
<1>1. d # None
  BY NoneAssumption
<1>2. JournalOf(d) = [created |-> d.created, entries |-> d.events]
  BY <1>1 DEF JournalOf
<1>3. JournalOf(d) \in [created : Payloads, entries : Seq(Entries)]
  BY <1>2 DEF Documents
<1>4. QED
  BY <1>1, <1>2, <1>3, NoneAssumption

(* The decision, and the document a request is answered with: whole, with  *)
(* the request where it asked to be, and the old journal as it was.        *)
LEMMA NewDocumentFollows ==
  ASSUME Typed, JournalsWhole, NEW r \in Requests, NEW reserved \in Reservations, Accepts(r)
  PROVE  LET d == NewDocument(r, reserved) IN
         Whole(d) /\ Has(d, r) /\ Follows(d, visible[r.chain]) /\ d.reserved = reserved
<1> DEFINE d == NewDocument(r, reserved)
           old == visible[r.chain]
           e == [id |-> r.id, payload |-> r.payload]
<1>1. reserved \in SUBSET Worktrees
  OBVIOUS
<1>2. CASE r.id = Creation
  <2>1. old = None /\ d = [created |-> r.payload, events |-> << >>, revision |-> 0, receipts |-> {}, reserved |-> reserved]
    BY <1>2 DEF Accepts, NewDocument
  <2>2. d \in Documents
    <3>1. << >> \in Seq(Entries) /\ {} \in SUBSET Entries /\ 0 \in Nat /\ r.payload \in Payloads
      BY EmptySeq, RequestType
    <3>2. QED
      BY <2>1, <1>1, <3>1 DEF Documents
  <2>3. Whole(d)
    <3>1. Len(d.events) = 0 /\ DOMAIN d.events = {}
      BY <2>1
    <3>2. d.receipts = {d.events[i] : i \in DOMAIN d.events}
      BY <3>1, <2>1
    <3>3. QED
      BY <2>1, <2>2, <3>1, <3>2 DEF Whole, Valid, Promise!NoRepeats
  <2>4. d # None /\ JournalOf(d) = [created |-> d.created, entries |-> d.events] /\ JournalOf(d) # None
    BY <2>2, DocumentIsSome
  <2>5. Has(d, r)
    BY <1>2, <2>1, <2>4 DEF Has, Promise!Holds
  <2>6. Follows(d, old)
    BY <2>1 DEF Follows, JournalOf, Promise!Extends
  <2>7. QED
    BY <2>1, <2>3, <2>5, <2>6
<1>3. CASE r.id # Creation
  <2>1. /\ old # None /\ old \in Documents /\ Whole(old) /\ old.revision = r.expected
        /\ \A x \in old.receipts : x.id # r.id
    BY <1>3, RequestType DEF Accepts, Typed, JournalsWhole
  <2>2. d = [old EXCEPT !.events = Append(old.events, e), !.revision = old.revision + 1,
                        !.receipts = old.receipts \cup {e}, !.reserved = reserved]
    BY <1>3 DEF NewDocument
  <2>3. e \in Entries /\ old.events \in Seq(Entries) /\ old.receipts \in SUBSET Entries /\ old.revision \in Nat
        /\ old.created \in Payloads
    BY <2>1, <1>3, RequestType DEF Documents
  <2>4. /\ d.events = Append(old.events, e) /\ d.revision = old.revision + 1
        /\ d.receipts = old.receipts \cup {e} /\ d.created = old.created /\ d.reserved = reserved
    BY <2>1, <2>2 DEF Documents
  <2>5. d.events \in Seq(Entries) /\ Len(d.events) = Len(old.events) + 1 /\ d.events[Len(old.events) + 1] = e
        /\ \A i \in 1 .. Len(old.events) : d.events[i] = old.events[i]
    BY <2>3, <2>4, AppendProperties
  <2>6. d \in Documents
    <3>1. d.receipts \in SUBSET Entries /\ d.revision \in Nat /\ d.events \in Seq(Entries) /\ d.created \in Payloads
          /\ d.reserved \in SUBSET Worktrees
      BY <1>1, <2>3, <2>4, <2>5
    <3>2. d = [created |-> d.created, events |-> d.events, revision |-> d.revision, receipts |-> d.receipts,
               reserved |-> d.reserved]
      BY <2>1, <2>2 DEF Documents
    <3>3. QED
      BY <3>1, <3>2 DEF Documents
  <2>7. /\ d # None /\ JournalOf(d) = [created |-> d.created, entries |-> d.events] /\ JournalOf(d) # None
        /\ JournalOf(old) = [created |-> old.created, entries |-> old.events]
    BY <2>1, <2>6, DocumentIsSome
  <2>8. old.revision = Len(old.events) /\ old.receipts = {old.events[i] : i \in DOMAIN old.events}
        /\ Promise!NoRepeats(old.events)
    BY <2>1 DEF Whole, Valid
  <2>9. Valid(d)
    <3>1. DOMAIN d.events = 1 .. Len(old.events) + 1 /\ DOMAIN old.events = 1 .. Len(old.events)
      BY <2>3, <2>5
    <3>2. d.receipts = {d.events[i] : i \in DOMAIN d.events}
      BY <2>3, <2>4, <2>5, <2>8, <3>1
    <3>3. QED
      BY <2>4, <2>5, <2>6, <2>8, <3>2, <2>3 DEF Valid
  <2>10. Promise!NoRepeats(d.events)
    <3>1. \A i \in 1 .. Len(old.events) : old.events[i].id # r.id
      BY <2>1, <2>3, <2>8
    <3>2. QED
      <4>1. DOMAIN d.events = 1 .. Len(old.events) + 1 /\ DOMAIN old.events = 1 .. Len(old.events)
            /\ Len(old.events) \in Nat /\ d.events[Len(old.events) + 1].id = r.id
        BY <2>3, <2>5
      <4>2. \A i, j \in 1 .. Len(old.events) : old.events[i].id = old.events[j].id => i = j
        BY <2>8, <4>1 DEF Promise!NoRepeats
      <4>3. SUFFICES ASSUME NEW i \in 1 .. Len(old.events) + 1, NEW j \in 1 .. Len(old.events) + 1,
                            d.events[i].id = d.events[j].id
                     PROVE  i = j
        BY <4>1 DEF Promise!NoRepeats
      <4>4. CASE i \in 1 .. Len(old.events) /\ j \in 1 .. Len(old.events)
        BY <2>5, <4>2, <4>3, <4>4
      <4>5. CASE i = Len(old.events) + 1 /\ j # Len(old.events) + 1
        <5>1. j \in 1 .. Len(old.events)
          BY <4>1, <4>3, <4>5
        <5>2. d.events[j].id # r.id
          BY <2>5, <3>1, <5>1
        <5>3. d.events[i].id = r.id
          BY <4>1, <4>5
        <5>4. QED
          BY <4>3, <5>2, <5>3
      <4>6. CASE j = Len(old.events) + 1 /\ i # Len(old.events) + 1
        <5>1. i \in 1 .. Len(old.events)
          BY <4>1, <4>3, <4>6
        <5>2. d.events[i].id # r.id
          BY <2>5, <3>1, <5>1
        <5>3. d.events[j].id = r.id
          BY <4>1, <4>6
        <5>4. QED
          BY <4>3, <5>2, <5>3
      <4>7. QED
        BY <4>1, <4>4, <4>5, <4>6
  <2>11. Has(d, r)
    <3>1. r.expected = Len(old.events) /\ Len(old.events) < Len(d.events)
      BY <2>1, <2>3, <2>5, <2>8
    <3>2. QED
      BY <1>3, <2>5, <2>7, <3>1 DEF Has, Promise!Holds
  <2>12. Follows(d, old)
    <3>1. Len(old.events) <= Len(d.events) /\ DOMAIN old.events = 1 .. Len(old.events)
      BY <2>3, <2>5
    <3>2. QED
      BY <2>4, <2>5, <2>7, <3>1 DEF Follows, Promise!Extends
  <2>13. QED
    BY <2>4, <2>9, <2>10, <2>11, <2>12 DEF Whole
<1>4. QED
  BY <1>2, <1>3

(* To follow a document is to keep what it has, and to have it in turn.    *)
LEMMA FollowersHave ==
  ASSUME NEW r \in Requests, NEW old \in {None} \cup Documents, NEW new \in {None} \cup Documents,
         Follows(new, old), Has(old, r)
  PROVE  Has(new, r)
<1>1. old \in Documents /\ JournalOf(old) = [created |-> old.created, entries |-> old.events]
      /\ JournalOf(old) # None
  BY DocumentIsSome DEF Has
<1>2. JournalOf(new) # None /\ JournalOf(new).created = old.created
      /\ Len(old.events) <= Len(JournalOf(new).entries)
      /\ \A i \in DOMAIN old.events : JournalOf(new).entries[i] = old.events[i]
  BY <1>1 DEF Follows, Promise!Extends
<1>3. new \in Documents /\ new # None /\ JournalOf(new) = [created |-> new.created, entries |-> new.events]
  BY <1>2, DocumentIsSome DEF JournalOf
<1>4. Len(old.events) \in Nat /\ DOMAIN old.events = 1 .. Len(old.events) /\ Len(new.events) \in Nat
  BY <1>1, <1>3 DEF Documents
<1>5. CASE r.id = Creation
  BY <1>1, <1>2, <1>3, <1>5 DEF Has, Promise!Holds
<1>6. CASE r.id # Creation
  <2>1. r.expected < Len(old.events) /\ old.events[r.expected + 1] = [id |-> r.id, payload |-> r.payload]
    BY <1>1, <1>6 DEF Has, Promise!Holds
  <2>2. r.expected + 1 \in DOMAIN old.events
    BY <1>4, <2>1, RequestType
  <2>3. QED
    BY <1>2, <1>3, <1>4, <1>6, <2>1, <2>2, RequestType DEF Has, Promise!Holds
<1>7. QED
  BY <1>5, <1>6

LEMMA FollowsItself ==
  ASSUME NEW d \in {None} \cup Documents PROVE Follows(d, d)
<1>1. CASE d = None
  BY <1>1 DEF Follows, JournalOf, Promise!Extends
<1>2. CASE d \in Documents
  <2>1. JournalOf(d) = [created |-> d.created, entries |-> d.events] /\ JournalOf(d) # None
        /\ Len(d.events) \in Nat
    BY <1>2, DocumentIsSome DEF Documents
  <2>2. QED
    BY <2>1 DEF Follows, Promise!Extends
<1>3. QED
  BY <1>1, <1>2

LEMMA FollowsOn ==
  ASSUME NEW a \in {None} \cup Documents, NEW b \in {None} \cup Documents, NEW c \in {None} \cup Documents,
         Follows(b, a), Follows(c, b)
  PROVE  Follows(c, a)
<1>1. CASE a = None
  BY <1>1 DEF Follows, JournalOf, Promise!Extends
<1>2. CASE a \in Documents
  <2>1. JournalOf(a) = [created |-> a.created, entries |-> a.events] /\ JournalOf(a) # None
        /\ Len(a.events) \in Nat /\ DOMAIN a.events = 1 .. Len(a.events)
    BY <1>2, DocumentIsSome DEF Documents
  <2>2. b \in Documents
    BY <2>1 DEF Follows, Promise!Extends, JournalOf
  <2>3. JournalOf(b) = [created |-> b.created, entries |-> b.events] /\ JournalOf(b) # None
        /\ Len(b.events) \in Nat /\ DOMAIN b.events = 1 .. Len(b.events)
    BY <2>2, DocumentIsSome DEF Documents
  <2>4. c \in Documents
    BY <2>3 DEF Follows, Promise!Extends, JournalOf
  <2>5. JournalOf(c) = [created |-> c.created, entries |-> c.events] /\ JournalOf(c) # None
        /\ Len(c.events) \in Nat /\ DOMAIN c.events = 1 .. Len(c.events)
    BY <2>4, DocumentIsSome DEF Documents
  <2>6. b.created = a.created /\ Len(a.events) <= Len(b.events) /\ \A i \in DOMAIN a.events : b.events[i] = a.events[i]
    BY <2>1, <2>3 DEF Follows, Promise!Extends
  <2>7. c.created = b.created /\ Len(b.events) <= Len(c.events) /\ \A i \in DOMAIN b.events : c.events[i] = b.events[i]
    BY <2>3, <2>5 DEF Follows, Promise!Extends
  <2>8. \A i \in DOMAIN a.events : c.events[i] = a.events[i]
    BY <2>1, <2>3, <2>6, <2>7
  <2>9. QED
    BY <2>1, <2>5, <2>6, <2>7, <2>8 DEF Follows, Promise!Extends
<1>3. QED
  BY <1>1, <1>2

----------------------------------------------------------------------------
(* The invariant holds in the initial state and survives every step.       *)

LEMMA InitInvariant == Init => IInv
<1> SUFFICES ASSUME Init PROVE IInv
  OBVIOUS
<1> USE DEF Init
<1>1. Typed
  BY DEF Typed
<1>2. Locked /\ WrittenNext /\ ReplacedHas /\ Answered /\ RecordedKept /\ ReservedOnce
  BY DEF Locked, WrittenNext, ReplacedHas, Answered, RecordedKept, ReservedOnce, Disjoint
<1>3. JournalsWhole
  BY FollowsItself DEF JournalsWhole
<1>4. QED
  BY <1>1, <1>2, <1>3 DEF IInv

(* The states of the calls after a call changed at one server.             *)
LEMMA CallIsSome ==
  ASSUME NEW r \in Requests, NEW step \in Steps, NEW doc \in {None} \cup Documents,
         NEW answer \in {None} \cup Answers
  PROVE  /\ Call(r, step, doc, answer) \in Calls /\ Call(r, step, doc, answer) # None
         /\ Call(r, step, doc, answer).req = r /\ Call(r, step, doc, answer).step = step
         /\ Call(r, step, doc, answer).doc = doc /\ Call(r, step, doc, answer).answer = answer
<1>1. Call(r, step, doc, answer) \in Calls
  BY DEF Call, Calls
<1>2. QED
  BY <1>1, NoneAssumption DEF Call

LEMMA CallType ==
  ASSUME Typed, NEW s \in Servers, call[s] # None
  PROVE  /\ call[s] \in Calls /\ call[s].req \in Requests /\ call[s].step \in Steps
         /\ call[s].doc \in {None} \cup Documents /\ call[s].answer \in {None} \cup Answers
  BY DEF Typed, Calls

(* A step that leaves the disk alone keeps what is said of the disk.       *)
LEMMA QuietDisk ==
  ASSUME IInv, UNCHANGED disk PROVE JournalsWhole' /\ ReservedOnce'
  BY DEF IInv, disk, JournalsWhole, ReservedOnce, Disjoint, Whole, Follows

(* A step that changes one call, and neither disk nor answers.             *)
LEMMA OneCall ==
  ASSUME IInv, NEW s \in Servers, NEW new \in Calls, call' = [call EXCEPT ![s] = new],
         UNCHANGED disk, answers' = answers,
         lock' \in Servers \cup {None}, calls' \in Nat, faults' \in Nat,
         new.step # "waiting" => lock' = s,
         lock' # s => lock' = lock,
         lock' = s => lock \in {s, None},
         new.step = "written" =>
           /\ Whole(new.doc) /\ Has(new.doc, new.req) /\ Follows(new.doc, visible[new.req.chain])
           /\ Free(new.req.chain, new.doc.reserved),
         new.step = "replaced" => Has(visible[new.req.chain], new.req),
         new.step = "done" => new.answer \in Answers,
         new.step = "done" /\ new.answer = "recorded" => Has(durable[new.req.chain], new.req)
  PROVE  IInv'
<1>1. call'[s] = new /\ new # None /\ \A t \in Servers \ {s} : call'[t] = call[t]
  BY NoneAssumption DEF IInv, Typed
<1>2. Typed'
  BY DEF IInv, Typed, disk
<1>3. Locked'
  BY <1>1 DEF IInv, Locked
<1>4. WrittenNext'
  BY <1>1 DEF IInv, WrittenNext, Free, disk
<1>5. ReplacedHas' /\ Answered' /\ RecordedKept'
  BY <1>1 DEF IInv, ReplacedHas, Answered, RecordedKept, disk
<1>6. QED
  BY <1>2, <1>3, <1>4, <1>5, QuietDisk DEF IInv

(* The steps of a call that leave the disk alone.                          *)
LEMMA QuietCall ==
  ASSUME IInv, NEW s \in Servers,
         \/ \E r \in Requests : Receive(s, r)
         \/ Acquire(s) \/ Repeat(s) \/ Refuse(s)
         \/ \E reserved \in Reservations : Write(s, reserved)
         \/ Fail(s)
  PROVE  IInv'
<1> USE DEF IInv, Typed, Locked
<1>1. ASSUME NEW r \in Requests, Receive(s, r) PROVE IInv'
  <2> DEFINE new == Call(r, "waiting", None, None)
  <2>1. new \in Calls /\ new.step = "waiting"
    BY CallIsSome DEF Steps
  <2>2. call' = [call EXCEPT ![s] = new] /\ UNCHANGED <<disk, lock, answers, faults>> /\ calls' \in Nat
    BY <1>1 DEF Receive
  <2> HIDE DEF new
  <2>3. lock' # s \/ lock' = lock
    BY <2>2
  <2>4. QED
    BY <2>1, <2>2, OneCall
<1>2. CASE Acquire(s)
  <2> DEFINE new == [call[s] EXCEPT !.step = "locked"]
  <2>1. call[s] \in Calls /\ lock = None
    BY <1>2, CallType DEF Acquire, At
  <2>2. new \in Calls /\ new.step = "locked"
    BY <2>1 DEF Calls, Steps
  <2>3. call' = [call EXCEPT ![s] = new] /\ lock' = s /\ UNCHANGED <<disk, answers, calls, faults>>
    BY <1>2 DEF Acquire
  <2> HIDE DEF new
  <2>4. QED
    BY <2>1, <2>2, <2>3, OneCall
<1>3. ASSUME NEW answer \in {"repeated", "refused"}, At(s, "locked"), Ends(s, answer), UNCHANGED disk PROVE IInv'
  <2> DEFINE new == Call(call[s].req, "done", None, answer)
  <2>1. call[s] # None /\ lock = s
    BY <1>3 DEF At
  <2>2. new \in Calls /\ new.step = "done" /\ new.answer = answer /\ answer \in Answers
    BY <2>1, CallType, CallIsSome DEF Steps, Answers
  <2>3. call' = [call EXCEPT ![s] = new] /\ UNCHANGED <<disk, lock, answers, calls, faults>>
    BY <1>3 DEF Ends
  <2> HIDE DEF new
  <2>4. QED
    BY <1>3, <2>1, <2>2, <2>3, OneCall
<1>4. CASE Repeat(s) \/ Refuse(s)
  BY <1>3, <1>4 DEF Repeat, Refuse
<1>5. ASSUME NEW reserved \in Reservations, Write(s, reserved) PROVE IInv'
  <2> DEFINE r == call[s].req
             d == NewDocument(r, reserved)
             new == Call(r, "written", d, None)
  <2>1. call[s] # None /\ lock = s /\ r \in Requests /\ Accepts(r) /\ Free(r.chain, reserved)
    BY <1>5, CallType DEF Write, At
  <2>2. Whole(d) /\ Has(d, r) /\ Follows(d, visible[r.chain]) /\ d.reserved = reserved
    BY <2>1, NewDocumentFollows
  <2>3. d \in Documents
    BY <2>2 DEF Whole, Valid
  <2>4. call' = [call EXCEPT ![s] = new] /\ UNCHANGED <<disk, lock, answers, calls, faults>>
    BY <1>5 DEF Write
  <2> HIDE DEF d, r
  <2>5. new \in Calls /\ new.step = "written" /\ new.req = r /\ new.doc = d
    BY <2>1, <2>3, CallIsSome DEF Steps
  <2> HIDE DEF new
  <2>6. QED
    BY <2>1, <2>2, <2>4, <2>5, OneCall
<1>6. CASE Fail(s)
  <2> DEFINE new == Call(call[s].req, "done", None, "failed")
  <2>1. call[s] # None /\ lock = s
    BY <1>6 DEF Fail, At
  <2>2. new \in Calls /\ new.step = "done" /\ new.answer = "failed" /\ new.answer \in Answers
    BY <2>1, CallType, CallIsSome DEF Steps, Answers
  <2>3. call' = [call EXCEPT ![s] = new] /\ UNCHANGED <<disk, lock, answers, calls>> /\ faults' \in Nat
    BY <1>6 DEF Fail
  <2> HIDE DEF new
  <2>4. QED
    BY <2>1, <2>2, <2>3, OneCall
<1>7. QED
  BY <1>1, <1>2, <1>4, <1>5, <1>6

(* A call that ends, with its answer or its process.                       *)
LEMMA CallOver ==
  ASSUME IInv, NEW s \in Servers, Return(s) \/ Crash(s) PROVE IInv'
<1> USE DEF IInv
<1>1. call' = [call EXCEPT ![s] = None] /\ UNCHANGED disk /\ call[s] # None
  BY DEF Return, Crash, At, disk
<1>2. \A t \in Servers : call'[t] # None => t # s /\ call'[t] = call[t]
  BY <1>1 DEF Typed
<1>3. lock' = None \/ (lock' = lock /\ lock # s)
  BY DEF Return, Crash
<1>4. lock' = lock \/ lock = s
  BY DEF Return, Crash, At, Locked, Typed
<1>5. answers' \subseteq answers \cup {[req |-> call[s].req, answer |-> call[s].answer]}
      /\ (answers' # answers => call[s].step = "done")
  BY DEF Return, Crash, At
<1>6. Typed'
  <2>1. lock' \in Servers \cup {None} /\ calls' \in Nat /\ faults' \in Nat
    BY <1>3 DEF Typed, Return, Crash
  <2>2. answers' \subseteq [req : Requests, answer : Answers]
    <3>1. CASE Return(s)
      <4>1. call[s].answer \in Answers
        BY <3>1 DEF Return, Answered, At
      <4>2. QED
        BY <1>1, <1>5, <4>1, CallType DEF Typed
    <3>2. CASE Crash(s)
      BY <3>2 DEF Crash, Typed
    <3>3. QED
      BY <3>1, <3>2
  <2>3. QED
    BY <1>1, <2>1, <2>2 DEF Typed, disk
<1>7. Locked'
  BY <1>2, <1>3, <1>4 DEF Locked
<1>8. WrittenNext' /\ ReplacedHas' /\ Answered'
  BY <1>1, <1>2 DEF WrittenNext, ReplacedHas, Answered, Free, disk
<1>9. RecordedKept'
  <2>1. \A t \in Servers : call'[t] # None /\ call'[t].step = "done" /\ call'[t].answer = "recorded" =>
          Has(durable'[call'[t].req.chain], call'[t].req)
    BY <1>1, <1>2 DEF RecordedKept, disk
  <2>2. ASSUME NEW a \in answers', a.answer = "recorded" PROVE Has(durable'[a.req.chain], a.req)
    <3>1. CASE a \in answers
      BY <1>1, <2>2, <3>1 DEF RecordedKept, disk
    <3>2. CASE a \notin answers
      <4>1. a = [req |-> call[s].req, answer |-> call[s].answer] /\ call[s].step = "done"
        BY <1>5, <2>2, <3>2
      <4>2. QED
        BY <1>1, <2>2, <4>1 DEF RecordedKept, disk
    <3>3. QED
      BY <3>1, <3>2
  <2>3. QED
    BY <2>1, <2>2 DEF RecordedKept
<1>10. QED
  BY <1>1, <1>6, <1>7, <1>8, <1>9, QuietDisk

(* The disk changes.                                                       *)

LEMMA ReplaceKeeps ==
  ASSUME IInv, NEW s \in Servers, Replace(s) PROVE IInv'
<1> DEFINE r == call[s].req
           d == call[s].doc
<1>1. /\ call[s] # None /\ call[s] \in Calls /\ call[s].step = "written" /\ lock = s
      /\ r \in Requests /\ r.chain \in Chains
  BY CallType, RequestType DEF IInv, Replace, At, Locked
<1>2. Whole(d) /\ Has(d, r) /\ Follows(d, visible[r.chain]) /\ Free(r.chain, d.reserved) /\ d \in Documents
  BY <1>1 DEF IInv, WrittenNext, Whole, Valid
<1>3. /\ visible' = [visible EXCEPT ![r.chain] = d] /\ UNCHANGED <<durable, lock, answers, calls, faults>>
      /\ call' = [call EXCEPT ![s] = [call[s] EXCEPT !.step = "replaced"]]
  BY DEF Replace
<1>4. [call[s] EXCEPT !.step = "replaced"] \in Calls
      /\ [call[s] EXCEPT !.step = "replaced"].req = r /\ [call[s] EXCEPT !.step = "replaced"].step = "replaced"
  BY <1>1 DEF Calls, Steps
<1>5. /\ call'[s] # None /\ call'[s].req = r /\ call'[s].step = "replaced"
      /\ \A t \in Servers \ {s} : call'[t] = call[t] /\ (call[t] # None => call[t].step = "waiting")
  BY <1>1, <1>3, <1>4, NoneAssumption DEF IInv, Typed, Locked
<1>6. visible'[r.chain] = d /\ \A c \in Chains \ {r.chain} : visible'[c] = visible[c]
  BY <1>1, <1>3 DEF IInv, Typed
<1> HIDE DEF r, d
<1>7. Typed'
  BY <1>1, <1>2, <1>3, <1>4 DEF IInv, Typed
<1>8. Locked' /\ WrittenNext' /\ Answered'
  <2>1. \A t \in Servers : call'[t] # None => t = s \/ (call'[t] = call[t] /\ call[t].step = "waiting")
    BY <1>5
  <2>2. Locked'
    BY <1>1, <1>3, <2>1 DEF Locked
  <2>3. WrittenNext'
    BY <1>5, <2>1 DEF WrittenNext
  <2>4. Answered'
    BY <1>5, <2>1 DEF Answered
  <2>5. QED
    BY <2>2, <2>3, <2>4
<1>9. ReplacedHas'
  BY <1>2, <1>5, <1>6 DEF ReplacedHas
<1>10. RecordedKept'
  BY <1>3, <1>5 DEF IInv, RecordedKept
<1>11. JournalsWhole'
  <2>1. ASSUME NEW c \in Chains
        PROVE  (visible'[c] # None => Whole(visible'[c])) /\ (durable'[c] # None => Whole(durable'[c]))
               /\ Follows(visible'[c], durable'[c])
    <3>1. CASE c = r.chain
      <4>1. Follows(d, durable[c])
        BY <1>1, <1>2, <3>1, FollowsOn DEF IInv, Typed, JournalsWhole
      <4>2. QED
        BY <1>2, <1>3, <1>6, <3>1, <4>1 DEF IInv, JournalsWhole
    <3>2. CASE c # r.chain
      BY <1>3, <1>6, <3>2 DEF IInv, JournalsWhole
    <3>3. QED
      BY <3>1, <3>2
  <2>2. QED
    BY <2>1 DEF JournalsWhole, Whole, Follows
<1>12. ReservedOnce'
  <2>1. ASSUME NEW a \in Chains, NEW b \in Chains, a # b, visible'[a] # None, visible'[b] # None
        PROVE  visible'[a].reserved \cap visible'[b].reserved = {}
    <3>1. CASE a = r.chain
      BY <1>2, <1>6, <2>1, <3>1 DEF Free
    <3>2. CASE b = r.chain
      BY <1>2, <1>6, <2>1, <3>2 DEF Free
    <3>3. CASE a # r.chain /\ b # r.chain
      BY <1>6, <2>1, <3>3 DEF IInv, ReservedOnce, Disjoint
    <3>4. QED
      BY <3>1, <3>2, <3>3
  <2>2. QED
    BY <1>3, <2>1 DEF IInv, ReservedOnce, Disjoint
<1>13. QED
  BY <1>7, <1>8, <1>9, <1>10, <1>11, <1>12 DEF IInv

(* The disk catches up with what processes see.                            *)
LEMMA FlushKeeps ==
  ASSUME IInv, durable' = visible, visible' = visible
  PROVE  /\ JournalsWhole' /\ ReservedOnce'
         /\ \A r \in Requests : Has(durable[r.chain], r) => Has(durable'[r.chain], r)
<1>1. \A c \in Chains : /\ visible[c] \in {None} \cup Documents /\ durable[c] \in {None} \cup Documents
                        /\ Follows(visible[c], durable[c])
  BY DEF IInv, Typed, JournalsWhole
<1>2. JournalsWhole'
  BY <1>1, FollowsItself DEF IInv, JournalsWhole, Whole, Follows
<1>3. ReservedOnce'
  BY DEF IInv, ReservedOnce, Disjoint
<1>4. ASSUME NEW r \in Requests, Has(durable[r.chain], r) PROVE Has(durable'[r.chain], r)
  <2>1. r.chain \in Chains
    BY RequestType
  <2>2. QED
    BY <1>1, <1>4, <2>1, FollowersHave
<1>5. QED
  BY <1>2, <1>3, <1>4

LEMMA SyncKeeps ==
  ASSUME IInv, NEW s \in Servers, Sync(s) PROVE IInv'
<1> DEFINE r == call[s].req
           new == Call(r, "done", None, "recorded")
<1>1. call[s] # None /\ call[s].step = "replaced" /\ lock = s /\ r \in Requests
  BY CallType DEF IInv, Sync, At, Locked
<1>2. new \in Calls /\ new # None /\ new.req = r /\ new.step = "done" /\ new.answer = "recorded"
  BY <1>1, CallIsSome DEF Steps, Answers
<1>3. /\ call' = [call EXCEPT ![s] = new] /\ durable' = visible /\ visible' = visible
      /\ UNCHANGED <<lock, answers, calls, faults>>
  BY DEF Sync, Ends
<1> HIDE DEF new
<1>4. call'[s] = new /\ \A t \in Servers \ {s} : call'[t] = call[t] /\ (call[t] # None => call[t].step = "waiting")
  BY <1>1, <1>3 DEF IInv, Typed, Locked
<1>5. /\ JournalsWhole' /\ ReservedOnce'
      /\ \A q \in Requests : Has(durable[q.chain], q) => Has(durable'[q.chain], q)
  BY <1>3, FlushKeeps
<1>6. Has(durable'[r.chain], r)
  BY <1>1, <1>3 DEF IInv, ReplacedHas
<1> HIDE DEF r
<1>7. Typed'
  BY <1>2, <1>3 DEF IInv, Typed
<1>8. Locked' /\ WrittenNext' /\ ReplacedHas' /\ Answered'
  BY <1>1, <1>2, <1>3, <1>4 DEF IInv, Locked, WrittenNext, ReplacedHas, Answered, Answers
<1>9. RecordedKept'
  <2>1. \A a \in answers : a.req \in Requests
    BY DEF IInv, Typed
  <2>2. QED
    BY <1>2, <1>3, <1>4, <1>5, <1>6, <2>1 DEF IInv, RecordedKept
<1>10. QED
  BY <1>5, <1>7, <1>8, <1>9 DEF IInv

LEMMA DiskKeeps ==
  ASSUME IInv, PowerFails \/ Flush PROVE IInv'
<1>1. CASE PowerFails
  <2>1. visible' = durable /\ durable' = durable /\ lock' = None /\ faults' \in Nat /\ UNCHANGED <<answers, calls>>
        /\ \A s \in Servers : call'[s] = None
    BY <1>1 DEF PowerFails, IInv, Typed
  <2>2. Typed'
    BY <1>1, <2>1 DEF IInv, Typed, PowerFails
  <2>3. Locked' /\ WrittenNext' /\ ReplacedHas' /\ Answered' /\ ReservedOnce'
    BY <2>1 DEF IInv, Locked, WrittenNext, ReplacedHas, Answered, ReservedOnce, Disjoint
  <2>4. RecordedKept'
    BY <2>1 DEF IInv, RecordedKept
  <2>5. JournalsWhole'
    BY <2>1, FollowsItself DEF IInv, Typed, JournalsWhole, Whole, Follows
  <2>6. QED
    BY <2>2, <2>3, <2>4, <2>5 DEF IInv
<1>2. CASE Flush
  <2>1. durable' = visible /\ visible' = visible /\ UNCHANGED <<lock, call, answers, calls, faults>>
    BY <1>2 DEF Flush
  <2>2. /\ JournalsWhole' /\ ReservedOnce'
        /\ \A q \in Requests : Has(durable[q.chain], q) => Has(durable'[q.chain], q)
    BY <2>1, FlushKeeps
  <2>3. Typed' /\ Locked' /\ WrittenNext' /\ ReplacedHas' /\ Answered'
    BY <2>1 DEF IInv, Typed, Locked, WrittenNext, ReplacedHas, Answered, Free
  <2>4. RecordedKept'
    <3>1. \A a \in answers : a.req \in Requests
      BY DEF IInv, Typed
    <3>2. \A s \in Servers : call[s] # None => call[s].req \in Requests
      BY CallType DEF IInv
    <3>3. QED
      BY <2>1, <2>2, <3>1, <3>2 DEF IInv, RecordedKept
  <2>5. QED
    BY <2>2, <2>3, <2>4 DEF IInv
<1>3. QED
  BY <1>1, <1>2

LEMMA NextInvariant == IInv /\ [Next]_vars => IInv'
<1> SUFFICES ASSUME IInv, [Next]_vars PROVE IInv'
  OBVIOUS
<1>1. ASSUME NEW s \in Servers, NEW r \in Requests, Receive(s, r) PROVE IInv'
  BY <1>1, QuietCall
<1>2. ASSUME NEW s \in Servers, Step(s) PROVE IInv'
  <2>1. CASE Acquire(s) \/ Repeat(s) \/ Refuse(s)
    BY <2>1, QuietCall
  <2>2. ASSUME NEW reserved \in Reservations, Write(s, reserved) PROVE IInv'
    BY <2>2, QuietCall
  <2>3. CASE Replace(s)
    BY <2>3, ReplaceKeeps
  <2>4. CASE Sync(s)
    BY <2>4, SyncKeeps
  <2>5. CASE Return(s)
    BY <2>5, CallOver
  <2>6. QED
    BY <1>2, <2>1, <2>2, <2>3, <2>4, <2>5 DEF Step
<1>3. ASSUME NEW s \in Servers, Fail(s) PROVE IInv'
  BY <1>3, QuietCall
<1>4. ASSUME NEW s \in Servers, Crash(s) PROVE IInv'
  BY <1>4, CallOver
<1>5. CASE PowerFails \/ Flush
  BY <1>5, DiskKeeps
<1>6. CASE UNCHANGED vars
  <2>1. Typed' /\ Locked' /\ Answered'
    BY <1>6 DEF vars, IInv, Typed, Locked, Answered
  <2>2. WrittenNext'
    BY <1>6 DEF vars, IInv, WrittenNext, Free
  <2>3. ReplacedHas' /\ RecordedKept'
    BY <1>6 DEF vars, IInv, ReplacedHas, RecordedKept
  <2>4. JournalsWhole' /\ ReservedOnce'
    BY <1>6, QuietDisk DEF vars, disk
  <2>5. QED
    BY <2>1, <2>2, <2>3, <2>4 DEF IInv
<1>7. QED
  BY <1>1, <1>2, <1>3, <1>4, <1>5, <1>6 DEF Next

LEMMA InductiveInvariant == Spec => []IInv
<1>1. QED
  BY InitInvariant, NextInvariant, PTL DEF Spec

----------------------------------------------------------------------------
(* The theorems.                                                           *)

(* Every journal is one _validate_journal reads, whatever processes die in *)
(* the middle of _atomic_write, before and after a loss of power.          *)
THEOREM StoreTypeCorrect == Spec => []TypeOK
<1>1. IInv => TypeOK
  BY DEF IInv, Typed, JournalsWhole, Whole, TypeOK
<1>2. QED
  BY <1>1, InductiveInvariant, PTL

(* No two chains reserve one worktree: _reject_overlap decides under the   *)
(* lock that _atomic_write needs.                                          *)
THEOREM WorktreesReservedOnce == Spec => []ReservedOnce
<1>1. IInv => ReservedOnce
  BY DEF IInv
<1>2. QED
  BY <1>1, InductiveInvariant, PTL

Journal == [c \in Chains |-> JournalOf(durable[c])]
Confirmed == {a.req : a \in {a \in answers : a.answer = "recorded"}}

(* What follows is written to the disk as one step of the promise.         *)
LEMMA FlushRecords ==
  ASSUME IInv, durable' = visible, visible' = visible, answers' = answers
  PROVE  Promise!Record
<1>1. Journal' = [c \in Chains |-> JournalOf(visible[c])]
  BY DEF Journal
<1>2. \A c \in Chains : JournalOf(visible[c]) \in Promise!Journals
  <2>1. ASSUME NEW c \in Chains PROVE JournalOf(visible[c]) \in Promise!Journals
    <3>1. CASE visible[c] = None
      BY <3>1 DEF JournalOf, Promise!Journals
    <3>2. CASE visible[c] \in Documents
      BY <3>2, DocumentIsSome DEF Promise!Journals, Promise!Entries, Entries
    <3>3. QED
      BY <3>1, <3>2 DEF IInv, Typed
  <2>2. QED
    BY <2>1
<1>3. ASSUME NEW c \in Chains
      PROVE  /\ Promise!Extends(Journal'[c], Journal[c])
             /\ Journal'[c] # None => Promise!NoRepeats(Journal'[c].entries)
  <2>1. Promise!Extends(Journal'[c], Journal[c])
    BY <1>1 DEF IInv, JournalsWhole, Follows, Journal
  <2>2. ASSUME visible[c] # None PROVE Promise!NoRepeats(JournalOf(visible[c]).entries)
    BY <2>2, DocumentIsSome DEF IInv, Typed, JournalsWhole, Whole
  <2>3. QED
    BY <1>1, <2>1, <2>2 DEF JournalOf
<1>4. Confirmed' = Confirmed
  BY DEF Confirmed
<1>5. QED
  BY <1>1, <1>2, <1>3, <1>4 DEF Promise!Record, Journal, Confirmed

LEMMA ReturnConfirms ==
  ASSUME IInv, NEW s \in Servers, Return(s)
  PROVE  (\E r \in Requests : Promise!Confirm(r)) \/ UNCHANGED <<Journal, Confirmed>>
<1> DEFINE r == call[s].req
<1>1. call[s] # None /\ call[s].step = "done" /\ r \in Requests /\ r.chain \in Chains
  BY CallType, RequestType DEF IInv, Return, At
<1>2. answers' = answers \cup {[req |-> r, answer |-> call[s].answer]} /\ durable' = durable
  BY DEF Return, disk
<1>3. Journal' = Journal
  BY <1>2 DEF Journal
<1>4. CASE call[s].answer = "recorded"
  <2>1. Confirmed' = Confirmed \cup {r}
    <3> DEFINE new == [req |-> r, answer |-> call[s].answer]
    <3>1. new.req = r /\ new.answer = "recorded" /\ answers' = answers \cup {new}
      BY <1>2, <1>4
    <3> HIDE DEF new, r
    <3>2. Confirmed' \subseteq Confirmed \cup {r}
      BY <3>1 DEF Confirmed
    <3>3. Confirmed \subseteq Confirmed' /\ r \in Confirmed'
      BY <3>1 DEF Confirmed
    <3>4. QED
      BY <3>2, <3>3
  <2>2. Promise!Holds(Journal[r.chain], r)
    BY <1>1, <1>4 DEF IInv, RecordedKept, Has, Journal
  <2>3. \E q \in Requests : Promise!Confirm(q)
    <3> HIDE DEF r
    <3>1. PICK q \in Requests : q = r
      BY <1>1
    <3>2. Promise!Confirm(q)
      BY <1>3, <2>1, <2>2, <3>1 DEF Promise!Confirm, Journal, Confirmed
    <3>3. QED
      BY <3>2
  <2>4. QED
    BY <2>3
<1>5. CASE call[s].answer # "recorded"
  <2>1. Confirmed' = Confirmed
    BY <1>2, <1>5 DEF Confirmed
  <2>2. QED
    BY <1>3, <2>1
<1>6. QED
  BY <1>4, <1>5

LEMMA StepImplements == IInv /\ [Next]_vars => [Promise!Next]_<<Journal, Confirmed>>
<1> SUFFICES ASSUME IInv, [Next]_vars PROVE [Promise!Next]_<<Journal, Confirmed>>
  OBVIOUS
<1>1. ASSUME durable' = durable, answers' = answers PROVE UNCHANGED <<Journal, Confirmed>>
  BY <1>1 DEF Journal, Confirmed
<1>2. ASSUME NEW s \in Servers, NEW r \in Requests, Receive(s, r) PROVE UNCHANGED <<Journal, Confirmed>>
  BY <1>1, <1>2 DEF Receive, disk
<1>3. ASSUME NEW s \in Servers, Acquire(s) \/ Repeat(s) \/ Refuse(s) \/ Replace(s) \/ Fail(s) \/ Crash(s)
      PROVE  UNCHANGED <<Journal, Confirmed>>
  BY <1>1, <1>3 DEF Acquire, Repeat, Refuse, Replace, Fail, Crash, Ends, disk
<1>4. ASSUME NEW s \in Servers, NEW reserved \in Reservations, Write(s, reserved)
      PROVE  UNCHANGED <<Journal, Confirmed>>
  BY <1>1, <1>4 DEF Write, disk
<1>5. ASSUME NEW s \in Servers, Sync(s) PROVE Promise!Next
  BY <1>5, FlushRecords DEF Sync, Ends, Promise!Next
<1>6. ASSUME NEW s \in Servers, Return(s) PROVE [Promise!Next]_<<Journal, Confirmed>>
  BY <1>6, ReturnConfirms DEF Promise!Next
<1>7. CASE PowerFails
  BY <1>1, <1>7 DEF PowerFails
<1>8. CASE Flush
  BY <1>8, FlushRecords DEF Flush, Promise!Next
<1>9. CASE UNCHANGED vars
  BY <1>1, <1>9 DEF vars
<1>10. QED
  BY <1>2, <1>3, <1>4, <1>5, <1>6, <1>7, <1>8, <1>9 DEF Next, Step

(* The store is the journal it promises to be: what a caller was told is   *)
(* recorded is on the disk, once, after the revision the caller expected.  *)
THEOREM StoreImplementsJournal == Spec => ImplementsJournal
<1>1. Init => Promise!Init
  BY DEF Init, JournalOf, Promise!Init
<1>2. IInv /\ [Next]_vars => [Promise!Next]_<<[c \in Chains |-> JournalOf(durable[c])],
                                             {a.req : a \in {a \in answers : a.answer = "recorded"}}>>
  BY StepImplements DEF Journal, Confirmed
<1>3. QED
  BY <1>1, <1>2, InductiveInvariant, PTL DEF Spec, ImplementsJournal, Promise!Spec

(* Nothing that mutate or create confirmed is lost, moved or done twice.   *)
THEOREM ConfirmedNeverLost == Spec => []Promise!ConfirmedKept
<1>1. IInv => Promise!ConfirmedKept
  <2> SUFFICES ASSUME IInv PROVE Promise!ConfirmedKept
    OBVIOUS
  <2>1. ASSUME NEW a \in answers, a.answer = "recorded" PROVE Promise!Holds(Journal[a.req.chain], a.req)
    BY <2>1, RequestType DEF IInv, Typed, RecordedKept, Has, Journal
  <2>2. ASSUME NEW c \in Chains, durable[c] # None PROVE Promise!NoRepeats(JournalOf(durable[c]).entries)
    BY <2>2, DocumentIsSome DEF IInv, Typed, JournalsWhole, Whole
  <2>3. QED
    BY <2>1, <2>2 DEF Promise!ConfirmedKept, Journal, JournalOf
<1>2. QED
  BY <1>1, InductiveInvariant, PTL
=============================================================================
