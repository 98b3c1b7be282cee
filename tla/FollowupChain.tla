---------------------------- MODULE FollowupChain ----------------------------
(***************************************************************************)
(* One follow-up chain: dependent branches that are adapted, one attempt   *)
(* after another, to a corrected source.  Every accepted request is one    *)
(* action: the store serialises them (module FollowupStore).  Between any  *)
(* two of them the writers move the worktrees and runs come and go.        *)
(*                                                                         *)
(* Abstracted: a commit is known by the commits of its history, so that an *)
(* ancestor is a subset; files are the changes a history and a worktree    *)
(* contain; a mapping of replayed commits is honest; every task has one    *)
(* build and one test; "paused" stands for blocked and interrupted, which  *)
(* the code treats alike; durations, summaries, events and the copies kept *)
(* in the history, which nothing reads, are left out.                      *)
(***************************************************************************)
EXTENDS Naturals, Sequences, FiniteSets

CONSTANTS
  Tasks, Source,   \* the descendants, and the root of the chain
  Contract,        \* what create freezes of each task
  SourceWorktree, Worktrees, StartTree, \* worktrees and their trees when the chain is created
  Changes, Copies, \* a commit is a copy of a change
  Edits,           \* changes writers may still make
  Written, Switched, Recorded, \* bounds: worktrees written, pairs switched, checks recorded
  MaxAttempt, MaxEpoch, MaxOutside, \* bounds: attempts of a task in an epoch, epochs, moves and runs
  None

Commits == [change : Changes, copy : Copies]
Histories == SUBSET Commits
Trees == [head : Histories, dirty : SUBSET Changes]
ChangesOf(commits) == {c.change : c \in commits}
Manifest(t) == ChangesOf(t.head) \cup t.dirty
NoTree == [head |-> {}, dirty |-> {}]

Nodes == Tasks \cup {Source}
Ready == {"mechanical_checked", "complete"}
Active == {"awaiting_checkpoint", "adapting", "checking"}
Statuses == {"pending", "paused"} \cup Active \cup Ready

(* The state of a worktree a task starts from: contract, or checkpoint_baseline. *)
Baselines == [ws : Worktrees, base : Histories, tree : Trees, own : Histories, verified : BOOLEAN]

ContractRecords ==
  [deps : SUBSET Tasks, parent : Nodes, published : BOOLEAN, active : BOOLEAN, baseline : Baselines]

ASSUME ChainAssumption ==
  /\ Source \notin Tasks /\ None \notin Worktrees
  /\ Contract \in [Tasks -> ContractRecords]
  /\ SourceWorktree \in Worktrees /\ StartTree \in [Worktrees -> Trees]
  /\ Written \subseteq Worktrees /\ Switched \subseteq Worktrees \X Worktrees /\ Edits \subseteq Changes
  /\ MaxAttempt \in [Tasks -> Nat] /\ MaxEpoch \in Nat \ {0} /\ MaxOutside \in Nat
  /\ \A t \in Tasks :
       LET b == Contract[t].baseline IN
       /\ Contract[t].parent \in (IF Contract[t].deps = {} THEN {Source} ELSE Contract[t].deps)
       /\ b.ws # SourceWorktree /\ b.tree = StartTree[b.ws]
       /\ b.base \subseteq b.tree.head /\ b.own = b.tree.head \ b.base
       /\ b.base \subseteq (IF Contract[t].deps = {} THEN StartTree[SourceWorktree]
                           ELSE Contract[Contract[t].parent].baseline.tree).head
       /\ b.verified => b.tree.dirty = {}
       /\ \A u \in Tasks : u # t => Contract[u].baseline.ws # b.ws
  /\ StartTree[SourceWorktree].dirty = {}
  /\ \A S \in (SUBSET Tasks) \ {{}} : \E t \in S : Contract[t].deps \cap S = {} \* topologically ordered

VARIABLES
  task,       \* state.tasks, each with its effective baseline
  source, queue, epoch, cancelled, \* state.source, queued_sources, epoch, terminal
  tree,       \* of each worktree
  runs,       \* the semantic runs of this chain
  moves,      \* edits and switches so far, bounded
  kept,       \* history: changes an attempt of this epoch must not lose
  unreviewed  \* history: tasks with semantic or unfinished work no run has reviewed

journal == <<task, source, queue, epoch, cancelled>>
vars == <<task, source, queue, epoch, cancelled, tree, runs, moves, kept, unreviewed>>

----------------------------------------------------------------------------
(* What the code computes from the journal and the worktrees.              *)

Parents(t) == IF Contract[t].deps = {} THEN {Source} ELSE Contract[t].deps

(* A dependency, direct or not: in every set closed under dependencies.    *)
Depends(child, parent) ==
  \A S \in SUBSET Tasks :
    (Contract[child].deps \subseteq S /\ \A x \in S : Contract[x].deps \subseteq S) => parent \in S

AncestorsOf == [t \in Tasks |-> {a \in Tasks : Depends(t, a)}]
Ancestors(t) == AncestorsOf[t]
Descendants(t) == {d \in Tasks : t \in AncestorsOf[d]}
Leaves == {t \in Tasks : \A u \in Tasks : t \notin Contract[u].deps}

HeadOf(n) == IF n = Source THEN source.head ELSE task[n].cand
Heads(t) == [n \in Nodes |-> IF n \in Parents(t) THEN HeadOf(n) ELSE {}]

BaselineUnchanged(t) == tree[task[t].base.ws] = task[t].base.tree

(* The tree a candidate was recorded with; {} is no candidate.             *)
Candidate(t) == [head |-> task[t].cand, dirty |-> {}]
SameTree(t) == task[t].cand # {} /\ tree[task[t].ws] = Candidate(t)

FreshItself(t) == BaselineUnchanged(t) /\ SameTree(t) /\ task[t].parents = Heads(t)
ParentsFresh(t) == \A a \in Ancestors(t) : task[a].status \in Ready /\ FreshItself(a)
MutFresh(t) == FreshItself(t)

Fresh(t) == FreshItself(t) /\ ParentsFresh(t)

Build(t) == [kind |-> "build", of |-> t]
Test(t) == [kind |-> "test", of |-> t]
ChainTests(t) == {Test(a) : a \in Ancestors(t) \cup {t}}
Bindings(t) == {Build(t)} \cup ChainTests(t)
Checks == [name : [kind : {"build", "test"}, of : Tasks], head : Histories]
Green(t, names) == \A n \in names : [name |-> n, head |-> task[t].cand] \in task[t].checks

ChainTested(t) ==
  /\ \A d \in Descendants(t) : Fresh(d) /\ task[d].status \in Ready
  /\ \A l \in Leaves \cap (Descendants(t) \cup {t}) : Green(l, ChainTests(l))

SourceUnchanged(s) == tree[s.ws] = [head |-> s.head, dirty |-> {}]

(* readiness of get: what may be shown for publication.                    *)
Publishable(t) ==
  /\ ~ cancelled /\ task[t].status \in Ready /\ Fresh(t)
  /\ Green(t, {Build(t)}) /\ ChainTested(t)
  /\ queue = << >> /\ SourceUnchanged(source)

Reference(t) ==
  [task |-> t, epoch |-> epoch, attempt |-> task[t].attempt, parent |-> task[t].parent, ws |-> task[t].ws]

(* run_reference: this attempt may use a run now.                          *)
Authorised(t, allowed) ==
  /\ ~ cancelled /\ task[t].mode = "semantic" /\ task[t].status \in allowed
  /\ ParentsFresh(t) /\ task[t].parents = Heads(t) /\ BaselineUnchanged(t)
  /\ task[t].status = "complete" => Fresh(t)

NewTask(status, attempt, baseline) ==
  [status |-> status, mode |-> None, cand |-> {}, checks |-> {}, attempt |-> attempt, base |-> baseline,
   ws |-> None, parent |-> {}, parents |-> [n \in Nodes |-> {}], preserved |-> {}, checkpoint |-> NoTree]

(* _completed_baseline: a finished candidate as what comes next starts from. *)
CompletedBaseline(t) ==
  [ws |-> task[t].ws, base |-> task[t].parent, tree |-> Candidate(t),
   own |-> task[t].cand \ task[t].parent,
   verified |-> task[t].status = "complete" \/ task[t].base.verified]

MutPausedBaseline(t) ==
  [ws |-> task[t].ws, base |-> task[t].base.base, tree |-> task[t].checkpoint,
   own |-> task[t].checkpoint.head \ task[t].base.base, verified |-> task[t].base.verified]

(* What advance makes of a paused copy.                                    *)
PausedBaseline(t) ==
  [ws |-> task[t].ws, base |-> task[t].base.base, tree |-> task[t].checkpoint,
   own |-> task[t].checkpoint.head \ task[t].base.base, verified |-> FALSE]

MustKeep(baseline) == ChangesOf(baseline.own) \cup baseline.tree.dirty

----------------------------------------------------------------------------

Init ==
  /\ task = [t \in Tasks |-> NewTask(IF Contract[t].active THEN "awaiting_checkpoint" ELSE "pending",
                                     0, Contract[t].baseline)]
  /\ source = [ws |-> SourceWorktree, head |-> StartTree[SourceWorktree].head]
  /\ queue = << >> /\ epoch = 1 /\ cancelled = FALSE
  /\ tree = StartTree /\ runs = {} /\ moves = 0
  /\ kept = [t \in Tasks |-> MustKeep(Contract[t].baseline)]
  /\ unreviewed = {}

----------------------------------------------------------------------------
(* The world outside: writers and Git.  Merges and replays are prepared in StartTree. *)

Git(w, t) ==
  /\ ~ cancelled \* bound: a cancelled chain is left
  /\ tree[w] # t /\ tree' = [tree EXCEPT ![w] = t]
  /\ UNCHANGED <<journal, runs, kept, unreviewed>>

Move(w, t) == moves + Cardinality(runs) < MaxOutside /\ moves' = moves + 1 /\ Git(w, t)

Edit(w, x) == Move(w, [tree[w] EXCEPT !.dirty = @ \cup ({x} \ Manifest(tree[w]))])

(* A commit of everything, as a copy that no history has yet.              *)
Commit(w, k) ==
  LET made == [change : tree[w].dirty, copy : {k}] IN
  /\ \A v \in Worktrees : made \cap tree[v].head = {}
  /\ Git(w, [head |-> tree[w].head \cup made, dirty |-> {}]) /\ UNCHANGED moves

Switch(w, v) == Move(w, [head |-> tree[v].head, dirty |-> {}])

----------------------------------------------------------------------------
(* record_followup, one action per accepted request.                       *)

Checkpoint(t) ==
  LET b == task[t].base
      now == tree[b.ws]
      base == [b EXCEPT !.tree = now, !.own = now.head \ b.base,
                        !.verified = b.verified /\ now = b.tree] IN
  /\ ~ cancelled /\ task[t].status = "awaiting_checkpoint"
  /\ b.tree.head \subseteq now.head
  /\ task' = [task EXCEPT ![t].status = "pending", ![t].base = base]
  /\ kept' = [kept EXCEPT ![t] = MustKeep(base)]
  /\ UNCHANGED <<source, queue, epoch, cancelled, tree, runs, moves, unreviewed>>

MutReserved(t) ==
  {task[u].base.ws : u \in Tasks} \cup {Contract[u].baseline.ws : u \in Tasks} \cup {source.ws}
  \cup {queue[i].ws : i \in DOMAIN queue}

Reserved(t) ==
  {task[u].base.ws : u \in Tasks} \cup {Contract[u].baseline.ws : u \in Tasks} \cup {source.ws}
  \cup {task[u].ws : u \in Tasks \ {t}} \cup {queue[i].ws : i \in DOMAIN queue}

(* What the attempt continues, which w must contain before it starts.      *)
From(t) == IF task[t].status = "paused" THEN task[t].checkpoint ELSE task[t].base.tree

Preserves(t, w) ==
  /\ task[t].status = "paused" => From(t).head \subseteq tree[w].head
  /\ From(t).dirty # {} =>
       /\ tree[w].dirty = {} /\ From(t).head \subseteq tree[w].head
       /\ Manifest(tree[w]) = Manifest(From(t))

Owned(t) == IF task[t].preserved # {} THEN task[t].preserved ELSE task[t].base.own

MutPreserved(t, w) ==
  IF From(t).dirty # {} THEN tree[w].head \ task[t].base.base
  ELSE IF task[t].status = "paused" THEN Owned(t) ELSE {}

Preserved(t, w) ==
  (IF From(t).dirty # {} THEN tree[w].head \ task[t].base.base ELSE {})
  \cup (IF task[t].status = "paused"
        THEN Owned(t) \cup (task[t].checkpoint.head \ task[t].base.base) ELSE {})

Begin(t, w, mode) ==
  /\ ~ cancelled /\ task[t].status \in {"pending", "paused"} /\ task[t].attempt < MaxAttempt[t]
  /\ mode = "mechanical" => task[t].mode # "semantic" /\ task[t].base.verified
  /\ BaselineUnchanged(t)
  /\ task[t].status = "paused" => tree[task[t].ws] = task[t].checkpoint
  /\ ParentsFresh(t)
  /\ w \notin Reserved(t) /\ Preserves(t, w)
  /\ task' = [task EXCEPT ![t] =
       [task[t] EXCEPT !.status = "adapting", !.mode = mode, !.checks = {}, !.cand = {},
                       !.attempt = task[t].attempt + 1, !.ws = w, !.parent = HeadOf(Contract[t].parent),
                       !.parents = Heads(t), !.preserved = Preserved(t, w)]]
  /\ unreviewed' = IF mode = "semantic" THEN unreviewed \cup {t} ELSE unreviewed
  /\ UNCHANGED <<source, queue, epoch, cancelled, tree, runs, moves, kept>>

(* check_provenance: every commit to be preserved is there, or replayed.   *)
Accounted(owned, head) ==
  \E new \in [owned \ head -> head] :
    /\ \A a, b \in owned \ head : new[a] = new[b] => a = b
    /\ \A a \in owned \ head : new[a].change = a.change

RecordCandidate(t) ==
  LET head == tree[task[t].ws].head IN
  /\ ~ cancelled /\ task[t].status \in {"adapting", "checking"}
  /\ ParentsFresh(t) /\ task[t].parents = Heads(t)
  /\ tree[task[t].ws].dirty = {}
  /\ \A n \in Parents(t) : task[t].parents[n] \subseteq head
  /\ Contract[t].published => task[t].base.tree.head \subseteq head
  /\ Accounted(Owned(t), head)
  /\ task' = [task EXCEPT ![t].cand = head, ![t].checks = {}, ![t].status = "checking"]
  /\ UNCHANGED <<source, queue, epoch, cancelled, tree, runs, moves, kept, unreviewed>>

RecordCheck(t, name, passed) ==
  LET others == {c \in task[t].checks : c.name # name} IN
  /\ ~ cancelled /\ task[t].status = "checking" /\ Fresh(t) /\ name \in Bindings(t)
  /\ task' = [task EXCEPT ![t].checks =
                 IF passed THEN others \cup {[name |-> name, head |-> task[t].cand]} ELSE others]
  /\ UNCHANGED <<source, queue, epoch, cancelled, tree, runs, moves, kept, unreviewed>>

Reviewed(t) ==
  \E r \in runs : /\ r.phase = "complete" /\ r.ref = Reference(t)
                  /\ Manifest(r.result) = Manifest(tree[task[t].ws])

Finish(t) ==
  /\ ~ cancelled /\ task[t].status = "checking" /\ Fresh(t)
  /\ Green(t, {Build(t)}) /\ t \in Leaves => Green(t, ChainTests(t))
  /\ \/ /\ task[t].mode = "mechanical"
        /\ task' = [task EXCEPT ![t].status = "mechanical_checked"]
        /\ UNCHANGED unreviewed
     \/ /\ task[t].mode = "semantic" /\ Reviewed(t)
        /\ task' = [task EXCEPT ![t].status = "complete"]
        /\ unreviewed' = unreviewed \ {t}
  /\ UNCHANGED <<source, queue, epoch, cancelled, tree, runs, moves, kept>>

Pause(t) ==
  LET now == tree[task[t].ws] IN
  /\ ~ cancelled /\ task[t].status \in {"adapting", "checking"}
  /\ task' = [task EXCEPT ![t].status = "paused", ![t].checkpoint = now]
  /\ kept' = [kept EXCEPT ![t] = @ \cup ChangesOf(now.head \ task[t].base.base) \cup now.dirty]
  /\ UNCHANGED <<source, queue, epoch, cancelled, tree, runs, moves, unreviewed>>

MutReopened(t) ==
  IF task[t].status \in Ready THEN NewTask("pending", 0, CompletedBaseline(t))
  ELSE IF task[t].status = "paused" THEN [task[t] EXCEPT !.checks = {}, !.cand = {}]
  ELSE task[t]

(* What happens to one of the tasks a reopening affects.                   *)
Reopened(t) ==
  IF task[t].status \in Ready THEN NewTask("pending", task[t].attempt, CompletedBaseline(t))
  ELSE IF task[t].status = "paused" THEN [task[t] EXCEPT !.checks = {}, !.cand = {}]
  ELSE task[t]

MutReopen(t) ==
  /\ ~ cancelled /\ task[t].status \in Ready /\ Fresh(t)
  /\ task' = [task EXCEPT ![t] = Reopened(t)]
  /\ kept' = [kept EXCEPT ![t] = @ \cup MustKeep(CompletedBaseline(t))]
  /\ UNCHANGED <<source, queue, epoch, cancelled, tree, runs, moves, unreviewed>>

Reopen(t) ==
  LET affected == {t} \cup Descendants(t)
      finished == {u \in affected : task[u].status \in Ready} IN
  /\ ~ cancelled /\ task[t].status \in Ready
  /\ \A u \in affected :
       /\ task[u].status \notin Active
       /\ task[u].status \in Ready => Fresh(u)
       /\ task[u].status = "paused" => tree[task[u].ws] = task[u].checkpoint
  /\ task' = [u \in Tasks |-> IF u \in affected THEN Reopened(u) ELSE task[u]]
  /\ kept' = [u \in Tasks |-> IF u \in finished THEN kept[u] \cup MustKeep(CompletedBaseline(u))
                              ELSE kept[u]]
  /\ UNCHANGED <<source, queue, epoch, cancelled, tree, runs, moves, unreviewed>>

Abandon ==
  /\ ~ cancelled /\ \A t \in Tasks : task[t].status \notin Active
  /\ cancelled' = TRUE
  /\ UNCHANGED <<task, source, queue, epoch, tree, runs, moves, kept, unreviewed>>

Occupied ==
  {Contract[t].baseline.ws : t \in Tasks} \cup {task[t].base.ws : t \in Tasks} \cup {task[t].ws : t \in Tasks}

QueueSource(w) ==
  LET newest == IF queue = << >> THEN source ELSE queue[Len(queue)] IN
  /\ ~ cancelled /\ epoch + Len(queue) < MaxEpoch
  /\ tree[w].dirty = {} /\ w \notin Occupied
  /\ newest.head # tree[w].head /\ newest.head \subseteq tree[w].head
  /\ queue' = Append(queue, [ws |-> w, head |-> tree[w].head])
  /\ UNCHANGED <<task, source, epoch, cancelled, tree, runs, moves, kept, unreviewed>>

NextBaseline(t) ==
  IF task[t].status = "paused" THEN PausedBaseline(t)
  ELSE IF task[t].status \in Ready THEN CompletedBaseline(t) ELSE task[t].base

MutAdvance ==
  /\ ~ cancelled /\ queue # << >> /\ \A t \in Tasks : task[t].status \notin Active
  /\ SourceUnchanged(Head(queue))
  /\ source' = Head(queue) /\ epoch' = epoch + 1
  /\ task' = [t \in Tasks |-> NewTask("pending", 0, NextBaseline(t))]
  /\ kept' = [t \in Tasks |-> MustKeep(NextBaseline(t))]
  /\ unreviewed' = unreviewed \cup {t \in Tasks : task[t].status = "paused"}
  /\ UNCHANGED <<queue, cancelled, tree, runs, moves>>

Advance ==
  /\ ~ cancelled /\ queue # << >> /\ \A t \in Tasks : task[t].status \notin Active
  /\ SourceUnchanged(Head(queue))
  /\ \A t \in Tasks :
       /\ task[t].status = "paused" => tree[task[t].ws] = task[t].checkpoint
       /\ task[t].status \in Ready => SameTree(t)
  /\ source' = Head(queue) /\ queue' = Tail(queue) /\ epoch' = epoch + 1
  /\ task' = [t \in Tasks |-> NewTask("pending", 0, NextBaseline(t))]
  /\ kept' = [t \in Tasks |-> MustKeep(NextBaseline(t))]
  /\ unreviewed' = unreviewed \cup {t \in Tasks : task[t].status = "paused"}
  /\ UNCHANGED <<cancelled, tree, runs, moves>>

----------------------------------------------------------------------------
(* Runs of semantic attempts; how a run comes to complete is HarnessRun.   *)

(* The journal is read, and read again before the run is saved: one step here. *)
CreateRun(t) ==
  /\ Authorised(t, {"adapting", "checking"})
  /\ moves + Cardinality(runs) < MaxOutside
  /\ runs' = runs \cup {[ref |-> Reference(t), phase |-> "open", result |-> NoTree]}
  /\ UNCHANGED <<journal, tree, moves, kept, unreviewed>>

Becomes(r, phase, result) == runs' = (runs \ {r}) \cup {[r EXCEPT !.phase = phase, !.result = result]}

(* finish_run passes its gate on the present tree; its state is saved later. *)
CloseRun(r) ==
  /\ r.phase = "open"
  /\ Authorised(r.ref.task, {"adapting", "checking", "complete"}) /\ r.ref = Reference(r.ref.task)
  /\ Becomes(r, "closing", tree[r.ref.ws])
  /\ UNCHANGED <<journal, tree, moves, kept, unreviewed>>

SaveRun(r) ==
  /\ r.phase = "closing" /\ Becomes(r, "complete", r.result)
  /\ UNCHANGED <<journal, tree, moves, kept, unreviewed>>

(* It dies before the save, or the gate is tried again.                    *)
DropClose(r) ==
  /\ r.phase = "closing" /\ Becomes(r, "open", NoTree)
  /\ UNCHANGED <<journal, tree, moves, kept, unreviewed>>

----------------------------------------------------------------------------

GitStep ==
  \/ \E w \in Written : (\E x \in Edits : Edit(w, x)) \/ (\E k \in Copies : Commit(w, k))
  \/ \E m \in Switched : Switch(m[1], m[2])

TaskStep(t) ==
  \/ Checkpoint(t) \/ RecordCandidate(t) \/ Finish(t) \/ Pause(t) \/ Reopen(t) \/ CreateRun(t)
  \/ \E w \in Worktrees, mode \in {"mechanical", "semantic"} : Begin(t, w, mode)
  \/ \E name \in Bindings(t) \cap Recorded[t], passed \in BOOLEAN : RecordCheck(t, name, passed)

RunStep(r) == CloseRun(r) \/ SaveRun(r) \/ DropClose(r)

Next ==
  \/ GitStep \/ Abandon \/ Advance
  \/ \E t \in Tasks : TaskStep(t)
  \/ \E w \in Worktrees : QueueSource(w)
  \/ \E r \in runs : RunStep(r)

Spec == Init /\ [][Next]_vars
----------------------------------------------------------------------------
(* Properties.                                                             *)

TaskStates ==
  [status : Statuses, mode : {None, "mechanical", "semantic"}, cand : Histories, checks : SUBSET Checks,
   attempt : Nat, base : Baselines, ws : Worktrees \cup {None}, parent : Histories,
   parents : [Nodes -> Histories], preserved : Histories, checkpoint : Trees]

References ==
  [task : Tasks, epoch : 1 .. MaxEpoch, attempt : Nat, parent : Histories, ws : Worktrees]

Sources == [ws : Worktrees, head : Histories]

(* Types and bounds; attempts, epochs and queued sources are counted together. *)
TypeOK ==
  /\ task \in [Tasks -> TaskStates]
  /\ source \in Sources /\ queue \in Seq(Sources)
  /\ epoch \in Nat \ {0} /\ epoch + Len(queue) <= MaxEpoch /\ cancelled \in BOOLEAN
  /\ tree \in [Worktrees -> Trees]
  /\ runs \subseteq [ref : References, phase : {"open", "closing", "complete"}, result : Trees]
  /\ moves \in Nat /\ moves + Cardinality(runs) <= MaxOutside
  /\ kept \in [Tasks -> SUBSET Changes] /\ unreviewed \subseteq Tasks

(* The parents an attempt was pinned to stay what they are: while a task is in flight or finished, its
   dependencies are finished, with the heads it recorded, and a root is on the accepted source. *)
ParentsPinned ==
  \A t \in Tasks : task[t].status \in Ready \cup {"adapting", "checking"} =>
    /\ \A d \in Contract[t].deps : task[d].status \in Ready
    /\ task[t].parents = Heads(t)

(* A finished task contains what its attempts of this epoch and its baseline held, checkpoints of every
   pause and uncommitted work included.  An advance that takes a paused copy without that work is what can
   break it; FollowupWorkProofs shows that nothing else can. *)
WorkKept == \A t \in Tasks : task[t].status \in Ready => kept[t] \subseteq ChangesOf(task[t].cand)

(* No two tasks work in one worktree, and nobody works in a baseline or in a source, queued or current. *)
WorktreesApart ==
  \A t \in Tasks :
    LET own == {task[t].base.ws, Contract[t].baseline.ws} IN
    /\ {source.ws} \cup {queue[i].ws : i \in DOMAIN queue} \subseteq Worktrees \ (own \cup {task[t].ws})
    /\ task[t].ws \notin own
    /\ \A u \in Tasks \ {t} :
         /\ task[u].ws \notin own
         /\ task[u].ws = task[t].ws => task[t].ws = None
         /\ task[u].base.ws # task[t].base.ws

(* What get calls ready holds of the worktrees: they contain the source and every finished ancestor, and
   every leaf above ran the tests of all it contains on what is there now. *)
ReadyIsCurrent ==
  \A t \in Tasks : Publishable(t) =>
    LET here(u) == tree[task[u].ws].head IN
    /\ tree[source.ws].head \subseteq here(t)
    /\ \A u \in Leaves \cap (Descendants(t) \cup {t}) : \A a \in Ancestors(u) \cup {u} :
         /\ here(a) \subseteq here(u)
         /\ [name |-> Test(a), head |-> here(u)] \in task[u].checks

(* Work that was semantic, or was left unfinished when the source moved on, never ends as mechanical. *)
ReviewNotSkipped == \A t \in unreviewed : task[t].status # "mechanical_checked"

(* A new attempt starts without authority from older ones: no run carries its reference yet. *)
NoOldAuthority ==
  [][\A t \in Tasks :
       task'[t].status = "adapting" /\ task[t].status # "adapting" =>
         \A r \in runs : r.ref # Reference(t)']_vars

(* A published branch keeps the history it was published with: the message of check_provenance
   and docs/correction-chains.md say so of every candidate. *)
PublishedHistoryKept ==
  \A t \in Tasks : Contract[t].published /\ task[t].cand # {} =>
    Contract[t].baseline.tree.head \subseteq task[t].cand
=============================================================================
