----------------------------- MODULE ManagedStage -----------------------------
(***************************************************************************)
(* One Claude process and the threads of its ManagedStage: the reader of   *)
(* its output, the waiter that decides how the stage ended and hands that  *)
(* to the service, the watchdog with its time limit, and the thread of the *)
(* MCP loop, which started the stage, may cancel it, and holds the lock of *)
(* the service during every other handler.  Every _emit takes that lock.   *)
(*                                                                         *)
(* Abstracted: a line of output is an event, which is emitted, or a good   *)
(* or a bad result, or one that reports the usage limit; the reader of     *)
(* stderr, which needs no lock, has seen a usage limit as soon as it is    *)
(* written; time is the choice to time out; the kinds of failure that no   *)
(* caller tells apart are one.                                             *)
(***************************************************************************)
EXTENDS Integers, Sequences

CONSTANTS
  MaxLines,  \* bound: lines the process writes
  Faults,    \* faults considered: "slow" handlers, failing "callback"
  None

ASSUME StageAssumption == MaxLines \in Nat /\ Faults \subseteq {"slow", "callback"}

VARIABLES
  exit,       \* None while the process runs, then 0 or 1
  signalled,  \* terminate_process sent a signal to the running process
  written,    \* history: the lines the process wrote
  unread,     \* the part of them still in the pipe
  limitSeen,  \* _limit_seen
  result,     \* _result_payload
  reader, waiter, watchdog, client,  \* where each thread is
  cancelled,  \* _cancelled
  timedOut,   \* _timed_out
  decided,    \* the terminal value the waiter computed
  recorded,   \* what state.json says of the stage
  published,  \* _terminal
  overtaken   \* history: the waiter went on without the reader

output == <<written, unread, limitSeen>>
flags == <<cancelled, timedOut>>
ends == <<decided, recorded, published>>
vars == <<exit, signalled, output, result, reader, waiter, watchdog, client, flags, ends, overtaken>>

Results == {"good", "bad", "limit"}
Outcomes == {"completed", "interrupted", "anthropic_limit", "transient_timeout",
             "process_failure", "invalid_output"}

ASSUME NoneAssumption == None \notin {0, 1} /\ None \notin Results \cup Outcomes

(* Every other thread that emits or calls back waits for the handler.      *)
LockFree == client # "handler"
Alive == exit = None

(* start_stage, which holds the lock, has saved the record and spawned.    *)
Init ==
  /\ exit = None /\ signalled = FALSE
  /\ written = << >> /\ unread = << >> /\ limitSeen = FALSE
  /\ result = None
  /\ reader = "reading" /\ waiter = "waiting" /\ watchdog = "checking"
  /\ client = "handler"
  /\ cancelled = FALSE /\ timedOut = FALSE
  /\ decided = None /\ recorded = "running" /\ published = None
  /\ overtaken = FALSE

----------------------------------------------------------------------------
(* The process.                                                            *)

Write(line) ==
  /\ Alive
  /\ Len(written) < MaxLines
  /\ \A i \in DOMAIN written : written[i] = "event"
  /\ written' = Append(written, line)
  /\ unread' = Append(unread, line)
  /\ UNCHANGED <<exit, signalled, limitSeen, result, reader, waiter, watchdog, client,
                 flags, ends, overtaken>>

ReportLimit ==
  /\ Alive
  /\ limitSeen' = TRUE
  /\ UNCHANGED <<exit, signalled, written, unread, result, reader, waiter, watchdog, client,
                 flags, ends, overtaken>>

(* It ends by itself or because of a signal, with any code in either case. *)
Exit(code) ==
  /\ Alive
  /\ exit' = code
  /\ UNCHANGED <<signalled, output, result, reader, waiter, watchdog, client, flags, ends,
                 overtaken>>

----------------------------------------------------------------------------
(* _read_stdout.  A stream closed under the reader ends it.                *)

Closed == waiter \notin {"waiting", "joining", "closing"}

Read ==
  /\ reader = "reading"
  /\ ~Closed
  /\ unread # << >>
  /\ unread' = Tail(unread)
  /\ IF Head(unread) = "event"
     THEN reader' = "emitting" /\ UNCHANGED result
     ELSE result' = Head(unread) /\ UNCHANGED reader
  /\ UNCHANGED <<exit, signalled, written, limitSeen, waiter, watchdog, client, flags, ends,
                 overtaken>>

ReaderEmits ==
  /\ reader = "emitting"
  /\ LockFree
  /\ reader' = "reading"
  /\ UNCHANGED <<exit, signalled, output, result, waiter, watchdog, client, flags, ends,
                 overtaken>>

ReaderEnds ==
  /\ reader = "reading"
  /\ Closed \/ (unread = << >> /\ ~Alive)
  /\ reader' = "ended"
  /\ UNCHANGED <<exit, signalled, output, result, waiter, watchdog, client, flags, ends,
                 overtaken>>

----------------------------------------------------------------------------
(* _wait.                                                                  *)

WaiterMoves(from, to) == waiter = from /\ waiter' = to

ProcessWaited ==
  /\ WaiterMoves("waiting", "joining")
  /\ ~Alive
  /\ UNCHANGED <<exit, signalled, output, result, reader, watchdog, client, flags, ends,
                 overtaken>>

MutNoJoin ==
  /\ WaiterMoves("joining", "closing")
  /\ UNCHANGED <<exit, signalled, output, result, reader, watchdog, client, flags, ends,
                 overtaken>>

JoinReader ==
  /\ WaiterMoves("joining", "closing")
  /\ reader = "ended"
  /\ UNCHANGED <<exit, signalled, output, result, reader, watchdog, client, flags, ends,
                 overtaken>>

(* A handler holds the lock the reader waits for longer than the join.     *)
JoinTimesOut ==
  /\ "slow" \in Faults
  /\ WaiterMoves("joining", "closing")
  /\ reader = "emitting" /\ ~LockFree
  /\ overtaken' = TRUE
  /\ UNCHANGED <<exit, signalled, output, result, reader, watchdog, client, flags, ends>>

CloseStreams ==
  /\ WaiterMoves("closing", "deciding")
  /\ UNCHANGED <<exit, signalled, output, result, reader, watchdog, client, flags, ends,
                 overtaken>>

(* The provider said so on stderr, or in a result that is an error.        *)
LimitReached == (exit # 0 /\ limitSeen) \/ result = "limit"

MutResultFirst ==
  CASE exit = 0 /\ result = "good" -> "completed"
    [] cancelled -> "interrupted"
    [] OTHER -> "process_failure"

(* _terminal_from_result: a mark set before it counts, however the process *)
(* ended.                                                                  *)
Outcome ==
  CASE cancelled -> "interrupted"
    [] ~cancelled /\ timedOut -> IF limitSeen THEN "anthropic_limit" ELSE "transient_timeout"
    [] ~cancelled /\ ~timedOut /\ LimitReached -> "anthropic_limit"
    [] ~cancelled /\ ~timedOut /\ ~LimitReached /\ exit # 0 -> "process_failure"
    [] OTHER -> IF result = "good" THEN "completed" ELSE "invalid_output"

Decide ==
  /\ WaiterMoves("deciding", "announcing")
  /\ decided' = Outcome
  /\ UNCHANGED <<exit, signalled, output, result, reader, watchdog, client, flags, recorded,
                 published, overtaken>>

Announce ==
  /\ WaiterMoves("announcing", "calling")
  /\ LockFree
  /\ result' = None
  /\ UNCHANGED <<exit, signalled, output, reader, watchdog, client, flags, ends, overtaken>>

(* _on_stage_terminal, which may fail before it has saved.                 *)
CallBack ==
  /\ WaiterMoves("calling", "publishing")
  /\ LockFree
  /\ \/ recorded' = decided
     \/ "callback" \in Faults /\ UNCHANGED recorded
  /\ UNCHANGED <<exit, signalled, output, result, reader, watchdog, client, flags, decided,
                 published, overtaken>>

Publish ==
  /\ WaiterMoves("publishing", "done")
  /\ published' = decided
  /\ UNCHANGED <<exit, signalled, output, result, reader, watchdog, client, flags, decided,
                 recorded, overtaken>>

Waits ==
  \/ ProcessWaited \/ JoinReader \/ JoinTimesOut \/ CloseStreams
  \/ Decide \/ Announce \/ CallBack \/ Publish

----------------------------------------------------------------------------
(* _watchdog.  It looks at the clock after a sleep, and at the process     *)
(* before it.                                                              *)

WatchdogMoves(from, to) == watchdog = from /\ watchdog' = to

WatchdogChecks ==
  /\ WatchdogMoves("checking", IF Alive THEN "sleeping" ELSE "ended")
  /\ UNCHANGED <<exit, signalled, output, result, reader, waiter, client, flags, ends, overtaken>>

WatchdogWakes ==
  /\ WatchdogMoves("sleeping", "checking") \/ WatchdogMoves("sleeping", "emitting")
  /\ UNCHANGED <<exit, signalled, output, result, reader, waiter, client, flags, ends, overtaken>>

WatchdogEmits ==
  /\ WatchdogMoves("emitting", "checking")
  /\ LockFree
  /\ UNCHANGED <<exit, signalled, output, result, reader, waiter, client, flags, ends, overtaken>>

MutKillUnmarked ==
  /\ WatchdogMoves("sleeping", "terminating")
  /\ UNCHANGED <<exit, signalled, output, result, reader, waiter, client, flags, ends, overtaken>>

TimeOut ==
  /\ WatchdogMoves("sleeping", "terminating")
  /\ timedOut' = TRUE
  /\ UNCHANGED <<exit, signalled, output, result, reader, waiter, client, cancelled, ends,
                 overtaken>>

MutForgetsKill ==
  /\ WatchdogMoves("terminating", "ended")
  /\ UNCHANGED <<exit, signalled, output, result, reader, waiter, client, flags, ends, overtaken>>

(* terminate_process; the thread has nothing else to do after it.          *)
WatchdogKills ==
  /\ WatchdogMoves("terminating", "ended")
  /\ signalled' = (signalled \/ Alive)
  /\ UNCHANGED <<exit, output, result, reader, waiter, client, flags, ends, overtaken>>

Watches == WatchdogChecks \/ WatchdogWakes \/ WatchdogEmits \/ TimeOut \/ WatchdogKills

----------------------------------------------------------------------------
(* The MCP loop: handlers under the lock of the service, and cancel, which *)
(* runs without it.                                                        *)

ClientMoves(from, to) == client = from /\ client' = to

HandlerBegins ==
  /\ ClientMoves("idle", "handler")
  /\ UNCHANGED <<exit, signalled, output, result, reader, waiter, watchdog, flags, ends, overtaken>>

HandlerReturns ==
  /\ ClientMoves("handler", "idle")
  /\ UNCHANGED <<exit, signalled, output, result, reader, waiter, watchdog, flags, ends, overtaken>>

CancelFindsAlive ==
  /\ ClientMoves("idle", "cancelling")
  /\ Alive
  /\ UNCHANGED <<exit, signalled, output, result, reader, waiter, watchdog, flags, ends, overtaken>>

CancelMarks ==
  /\ ClientMoves("cancelling", "terminating")
  /\ cancelled' = TRUE
  /\ UNCHANGED <<exit, signalled, output, result, reader, waiter, watchdog, timedOut, ends,
                 overtaken>>

CancelKills ==
  /\ ClientMoves("terminating", "awaiting")
  /\ signalled' = (signalled \/ Alive)
  /\ UNCHANGED <<exit, output, result, reader, waiter, watchdog, flags, ends, overtaken>>

(* The process is dead; the stage may or may not be published in time.     *)
CancelReturns ==
  /\ ClientMoves("awaiting", "idle")
  /\ ~Alive
  /\ UNCHANGED <<exit, signalled, output, result, reader, waiter, watchdog, flags, ends, overtaken>>

Cancels == CancelMarks \/ CancelKills \/ CancelReturns

----------------------------------------------------------------------------

Next ==
  \/ \E line \in {"event"} \cup Results : Write(line)
  \/ ReportLimit
  \/ \E code \in {0, 1} : Exit(code)
  \/ Read \/ ReaderEmits \/ ReaderEnds
  \/ Waits
  \/ Watches
  \/ HandlerBegins \/ HandlerReturns \/ CancelFindsAlive \/ Cancels

Spec == Init /\ [][Next]_vars

(* A signalled process dies (SIGKILL follows SIGTERM), handlers return,    *)
(* threads run, and get the lock as it is free again and again; the time   *)
(* limit comes for a process that goes on.                                 *)
FairSpec ==
  /\ Spec
  /\ WF_vars(signalled /\ \E code \in {0, 1} : Exit(code))
  /\ WF_vars(Read) /\ SF_vars(ReaderEmits) /\ WF_vars(ReaderEnds)
  /\ SF_vars(Waits)
  /\ SF_vars(WatchdogEmits) /\ SF_vars(TimeOut)
  /\ WF_vars(WatchdogChecks \/ WatchdogWakes \/ WatchdogKills)
  /\ WF_vars(HandlerReturns) /\ WF_vars(Cancels)

----------------------------------------------------------------------------
(* Properties.                                                             *)

WaiterStates == {"waiting", "joining", "closing", "deciding", "announcing", "calling",
                 "publishing", "done"}
Undecided == {"waiting", "joining", "closing", "deciding"}

(* Every variable has its type, and the waiter has a value to hand on      *)
(* exactly from its decision on.                                           *)
TypeOK ==
  /\ exit \in {None, 0, 1} /\ signalled \in BOOLEAN
  /\ written \in Seq({"event"} \cup Results) /\ unread \in Seq({"event"} \cup Results)
  /\ limitSeen \in BOOLEAN /\ result \in {None} \cup Results
  /\ reader \in {"reading", "emitting", "ended"}
  /\ waiter \in WaiterStates
  /\ watchdog \in {"checking", "sleeping", "emitting", "terminating", "ended"}
  /\ client \in {"idle", "handler", "cancelling", "terminating", "awaiting"}
  /\ cancelled \in BOOLEAN /\ timedOut \in BOOLEAN /\ overtaken \in BOOLEAN
  /\ decided \in IF waiter \in Undecided THEN {None} ELSE Outcomes
  /\ recorded \in {"running"} \cup Outcomes
  /\ published \in {None} \cup Outcomes

(* A process the harness shot down is never taken for one that completed,  *)
(* whatever it had written and whatever code it exits with.                *)
KilledNotCompleted == signalled => decided # "completed" /\ recorded # "completed"

(* The result of a process that ended well by itself is not lost, except   *)
(* to a reader that a slow handler kept waiting: the exit of the process   *)
(* is seen before the last lines of its output are read.                   *)
ResultKept ==
  /\ decided # None
  /\ exit = 0
  /\ \E i \in DOMAIN written : written[i] = "good"
  /\ ~cancelled /\ ~timedOut /\ ~overtaken
  => decided = "completed"

(* Every stage is published some day: the time limit ends the process, and *)
(* neither a join, nor the lock, nor cancel holds the waiter up for ever.  *)
StagePublished == <>(published # None)

(* Seen from the service, a stage is cancelled only if the mark comes      *)
(* before the waiter decides, and over once the callback was made.         *)
Life ==
  CASE waiter \in {"publishing", "done"} -> "published"
    [] waiter \in {"announcing", "calling"} ->
         IF decided = "interrupted" THEN "cancelled" ELSE "live"
    [] OTHER -> IF cancelled THEN "cancelled" ELSE "live"

Abstract == INSTANCE StageLife WITH
  life <- Life, Interrupted <- "interrupted", Running <- "running"

(* What HarnessRun relies on: a stage that poll_stage reports terminal has *)
(* gone through the callback, once, with an outcome its cancellation       *)
(* allows, and every stage gets there.                                     *)
ImplementsStageLife == Abstract!FairSpec
=============================================================================
