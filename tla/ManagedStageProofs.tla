--------------------------- MODULE ManagedStageProofs ---------------------------
(* What holds of ManagedStage however many lines the process writes and    *)
(* whatever faults are considered.                                         *)
EXTENDS ManagedStage, SequenceTheorems, TLAPS

USE DEF output, flags, ends, vars

----------------------------------------------------------------------------
(* Types.                                                                  *)

(* However the process ended, it has an outcome.                           *)
LEMMA OutcomeType == Outcome \in Outcomes
  BY DEF Outcome, Outcomes

(* A line that is written keeps both histories of lines well typed.        *)
LEMMA LinesType ==
  ASSUME NEW lines \in Seq({"event"} \cup Results)
  PROVE  /\ \A line \in {"event"} \cup Results : Append(lines, line) \in Seq({"event"} \cup Results)
         /\ lines # << >> => /\ Tail(lines) \in Seq({"event"} \cup Results)
                             /\ Head(lines) \in {"event"} \cup Results
  BY HeadTailProperties, AppendProperties

(* The variables keep their types, and whatever way the process ended the *)
(* waiter has an outcome for it.                                           *)
THEOREM StageTypeCorrect == Spec => []TypeOK
<1>1. Init => TypeOK
  <2>1. << >> \in Seq({"event"} \cup Results)
    OBVIOUS
  <2>2. QED
    BY <2>1 DEF Init, TypeOK, WaiterStates, Undecided
<1>2. TypeOK /\ [Next]_vars => TypeOK'
  <2> SUFFICES ASSUME TypeOK, [Next]_vars PROVE TypeOK'
    OBVIOUS
  <2> USE DEF TypeOK
  <2>1. ASSUME NEW line \in {"event"} \cup Results, Write(line) PROVE TypeOK'
    BY <2>1, LinesType DEF Write
  <2>2. CASE ReportLimit
    BY <2>2 DEF ReportLimit
  <2>3. ASSUME NEW code \in {0, 1}, Exit(code) PROVE TypeOK'
    BY <2>3 DEF Exit
  <2>4. CASE Read
    <3>1. unread' \in Seq({"event"} \cup Results) /\ result' \in {None} \cup Results
      BY <2>4, LinesType DEF Read
    <3>2. QED
      BY <2>4, <3>1 DEF Read
  <2>5. CASE ReaderEmits \/ ReaderEnds
    BY <2>5 DEF ReaderEmits, ReaderEnds
  <2>6. CASE Decide
    BY <2>6, OutcomeType DEF Decide, WaiterMoves, WaiterStates, Undecided
  <2>7. CASE ProcessWaited \/ JoinReader \/ JoinTimesOut \/ CloseStreams \/ Announce
    <3> USE DEF WaiterMoves, WaiterStates, Undecided
    <3>1. CASE ProcessWaited
      BY <3>1 DEF ProcessWaited
    <3>2. CASE JoinReader
      BY <3>2 DEF JoinReader
    <3>3. CASE JoinTimesOut
      BY <3>3 DEF JoinTimesOut
    <3>4. CASE CloseStreams
      BY <3>4 DEF CloseStreams
    <3>5. CASE Announce
      BY <3>5 DEF Announce
    <3>6. QED
      BY <2>7, <3>1, <3>2, <3>3, <3>4, <3>5
  <2>8. CASE CallBack \/ Publish
    <3>1. decided \in Outcomes
      BY <2>8 DEF CallBack, Publish, WaiterMoves, Undecided
    <3>2. CASE CallBack
      BY <3>1, <3>2 DEF CallBack, WaiterMoves, WaiterStates, Undecided
    <3>3. CASE Publish
      BY <3>1, <3>3 DEF Publish, WaiterMoves, WaiterStates, Undecided
    <3>4. QED
      BY <2>8, <3>2, <3>3
  <2>9. CASE Watches
    BY <2>9 DEF Watches, WatchdogChecks, WatchdogWakes, WatchdogEmits, TimeOut,
                WatchdogKills, WatchdogMoves, Alive
  <2>10. CASE HandlerBegins \/ HandlerReturns \/ CancelFindsAlive \/ Cancels
    BY <2>10 DEF HandlerBegins, HandlerReturns, CancelFindsAlive, Cancels, CancelMarks,
                 CancelKills, CancelReturns, ClientMoves, Alive
  <2>11. CASE UNCHANGED vars
    BY <2>11
  <2>12. QED
    BY <2>1, <2>2, <2>3, <2>4, <2>5, <2>6, <2>7, <2>8, <2>9, <2>10, <2>11 DEF Next, Waits
<1>3. QED
  BY <1>1, <1>2, PTL DEF Spec

----------------------------------------------------------------------------
(* A signal is preceded by its mark, and a decision by the end of the      *)
(* process; what is decided is recorded and published unchanged.           *)
Marked ==
  /\ watchdog = "terminating" => timedOut
  /\ client \in {"terminating", "awaiting"} => cancelled
  /\ signalled => cancelled \/ timedOut

Decided ==
  /\ waiter # "waiting" => ~Alive
  /\ waiter \in {"waiting", "joining", "closing", "deciding"} => decided = None
  /\ waiter \notin {"publishing", "done"} => recorded = "running"
  /\ recorded \in {"running", decided}
  /\ decided = "completed" => ~signalled

Inductive == TypeOK /\ Marked /\ Decided

LEMMA InitInductive == Init => Marked /\ Decided
  BY DEF Init, Marked, Decided, Alive

LEMMA NextMarked == TypeOK /\ Marked /\ [Next]_vars => Marked'
<1> SUFFICES ASSUME TypeOK, Marked, [Next]_vars PROVE Marked'
  OBVIOUS
<1> USE DEF Marked
<1>1. ASSUME NEW line \in {"event"} \cup Results, Write(line) PROVE Marked'
  BY <1>1 DEF Write
<1>2. ASSUME NEW code \in {0, 1}, Exit(code) PROVE Marked'
  BY <1>2 DEF Exit
<1>3. CASE ReportLimit \/ Read \/ ReaderEmits \/ ReaderEnds
  BY <1>3 DEF ReportLimit, Read, ReaderEmits, ReaderEnds
<1>4. CASE Waits
  BY <1>4 DEF Waits, ProcessWaited, JoinReader, JoinTimesOut, CloseStreams, Decide, Announce,
              CallBack, Publish
<1>5. CASE WatchdogChecks \/ WatchdogWakes \/ WatchdogEmits
  BY <1>5 DEF WatchdogChecks, WatchdogWakes, WatchdogEmits, WatchdogMoves
<1>6. CASE TimeOut
  BY <1>6 DEF TimeOut, WatchdogMoves
<1>7. CASE WatchdogKills
  BY <1>7 DEF WatchdogKills, WatchdogMoves
<1>8. CASE HandlerBegins \/ HandlerReturns \/ CancelFindsAlive
  BY <1>8 DEF HandlerBegins, HandlerReturns, CancelFindsAlive, ClientMoves
<1>9. CASE CancelMarks
  BY <1>9 DEF CancelMarks, ClientMoves
<1>10. CASE CancelKills
  BY <1>10 DEF CancelKills, ClientMoves
<1>11. CASE CancelReturns
  BY <1>11 DEF CancelReturns, ClientMoves
<1>12. CASE UNCHANGED vars
  BY <1>12
<1>13. QED
  BY <1>1, <1>2, <1>3, <1>4, <1>5, <1>6, <1>7, <1>8, <1>9, <1>10, <1>11, <1>12
     DEF Next, Watches, Cancels

(* The waiter takes a process for completed only if neither mark is set.   *)
LEMMA CompletedUnmarked == Outcome = "completed" => ~cancelled /\ ~timedOut
<1>1. CASE cancelled
  BY <1>1 DEF Outcome
<1>2. CASE ~cancelled /\ timedOut
  BY <1>2 DEF Outcome
<1>3. CASE ~cancelled /\ ~timedOut
  BY <1>3
<1>4. QED
  BY <1>1, <1>2, <1>3

(* A stage that counts as completed had no process left to shoot at.       *)
LEMMA CompletedIsDead == ASSUME Inductive, decided = "completed" PROVE ~Alive
  BY NoneAssumption DEF Inductive, Decided, TypeOK, Undecided, Outcomes

LEMMA NextDecided == Inductive /\ [Next]_vars => Decided'
<1> SUFFICES ASSUME Inductive, [Next]_vars PROVE Decided'
  OBVIOUS
<1> USE DEF Inductive, Decided, Alive
<1>1. ASSUME NEW line \in {"event"} \cup Results, Write(line) PROVE Decided'
  BY <1>1 DEF Write
<1>2. ASSUME NEW code \in {0, 1}, Exit(code) PROVE Decided'
  BY <1>2 DEF Exit
<1>3. CASE ReportLimit \/ Read \/ ReaderEmits \/ ReaderEnds
  BY <1>3 DEF ReportLimit, Read, ReaderEmits, ReaderEnds
<1>4. CASE ProcessWaited \/ JoinReader \/ JoinTimesOut \/ CloseStreams \/ Announce
  BY <1>4 DEF ProcessWaited, JoinReader, JoinTimesOut, CloseStreams, Announce, WaiterMoves
<1>5. CASE Decide
  BY <1>5, CompletedUnmarked DEF Decide, WaiterMoves, Marked
<1>6. CASE CallBack
  BY <1>6 DEF CallBack, WaiterMoves
<1>7. CASE Publish
  BY <1>7 DEF Publish, WaiterMoves
<1>8. CASE Watches
  <2>1. CASE WatchdogChecks \/ WatchdogWakes \/ WatchdogEmits \/ TimeOut
    BY <2>1 DEF WatchdogChecks, WatchdogWakes, WatchdogEmits, TimeOut
  <2>2. CASE WatchdogKills
    BY <2>2, CompletedIsDead DEF WatchdogKills
  <2>3. QED
    BY <1>8, <2>1, <2>2 DEF Watches
<1>9. CASE HandlerBegins \/ HandlerReturns \/ CancelFindsAlive \/ Cancels
  <2>1. CASE HandlerBegins \/ HandlerReturns \/ CancelFindsAlive \/ CancelMarks \/ CancelReturns
    BY <2>1 DEF HandlerBegins, HandlerReturns, CancelFindsAlive, CancelMarks, CancelReturns
  <2>2. CASE CancelKills
    BY <2>2, CompletedIsDead DEF CancelKills
  <2>3. QED
    BY <1>9, <2>1, <2>2 DEF Cancels
<1>10. CASE UNCHANGED vars
  BY <1>10
<1>11. QED
  BY <1>1, <1>2, <1>3, <1>4, <1>5, <1>6, <1>7, <1>8, <1>9, <1>10 DEF Next, Waits

LEMMA InductiveInvariant == Spec => []Inductive
<1>1. Init => Marked /\ Decided
  BY InitInductive
<1>2. TypeOK /\ TypeOK' /\ Marked /\ Decided /\ [Next]_vars => Marked' /\ Decided'
  BY NextMarked, NextDecided DEF Inductive
<1>3. QED
  BY <1>1, <1>2, StageTypeCorrect, PTL DEF Spec, Inductive

(* A stage the harness shot down is never decided, and never recorded, as  *)
(* completed: _timed_out and _cancelled are set before the signal.         *)
THEOREM KilledNeverCompleted == Spec => []KilledNotCompleted
<1>1. Inductive => KilledNotCompleted
  BY DEF Inductive, Decided, KilledNotCompleted
<1>2. QED
  BY <1>1, InductiveInvariant, PTL

----------------------------------------------------------------------------
(* The last lines.  A result is the last line a process writes, so lines   *)
(* have a final one and only events before it; the reader has the result   *)
(* as soon as the pipe is empty, and a waiter that did not overtake it     *)
(* finds the pipe empty.                                                   *)
Final(lines) == IF lines = << >> THEN "event" ELSE lines[Len(lines)]

EventsFirst(lines) == \A i \in DOMAIN lines : i # Len(lines) => lines[i] = "event"

Piped ==
  /\ EventsFirst(written) /\ EventsFirst(unread)
  /\ unread # << >> => Final(unread) = Final(written)

Collected ==
  waiter \in Undecided \cup {"announcing"} =>
    result = IF unread # << >> \/ Final(written) = "event" THEN None ELSE Final(written)

Drained ==
  (waiter \in {"waiting", "joining"} /\ reader = "ended")
      \/ (waiter \notin {"waiting", "joining"} /\ ~overtaken)
    => reader = "ended" /\ unread = << >> /\ ~Alive

KeepingInv == Piped /\ Collected /\ Drained /\ ResultKept

LEMMA FinalAppended ==
  ASSUME NEW lines \in Seq({"event"} \cup Results), NEW line \in {"event"} \cup Results
  PROVE  /\ Append(lines, line) # << >>
         /\ Final(Append(lines, line)) = line
         /\ (\A i \in DOMAIN lines : lines[i] = "event") => EventsFirst(Append(lines, line))
<1>1. /\ Append(lines, line) \in Seq({"event"} \cup Results)
      /\ Len(Append(lines, line)) = Len(lines) + 1
      /\ \A i \in 1 .. Len(lines) : Append(lines, line)[i] = lines[i]
      /\ Append(lines, line)[Len(lines) + 1] = line
  BY AppendProperties
<1>2. DOMAIN lines = 1 .. Len(lines) /\ Len(lines) \in Nat
  BY LenProperties
<1>3. DOMAIN Append(lines, line) = 1 .. (Len(lines) + 1)
  BY <1>1, LenProperties
<1>4. Append(lines, line) # << >>
  BY <1>1, <1>2, EmptySeq
<1>5. QED
  BY <1>1, <1>2, <1>3, <1>4 DEF Final, EventsFirst

LEMMA FinalOfTail ==
  ASSUME NEW lines \in Seq({"event"} \cup Results), lines # << >>, EventsFirst(lines)
  PROVE  /\ EventsFirst(Tail(lines))
         /\ Tail(lines) # << >> => Final(Tail(lines)) = Final(lines) /\ Head(lines) = "event"
         /\ Tail(lines) = << >> => Head(lines) = Final(lines)
<1>1. /\ Tail(lines) \in Seq({"event"} \cup Results)
      /\ Len(Tail(lines)) = Len(lines) - 1
      /\ \A i \in 1 .. Len(Tail(lines)) : Tail(lines)[i] = lines[i + 1]
      /\ Head(lines) = lines[1]
  BY HeadTailProperties
<1>2. DOMAIN lines = 1 .. Len(lines) /\ Len(lines) \in Nat \ {0}
  BY LenProperties, EmptySeq
<1>3. DOMAIN Tail(lines) = 1 .. Len(Tail(lines))
  BY <1>1, LenProperties
<1>4. Tail(lines) = << >> <=> Len(lines) = 1
  <2>1. Tail(lines) = << >> <=> Len(Tail(lines)) = 0
    BY <1>1, EmptySeq
  <2>2. QED
    BY <1>1, <1>2, <2>1
<1>5. EventsFirst(Tail(lines))
  BY <1>1, <1>2, <1>3 DEF EventsFirst
<1>6. ASSUME Tail(lines) # << >> PROVE Final(Tail(lines)) = Final(lines) /\ Head(lines) = "event"
  <2>1. Len(lines) > 1
    BY <1>2, <1>4, <1>6
  <2>2. Head(lines) = "event"
    BY <1>1, <1>2, <2>1 DEF EventsFirst
  <2>3. Tail(lines)[Len(Tail(lines))] = lines[Len(lines)]
    BY <1>1, <1>2, <2>1
  <2>4. QED
    BY <1>6, <2>2, <2>3 DEF Final
<1>7. QED
  BY <1>1, <1>2, <1>4, <1>5, <1>6 DEF Final

(* A good result anywhere in the output is its final line.                 *)
LEMMA GoodIsFinal ==
  ASSUME TypeOK, Piped, NEW i \in DOMAIN written, written[i] = "good"
  PROVE  Final(written) = "good"
<1>1. written # << >> /\ i = Len(written)
  BY DEF Piped, EventsFirst
<1>2. QED
  BY <1>1 DEF Final

(* Nothing was written yet that is not an event.                           *)
LEMMA NotFinalYet ==
  ASSUME TypeOK, \A i \in DOMAIN written : written[i] = "event"
  PROVE  Final(written) = "event"
<1>1. written \in Seq({"event"} \cup Results)
  BY DEF TypeOK
<1>2. CASE written = << >>
  BY <1>2 DEF Final
<1>3. CASE written # << >>
  <2>1. Len(written) \in DOMAIN written
    BY <1>1, <1>3, LenProperties, EmptySeq
  <2>2. QED
    BY <1>3, <2>1 DEF Final
<1>4. QED
  BY <1>2, <1>3

LEMMA WriteKeeps ==
  ASSUME Inductive, KeepingInv, NEW line \in {"event"} \cup Results, Write(line)
  PROVE  KeepingInv'
<1>1. Alive /\ waiter = "waiting" /\ decided = None
  BY DEF Write, Inductive, Decided
<1>2. written \in Seq({"event"} \cup Results) /\ unread \in Seq({"event"} \cup Results)
  BY DEF Inductive, TypeOK
<1>3. Final(written) = "event"
  BY NotFinalYet DEF Inductive, Write
<1>4. \A i \in DOMAIN unread : unread[i] = "event"
  BY <1>2, <1>3 DEF KeepingInv, Piped, EventsFirst, Final
<1>5. Piped'
  BY <1>2, <1>4, FinalAppended DEF Write, Piped
<1>6. Collected'
  BY <1>1, <1>2, <1>3, FinalAppended DEF Write, KeepingInv, Collected, Undecided
<1>7. Drained'
  BY <1>1 DEF Write, KeepingInv, Drained, Alive
<1>8. ResultKept'
  BY <1>1 DEF Write, ResultKept
<1>9. QED
  BY <1>5, <1>6, <1>7, <1>8 DEF KeepingInv

LEMMA ReadKeeps ==
  ASSUME Inductive, KeepingInv, Read
  PROVE  KeepingInv'
<1>1. /\ waiter \in Undecided /\ reader # "ended" /\ unread # << >>
      /\ UNCHANGED <<exit, written, waiter, flags, decided, overtaken>>
  BY DEF Read, Closed, Inductive, TypeOK, WaiterStates, Undecided
<1>2. unread \in Seq({"event"} \cup Results) /\ unread' = Tail(unread)
  BY DEF Read, Inductive, TypeOK
<1>3. /\ EventsFirst(unread')
      /\ unread' # << >> => Final(unread') = Final(unread) /\ Head(unread) = "event"
      /\ unread' = << >> => Head(unread) = Final(unread)
  BY <1>1, <1>2, FinalOfTail DEF KeepingInv, Piped
<1>4. Piped'
  BY <1>1, <1>3 DEF KeepingInv, Piped, EventsFirst, Final
<1>5. result = None /\ Final(unread) = Final(written)
  BY <1>1 DEF KeepingInv, Collected, Piped
<1>6. Collected'
  BY <1>1, <1>3, <1>5 DEF Read, Collected, Final
<1>7. Drained'
  BY <1>1 DEF Read, KeepingInv, Drained
<1>8. ResultKept'
  BY <1>1 DEF KeepingInv, ResultKept
<1>9. QED
  BY <1>4, <1>6, <1>7, <1>8 DEF KeepingInv

(* The exit of the process is seen before its last lines are read, and     *)
(* still the waiter decides with the result in hand.                       *)
LEMMA DecideKeeps ==
  ASSUME Inductive, KeepingInv, Decide
  PROVE  KeepingInv'
<1>1. /\ waiter = "deciding" /\ waiter' = "announcing" /\ decided' = Outcome
      /\ UNCHANGED <<exit, output, result, reader, flags, overtaken>>
  BY DEF Decide, WaiterMoves
<1>2. Piped' /\ Drained' /\ Collected'
  BY <1>1 DEF KeepingInv, Piped, Drained, Collected, EventsFirst, Final, Alive, Undecided
<1>3. ResultKept'
  <2> SUFFICES ASSUME exit = 0, NEW i \in DOMAIN written, written[i] = "good",
                      ~cancelled, ~timedOut, ~overtaken
               PROVE  Outcome = "completed"
    BY <1>1 DEF ResultKept
  <2>1. Final(written) = "good" /\ unread = << >>
    BY <1>1, GoodIsFinal DEF Inductive, KeepingInv, Drained
  <2>2. result = "good"
    BY <1>1, <2>1 DEF KeepingInv, Collected, Undecided
  <2>3. ~LimitReached
    BY <2>2 DEF LimitReached
  <2>4. QED
    BY <2>2, <2>3 DEF Outcome
<1>4. QED
  BY <1>2, <1>3 DEF KeepingInv

LEMMA WaiterKeeps ==
  ASSUME Inductive, KeepingInv, Waits
  PROVE  KeepingInv'
<1> USE DEF WaiterMoves
<1>1. CASE ProcessWaited \/ JoinReader \/ JoinTimesOut \/ CloseStreams \/ Announce \/ CallBack
           \/ Publish
  <2>1. UNCHANGED <<exit, output, reader, flags, decided>> /\ (overtaken' = FALSE => overtaken = FALSE)
    BY <1>1 DEF ProcessWaited, JoinReader, JoinTimesOut, CloseStreams, Announce, CallBack, Publish,
                Inductive, TypeOK
  <2>2. Piped' /\ ResultKept'
    BY <2>1 DEF KeepingInv, Piped, ResultKept, EventsFirst, Final, Inductive, TypeOK
  <2>3. Collected'
    <3>1. waiter' \in Undecided \cup {"announcing"} =>
            waiter \in Undecided \cup {"announcing"} /\ UNCHANGED result
      BY <1>1 DEF ProcessWaited, JoinReader, JoinTimesOut, CloseStreams, Announce, CallBack,
                  Publish, Undecided
    <3>2. QED
      BY <2>1, <3>1 DEF KeepingInv, Collected, Final
  <2>4. Drained'
    BY <1>1, <2>1 DEF ProcessWaited, JoinReader, JoinTimesOut, CloseStreams, Announce, CallBack,
                      Publish, KeepingInv, Drained, Alive, Inductive, TypeOK
  <2>5. QED
    BY <2>2, <2>3, <2>4 DEF KeepingInv
<1>2. QED
  BY <1>1, DecideKeeps DEF Waits

LEMMA NextKeeps == Inductive /\ KeepingInv /\ [Next]_vars => KeepingInv'
<1> SUFFICES ASSUME Inductive, KeepingInv, [Next]_vars PROVE KeepingInv'
  OBVIOUS
<1> DEFINE LeavesLines == UNCHANGED <<written, unread, result, waiter, decided, overtaken>>
<1>1. ASSUME LeavesLines, UNCHANGED <<exit, reader>>, cancelled => cancelled', timedOut => timedOut'
      PROVE  KeepingInv'
  BY <1>1 DEF KeepingInv, Piped, Collected, Drained, ResultKept, EventsFirst, Final, Alive,
              Undecided
<1>2. ASSUME NEW code \in {0, 1}, Exit(code) PROVE KeepingInv'
  <2>1. waiter = "waiting" /\ decided = None
    BY <1>2 DEF Exit, Inductive, Decided
  <2>2. reader # "ended"
    BY <1>2, <2>1 DEF Exit, KeepingInv, Drained
  <2>3. QED
    BY <1>2, <2>1, <2>2 DEF Exit, KeepingInv, Piped, Collected, Drained, ResultKept, EventsFirst,
                            Final, Alive, Undecided
<1>3. CASE ReaderEmits \/ ReaderEnds
  <2>1. LeavesLines /\ UNCHANGED <<exit, flags>>
    BY <1>3 DEF ReaderEmits, ReaderEnds
  <2>2. Piped' /\ Collected' /\ ResultKept'
    BY <2>1 DEF KeepingInv, Piped, Collected, ResultKept, EventsFirst, Final, Undecided
  <2>3. CASE ReaderEmits
    BY <2>1, <2>2, <2>3 DEF ReaderEmits, KeepingInv, Drained, Alive
  <2>4. CASE ReaderEnds
    BY <2>1, <2>2, <2>4 DEF ReaderEnds, Closed, KeepingInv, Drained, Alive
  <2>5. QED
    BY <1>3, <2>3, <2>4
<1>4. CASE ReportLimit
  BY <1>1, <1>4 DEF ReportLimit
<1>5. CASE Watches
  BY <1>1, <1>5 DEF Watches, WatchdogChecks, WatchdogWakes, WatchdogEmits, TimeOut, WatchdogKills
<1>6. CASE HandlerBegins \/ HandlerReturns \/ CancelFindsAlive \/ Cancels
  BY <1>1, <1>6 DEF HandlerBegins, HandlerReturns, CancelFindsAlive, Cancels, CancelMarks,
                    CancelKills, CancelReturns
<1>7. CASE UNCHANGED vars
  BY <1>1, <1>7
<1>8. QED
  BY <1>2, <1>3, <1>4, <1>5, <1>6, <1>7, WriteKeeps, ReadKeeps, WaiterKeeps DEF Next

(* A process that ends with 0 and a good result, that nobody cancelled or  *)
(* timed out, is decided as completed, unless the join of the reader timed *)
(* out: _wait sees the exit before _read_stdout sees the last line, and    *)
(* the join makes up for it.                                               *)
THEOREM ResultAlwaysKept == Spec => []ResultKept
<1>1. Init => KeepingInv
  BY DEF Init, KeepingInv, Piped, Collected, Drained, ResultKept, EventsFirst, Final, Alive,
         Undecided
<1>2. Inductive /\ KeepingInv /\ [Next]_vars => KeepingInv'
  BY NextKeeps
<1>3. KeepingInv => ResultKept
  BY DEF KeepingInv
<1>4. QED
  BY <1>1, <1>2, <1>3, InductiveInvariant, PTL DEF Spec

----------------------------------------------------------------------------
(* The refinement.                                                         *)

AbstractVars == <<Life, recorded>>

(* The marks decide alone whether a stage counts as interrupted.           *)
LEMMA InterruptedIfMarked ==
  ASSUME TypeOK PROVE Outcome = "interrupted" <=> cancelled
<1>1. CASE cancelled
  BY <1>1 DEF Outcome
<1>2. CASE ~cancelled /\ timedOut
  BY <1>2 DEF Outcome
<1>3. CASE ~cancelled /\ ~timedOut /\ LimitReached
  BY <1>3 DEF Outcome
<1>4. CASE ~cancelled /\ ~timedOut /\ ~LimitReached
  BY <1>4 DEF Outcome
<1>5. QED
  BY <1>1, <1>2, <1>3, <1>4

LEMMA StepImplements == Inductive /\ Inductive' /\ [Next]_vars => [Abstract!Next]_AbstractVars
<1> SUFFICES ASSUME Inductive, Inductive', [Next]_vars PROVE [Abstract!Next]_AbstractVars
  OBVIOUS
<1> USE DEF AbstractVars, Life
<1>1. ASSUME NEW line \in {"event"} \cup Results, Write(line) PROVE UNCHANGED AbstractVars
  BY <1>1 DEF Write
<1>2. ASSUME NEW code \in {0, 1}, Exit(code) PROVE UNCHANGED AbstractVars
  BY <1>2 DEF Exit
<1>3. CASE ReportLimit \/ Read \/ ReaderEmits \/ ReaderEnds
  BY <1>3 DEF ReportLimit, Read, ReaderEmits, ReaderEnds
<1>4. CASE ProcessWaited \/ JoinReader \/ JoinTimesOut \/ CloseStreams \/ Announce \/ Publish
  BY <1>4 DEF ProcessWaited, JoinReader, JoinTimesOut, CloseStreams, Announce, Publish, WaiterMoves
<1>5. CASE Decide
  BY <1>5, InterruptedIfMarked DEF Decide, WaiterMoves, Inductive
<1>6. CASE CallBack
  <2>1. decided \in Outcomes /\ recorded = "running"
    BY <1>6 DEF CallBack, WaiterMoves, Inductive, Decided, TypeOK, Undecided
  <2>2. Life \in {"live", "cancelled"} /\ Life' = "published"
    BY <1>6 DEF CallBack, WaiterMoves
  <2>3. decided \in Abstract!Possible
    BY <1>6, <2>1 DEF CallBack, WaiterMoves, Abstract!Possible
  <2>4. Abstract!End
    BY <1>6, <2>1, <2>2, <2>3 DEF CallBack, Abstract!End
  <2>5. QED
    BY <2>4 DEF Abstract!Next
<1>7. CASE Watches
  BY <1>7 DEF Watches, WatchdogChecks, WatchdogWakes, WatchdogEmits, TimeOut, WatchdogKills
<1>8. CASE CancelMarks
  <2>1. CASE waiter \in {"waiting", "joining", "closing", "deciding"} /\ ~cancelled
    <3>1. Life = "live" /\ Life' = "cancelled" /\ UNCHANGED recorded
      BY <1>8, <2>1 DEF CancelMarks
    <3>2. QED
      BY <3>1 DEF Abstract!Cancel, Abstract!Next
  <2>2. CASE ~(waiter \in {"waiting", "joining", "closing", "deciding"} /\ ~cancelled)
    BY <1>8, <2>2 DEF CancelMarks, Inductive, TypeOK, WaiterStates
  <2>3. QED
    BY <2>1, <2>2
<1>9. CASE HandlerBegins \/ HandlerReturns \/ CancelFindsAlive \/ CancelKills \/ CancelReturns
  BY <1>9 DEF HandlerBegins, HandlerReturns, CancelFindsAlive, CancelKills, CancelReturns
<1>10. CASE UNCHANGED vars
  BY <1>10
<1>11. QED
  BY <1>1, <1>2, <1>3, <1>4, <1>5, <1>6, <1>7, <1>8, <1>9, <1>10 DEF Next, Waits, Cancels

(* Every behaviour of the threads is one of the abstract stage: _wait and  *)
(* cancel give HarnessRun the stages it takes for granted.                 *)
THEOREM StageImplementsLife == Spec => Abstract!Spec
<1>1. Init => Abstract!Init
  BY DEF Init, Abstract!Init, Life
<1>2. Inductive /\ Inductive' /\ [Next]_vars => [Abstract!Next]_<<Life, recorded>>
  BY StepImplements DEF AbstractVars
<1>3. QED
  BY <1>1, <1>2, InductiveInvariant, PTL DEF Spec, Abstract!Spec
=============================================================================
