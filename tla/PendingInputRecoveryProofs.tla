--------------------- MODULE PendingInputRecoveryProofs ---------------------
(* The safety of PendingInputRecovery for any number of starts of the        *)
(* process.  What an observation holds in memory stays true while it waits:  *)
(* its goal is proved by the claim and the harness, the log and the metadata *)
(* follow the goal one write behind the other, and nothing that could        *)
(* invalidate it survives the end of the process that held it.               *)
EXTENDS PendingInputRecovery, TLAPS

Concluding == {"terminalize", "append", "appending", "appended", "publishing", "settling"}

\* What proves the end of the claim: it was withheld, or accepted and seen to end.
Proved(goal) ==
  \/ ~item.possible /\ item.evidence = "not-submitted" /\ goal = WithheldMark
  \/ /\ goal.basis = "exact-native-terminal" /\ goal.status \in Terminal /\ native = goal.status
     /\ item.possible /\ item.evidence = "accepted"

\* What the harness never got it has not; what it was seen to end has ended.
NativeTrue ==
  /\ ~item.possible => native = "none"
  /\ task.seen \in Terminal => native = task.seen

\* The log and the goal of the observation say what is proved.
MarksProved ==
  /\ journal.mark # NoMark => Proved(journal.mark)
  /\ task.at \in Concluding => Proved(task.goal) /\ ~journal.unsafe

\* The order of the writes: the metadata agrees with the goal before the log is
\* touched, and the log holds it before the metadata or the queue is.
Progress ==
  /\ task.at \in Concluding \ {"terminalize"} => RunAgrees(task.goal)
  /\ task.at \in {"appended", "publishing"} => journal.mark = task.goal
  /\ task.at = "settling" => /\ run # "running"
                             /\ journal.mark = task.goal \/ task.goal.basis = "not-submitted"

\* An observation lives in a process that runs and works on an open claim; only a
\* Stop of this process's user makes one that may cancel.
Tasks ==
  /\ proc = "down" \/ ~Unresolved => task = NoTask
  /\ wanted \/ task.stop => fence
  /\ task.at = "cancelling" => task.stop

Facts == NativeTrue /\ MarksProved /\ Progress /\ Tasks /\ SettledTruly

IInv == TypeOK /\ Facts

----------------------------------------------------------------------------
(* The shape of the state. *)

\* Every record the observation writes has the shape of its variable.
LEMMA Shapes ==
  ASSUME TypeOK
  PROVE  /\ NoTask \in TaskRec /\ WithheldMark \in MarkRec /\ KnownEnd \in MarkRec
         /\ \A at \in Phase : [task EXCEPT !.at = at] \in TaskRec
         /\ \A code \in PauseCode : FirstPause(code) \in PauseCode
<1>1. NoTask \in TaskRec
  BY DEF NoTask, NoMark, TaskRec, MarkRec, Phase, Native
<1>2. WithheldMark \in MarkRec
  BY DEF WithheldMark, WithheldStatus, MarkRec, Terminal
<1>3. KnownEnd \in MarkRec
  BY <1>2 DEF TypeOK, KnownEnd, NoMark, MarkRec, JournalRec
<1>4. \A at \in Phase : [task EXCEPT !.at = at] \in TaskRec
  BY DEF TypeOK, TaskRec
<1>5. \A code \in PauseCode : FirstPause(code) \in PauseCode
  BY DEF TypeOK, FirstPause
<1> QED
  BY <1>1, <1>2, <1>3, <1>4, <1>5

\* A phase is entered in the shape of an observation.
LEMMA GoShape ==
  ASSUME TypeOK, NEW at \in Phase, Go(at)
  PROVE  task' \in TaskRec
BY Shapes DEF Go

\* A refusal, with its diagnostic pause, and a fatal error end the observation.
LEMMA RefuseShape ==
  ASSUME TypeOK, Refuse \/ (Fatal /\ UNCHANGED pause)
  PROVE  task' \in TaskRec /\ failed' \in BOOLEAN /\ pause' \in PauseCode
BY Shapes, "drift" \in PauseCode DEF TypeOK, Refuse, Pauses, Fatal, PauseCode

\* What becomes of an answer that is believed.
LEMMA BelievedShape ==
  ASSUME TypeOK, NEW i, Believed(i)
  PROVE  task' \in TaskRec
<1>1. CASE task' = NoTask
  BY <1>1, Shapes
<1>2. CASE Go("cancelling")
  BY <1>2, GoShape, "cancelling" \in Phase DEF Phase
<1>3. ASSUME Outcome(task.seen) \in Terminal,
             task' = [task EXCEPT !.at = "terminalize",
                        !.goal = [status |-> Outcome(task.seen), basis |-> "exact-native-terminal"]]
      PROVE  task' \in TaskRec
  <2>1. [status |-> Outcome(task.seen), basis |-> "exact-native-terminal"] \in MarkRec
    BY <1>3 DEF MarkRec
  <2> QED
    BY <1>3, <2>1 DEF TypeOK, TaskRec, Phase
<1> QED
  BY <1>1, <1>2, <1>3 DEF Believed

\* The archived or settled claim.
LEMMA EndingShape ==
  ASSUME TypeOK, task.goal.status \in Terminal
  PROVE  Ending(task.goal) \in ItemRec /\ PauseAfter(task.goal) \in PauseCode
<1>1. Ending(task.goal) \in ItemRec
  BY DEF TypeOK, Ending, ItemRec
<1>2. PauseAfter(task.goal) \in PauseCode
  BY DEF TypeOK, PauseAfter, FirstPause, PauseCode
<1> QED
  BY <1>1, <1>2

\* Every action keeps the shape of the state, whichever branch it takes.
LEMMA TypeStep ==
  ASSUME IInv, [Next]_vars
  PROVE  TypeOK'
<1> TypeOK
  BY DEF IInv
<1> /\ failed \in BOOLEAN /\ pause \in PauseCode
    /\ item \in ItemRec /\ task \in TaskRec /\ NoTask \in TaskRec
  BY Shapes DEF TypeOK
<1>1. CASE PinsAcquired
  <2>1. task' \in TaskRec
    <3>1. [task EXCEPT !.at = "terminalize", !.goal = KnownEnd] \in TaskRec
      <4>1. KnownEnd \in MarkRec
        BY Shapes
      <4> QED
        BY <4>1 DEF TypeOK, TaskRec, Phase
    <3>2. [task EXCEPT !.at = "reading"] \in TaskRec
      BY DEF TypeOK, TaskRec, Phase
    <3> QED
      BY <1>1, <3>1, <3>2, Shapes DEF PinsAcquired
  <2> QED
    BY <1>1, <2>1 DEF TypeOK, PinsAcquired, NoWrite, outside
<1>2. CASE PinsRefused
  <2>1. task' \in TaskRec /\ failed' \in BOOLEAN /\ pause' \in PauseCode
    BY <1>2, RefuseShape DEF PinsRefused
  <2> QED
    BY <1>2, <2>1 DEF TypeOK, PinsRefused, NoWrite, outside
<1>3. CASE ReadAnswers
  <2>1. task' \in TaskRec
    BY <1>3 DEF TypeOK, ReadAnswers, TaskRec, Native
  <2> QED
    BY <1>3, <2>1 DEF TypeOK, ReadAnswers, NoWrite, outside
<1>4. CASE ReadEnds
  <2>1. item' \in ItemRec
    <3>1. [item EXCEPT !.evidence = "accepted"] \in ItemRec
      BY DEF TypeOK, ItemRec
    <3> QED
      BY <1>4, <3>1 DEF TypeOK, ReadEnds
  <2>2. task' \in TaskRec /\ failed' \in BOOLEAN /\ pause' \in PauseCode
    <3>1. "marking" \in Phase
      BY DEF TypeOK, Phase
    <3> QED
      BY <1>4, <3>1, GoShape, RefuseShape, BelievedShape DEF ReadEnds
  <2> QED
    BY <1>4, <2>1, <2>2 DEF TypeOK, ReadEnds, outside, stop
<1>5. CASE Marks
  <2>1. task' \in TaskRec /\ failed' \in BOOLEAN
    BY <1>5, GoShape, "marked" \in Phase DEF Marks, Fatal, Phase
  <2>2. journal' \in JournalRec
    BY <1>5 DEF TypeOK, Marks, JournalRec
  <2> QED
    BY <1>5, <2>1, <2>2 DEF TypeOK, Marks, outside, stop
<1>6. CASE Marked
  BY <1>6 DEF TypeOK, Marked, Fatal, NoWrite, outside
<1>7. CASE Cancels
  <2>1. task' \in TaskRec /\ failed' \in BOOLEAN /\ pause' \in PauseCode
    <3>1. "cancelled" \in Phase /\ "marking" \in Phase
      BY DEF TypeOK, Phase
    <3> QED
      BY <1>7, <3>1, GoShape, RefuseShape DEF Cancels
  <2>2. native' \in Native
    BY <1>7 DEF TypeOK, Cancels, Native
  <2> QED
    BY <1>7, <2>1, <2>2 DEF TypeOK, Cancels, stop
<1>8. CASE CancelReturns
  <2>1. [NoTask EXCEPT !.at = "reading"] \in TaskRec
    BY DEF TypeOK, NoTask, NoMark, TaskRec, MarkRec, Phase, Native
  <2>2. task' \in TaskRec /\ failed' \in BOOLEAN /\ pause' \in PauseCode
    BY <1>8, <2>1, RefuseShape DEF CancelReturns
  <2> QED
    BY <1>8, <2>2 DEF TypeOK, CancelReturns, NoWrite, outside
<1>9. CASE TerminalizeBegins
  <2>1. task' \in TaskRec /\ failed' \in BOOLEAN /\ pause' \in PauseCode
    <3>1. "publishing" \in Phase /\ "append" \in Phase /\ "settling" \in Phase
      BY DEF TypeOK, Phase
    <3> QED
      BY <1>9, <3>1, GoShape, RefuseShape DEF TerminalizeBegins
  <2> QED
    BY <1>9, <2>1 DEF TypeOK, TerminalizeBegins, NoWrite, outside
<1>10. CASE AppendBegins
  <2>1. task' \in TaskRec /\ failed' \in BOOLEAN /\ pause' \in PauseCode
    BY <1>10, GoShape, RefuseShape, "appending" \in Phase DEF AppendBegins, Phase
  <2> QED
    BY <1>10, <2>1 DEF TypeOK, AppendBegins, NoWrite, outside
<1>11. CASE Appends
  <2>1. task' \in TaskRec /\ failed' \in BOOLEAN
    BY <1>11, GoShape, "appended" \in Phase DEF Appends, Fatal, Phase
  <2>2. journal' \in JournalRec
    BY <1>11 DEF TypeOK, Appends, JournalRec, TaskRec
  <2> QED
    BY <1>11, <2>1, <2>2 DEF TypeOK, Appends, outside, stop
<1>12. CASE Appended
  <2>1. task' \in TaskRec /\ failed' \in BOOLEAN /\ pause' \in PauseCode
    BY <1>12, GoShape, RefuseShape, "publishing" \in Phase DEF Appended, Phase
  <2> QED
    BY <1>12, <2>1 DEF TypeOK, Appended, NoWrite, outside
<1>13. CASE Publishes
  <2>1. task' \in TaskRec /\ failed' \in BOOLEAN /\ pause' \in PauseCode
    BY <1>13, GoShape, RefuseShape, "settling" \in Phase DEF Publishes, Phase
  <2>2. task.goal.status \in Terminal
    BY <1>13 DEF Publishes, IInv, Facts, MarksProved, Concluding, Proved, WithheldMark, WithheldStatus, Terminal
  <2>3. run' \in {"none", "running"} \cup Terminal
    BY <1>13, <2>2 DEF TypeOK, Publishes
  <2> QED
    BY <1>13, <2>1, <2>3 DEF TypeOK, Publishes, outside, stop
<1>14. CASE Settles
  <2>1. task.goal.status \in Terminal
    BY <1>14 DEF Settles, IInv, Facts, MarksProved, Concluding, Proved, WithheldMark, WithheldStatus, Terminal
  <2>2. item' \in ItemRec
    BY <1>14, <2>1, EndingShape DEF Settles
  <2>3. task' \in TaskRec /\ failed' \in BOOLEAN /\ pause' \in PauseCode
    BY <1>14, <2>1, EndingShape, RefuseShape DEF Settles, Fatal
  <2> QED
    BY <1>14, <2>2, <2>3 DEF TypeOK, Settles, outside, stop
<1>15. CASE Stop
  <2>1. pause' \in PauseCode
    BY <1>15, Shapes, "stopped" \in PauseCode DEF Stop, PauseCode
  <2> QED
    BY <1>15, <2>1 DEF TypeOK, Stop, latches, outside
<1>16. CASE Close \/ Drain \/ BridgeFails
  BY <1>16 DEF TypeOK, Close, Drain, BridgeFails, disk, outside, stop
<1>17. CASE Crash
  <2>1. journal' \in JournalRec
    BY <1>17 DEF TypeOK, Crash, JournalRec
  <2> QED
    BY <1>17, <2>1 DEF TypeOK, Crash, outside
<1>18. CASE NativeMoves
  <2>1. native' \in Native
    BY <1>18 DEF TypeOK, NativeMoves, Native
  <2> QED
    BY <1>18, <2>1 DEF TypeOK, NativeMoves, latches, disk, stop
<1>19. CASE Drifts
  BY <1>19 DEF TypeOK, Drifts, latches, disk, stop
<1>20. ASSUME NEW s \in BOOLEAN, Begin(s) PROVE TypeOK'
  <2>1. [NoTask EXCEPT !.at = "pins", !.stop = s] \in TaskRec
    BY DEF TypeOK, NoTask, NoMark, TaskRec, MarkRec, Phase, Native
  <2>2. task' \in TaskRec /\ failed' \in BOOLEAN /\ pause' \in PauseCode
    BY <1>20, <2>1, RefuseShape DEF Begin
  <2>3. wanted' \in BOOLEAN
    BY <1>20 DEF TypeOK, Begin
  <2> QED
    BY <1>20, <2>2, <2>3 DEF TypeOK, Begin, NoWrite, outside
<1>21. ASSUME NEW c \in BOOLEAN, Start(c) PROVE TypeOK'
  <2>1. boots' \in 0 .. MaxBoots
    BY <1>21, RecoveryAssumption DEF TypeOK, Start
  <2>2. journal' \in JournalRec
    BY <1>21 DEF TypeOK, Start, JournalRec
  <2>3. pause' \in PauseCode
    BY <1>21, Shapes, "restart" \in PauseCode, "drift" \in PauseCode DEF Start, PauseCode
  <2>4. run' \in {"none", "running"} \cup Terminal
    BY <1>21 DEF TypeOK, Start, Terminal
  <2>5. barred' \in BOOLEAN
    BY <1>21 DEF TypeOK, Start
  <2> QED
    BY <1>21, <2>1, <2>2, <2>3, <2>4, <2>5 DEF TypeOK, Start, outside, stop
<1>22. CASE UNCHANGED vars
  BY <1>22 DEF TypeOK, vars, latches, disk, outside, stop
<1> QED
  BY <1>1, <1>2, <1>3, <1>4, <1>5, <1>6, <1>7, <1>8, <1>9, <1>10, <1>11, <1>12, <1>13, <1>14,
     <1>15, <1>16, <1>17, <1>18, <1>19, <1>20, <1>21, <1>22 DEF Next, Observing, Process

----------------------------------------------------------------------------
(* What stays true. *)

\* An observation that ends without a write leaves nothing that could be wrong.
LEMMA EndsQuietly ==
  ASSUME IInv, task' = NoTask, UNCHANGED <<item, journal, run, native, harness, stop>>
  PROVE  Facts'
BY SMT DEF IInv, Facts, NativeTrue, MarksProved, Progress, Tasks, SettledTruly, Proved, WithheldMark,
   WithheldStatus, NoTask, NoMark, Terminal, Concluding, Unresolved, stop

\* An answer of the harness is believed for what it says (observeRecoveredInput): an
\* exact end that is true becomes the goal only for an accepted claim.
LEMMA ReadEndsFacts ==
  ASSUME IInv, TypeOK', ReadEnds
  PROVE  Facts'
<1> DEFINE accepted == [item EXCEPT !.evidence = "accepted"]
<1>1. /\ task.at = "reading" /\ task.seen # "none"
      /\ UNCHANGED <<proc, journal, run, native, harness, stop>>
  BY DEF ReadEnds, outside, stop
<1>2. CASE UNCHANGED item /\ task' = NoTask
  BY <1>1, <1>2, EndsQuietly DEF stop
<1>3. CASE UNCHANGED item /\ Go("marking")
  BY <1>1, <1>3, SMT DEF IInv, Facts, TypeOK, TaskRec, NativeTrue, MarksProved, Progress, Tasks, SettledTruly,
     Proved, WithheldMark, WithheldStatus, NoTask, NoMark, Terminal, Concluding, Unresolved, Go, stop
<1>4. ASSUME NEW i \in {item, accepted}, item' = i, i # item => Receipt, Believed(i)
      PROVE  Facts'
  <2>1. /\ i.at = item.at /\ i.possible = item.possible /\ i.status = item.status
        /\ i.evidence = item.evidence \/ (i.evidence = "accepted" /\ item.possible /\ item.evidence # "accepted")
    BY <1>4 DEF IInv, TypeOK, ItemRec, Receipt
  <2>2. journal.mark = NoMark \/ i.evidence = item.evidence
    BY <2>1 DEF IInv, Facts, MarksProved, Proved
  <2>3. CASE task' = NoTask
    BY <1>1, <1>4, <2>1, <2>2, <2>3, SMT DEF IInv, Facts, NativeTrue, MarksProved, Progress, Tasks, SettledTruly,
       Proved, WithheldMark, WithheldStatus, NoTask, NoMark, Terminal, Concluding, Unresolved, stop
  <2>4. CASE task.stop /\ Go("cancelling")
    BY <1>1, <1>4, <2>1, <2>2, <2>4, SMT DEF IInv, Facts, TypeOK, TaskRec, NativeTrue, MarksProved, Progress, Tasks,
       SettledTruly, Proved, WithheldMark, WithheldStatus, NoTask, NoMark, Terminal, Concluding, Unresolved, Go, stop
  <2>5. CASE /\ task.seen \in Terminal /\ Accepted(i) /\ ~journal.unsafe
             /\ task' = [task EXCEPT !.at = "terminalize",
                           !.goal = [status |-> task.seen, basis |-> "exact-native-terminal"]]
    BY <1>1, <1>4, <2>1, <2>2, <2>5, SMT DEF IInv, Facts, TypeOK, TaskRec, NativeTrue, MarksProved, Progress, Tasks,
       SettledTruly, Proved, WithheldMark, WithheldStatus, NoTask, NoMark, Terminal, Concluding, Unresolved,
       Accepted, stop
  <2> QED
    BY <1>4, <2>3, <2>4, <2>5 DEF Believed, Outcome
<1>5. CASE Receipt /\ item' \in {item, accepted} /\ Fatal
  BY <1>1, <1>5, SMT DEF IInv, Facts, TypeOK, ItemRec, NativeTrue, MarksProved, Progress, Tasks, SettledTruly,
     Proved, WithheldMark, WithheldStatus, NoTask, NoMark, Terminal, Concluding, Unresolved, Receipt, Fatal, stop
<1> QED
  BY <1>2, <1>3, <1>4, <1>5 DEF ReadEnds, Refuse

\* terminalize touches the log only if the metadata does not disagree.
LEMMA TerminalizeBeginsFacts ==
  ASSUME IInv, TypeOK', TerminalizeBegins
  PROVE  Facts'
<1>1. /\ task.at = "terminalize"
      /\ UNCHANGED <<proc, item, journal, run, native, harness, stop>>
  BY DEF TerminalizeBegins, NoWrite, outside, stop
<1>2. CASE task' = NoTask
  BY <1>1, <1>2, EndsQuietly DEF stop
<1>3. CASE Go("append") /\ RunAgrees(task.goal)
  BY <1>1, <1>3, SMT DEF IInv, Facts, TypeOK, TaskRec, NativeTrue, MarksProved, Progress, Tasks, SettledTruly,
     Proved, WithheldMark, WithheldStatus, NoTask, NoMark, Terminal, Concluding, Unresolved, Go, RunAgrees, stop
<1>4. CASE Go("publishing") /\ RunAgrees(task.goal) /\ journal.mark = task.goal
  BY <1>1, <1>4, SMT DEF IInv, Facts, TypeOK, TaskRec, NativeTrue, MarksProved, Progress, Tasks, SettledTruly,
     Proved, WithheldMark, WithheldStatus, NoTask, NoMark, Terminal, Concluding, Unresolved, Go, RunAgrees, stop
<1>5. CASE Go("settling") /\ run = "none" /\ task.goal.basis = "not-submitted"
  BY <1>1, <1>5, SMT DEF IInv, Facts, TypeOK, TaskRec, NativeTrue, MarksProved, Progress, Tasks, SettledTruly,
     Proved, WithheldMark, WithheldStatus, NoTask, NoMark, Terminal, Concluding, Unresolved, Go, RunAgrees, stop
<1> QED
  <2>1. CASE ~Current
    BY <2>1, <1>2 DEF TerminalizeBegins, Refuse
  <2>2. CASE Current /\ ~RunAgrees(task.goal)
    BY <2>2, <1>2 DEF TerminalizeBegins
  <2>3. CASE Current /\ RunAgrees(task.goal)
    <3>1. \/ journal.mark = task.goal /\ Go("publishing")
          \/ journal.mark \notin {NoMark, task.goal} /\ Fatal
          \/ journal.mark = NoMark /\ journal.there /\ Go("append")
          \/ run = "none" /\ task.goal.basis = "not-submitted" /\ Go("settling")
          \/ Fatal
      BY <2>3 DEF TerminalizeBegins, IInv, TypeOK, JournalRec
    <3> QED
      BY <2>3, <3>1, <1>2, <1>3, <1>4, <1>5 DEF Fatal
  <2> QED
    BY <2>1, <2>2, <2>3

\* What is settled is what was proved, and the files said it before the queue did.
LEMMA SettlesFacts ==
  ASSUME IInv, TypeOK', Settles
  PROVE  Facts'
<1>1. /\ task.at = "settling" /\ task' = NoTask
      /\ UNCHANGED <<proc, journal, run, native, harness, stop>>
  BY DEF Settles, Refuse, Fatal, outside, stop
<1>2. CASE UNCHANGED item
  BY <1>1, <1>2, EndsQuietly DEF stop
<1>3. CASE item' = Ending(task.goal)
  <2>1. Proved(task.goal) /\ run # "running" /\ RunAgrees(task.goal)
        /\ (journal.mark = task.goal \/ task.goal.basis = "not-submitted")
    BY <1>1 DEF IInv, Facts, MarksProved, Progress, Concluding
  <2>2. /\ item'.at = "settled" /\ item'.possible = item.possible /\ item'.evidence = item.evidence
        /\ item'.status = IF task.goal.basis = "not-submitted" THEN "not-submitted" ELSE task.goal.status
    BY <1>3 DEF Ending, IInv, TypeOK, ItemRec
  <2>3. NativeTrue'
    BY <1>1, <2>2 DEF IInv, Facts, NativeTrue, NoTask, Terminal
  <2>4. MarksProved'
    BY <1>1, <2>2 DEF IInv, Facts, MarksProved, NoTask, Concluding, Proved, WithheldMark, WithheldStatus, NoMark
  <2>5. Progress'
    BY <1>1 DEF Progress, NoTask, Concluding
  <2>6. Tasks'
    BY <1>1 DEF IInv, Facts, Tasks, NoTask, stop
  <2>7. SettledTruly'
    <3>1. CASE task.goal.basis = "not-submitted"
      BY <1>1, <2>1, <2>2, <3>1 DEF IInv, Facts, NativeTrue, SettledTruly, Proved
    <3>2. CASE task.goal.basis # "not-submitted"
      <4>1. /\ task.goal.basis = "exact-native-terminal" /\ task.goal.status \in Terminal
            /\ native = task.goal.status /\ item.evidence = "accepted"
        BY <2>1, <3>2 DEF Proved, WithheldMark
      <4>2. task.goal = [status |-> task.goal.status, basis |-> "exact-native-terminal"]
        BY <4>1 DEF IInv, TypeOK, TaskRec, MarkRec
      <4> QED
        BY <1>1, <2>1, <2>2, <3>2, <4>1, <4>2 DEF SettledTruly, RunAgrees, Terminal
    <3> QED
      BY <3>1, <3>2
  <2> QED
    BY <2>3, <2>4, <2>5, <2>6, <2>7 DEF Facts
<1> QED
  BY <1>2, <1>3 DEF Settles, Refuse

\* Every step keeps what an observation relies on.
LEMMA FactsStep ==
  ASSUME IInv, TypeOK', [Next]_vars
  PROVE  Facts'
<1> USE DEF IInv, Facts, NativeTrue, MarksProved, Progress, Tasks, SettledTruly, Proved, WithheldMark,
            WithheldStatus, NoMark, NoTask, Concluding, RunAgrees, Unresolved, Terminal
<1>1. CASE PinsAcquired
  BY <1>1, SMT DEF TypeOK, ItemRec, JournalRec, TaskRec, MarkRec, PinsAcquired, NoWrite, outside, KnownEnd, Accepted, Withheld
<1>2. CASE PinsRefused
  BY <1>2, SMT DEF TypeOK, ItemRec, JournalRec, TaskRec, MarkRec, PinsRefused, NoWrite, outside, Refuse
<1>3. CASE ReadAnswers
  BY <1>3, SMT DEF TypeOK, ItemRec, JournalRec, TaskRec, MarkRec, ReadAnswers, NoWrite, outside
<1>4. CASE ReadEnds
  BY <1>4, ReadEndsFacts
<1>5. CASE Marks
  BY <1>5, SMT DEF TypeOK, ItemRec, JournalRec, TaskRec, MarkRec, Marks, Go, Fatal, outside, stop
<1>6. CASE Marked
  BY <1>6, SMT DEF TypeOK, ItemRec, JournalRec, TaskRec, MarkRec, Marked, Fatal, NoWrite, outside
<1>7. CASE Cancels
  BY <1>7, SMT DEF TypeOK, ItemRec, JournalRec, TaskRec, MarkRec, Cancels, Go, Refuse, stop
<1>8. CASE CancelReturns
  BY <1>8, SMT DEF TypeOK, ItemRec, JournalRec, TaskRec, MarkRec, CancelReturns, Refuse, NoWrite, outside
<1>9. CASE TerminalizeBegins
  BY <1>9, TerminalizeBeginsFacts
<1>10. CASE AppendBegins
  BY <1>10, SMT DEF TypeOK, ItemRec, JournalRec, TaskRec, MarkRec, AppendBegins, Go, Refuse, NoWrite, outside
<1>11. CASE Appends
  BY <1>11, SMT DEF TypeOK, ItemRec, JournalRec, TaskRec, MarkRec, Appends, Go, Fatal, outside, stop
<1>12. CASE Appended
  BY <1>12, SMT DEF TypeOK, ItemRec, JournalRec, TaskRec, MarkRec, Appended, Go, Fatal, Refuse, NoWrite, outside
<1>13. CASE Publishes
  BY <1>13, SMT DEF TypeOK, ItemRec, JournalRec, TaskRec, MarkRec, Publishes, Go, Fatal, Refuse, outside, stop
<1>14. CASE Settles
  BY <1>14, SettlesFacts
<1>15. CASE Stop
  BY <1>15, SMT DEF TypeOK, ItemRec, JournalRec, TaskRec, MarkRec, Stop, latches, outside
<1>16. CASE Close
  BY <1>16, SMT DEF TypeOK, ItemRec, JournalRec, TaskRec, MarkRec, Close, disk, outside, stop
<1>17. CASE Drain
  BY <1>17, SMT DEF TypeOK, ItemRec, JournalRec, TaskRec, MarkRec, Drain, disk, outside, stop
<1>18. CASE BridgeFails
  BY <1>18, SMT DEF TypeOK, ItemRec, JournalRec, TaskRec, MarkRec, BridgeFails, disk, outside, stop
<1>19. CASE Crash
  BY <1>19, SMT DEF TypeOK, ItemRec, JournalRec, TaskRec, MarkRec, Crash, outside
<1>20. CASE NativeMoves
  BY <1>20, SMT DEF TypeOK, ItemRec, JournalRec, TaskRec, MarkRec, NativeMoves, latches, disk, stop
<1>21. CASE Drifts
  BY <1>21, SMT DEF TypeOK, ItemRec, JournalRec, TaskRec, MarkRec, Drifts, latches, disk, stop
<1>22. ASSUME NEW s \in BOOLEAN, Begin(s) PROVE Facts'
  <2>1. /\ proc = "up" /\ proc' = proc /\ Unresolved /\ (s => wanted) /\ (wanted' => wanted) /\ fence' = fence
        /\ UNCHANGED <<item, journal, run, native, harness>>
    BY <1>22 DEF Begin, NoWrite, outside
  <2>2. CASE task' = NoTask
    BY <2>1, <2>2, SMT
  <2>3. CASE task' = [NoTask EXCEPT !.at = "pins", !.stop = s]
    BY <2>1, <2>3, SMT
  <2> QED
    BY <1>22, <2>2, <2>3 DEF Begin, Refuse
<1>23. ASSUME NEW c \in BOOLEAN, Start(c) PROVE Facts'
  BY <1>23, SMT DEF TypeOK, ItemRec, JournalRec, TaskRec, MarkRec, Start, outside, stop
<1>24. CASE UNCHANGED vars
  BY <1>24 DEF vars, latches, disk, outside, stop
<1> QED
  BY <1>1, <1>2, <1>3, <1>4, <1>5, <1>6, <1>7, <1>8, <1>9, <1>10, <1>11, <1>12, <1>13, <1>14, <1>15, <1>16, <1>17, <1>18, <1>19, <1>20, <1>21, <1>22, <1>23, <1>24 DEF Next, Observing, Process

----------------------------------------------------------------------------
(* The theorems. *)

\* A claim as an earlier process may have left it satisfies the invariant.
LEMMA Initially ==
  ASSUME Init
  PROVE  IInv
<1>1. PICK left \in Left(harness) :
        /\ item = left.item /\ run = left.run /\ native = left.native
        /\ journal \in [there : {left.there}, mark : {NoMark}, torn : {FALSE},
                        unsafe : {FALSE, left.item.possible /\ harness = "opencode"}]
  BY DEF Init
<1>2. /\ item \in ItemRec /\ item.at # "settled" /\ item.possible \in BOOLEAN
      /\ run \in {"none", "running"} \cup Terminal /\ native \in Native /\ left.there \in BOOLEAN
      /\ ~item.possible => native = "none"
  <2> DEFINE Of(at, possible, evidence) ==
        [at |-> at, possible |-> possible, evidence |-> evidence, status |-> "none"]
  <2>1. \A at \in {"claimed", "run-linked"}, p \in BOOLEAN,
           e \in {"none", "unknown", "not-submitted", "accepted"} :
             Of(at, p, e) \in ItemRec /\ Of(at, p, e).at # "settled" /\ Of(at, p, e).possible = p
    BY DEF ItemRec
  <2>2. \E at \in {"claimed", "run-linked"}, p \in BOOLEAN,
           e \in {"none", "unknown", "not-submitted", "accepted"} :
             /\ left.item = Of(at, p, e)
             /\ left.run \in {"none", "running", "failed", "interrupted"} /\ left.there \in BOOLEAN
             /\ left.native \in Native /\ (~p => left.native = "none")
    <3> HIDE DEF Of
    <3>1. CASE left \in [item : {Of("claimed", FALSE, e) : e \in {"none", "unknown"}}, run : {"none"},
                         there : {FALSE}, native : {"none"}]
      BY <3>1 DEF Native
    <3>2. CASE left \in [item : {Of("run-linked", FALSE, e) : e \in {"none", "unknown", "not-submitted"}},
                         run : {"none", "running", "failed", "interrupted"}, there : BOOLEAN,
                         native : {"none"}]
      BY <3>2 DEF Native
    <3>3. CASE left.item = Of("run-linked", TRUE, "unknown") /\ left.run \in {"running", "failed"}
               /\ left.there = TRUE /\ left.native \in Native
      BY <3>3
    <3>4. CASE left.item = Of("run-linked", TRUE, "accepted") /\ left.run = "running"
               /\ left.there = TRUE /\ left.native \in Native
      BY <3>4
    <3> QED
      BY <3>1, <3>2, <3>3, <3>4 DEF Left, Of, Native
  <2> HIDE DEF Of
  <2>3. PICK at \in {"claimed", "run-linked"}, p \in BOOLEAN,
             e \in {"none", "unknown", "not-submitted", "accepted"} :
          /\ left.item = Of(at, p, e)
          /\ left.run \in {"none", "running", "failed", "interrupted"} /\ left.there \in BOOLEAN
          /\ left.native \in Native /\ (~p => left.native = "none")
    BY <2>2
  <2>4. item \in ItemRec /\ item.at # "settled" /\ item.possible = p
    BY <1>1, <2>1, <2>3
  <2> QED
    BY <1>1, <2>3, <2>4 DEF Terminal
<1>3. journal \in JournalRec /\ journal.mark = NoMark
  <2>1. NoMark \in MarkRec
    BY DEF NoMark, MarkRec
  <2>2. (left.item.possible /\ harness = "opencode") \in BOOLEAN
    OBVIOUS
  <2> QED
    BY <1>1, <1>2, <2>1, <2>2 DEF JournalRec
<1>4. TypeOK
  <2>1. NoTask \in TaskRec
    BY DEF NoTask, NoMark, TaskRec, MarkRec, Phase, Native
  <2>2. 0 \in 0 .. MaxBoots
    BY RecoveryAssumption
  <2> QED
    BY <1>2, <1>3, <2>1, <2>2 DEF Init, TypeOK, PauseCode
<1>5. Facts
  BY <1>2, <1>3 DEF Init, Facts, NativeTrue, MarksProved, Progress, Tasks, SettledTruly, NoTask, Terminal,
     Concluding, Native
<1> QED
  BY <1>4, <1>5 DEF IInv

\* IInv is an invariant of recovery.
LEMMA Invariant == Spec => []IInv
<1>1. Init => IInv
  BY Initially
<1>2. IInv /\ [Next]_vars => IInv'
  BY TypeStep, FactsStep DEF IInv
<1> QED
  BY <1>1, <1>2, PTL DEF Spec

\* The claim, its files and the observation keep their shape, for any number of
\* starts (the records of pending-input-recovery.ts and of the bridge's originals).
THEOREM TypeCorrect == Spec => []TypeOK
<1>1. IInv => TypeOK
  BY DEF IInv
<1> QED
  BY Invariant, <1>1, PTL

\* A settled claim tells how the harness ended it, or that nothing was sent, in the
\* queue, the metadata and the log alike (terminalize and settle), wherever the
\* processes before stopped.
THEOREM SettlementsAreTrue == Spec => []SettledTruly
<1>1. IInv => SettledTruly
  BY DEF IInv, Facts
<1> QED
  BY Invariant, <1>1, PTL

\* A contradiction in the log is final: protocolUnsafe is asked before every act.
THEOREM UnsafeStays == Spec => UnsafeIsFinal
<1> DEFINE Act == journal.unsafe => item' = item /\ (native' = "cancelled" => native = "cancelled")
<1>1. IInv /\ [Next]_vars => [Act]_vars
  <2> SUFFICES ASSUME IInv, Next, journal.unsafe PROVE Act
    OBVIOUS
  <2>1. CASE ReadEnds
    BY <2>1 DEF ReadEnds, Receipt, outside
  <2>2. CASE Cancels
    BY <2>2 DEF Cancels, MayCancel
  <2>3. CASE Settles
    BY <2>3 DEF Settles, IInv, Facts, MarksProved, Concluding
  <2>4. CASE Observing /\ ~ReadEnds /\ ~Cancels /\ ~Settles
    BY <2>4 DEF Observing, PinsAcquired, PinsRefused, ReadAnswers, Marks, Marked, CancelReturns,
       TerminalizeBegins, AppendBegins, Appends, Appended, Publishes, NoWrite, outside
  <2>5. CASE \E s \in BOOLEAN : Begin(s)
    BY <2>5 DEF Begin, NoWrite, outside
  <2>6. CASE Process
    BY <2>6 DEF Process, Stop, Close, Drain, BridgeFails, Crash, Start, disk, outside
  <2>7. CASE NativeMoves \/ Drifts
    BY <2>7 DEF NativeMoves, Drifts, disk, Terminal
  <2> QED
    BY <2>1, <2>2, <2>3, <2>4, <2>5, <2>6, <2>7 DEF Next, Observing
<1> QED
  BY Invariant, <1>1, PTL DEF Spec, UnsafeIsFinal

\* A cancellation reaches the harness only through the actor that a Stop of this
\* process fenced, and only while validate(true) still holds.
THEOREM CancellationsAreFenced == Spec => CancelFenced
<1> DEFINE Act == native = "queued" /\ native' = "cancelled" => fence /\ proc = "up" /\ ~failed /\ ~drift
<1>1. IInv /\ [Next]_vars => [Act]_vars
  <2> SUFFICES ASSUME IInv, Next, native = "queued", native' = "cancelled"
               PROVE  fence /\ proc = "up" /\ ~failed /\ ~drift
    OBVIOUS
  <2>1. CASE Cancels
    BY <2>1 DEF Cancels, MayCancel, Live, Current, IInv, Facts, Tasks
  <2>2. CASE NativeMoves
    BY <2>2 DEF NativeMoves
  <2>3. CASE Observing /\ ~Cancels
    BY <2>3 DEF Observing, PinsAcquired, PinsRefused, ReadAnswers, ReadEnds, Marks, Marked, CancelReturns,
       TerminalizeBegins, AppendBegins, Appends, Appended, Publishes, Settles, NoWrite, outside
  <2>4. CASE (\E s \in BOOLEAN : Begin(s)) \/ Drifts
    BY <2>4 DEF Begin, Drifts, NoWrite, outside
  <2>5. CASE Process
    BY <2>5 DEF Process, Stop, Close, Drain, BridgeFails, Crash, Start, outside
  <2> QED
    BY <2>1, <2>2, <2>3, <2>4, <2>5 DEF Next
<1> QED
  BY Invariant, <1>1, PTL DEF Spec, CancelFenced

\* Once the observations are closed (closeObservations) every recheck refuses, so
\* neither the queue nor the metadata is written any more.
THEOREM DrainLeavesQuiet == Spec => DrainedIsQuiet
<1> DEFINE Act == proc = "drained" => UNCHANGED <<item, pause, run>>
<1>1. [Next]_vars => [Act]_vars
  <2> SUFFICES ASSUME Next, proc = "drained" PROVE UNCHANGED <<item, pause, run>>
    OBVIOUS
  <2>1. ~Current /\ ~Live
    BY DEF Current, Live
  <2>2. ASSUME Refuse PROVE UNCHANGED pause
    BY <2>2 DEF Refuse
  <2>3. CASE PinsAcquired \/ PinsRefused \/ ReadAnswers \/ ReadEnds \/ Marks \/ Marked
    BY <2>1, <2>2, <2>3 DEF PinsAcquired, PinsRefused, ReadAnswers, ReadEnds, Marks, Marked, NoWrite
  <2>4. CASE Cancels \/ CancelReturns \/ TerminalizeBegins \/ AppendBegins
    BY <2>1, <2>2, <2>4 DEF Cancels, CancelReturns, MayCancel, TerminalizeBegins, AppendBegins, NoWrite
  <2>5. CASE Appends \/ Appended \/ Publishes \/ Settles
    BY <2>1, <2>2, <2>5 DEF Appends, Appended, Publishes, Settles, NoWrite
  <2>6. CASE (\E s \in BOOLEAN : Begin(s)) \/ Process
    BY <2>6 DEF Begin, Process, Stop, Close, Drain, BridgeFails, Crash, Start, disk
  <2>7. CASE NativeMoves \/ Drifts
    BY <2>7 DEF NativeMoves, Drifts, disk
  <2> QED
    BY <2>3, <2>4, <2>5, <2>6, <2>7 DEF Next, Observing
<1> QED
  BY <1>1, PTL DEF Spec, DrainedIsQuiet
=============================================================================
