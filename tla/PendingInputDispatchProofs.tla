--------------------- MODULE PendingInputDispatchProofs ---------------------
(* The safety of PendingInputDispatch for any number of prompts and of other *)
(* runs.  A claim, its attempt and its lease name one prompt at any time;    *)
(* what a task was answered stays true until it goes on, because runs that   *)
(* are done and released never come back; and a Stop leaves either a pause   *)
(* or a predecessor that no claim may follow.                                *)
EXTENDS PendingInputDispatch, TLAPS

Claiming(p) == item[p] \in {"claimed", "linked"}

\* A run has a status of its own exactly once it has ended.
Statuses == \A r \in Run : Settled(r) <=> run[r].status # "running"

\* The claim a process works on is an open one, and a claim whose write failed has
\* failed the bridge.
Claims ==
  /\ attempt.prompt = None <=> attempt.at = "none"
  /\ attempt.prompt # None => Claiming(attempt.prompt)
  /\ doubt # None => gate = "failed"

\* What was handed over is on record as possibly delivered, and nothing else is.
Deliveries ==
  \A p \in Prompt :
    /\ p \in sent => /\ evidence[p] \in {"attempted", "submitted", "unknown", "late"}
                     /\ run[p].at \in {"executing", "ended", "done"}
    /\ evidence[p] \in {"attempted", "submitted", "late"} => p \in sent

\* A task works on a prompt, and what it was told of a run that is done is still so.
Told ==
  /\ task.at # "idle" => task.prompt \in Prompt
  /\ task.at \in {"finish", "settlement", "again"} =>
       attempt.prompt = task.prompt /\ attempt.at # "preparing"
  /\ task.at = "success" \/ task.answer = "successful-predecessor" => task.pred \in Run
  /\ task.at = "success" /\ task.answer = "ready" =>
       run[task.pred].at = "done" /\ run[task.pred].status = "completed"
  /\ task.at = "again" /\ task.answer = "ready" =>
       /\ run[task.prompt].at = "done" /\ run[task.prompt].status = "completed"
       /\ ~run[task.prompt].stop /\ owner # task.prompt

\* A prompt has no run before its claim is linked, nor has a run that only holds a lease.
Fresh ==
  /\ \A p \in Prompt : item[p] \in {"absent", "waiting", "claimed"} => run[p].at = "none"
  /\ lease \in Foreign => run[lease].at = "none"

\* The owner is the conversation's last run.
Owner == owner # None => latest = owner /\ run[owner].at # "none"

\* After a Stop the conversation is paused, or its last run was stopped and no resume
\* lets a prompt follow it.
Halted ==
  /\ ~Chain => ~resumed
  /\ halted => \/ pause # "none" \/ gate # "open"
               \/ attempt.prompt = None /\ latest # None /\ run[latest].stop /\ ~resumed

Facts == Statuses /\ Claims /\ ClaimExcludes /\ LeaseAccounted /\ Deliveries /\ Told /\ Fresh
         /\ Owner /\ Halted

IInv == TypeOK /\ Facts

----------------------------------------------------------------------------
(* The shape of the state. *)

\* The durable queue of the conversation and the gate.
QueueOK ==
  /\ item \in [Prompt -> ItemState] /\ evidence \in [Prompt -> Evidence] /\ pause \in PauseCode
  /\ last \in Prompt \cup {None} /\ heirs \subseteq Prompt /\ resumed \in BOOLEAN
  /\ gate \in {"open", "closed", "failed"}

\* Run ids are neither numbers nor shared with prompts.
LEMMA Runs == /\ None \notin Run /\ Prompt \subseteq Run /\ Foreign \subseteq Run
              /\ \A f \in Foreign : f \notin Prompt
BY DispatchAssumption, SMT DEF None, Run, Prompt

\* The records that are written whole, and those that are changed in one field.
LEMMA Shapes ==
  ASSUME TypeOK
  PROVE  /\ NoTask \in TaskRec /\ NoAttempt \in AttemptRec /\ Stale(task) \in TaskRec
         /\ Revoked \in GrantRec /\ [grant EXCEPT !.at = IF @ = "live" THEN "spent" ELSE @] \in GrantRec
         /\ \A code \in PauseCode : FirstPause(code) \in PauseCode
<1>1. NoTask \in TaskRec
  BY DEF NoTask, TaskRec
<1>2. NoAttempt \in AttemptRec
  BY DEF NoAttempt, AttemptRec
<1>3. Stale(task) \in TaskRec
  BY DEF TypeOK, Stale, TaskRec
<1>4. Revoked \in GrantRec /\ [grant EXCEPT !.at = IF @ = "live" THEN "spent" ELSE @] \in GrantRec
  <2>1. \A at \in {"none", "live", "spent"} : [grant EXCEPT !.at = at] \in GrantRec
    BY DEF TypeOK, GrantRec
  <2>2. grant.at \in {"none", "live", "spent"}
    BY DEF TypeOK, GrantRec
  <2> QED
    BY <2>1, <2>2 DEF Revoked
<1>5. \A code \in PauseCode : FirstPause(code) \in PauseCode
  BY DEF TypeOK, FirstPause
<1> QED
  BY <1>1, <1>2, <1>3, <1>4, <1>5

\* A write of the queue that fails, and one that is not made, keep its shape.
LEMMA NoWriteShape ==
  ASSUME TypeOK, WriteFails \/ UNCHANGED <<gate, queue>>
  PROVE  QueueOK'
BY DEF TypeOK, QueueOK, WriteFails, queue

\* A pause, written or not, keeps the shape of the queue.
LEMMA PausesShape ==
  ASSUME TypeOK, NEW code \in PauseCode, Pauses(code)
  PROVE  QueueOK'
BY NoWriteShape DEF TypeOK, QueueOK, Pauses

\* A prompt that changes its state keeps the shape of the queue.
LEMMA BecomesShape ==
  ASSUME TypeOK, NEW p \in Prompt, NEW state \in ItemState, NEW settled \in Prompt \cup {None},
         Becomes(p, state, settled)
  PROVE  /\ item' \in [Prompt -> ItemState] /\ last' \in Prompt \cup {None}
         /\ heirs' \subseteq Prompt /\ resumed' \in BOOLEAN
<1>1. item' \in [Prompt -> ItemState] /\ last' \in Prompt \cup {None} /\ heirs' \subseteq Prompt
  BY DEF TypeOK, Becomes
<1>2. resumed' \in BOOLEAN
  BY Zenon DEF Becomes
<1> QED
  BY <1>1, <1>2

\* A run's lifecycle changes in one or two fields.
LEMMA RunShape ==
  ASSUME TypeOK, NEW r \in Run
  PROVE  /\ \A at \in {"none", "executing", "withheld", "ended", "done"} :
              [run EXCEPT ![r].at = at] \in [Run -> RunRec]
         /\ \A status \in {"running", "completed", "failed", "interrupted"} :
              [run EXCEPT ![r].at = "ended", ![r].status = status] \in [Run -> RunRec]
         /\ [run EXCEPT ![r].cancelling = FALSE] \in [Run -> RunRec]
         /\ [run EXCEPT ![r].stop = TRUE, ![r].cancelling = TRUE] \in [Run -> RunRec]
         /\ run[r].status \in {"running", "completed", "failed", "interrupted"}
<1>1. \A at \in {"none", "executing", "withheld", "ended", "done"} :
        [run EXCEPT ![r].at = at] \in [Run -> RunRec]
  BY DEF TypeOK, RunRec
<1>2. \A status \in {"running", "completed", "failed", "interrupted"} :
        [run EXCEPT ![r].at = "ended", ![r].status = status] \in [Run -> RunRec]
  <2> TAKE status \in {"running", "completed", "failed", "interrupted"}
  <2>1. [run[r] EXCEPT !.at = "ended", !.status = status] \in RunRec
    BY DEF TypeOK, RunRec
  <2>2. [run EXCEPT ![r].at = "ended", ![r].status = status]
          = [run EXCEPT ![r] = [run[r] EXCEPT !.at = "ended", !.status = status]]
    BY DEF TypeOK
  <2> QED
    BY <2>1, <2>2 DEF TypeOK
<1>3. [run EXCEPT ![r].cancelling = FALSE] \in [Run -> RunRec]
  BY DEF TypeOK, RunRec
<1>4. [run EXCEPT ![r].stop = TRUE, ![r].cancelling = TRUE] \in [Run -> RunRec]
  <2>1. [run[r] EXCEPT !.stop = TRUE, !.cancelling = TRUE] \in RunRec
    BY DEF TypeOK, RunRec
  <2>2. [run EXCEPT ![r].stop = TRUE, ![r].cancelling = TRUE]
          = [run EXCEPT ![r] = [run[r] EXCEPT !.stop = TRUE, !.cancelling = TRUE]]
    BY DEF TypeOK
  <2> QED
    BY <2>1, <2>2 DEF TypeOK
<1>5. run[r].status \in {"running", "completed", "failed", "interrupted"}
  BY DEF TypeOK, RunRec
<1> QED
  BY <1>1, <1>2, <1>3, <1>4, <1>5

\* A task is answered with a word of its stage, and goes on.
LEMMA AnswerShape ==
  ASSUME TypeOK, NEW a, Answered(a),
         a \in {"wait", "drift", "ready"} \/ a \in Preflights \/ \E r \in Run : a \in Answers(r)
  PROVE  task' \in TaskRec
<1> DEFINE Words == {"none", "wait", "drift", "new-idle-chain", "user-resume", "successful-predecessor",
                     "stopped", "failed", "ready", "unproven", "withheld", "unsettled", "unsuccessful",
                     "unavailable", "mismatch"}
<1>1. \A r : Success(r) \in Words
  BY DEF Success
<1>2. a \in Words
  <2>1. CASE \E r \in Run : a \in Answers(r)
    BY <1>1, <2>1 DEF Answers
  <2>2. CASE a \in Preflights
    BY <2>2 DEF Preflights
  <2> QED
    BY <2>1, <2>2
<1>3. \A w \in Words : [task EXCEPT !.answer = w] \in TaskRec
  BY DEF TypeOK, TaskRec
<1> QED
  BY <1>2, <1>3 DEF Answered

\* What a claim leaves of the queue, the lease, the consent and the attempt.
ClaimOK == QueueOK /\ lease \in Run \cup {None} /\ grant \in GrantRec /\ attempt \in AttemptRec
           /\ doubt \in Prompt \cup {None}

\* A claim, written, refused or in doubt, keeps the shape of what it writes.
LEMMA ClaimShape ==
  ASSUME TypeOK, NEW p \in Prompt,
         NEW basis \in {"new-idle-chain", "user-resume", "successful-predecessor"}, ClaimOf(p, basis)
  PROVE  ClaimOK'
<1> /\ lease \in Run \cup {None} /\ grant \in GrantRec /\ attempt \in AttemptRec /\ p \in Run
    /\ doubt \in Prompt \cup {None} /\ task.pred \in Run \cup {None}
  BY Runs DEF TypeOK, TaskRec
<1>1. CASE UNCHANGED <<queue, gate, lease, grant, attempt, doubt>>
  BY <1>1, NoWriteShape DEF ClaimOK
<1>2. CASE /\ lease' = p /\ item' = [item EXCEPT ![p] = "claimed"] /\ heirs' = heirs \cup {p}
           /\ attempt' = [prompt |-> p, basis |-> basis, pred |-> task.pred, at |-> "preparing"]
           /\ grant' = [grant EXCEPT !.at = IF @ = "live" THEN "spent" ELSE @]
           /\ UNCHANGED <<evidence, pause, last, resumed, gate, doubt>>
  <2>1. attempt' \in AttemptRec
    BY <1>2 DEF AttemptRec
  <2>2. QueueOK'
    BY <1>2 DEF TypeOK, QueueOK, ItemState
  <2> QED
    BY <1>2, <2>1, <2>2, Shapes DEF ClaimOK
<1>3. CASE lease' = p /\ WriteFails /\ doubt' = p /\ UNCHANGED <<grant, attempt>>
  BY <1>3, NoWriteShape DEF ClaimOK
<1>4. CASE (Pauses("drift") \/ UNCHANGED <<gate, queue>>) /\ grant' = Revoked /\ UNCHANGED <<lease, attempt, doubt>>
  <2>1. QueueOK'
    BY <1>4, PausesShape, NoWriteShape, "drift" \in PauseCode DEF PauseCode
  <2> QED
    BY <1>4, <2>1, Shapes DEF ClaimOK
<1> QED
  BY <1>1, <1>2, <1>3, <1>4 DEF ClaimOf

\* The pause that an answer calls for keeps the shape of what a claim writes.
LEMMA PausesForShape ==
  ASSUME TypeOK, NEW a, PausesFor(a)
  PROVE  ClaimOK'
<1>1. QueueOK'
  BY PausesShape DEF PausesFor, PauseCode
<1> QED
  BY <1>1 DEF PausesFor, ClaimOK, TypeOK

\* The record of a run is settled, or left alone.
LEMMA SettleShape ==
  ASSUME TypeOK, Statuses, NEW p \in Prompt, Settle(p)
  PROVE  QueueOK' /\ task' \in TaskRec /\ lease' \in Run \cup {None} /\ attempt' \in AttemptRec
<1> task' \in TaskRec /\ lease \in Run \cup {None} /\ attempt \in AttemptRec /\ NoAttempt \in AttemptRec
  BY Shapes DEF TypeOK, Settle
<1>1. CASE UNCHANGED <<queue, gate, lease, attempt>>
  BY <1>1, NoWriteShape
<1>2. CASE WriteFails /\ UNCHANGED <<lease, attempt>>
  BY <1>2, NoWriteShape
<1>3. CASE /\ Terminal(p) /\ Becomes(p, run[p].status, p) /\ Resolved /\ UNCHANGED <<gate, evidence>>
           /\ pause' = IF run[p].status = "completed" THEN pause
                       ELSE FirstPause(IF run[p].status = "failed" THEN "failed" ELSE "stopped")
  <2>1. run[p].status \in {"completed", "failed", "interrupted"}
    BY <1>3, Runs, RunShape DEF Terminal, Statuses
  <2>2. run[p].status \in ItemState
    BY <2>1 DEF ItemState
  <2>3. pause' \in PauseCode
    BY <1>3, Shapes DEF TypeOK, PauseCode
  <2>4. QueueOK'
    BY <1>3, <2>2, <2>3, BecomesShape DEF TypeOK, QueueOK
  <2> QED
    BY <1>3, <2>4 DEF Resolved
<1> QED
  BY <1>1, <1>2, <1>3 DEF Settle

\* Every action keeps the shape of the state, whichever branch it takes.
LEMMA TypeStep ==
  ASSUME TypeOK, Facts, [Next]_vars
  PROVE  TypeOK'
<1> /\ item \in [Prompt -> ItemState] /\ evidence \in [Prompt -> Evidence] /\ pause \in PauseCode
    /\ last \in Prompt \cup {None} /\ heirs \subseteq Prompt /\ resumed \in BOOLEAN
    /\ gate \in {"open", "closed", "failed"} /\ run \in [Run -> RunRec]
    /\ owner \in Run \cup {None} /\ lease \in Run \cup {None} /\ latest \in Run \cup {None}
    /\ grant \in GrantRec /\ attempt \in AttemptRec /\ task \in TaskRec
    /\ sent \subseteq Prompt /\ doubt \in Prompt \cup {None} /\ halted \in BOOLEAN
    /\ task.prompt \in Prompt \cup {None} /\ attempt.prompt \in Prompt \cup {None}
    /\ NoTask \in TaskRec /\ NoAttempt \in AttemptRec /\ Stale(task) \in TaskRec
    /\ Prompt \subseteq Run /\ Foreign \subseteq Run
  BY Shapes, Runs DEF TypeOK, TaskRec, AttemptRec
<1>1. ASSUME NEW p \in Prompt, Enqueue(p) PROVE TypeOK'
  <2>1. QueueOK'
    BY <1>1, NoWriteShape DEF Enqueue, QueueOK, ItemState
  <2> QED
    BY <1>1, <2>1 DEF Enqueue, QueueOK, TypeOK, coord, history
<1>2. ASSUME NEW p \in Prompt, Remove(p) PROVE TypeOK'
  <2>1. QueueOK'
    BY <1>2, NoWriteShape, BecomesShape, "removed" \in ItemState DEF Remove, QueueOK, ItemState
  <2> QED
    BY <1>2, <2>1 DEF Remove, QueueOK, TypeOK, coord, history
<1>3. CASE Resume
  <2>1. QueueOK'
    BY <1>3, NoWriteShape DEF Resume, QueueOK, PauseCode
  <2>2. grant' \in GrantRec
    BY <1>3 DEF Resume, GrantRec
  <2>3. task' \in TaskRec /\ halted' \in BOOLEAN
    BY <1>3 DEF Resume
  <2> QED
    BY <1>3, <2>1, <2>2, <2>3 DEF Resume, QueueOK, TypeOK, coord
<1>4. CASE Stop
  <2>1. QueueOK'
    BY <1>4, NoWriteShape, PausesShape, "stopped" \in PauseCode DEF Stop, PauseCode
  <2>2. run' \in [Run -> RunRec]
    BY <1>4, RunShape DEF Stop
  <2>3. task' \in TaskRec
    BY <1>4 DEF Stop
  <2>4. halted' \in BOOLEAN
    BY <1>4, Zenon DEF Stop
  <2> QED
    BY <1>4, <2>1, <2>2, <2>3, <2>4 DEF Stop, QueueOK, TypeOK, coord
<1>5. CASE Hide
  <2>1. QueueOK'
    BY <1>5, PausesShape, "hidden" \in PauseCode DEF Hide, PauseCode
  <2> QED
    BY <1>5, <2>1 DEF Hide, QueueOK, TypeOK, coord, history
<1>6. ASSUME NEW f \in Foreign, ForeignReserves(f) \/ ForeignRefused(f) PROVE TypeOK'
  BY <1>6 DEF ForeignReserves, ForeignRefused, TypeOK, queue, history
<1>7. ASSUME NEW f \in Foreign, ForeignInstalls(f) PROVE TypeOK'
  <2>1. run' \in [Run -> RunRec]
    BY <1>7, RunShape DEF ForeignInstalls
  <2>2. grant' \in GrantRec
    BY <1>7, Shapes DEF ForeignInstalls
  <2> QED
    BY <1>7, <2>1, <2>2 DEF ForeignInstalls, TypeOK, queue
<1>8. ASSUME NEW p \in Prompt, Install(p) PROVE TypeOK'
  <2>1. run' \in [Run -> RunRec]
    BY <1>8, RunShape DEF Install
  <2>2. attempt' \in AttemptRec
    BY <1>8 DEF Install, AttemptRec
  <2>3. item' \in [Prompt -> ItemState]
    BY <1>8 DEF Install, ItemState
  <2> QED
    BY <1>8, <2>1, <2>2, <2>3 DEF Install, TypeOK, history
<1>9. ASSUME NEW p \in Prompt, Rejected(p) PROVE TypeOK'
  <2>1. QueueOK'
    BY <1>9, NoWriteShape DEF Rejected, QueueOK, Evidence, PauseCode
  <2>2. attempt' \in AttemptRec
    BY <1>9 DEF Rejected, AttemptRec
  <2> QED
    BY <1>9, <2>1, <2>2 DEF Rejected, QueueOK, TypeOK, coord, history
<1>10. ASSUME NEW p \in Prompt, BeforeNative(p) PROVE TypeOK'
  <2>1. QueueOK'
    <3>1. CASE evidence' = [evidence EXCEPT ![p] = "attempted"] /\ UNCHANGED <<item, pause, last, heirs, resumed, gate>>
      BY <3>1 DEF QueueOK, Evidence
    <3> QED
      BY <1>10, <3>1, NoWriteShape, PausesShape, "drift" \in PauseCode DEF BeforeNative, PauseCode
  <2>2. run' \in [Run -> RunRec]
    <3>1. [run EXCEPT ![p].at = "withheld"] \in [Run -> RunRec]
      BY RunShape
    <3> QED
      BY <1>10, <3>1 DEF BeforeNative
  <2>3. task' \in TaskRec /\ sent' \subseteq Prompt
    BY <1>10 DEF BeforeNative
  <2> QED
    BY <1>10, <2>1, <2>2, <2>3 DEF BeforeNative, QueueOK, TypeOK, coord
<1>11. ASSUME NEW p \in Prompt, Reported(p) PROVE TypeOK'
  <2>1. evidence' \in [Prompt -> Evidence]
    BY <1>11 DEF Reported, Evidence
  <2> QED
    BY <1>11, <2>1 DEF Reported, TypeOK, coord, history
<1>11a. ASSUME NEW p \in Prompt, Withholds(p) PROVE TypeOK'
  <2>1. run' \in [Run -> RunRec]
    BY <1>11a, RunShape DEF Withholds
  <2> QED
    BY <1>11a, <2>1 DEF Withholds, TypeOK, queue, coord, history
<1>12. ASSUME NEW r \in Run, RunEnds(r) PROVE TypeOK'
  <2>1. QueueOK'
    <3>1. CASE r \in Prompt /\ Concludes(r)
      <4>1. pause' \in PauseCode
        BY <3>1, Shapes, "acceptance-unknown" \in PauseCode, "drift" \in PauseCode DEF Concludes, PauseCode
      <4>2. evidence' \in [Prompt -> Evidence]
        BY <3>1 DEF Concludes, Evidence
      <4> QED
        BY <3>1, <4>1, <4>2 DEF Concludes, QueueOK
    <3> QED
      BY <1>12, <3>1, NoWriteShape DEF RunEnds
  <2>2. run' \in [Run -> RunRec]
    <3>1. PICK status \in {"completed", "failed", "interrupted"} :
            run' = [run EXCEPT ![r].at = "ended", ![r].status = status]
      BY <1>12 DEF RunEnds
    <3> QED
      BY <3>1, RunShape
  <2>3. task' \in TaskRec
    BY <1>12 DEF RunEnds
  <2>4. owner' \in Run \cup {None}
    BY <1>12 DEF RunEnds
  <2> QED
    BY <1>12, <2>1, <2>2, <2>3, <2>4 DEF RunEnds, QueueOK, TypeOK, history
<1>13. ASSUME NEW r \in Run, RunDone(r) \/ CancelEnds(r) PROVE TypeOK'
  <2>1. run' \in [Run -> RunRec]
    <3>1. [run EXCEPT ![r].at = "done"] \in [Run -> RunRec]
          /\ [run EXCEPT ![r].cancelling = FALSE] \in [Run -> RunRec]
      BY RunShape
    <3> QED
      BY <1>13, <3>1 DEF RunDone, CancelEnds
  <2>2. owner' \in Run \cup {None}
    BY <1>13 DEF RunDone, CancelEnds, coord
  <2> QED
    BY <1>13, <2>1, <2>2 DEF RunDone, CancelEnds, TypeOK, queue, coord, history
<1>14. CASE PreflightAnswers
  <2>1. PICK a \in Preflights \cup {"wait"} : Answered(a)
    BY <1>14 DEF PreflightAnswers
  <2>2. task' \in TaskRec
    BY <2>1, AnswerShape
  <2>3. grant' \in GrantRec
    BY <1>14, Shapes DEF PreflightAnswers
  <2> QED
    BY <1>14, <2>2, <2>3 DEF PreflightAnswers, TypeOK, queue, coord, history
<1>15. CASE PreflightEnds
  <2>1. task' \in TaskRec
    <3>1. [task EXCEPT !.at = "success", !.answer = "none"] \in TaskRec
      BY DEF TaskRec
    <3> QED
      BY <1>15, <3>1 DEF PreflightEnds
  <2>2. ClaimOK'
    <3>1. CASE UNCHANGED <<queue, gate, lease, grant, attempt, doubt>>
      BY <3>1, NoWriteShape DEF ClaimOK
    <3>2. CASE \E a : PausesFor(a)
      BY <3>2, PausesForShape
    <3>3. CASE task.answer \in {"new-idle-chain", "user-resume"} /\ ClaimOf(task.prompt, task.answer)
      <4>1. task.prompt \in Prompt
        BY <1>15 DEF PreflightEnds, Facts, Told
      <4> QED
        BY <3>3, <4>1, ClaimShape
    <3> QED
      BY <1>15, <3>1, <3>2, <3>3 DEF PreflightEnds
  <2> QED
    BY <1>15, <2>1, <2>2 DEF PreflightEnds, ClaimOK, QueueOK, TypeOK
<1>16. CASE SuccessAnswers
  <2>1. task.pred \in Run
    BY <1>16 DEF SuccessAnswers, Facts, Told
  <2>2. task' \in TaskRec
    BY <1>16, <2>1, AnswerShape DEF SuccessAnswers
  <2> QED
    BY <1>16, <2>2 DEF SuccessAnswers, TypeOK, queue, coord, history
<1>17. CASE SuccessEnds
  <2>1. ClaimOK'
    <3>1. CASE UNCHANGED <<queue, gate, lease, grant, attempt, doubt>>
      BY <3>1, NoWriteShape DEF ClaimOK
    <3>2. CASE \E a : PausesFor(a)
      BY <3>2, PausesForShape
    <3>3. CASE ClaimOf(task.prompt, "successful-predecessor")
      <4>1. task.prompt \in Prompt
        BY <1>17 DEF SuccessEnds, Facts, Told
      <4> QED
        BY <3>3, <4>1, ClaimShape
    <3> QED
      BY <1>17, <3>1, <3>2, <3>3 DEF SuccessEnds
  <2> QED
    BY <1>17, <2>1 DEF SuccessEnds, ClaimOK, QueueOK, TypeOK
<1>18. ASSUME NEW p \in Prompt, Select(p) PROVE TypeOK'
  <2>1. [NoTask EXCEPT !.at = "preflight", !.prompt = p, !.pred = latest, !.fresh = TRUE] \in TaskRec
    BY DEF NoTask, TaskRec
  <2> QED
    BY <1>18, <2>1 DEF Select, TypeOK, queue, coord, history
<1>19. CASE FinishAnswers
  <2>1. task.prompt \in Run
    BY <1>19 DEF FinishAnswers, Facts, Told
  <2>2. task' \in TaskRec
    BY <1>19, <2>1, AnswerShape DEF FinishAnswers
  <2> QED
    BY <1>19, <2>2 DEF FinishAnswers, TypeOK, queue, coord, history
<1>20. CASE FinishEnds
  <2>1. QueueOK'
    BY <1>20, NoWriteShape, PausesShape DEF FinishEnds, PauseCode
  <2>2. task' \in TaskRec
    <3>1. \A b \in BOOLEAN : [task EXCEPT !.at = "settlement", !.proved = b, !.answer = "none"] \in TaskRec
      BY DEF TaskRec
    <3> QED
      BY <1>20, <3>1 DEF FinishEnds
  <2> QED
    BY <1>20, <2>1, <2>2 DEF FinishEnds, QueueOK, TypeOK, coord, history
<1>21. CASE SettlementAnswers
  <2>1. PICK a \in {"wait", "drift", "ready"} : Answered(a)
    BY <1>21 DEF SettlementAnswers
  <2>2. task' \in TaskRec
    BY <2>1, AnswerShape
  <2> QED
    BY <1>21, <2>2 DEF SettlementAnswers, TypeOK, queue, coord, history
<1>22. CASE SettlementEnds \/ AgainEnds
  <2>1. task.prompt \in Prompt
    BY <1>22 DEF SettlementEnds, AgainEnds, Facts, Told
  <2>2. QueueOK' /\ task' \in TaskRec /\ lease' \in Run \cup {None} /\ attempt' \in AttemptRec
    <3>1. CASE Settle(task.prompt)
      BY <2>1, <3>1, SettleShape DEF Facts
    <3>2. CASE /\ UNCHANGED <<lease, attempt>> /\ (UNCHANGED <<gate, queue>> \/ Pauses("drift"))
               /\ task' \in {NoTask, [task EXCEPT !.at = "again", !.answer = "none"]}
      <4>1. [task EXCEPT !.at = "again", !.answer = "none"] \in TaskRec
        BY DEF TaskRec
      <4> QED
        BY <3>2, <4>1, NoWriteShape, PausesShape, "drift" \in PauseCode DEF PauseCode
    <3> QED
      BY <1>22, <3>1, <3>2 DEF SettlementEnds, AgainEnds
  <2> QED
    BY <1>22, <2>2 DEF SettlementEnds, AgainEnds, QueueOK, TypeOK, history
<1>23. ASSUME NEW p \in Prompt, Archive(p) PROVE TypeOK'
  <2>1. QueueOK'
    <3>1. CASE Becomes(p, "withheld", last) /\ pause' = FirstPause("unavailable") /\ UNCHANGED <<gate, evidence>>
      BY <3>1, BecomesShape, Shapes, "withheld" \in ItemState, "unavailable" \in PauseCode DEF QueueOK, ItemState, PauseCode
    <3> QED
      BY <1>23, <3>1, NoWriteShape DEF Archive
  <2>2. lease' \in Run \cup {None} /\ attempt' \in AttemptRec
    BY <1>23 DEF Archive, Resolved
  <2> QED
    BY <1>23, <2>1, <2>2 DEF Archive, QueueOK, TypeOK, history
<1>24. ASSUME NEW p \in Prompt, Blocks(p) PROVE TypeOK'
  <2>1. QueueOK'
    BY <1>24, PausesShape, "acceptance-unknown" \in PauseCode DEF Blocks, PauseCode
  <2> QED
    BY <1>24, <2>1 DEF Blocks, QueueOK, TypeOK, coord, history
<1>25. ASSUME NEW p \in Prompt, Finish(p) PROVE TypeOK'
  <2>1. QueueOK'
    BY <1>25, NoWriteShape, PausesShape DEF Finish, PauseCode
  <2>2. task' \in TaskRec
    <3>1. [NoTask EXCEPT !.at = "finish", !.prompt = p] \in TaskRec
      BY DEF NoTask, TaskRec
    <3> QED
      BY <1>25, <3>1 DEF Finish
  <2> QED
    BY <1>25, <2>1, <2>2 DEF Finish, QueueOK, TypeOK, coord, history
<1>26. CASE Aborted \/ Close \/ BridgeFails
  BY <1>26 DEF Aborted, Close, BridgeFails, TypeOK, queue, coord, history
<1>27. CASE UNCHANGED vars
  BY <1>27 DEF vars, TypeOK, queue, coord, history
<1> QED
  BY <1>1, <1>2, <1>3, <1>4, <1>5, <1>6, <1>7, <1>8, <1>9, <1>10, <1>11, <1>12, <1>13, <1>14, <1>15, <1>16,
     <1>17, <1>18, <1>19, <1>20, <1>21, <1>22, <1>23, <1>24, <1>25, <1>26, <1>27, <1>11a
     DEF Next, User, Others, Admission, Lifecycle, Reconsider, Finishing

----------------------------------------------------------------------------
(* What stays true. *)

\* A chain that ends takes its resume with it.
LEMMA ChainEnds ==
  ASSUME TypeOK, NEW p \in Prompt, NEW state, NEW settled, Becomes(p, state, settled),
         state \notin {"waiting", "claimed", "linked"}
  PROVE  (~Chain' => ~resumed') /\ (resumed' => resumed)
<1>1. resumed' => resumed
  BY Zenon DEF Becomes
<1>2. ASSUME ~Chain' PROVE \A q \in Prompt \ {p} : ~Active(q)
  BY <1>2 DEF TypeOK, Chain, Active, Becomes
<1>3. (\A q \in Prompt \ {p} : ~Active(q)) => ~resumed'
  BY Zenon DEF Becomes
<1> QED
  BY <1>1, <1>2, <1>3

\* An answer "ready" means a successful run, at the instant it is given.
LEMMA ReadyMeans ==
  ASSUME NEW r, "ready" \in Answers(r) \/ Success(r) = "ready"
  PROVE  /\ run[r].at = "done" /\ run[r].status = "completed" /\ owner # r
         /\ ~run[r].cancelling /\ ~run[r].stop
BY DEF Answers, Success

\* A step that only answers the task keeps everything, if the answer is true.
LEMMA AnswerFacts ==
  ASSUME TypeOK, Facts, NEW a, Answered(a), UNCHANGED <<queue, gate, run, coord, attempt, history>>,
         task.at # "idle",
         task.at = "success" /\ a = "ready" =>
           run[task.pred].at = "done" /\ run[task.pred].status = "completed",
         task.at = "again" /\ a = "ready" =>
           /\ run[task.prompt].at = "done" /\ run[task.prompt].status = "completed"
           /\ ~run[task.prompt].stop /\ owner # task.prompt,
         a = "successful-predecessor" => task.pred \in Run
  PROVE  Facts'
<1>1. /\ task'.at = task.at /\ task'.prompt = task.prompt /\ task'.pred = task.pred /\ task'.answer = a
  BY DEF TypeOK, TaskRec, Answered
<1>2. Told'
  BY <1>1 DEF Facts, Told, coord
<1>3. (Statuses /\ Claims /\ ClaimExcludes /\ LeaseAccounted /\ Deliveries /\ Fresh /\ Owner /\ Halted)'
  BY DEF Facts, Statuses, Claims, ClaimExcludes, LeaseAccounted, Deliveries, Fresh, Owner, Halted, Chain,
     Active, Settled, Claiming, queue, coord, history
<1> QED
  BY <1>2, <1>3 DEF Facts

\* A successful predecessor is a run.
LEMMA PreflightAnswersFacts ==
  ASSUME TypeOK, Facts, PreflightAnswers
  PROVE  Facts'
<1>1. PICK a \in Preflights \cup {"wait"} : Answered(a)
  BY DEF PreflightAnswers
<1>2. a = "successful-predecessor" => task.pred \in Run
  BY <1>1 DEF TypeOK, TaskRec, Preflights
<1> QED
  BY <1>1, <1>2, AnswerFacts DEF PreflightAnswers

\* The proof of the predecessor's success keeps the invariant.
LEMMA SuccessAnswersFacts ==
  ASSUME TypeOK, Facts, SuccessAnswers
  PROVE  Facts'
<1>1. PICK a \in Answers(task.pred) : Answered(a)
  BY DEF SuccessAnswers
<1>2. task.pred \in Run /\ task.at = "success"
  BY DEF SuccessAnswers, Facts, Told
<1>3. a = "ready" => run[task.pred].at = "done" /\ run[task.pred].status = "completed"
  BY <1>1, ReadyMeans
<1> QED
  BY <1>1, <1>2, <1>3, AnswerFacts DEF SuccessAnswers

\* The proof of a finished attempt keeps the invariant.
LEMMA FinishAnswersFacts ==
  ASSUME TypeOK, Facts, FinishAnswers
  PROVE  Facts'
<1>1. PICK a \in Answers(task.prompt) : Answered(a)
  BY DEF FinishAnswers
<1>2. a = "ready" => /\ run[task.prompt].at = "done" /\ run[task.prompt].status = "completed"
                     /\ ~run[task.prompt].stop /\ owner # task.prompt
  BY <1>1, ReadyMeans
<1>3. a # "successful-predecessor" /\ task.at \in {"finish", "again"}
  BY <1>1 DEF Answers, Success, FinishAnswers
<1> QED
  BY <1>1, <1>2, <1>3, AnswerFacts DEF FinishAnswers

\* A prompt that is enqueued keeps the invariant.
LEMMA EnqueueFacts ==
  ASSUME TypeOK, Facts, NEW p \in Prompt, Enqueue(p)
  PROVE  Facts'
<1> USE DEF TypeOK, RunRec, GrantRec, AttemptRec, TaskRec, Facts, Statuses, Claims, ClaimExcludes, LeaseAccounted,
            Deliveries, Told, Fresh, Owner, Halted, Settled, Claiming, Chain, Active
<1>1. CASE WriteFails /\ UNCHANGED task
  BY <1>1, Runs, SMT DEF Enqueue, Stale, WriteFails, coord, history, queue
<1>2. CASE item' = [item EXCEPT ![p] = "waiting"] /\ task' = Stale(task)
  BY <1>2, Runs, SMT DEF Enqueue, Stale, WriteFails, coord, history, queue
<1> QED
  BY <1>1, <1>2 DEF Enqueue

\* A removal keeps the invariant.
LEMMA RemoveFacts ==
  ASSUME TypeOK, Facts, NEW p \in Prompt, Remove(p)
  PROVE  Facts'
<1>1. Halted'
  <2>1. CASE WriteFails
    BY <2>1 DEF Facts, Halted, WriteFails, Chain, Active, queue
  <2>2. CASE Becomes(p, "removed", last) /\ UNCHANGED <<gate, evidence, pause>>
    BY <2>2, ChainEnds DEF Remove, Facts, Halted, coord, history
  <2> QED
    BY <2>1, <2>2 DEF Remove
<1>2. Statuses'
  BY Runs, SMT DEF Facts, Statuses, Remove, Settled
<1>3. Claims'
  BY Runs, SMT DEF TypeOK, AttemptRec, Facts, Claims, Remove, Becomes, WriteFails, history, queue, Claiming
<1>4. ClaimExcludes'
  BY Runs, SMT DEF TypeOK, Facts, ClaimExcludes, Remove, Becomes, WriteFails, coord, history, queue
<1>5. LeaseAccounted'
  BY Runs, SMT DEF TypeOK, Facts, LeaseAccounted, Remove, Becomes, WriteFails, coord
<1>6. Deliveries'
  BY Runs, SMT DEF Facts, Deliveries, Remove, WriteFails, history, queue
<1>7. Told'
  BY Runs, SMT DEF TypeOK, TaskRec, Facts, Told, Remove, Stale, coord
<1>8. Fresh'
  BY Runs, SMT DEF TypeOK, Facts, Fresh, Remove, Becomes, WriteFails, coord, queue
<1>9. Owner'
  BY Runs, SMT DEF Facts, Owner, Remove, coord
<1> QED
  BY <1>1, <1>2, <1>3, <1>4, <1>5, <1>6, <1>7, <1>8, <1>9 DEF Facts

\* A resume keeps the invariant.
LEMMA ResumeFacts ==
  ASSUME TypeOK, Facts, Resume
  PROVE  Facts'
<1>1. Statuses'
  BY Runs, SMT DEF Facts, Statuses, Resume, Settled
<1>2. Claims'
  BY Runs, SMT DEF Facts, Claims, Resume, WriteFails, queue, Claiming
<1>3. ClaimExcludes'
  BY Runs, SMT DEF Facts, ClaimExcludes, Resume, WriteFails, coord, queue
<1>4. LeaseAccounted'
  BY Runs, SMT DEF Facts, LeaseAccounted, Resume, WriteFails, coord
<1>5. Deliveries'
  BY Runs, SMT DEF Facts, Deliveries, Resume, WriteFails, queue
<1>6. Told'
  BY Runs, SMT DEF TypeOK, RunRec, GrantRec, AttemptRec, TaskRec, Facts, Statuses, Claims, ClaimExcludes,
     LeaseAccounted, Deliveries, Told, Fresh, Owner, Halted, Resume, Unresolved, Stale, WriteFails, coord,
     queue
<1>7. Fresh'
  BY Runs, SMT DEF Facts, Fresh, Resume, WriteFails, coord, queue
<1>8. Owner'
  BY Runs, SMT DEF Facts, Owner, Resume, coord
<1>9. Halted'
  BY Runs, SMT DEF Halted, Resume, WriteFails, queue, Chain, Active
<1> QED
  BY <1>1, <1>2, <1>3, <1>4, <1>5, <1>6, <1>7, <1>8, <1>9 DEF Facts

\* Archiving a withheld prompt keeps the invariant.
LEMMA ArchiveFacts ==
  ASSUME TypeOK, Facts, NEW p \in Prompt, Archive(p)
  PROVE  Facts'
<1>1. Halted'
  <2>1. CASE WriteFails
    BY <2>1 DEF Facts, Halted, WriteFails, Chain, Active, queue
  <2>2. CASE Becomes(p, "withheld", last) /\ pause' = FirstPause("unavailable") /\ UNCHANGED gate
    <3>1. pause' # "none"
      BY <2>2 DEF FirstPause
    <3> QED
      BY <2>2, <3>1, ChainEnds DEF Archive, Facts, Halted, coord, history
  <2> QED
    BY <2>1, <2>2 DEF Archive
<1>2. Statuses'
  BY Runs, SMT DEF Facts, Statuses, Archive, Settled
<1>3. Claims'
  BY Runs, SMT DEF Facts, Claims, Archive, Resolved, WriteFails, history, NoAttempt, queue, Claiming
<1>4. ClaimExcludes'
  BY Runs, SMT DEF TypeOK, Facts, Claims, ClaimExcludes, LeaseAccounted, Archive, Finished, Becomes,
     WriteFails, history, queue
<1>5. LeaseAccounted'
  BY Runs, SMT DEF LeaseAccounted, Archive, Resolved, WriteFails
<1>6. Deliveries'
  BY Runs, SMT DEF Facts, Deliveries, Archive, WriteFails, history, queue
<1>7. Told'
  BY Runs, SMT DEF Facts, Told, Archive, Finished
<1>8. Fresh'
  BY Runs, SMT DEF TypeOK, Facts, Fresh, Archive, Becomes, Resolved, WriteFails, queue
<1>9. Owner'
  BY Runs, SMT DEF Facts, Owner, Archive
<1> QED
  BY <1>1, <1>2, <1>3, <1>4, <1>5, <1>6, <1>7, <1>8, <1>9 DEF Facts

\* Crossing the native boundary keeps the invariant.
LEMMA BeforeNativeFacts ==
  ASSUME TypeOK, Facts, NEW p \in Prompt, BeforeNative(p)
  PROVE  Facts'
<1>1. /\ UNCHANGED <<item, owner, lease, latest, attempt, doubt, halted, last, heirs, resumed>>
      /\ run[p].at = "executing" /\ run' \in {run, [run EXCEPT ![p].at = "withheld"]}
      /\ task' \in {task, Stale(task)}
  BY DEF BeforeNative, Pauses, WriteFails, queue, coord
<1>2. \A r \in Run :
        /\ run'[r].status = run[r].status /\ run'[r].stop = run[r].stop
        /\ run'[r].at = run[r].at \/ (r = p /\ run'[r].at = "withheld")
  BY <1>1, Runs DEF TypeOK, RunRec
<1>3. task'.at = task.at /\ task'.prompt = task.prompt /\ task'.pred = task.pred /\ task'.answer = task.answer
  BY <1>1 DEF TypeOK, TaskRec, Stale
<1>4. Statuses' /\ Fresh'
  BY <1>1, <1>2, Runs DEF Facts, Statuses, Fresh, Settled
<1>5. Claims' /\ ClaimExcludes' /\ LeaseAccounted'
  BY <1>1 DEF BeforeNative, Pauses, WriteFails, Facts, Claims, ClaimExcludes, LeaseAccounted, Claiming
<1>6. Deliveries'
  BY <1>1, <1>2, Runs DEF TypeOK, BeforeNative, Pauses, WriteFails, queue, Facts, Deliveries
<1>7. Told'
  BY <1>1, <1>2, <1>3, Runs DEF Facts, Told
<1>8. Owner'
  BY <1>1, <1>2 DEF TypeOK, Facts, Owner
<1>9. Halted'
  <2>1. halted => pause # "none" \/ gate # "open"
    BY Runs DEF BeforeNative, Facts, Halted
  <2>2. halted => pause' # "none" \/ gate' # "open"
    BY <2>1 DEF BeforeNative, MaySubmit, Pauses, WriteFails, queue
  <2>3. ~Chain' => ~resumed'
    BY <1>1 DEF Facts, Halted, Chain, Active
  <2> QED
    BY <1>1, <2>2, <2>3 DEF Halted
<1> QED
  BY <1>4, <1>5, <1>6, <1>7, <1>8, <1>9 DEF Facts

\* A task that resumes after its preflight keeps the invariant.
LEMMA PreflightEndsFacts ==
  ASSUME TypeOK, Facts, PreflightEnds
  PROVE  Facts'
<1>1. Told'
  <2>1. task' = NoTask \/ (task.answer = "successful-predecessor"
                           /\ task' = [task EXCEPT !.at = "success", !.answer = "none"])
    BY DEF PreflightEnds
  <2>2. CASE task' = NoTask
    BY <2>2 DEF Told, NoTask
  <2>3. CASE task.answer = "successful-predecessor" /\ task' = [task EXCEPT !.at = "success", !.answer = "none"]
    <3>1. task'.at = "success" /\ task'.answer = "none" /\ task'.pred = task.pred /\ task'.prompt = task.prompt
      BY <2>3 DEF TypeOK, TaskRec
    <3> QED
      BY <2>3, <3>1 DEF PreflightEnds, Facts, Told
  <2> QED
    BY <2>1, <2>2, <2>3
<1>2. Statuses'
  BY Runs, SMT DEF Facts, Statuses, PreflightEnds, Settled
<1>3. Claims'
  BY Runs, SMT DEF TypeOK, Facts, Claims, Told, PreflightEnds, queue, PausesFor, ClaimOf, Pauses,
     WriteFails, Claiming
<1>4. ClaimExcludes'
  BY Runs, SMT DEF TypeOK, Facts, ClaimExcludes, PreflightEnds, queue, PausesFor, ClaimOf, Pauses, Free,
     WriteFails
<1>5. LeaseAccounted'
  BY Runs, SMT DEF TypeOK, Facts, LeaseAccounted, PreflightEnds, queue, PausesFor, ClaimOf, Pauses,
     WriteFails
<1>6. Deliveries'
  BY Runs, SMT DEF Facts, Deliveries, PreflightEnds, queue, PausesFor, ClaimOf, Pauses, WriteFails
<1>7. Fresh'
  BY Runs, SMT DEF TypeOK, TaskRec, Facts, Fresh, PreflightEnds, Current, queue, PausesFor, ClaimOf, Head,
     Pauses, WriteFails
<1>8. Owner'
  BY Runs, SMT DEF Facts, Owner, PreflightEnds
<1>9. Halted'
  BY Runs, SMT DEF TypeOK, Facts, Halted, PreflightEnds, Current, queue, PausesFor, ClaimOf, Pauses,
     ConsentHolds, WriteFails, Chain, Active
<1> QED
  BY <1>1, <1>2, <1>3, <1>4, <1>5, <1>6, <1>7, <1>8, <1>9 DEF Facts

\* A task that resumes after a settlement proof keeps the invariant.
LEMMA SettlementEndsFacts ==
  ASSUME TypeOK, Facts, SettlementEnds
  PROVE  Facts'
<1>1. Told'
  <2>1. task' = NoTask \/ (UNCHANGED <<attempt, owner, run>> /\ task' = [task EXCEPT !.at = "again", !.answer = "none"])
    BY DEF SettlementEnds, Settle
  <2>2. CASE task' = NoTask
    BY <2>2 DEF Told, NoTask
  <2>3. CASE UNCHANGED <<attempt, owner, run>> /\ task' = [task EXCEPT !.at = "again", !.answer = "none"]
    <3>1. task'.at = "again" /\ task'.answer = "none" /\ task'.prompt = task.prompt
      BY <2>3 DEF TypeOK, TaskRec
    <3> QED
      BY <2>3, <3>1 DEF SettlementEnds, Facts, Told
  <2> QED
    BY <2>1, <2>2, <2>3
<1>2. Statuses'
  BY Runs, SMT DEF Facts, Statuses, SettlementEnds, Settled
<1>3. Claims'
  BY Runs, SMT DEF Facts, Claims, SettlementEnds, Pauses, queue, Settle, history, WriteFails, Resolved,
     NoAttempt, Claiming
<1>4. ClaimExcludes'
  BY Runs, SMT DEF TypeOK, RunRec, Facts, Claims, ClaimExcludes, SettlementEnds, Pauses, queue, Settle,
     history, WriteFails, Terminal, Becomes
<1>5. LeaseAccounted'
  BY Runs, SMT DEF Facts, LeaseAccounted, SettlementEnds, Pauses, queue, Settle, WriteFails, Resolved
<1>6. Deliveries'
  BY Runs, SMT DEF Facts, Deliveries, SettlementEnds, Pauses, queue, Settle, history, WriteFails
<1>7. Fresh'
  BY Runs, SMT DEF TypeOK, RunRec, Facts, Fresh, SettlementEnds, Pauses, queue, Settle, WriteFails,
     Becomes, Resolved
<1>8. Owner'
  BY Runs, SMT DEF Facts, Owner, SettlementEnds
<1>9. Halted'
  BY Runs, SMT DEF TypeOK, RunRec, Facts, Halted, SettlementEnds, Pauses, queue, Settle, history,
     WriteFails, Terminal, Becomes, FirstPause, Chain, Active
<1> QED
  BY <1>1, <1>2, <1>3, <1>4, <1>5, <1>6, <1>7, <1>8, <1>9 DEF Facts


\* Every step keeps what a claim and a task rely on.
LEMMA FactsStep ==
  ASSUME TypeOK, Facts, [Next]_vars
  PROVE  Facts'
<1> USE DEF TypeOK, RunRec, GrantRec, AttemptRec, TaskRec, Facts, Statuses, Claims, ClaimExcludes, LeaseAccounted,
            Deliveries, Told, Fresh, Owner, Halted, Settled, Claiming, Chain, Active
<1>1. ASSUME NEW p \in Prompt, Enqueue(p) PROVE Facts'
  BY <1>1, EnqueueFacts
<1>2. ASSUME NEW p \in Prompt, Remove(p) PROVE Facts'
  BY <1>2, RemoveFacts
<1>3. CASE Resume
  BY <1>3, ResumeFacts
<1>4. CASE Stop
  BY <1>4, Runs, SMT DEF Stop, Pauses, queue, Stale, coord, WriteFails
<1>5. CASE Hide
  BY <1>5, Runs, SMT DEF Hide, Pauses, Stale, coord, history, WriteFails, queue
<1>6. ASSUME NEW f \in Foreign, ForeignReserves(f) PROVE Facts'
  BY <1>6, Runs, SMT DEF ForeignReserves, Free, queue, history, Barrier
<1>7. ASSUME NEW f \in Foreign, ForeignInstalls(f) PROVE Facts'
  BY <1>7, Runs, SMT DEF ForeignInstalls, Free, queue, Barrier
<1>8. ASSUME NEW f \in Foreign, ForeignRefused(f) PROVE Facts'
  BY <1>8, Runs, SMT DEF ForeignRefused, queue, history
<1>9. ASSUME NEW p \in Prompt, Install(p) PROVE Facts'
  BY <1>9, Runs, SMT DEF Install, MaySubmit, Stale, history, Barrier, Predecessor
<1>10. ASSUME NEW p \in Prompt, Rejected(p) PROVE Facts'
  BY <1>10, Runs, SMT DEF Rejected, Stale, WriteFails, coord, history, queue
<1>11. ASSUME NEW p \in Prompt, BeforeNative(p) PROVE Facts'
  BY <1>11, BeforeNativeFacts
<1>12. ASSUME NEW p \in Prompt, Reported(p) PROVE Facts'
  BY <1>12, Runs, SMT DEF Reported, Stale, coord, history
<1>12a. ASSUME NEW p \in Prompt, Withholds(p) PROVE Facts'
  BY <1>12a, Runs, SMT DEF Withholds, queue, coord, history
<1>13. ASSUME NEW r \in Run, RunEnds(r) PROVE Facts'
  BY <1>13, Runs, SMT DEF RunEnds, Concludes, FirstPause, Stale, WriteFails, queue, history
<1>14. ASSUME NEW r \in Run, RunDone(r) PROVE Facts'
  BY <1>14, Runs, SMT DEF RunDone, queue, coord, history
<1>15. ASSUME NEW r \in Run, CancelEnds(r) PROVE Facts'
  BY <1>15, Runs, SMT DEF CancelEnds, queue, history
<1>16. CASE PreflightAnswers
  BY <1>16, PreflightAnswersFacts
<1>17. CASE PreflightEnds
  BY <1>17, PreflightEndsFacts
<1>18. CASE SuccessAnswers
  BY <1>18, SuccessAnswersFacts
<1>19. CASE SuccessEnds
  BY <1>19, Runs, SMT DEF SuccessEnds, NoTask, Current, ClaimOf, PausesFor, queue, Head, Free, WriteFails,
     Pauses
<1>20. ASSUME NEW p \in Prompt, Select(p) PROVE Facts'
  BY <1>20, Runs, SMT DEF Select, NoTask, queue, coord, history
<1>21. CASE FinishAnswers
  BY <1>21, FinishAnswersFacts
<1>22. CASE FinishEnds
  BY <1>22, Runs, SMT DEF FinishEnds, Pauses, queue, NoTask, coord, history, WriteFails
<1>23. CASE SettlementAnswers
  BY <1>23, Runs, SMT DEF SettlementAnswers, Terminal, Success, Answered, queue, coord, history, Barrier
<1>24. CASE SettlementEnds
  BY <1>24, SettlementEndsFacts
<1>25. CASE AgainEnds
  BY <1>25, Runs, SMT DEF AgainEnds, NoTask, queue, Settle, history, Becomes, Resolved, WriteFails,
     NoAttempt
<1>26. ASSUME NEW p \in Prompt, Archive(p) PROVE Facts'
  BY <1>26, ArchiveFacts
<1>27. ASSUME NEW p \in Prompt, Blocks(p) PROVE Facts'
  BY <1>27, Runs, SMT DEF Blocks, Finished, Pauses, coord, history, WriteFails, queue
<1>28. ASSUME NEW p \in Prompt, Finish(p) PROVE Facts'
  BY <1>28, Runs, SMT DEF Finish, Finished, Pauses, queue, NoTask, coord, history, WriteFails
<1>29. CASE Aborted
  BY <1>29, Runs, SMT DEF Aborted, NoTask, queue, coord, history
<1>30. CASE Close
  BY <1>30, Runs, SMT DEF Close, queue, coord, history
<1>31. CASE BridgeFails
  BY <1>31, Runs, SMT DEF BridgeFails, queue, coord, history
<1>32. CASE UNCHANGED vars
  BY <1>32, SMT DEF vars, queue, coord, history
<1> QED
  BY <1>1, <1>2, <1>3, <1>4, <1>5, <1>6, <1>7, <1>8, <1>9, <1>10, <1>11, <1>12, <1>13, <1>14,
     <1>15, <1>16, <1>17, <1>18, <1>19, <1>20, <1>21, <1>22, <1>23, <1>24, <1>25, <1>26, <1>27, <1>28,
     <1>29, <1>30, <1>31, <1>32, <1>12a
     DEF Next, User, Others, Admission, Lifecycle, Reconsider, Finishing

----------------------------------------------------------------------------
(* The theorems. *)

\* An idle conversation satisfies the invariant.
LEMMA Initially ==
  ASSUME Init
  PROVE  IInv
<1>1. TypeOK
  <2>1. NoTask \in TaskRec
    BY DEF NoTask, TaskRec
  <2>2. NoAttempt \in AttemptRec
    BY DEF NoAttempt, AttemptRec
  <2> QED
    BY <2>1, <2>2 DEF Init, TypeOK, ItemState, Evidence, PauseCode, RunRec, GrantRec
<1>2. Facts
  BY Runs DEF Init, Facts, Statuses, Claims, ClaimExcludes, LeaseAccounted, Deliveries, Told, Fresh, Owner,
     Halted, Settled, NoTask, NoAttempt
<1> QED
  BY <1>1, <1>2 DEF IInv

\* IInv is an invariant of the dispatch.
LEMMA Invariant == Spec => []IInv
<1>1. Init => IInv
  BY Initially
<1>2. IInv /\ [Next]_vars => IInv'
  BY TypeStep, FactsStep DEF IInv
<1> QED
  BY <1>1, <1>2, PTL DEF Spec

\* The queue, the coordinator, the consent, the attempt and the task of the scheduler
\* keep their shape, for any number of prompts and of other runs.
THEOREM TypeCorrect == Spec => []TypeOK
<1>1. IInv => TypeOK
  BY DEF IInv
<1> QED
  BY Invariant, <1>1, PTL

\* A claim that is not settled, or may have reached the disk, keeps its admission
\* lease (claim and dispatchFinished of pending-input-scheduler.ts).
THEOREM ClaimsExclude == Spec => []ClaimExcludes
<1>1. IInv => ClaimExcludes
  BY DEF IInv, Facts
<1> QED
  BY Invariant, <1>1, PTL

\* ... and no lease outlives its claim while the bridge works.
THEOREM LeasesAccounted == Spec => []LeaseAccounted
<1>1. IInv => LeaseAccounted
  BY DEF IInv, Facts
<1> QED
  BY Invariant, <1>1, PTL

\* After a Stop no prompt is handed over: beforeNative finds a pause, or the claim
\* has to follow a stopped run, which only a later resume allows.
THEOREM StopIsHeld == Spec => StopHolds
<1> DEFINE Act == halted => sent' = sent
<1>1. IInv /\ [Next]_vars => [Act]_vars
  <2> SUFFICES ASSUME IInv, Next, halted PROVE sent' = sent
    OBVIOUS
  <2>1. ASSUME NEW p \in Prompt, BeforeNative(p) PROVE sent' = sent
    <3>1. CASE MaySubmit(p) /\ pause = "none"
      <4>1. gate = "open" /\ attempt.prompt = p
        BY <2>1, <3>1 DEF MaySubmit, BeforeNative
      <4>2. attempt.prompt # None
        BY <4>1, Runs
      <4> QED
        BY <3>1, <4>1, <4>2 DEF IInv, Facts, Halted
    <3>2. CASE ~(MaySubmit(p) /\ pause = "none")
      BY <2>1, <3>2 DEF BeforeNative
    <3> QED
      BY <3>1, <3>2
  <2>2. CASE User \/ Others \/ Lifecycle
    BY <2>2 DEF User, Others, Lifecycle, Resume, Stop, Hide, Enqueue, Remove, ForeignReserves,
       ForeignInstalls, ForeignRefused, RunEnds, RunDone, CancelEnds, history
  <2>3. ASSUME NEW p \in Prompt, Install(p) \/ Rejected(p) \/ Withholds(p) \/ Reported(p)
        PROVE  sent' = sent
    BY <2>3 DEF Install, Rejected, Withholds, Reported, history
  <2>4. CASE Reconsider
    BY <2>4 DEF Reconsider, PreflightAnswers, PreflightEnds, SuccessAnswers, SuccessEnds, Select, history
  <2>5. CASE Finishing
    BY <2>5 DEF Finishing, FinishAnswers, FinishEnds, SettlementAnswers, SettlementEnds, AgainEnds, Archive, Blocks,
       Finish, history
  <2>6. CASE Aborted \/ Close \/ BridgeFails
    BY <2>6 DEF Aborted, Close, BridgeFails, history
  <2> QED
    BY <2>1, <2>2, <2>3, <2>4, <2>5, <2>6 DEF Next, Admission
<1> QED
  BY Invariant, <1>1, PTL DEF Spec, StopHolds

\* A claim still follows the predecessor its task was answered for, several awaits
\* earlier: the selection is current, and a run that is done stays done.
THEOREM PredecessorsProved == Spec => PredecessorProved
<1> DEFINE Act == attempt' # attempt /\ attempt'.at = "preparing" => FollowsProven(attempt')
<1>1. IInv /\ [Next]_vars => [Act]_vars
  <2> SUFFICES ASSUME IInv, Next, attempt' # attempt, attempt'.at = "preparing" PROVE FollowsProven(attempt')
    OBVIOUS
  <2>1. ASSUME NEW basis, ClaimOf(task.prompt, basis),
               basis \in {"new-idle-chain", "user-resume"}
               \/ (basis = "successful-predecessor" /\ task.at = "success" /\ task.answer = "ready")
        PROVE  FollowsProven(attempt')
    <3>1. /\ Current /\ Free(None)
          /\ attempt' = [prompt |-> task.prompt, basis |-> basis, pred |-> task.pred, at |-> "preparing"]
          /\ basis = "user-resume" => ConsentHolds
          /\ basis = "new-idle-chain" => task.pred = None
          /\ task.pred # None /\ basis # "user-resume" => ~run[task.pred].stop /\ ~run[task.pred].cancelling
      BY <2>1 DEF ClaimOf
    <3>2. /\ attempt'.prompt = task.prompt /\ attempt'.basis = basis /\ attempt'.pred = task.pred
      BY <3>1
    <3>3. Head(task.prompt) /\ pause = "none" /\ task.pred = latest /\ owner = None
      BY <3>1 DEF Current, Free
    <3>4. ASSUME task.pred # None
          PROVE  /\ Settled(task.pred) /\ ~run[task.pred].cancelling
                 /\ basis # "user-resume" => run[task.pred].status = "completed" /\ ~run[task.pred].stop
      <4>1. CASE basis = "user-resume"
        BY <3>1, <3>3, <3>4, <4>1 DEF ConsentHolds
      <4>2. CASE basis = "successful-predecessor"
        BY <2>1, <3>1, <3>4, <4>2 DEF IInv, Facts, Told, Settled
      <4> QED
        BY <2>1, <3>1, <3>4, <4>1, <4>2
    <3> QED
      BY <3>2, <3>3, <3>4 DEF FollowsProven
  <2>2. CASE PreflightEnds
    BY <2>1, <2>2 DEF PreflightEnds, PausesFor
  <2>3. CASE SuccessEnds
    BY <2>1, <2>3 DEF SuccessEnds, PausesFor
  <2>4. ASSUME NEW p \in Prompt, Install(p) \/ Rejected(p) PROVE FALSE
    BY <2>4 DEF Install, Rejected, IInv, TypeOK, AttemptRec
  <2>5. CASE SettlementEnds \/ AgainEnds \/ \E p \in Prompt : Archive(p)
    BY <2>5 DEF SettlementEnds, AgainEnds, Settle, Archive, Resolved, NoAttempt
  <2>6. CASE User \/ Others \/ Lifecycle \/ Aborted \/ Close \/ BridgeFails
    BY <2>6 DEF User, Others, Lifecycle, Resume, Stop, Hide, Enqueue, Remove, ForeignReserves,
       ForeignInstalls, ForeignRefused, RunEnds, RunDone, CancelEnds, Aborted, Close, BridgeFails
  <2>7. CASE (\E p \in Prompt : BeforeNative(p) \/ Withholds(p) \/ Reported(p) \/ Select(p) \/ Blocks(p)
                                \/ Finish(p))
             \/ PreflightAnswers \/ SuccessAnswers \/ FinishAnswers \/ FinishEnds \/ SettlementAnswers
    BY <2>7 DEF BeforeNative, Withholds, Reported, Select, Blocks, Finish, PreflightAnswers, SuccessAnswers, FinishAnswers,
       FinishEnds, SettlementAnswers
  <2> QED
    BY <2>2, <2>3, <2>4, <2>5, <2>6, <2>7 DEF Next, Admission, Reconsider, Finishing
<1> QED
  BY Invariant, <1>1, PTL DEF Spec, PredecessorProved

\* The record of a prompt is settled as its run ended, and archived as withheld only
\* if nothing was sent (settle and archiveNotSubmitted behind terminal()).
THEOREM SettlementsTruthful == Spec => SettledTruthfully
<1> DEFINE Ends(p) == item'[p] # item[p] /\ item'[p] \in {"completed", "failed", "interrupted", "withheld"}
           True(p) == /\ item'[p] = "withheld" <=> p \notin sent
                      /\ item'[p] # "withheld" =>
                           /\ item'[p] = run[p].status /\ evidence[p] = "submitted"
                           /\ Settled(p) /\ latest = p /\ owner = None /\ ~run[p].cancelling
                           /\ item'[p] = "completed" => ~run[p].stop
           Act == \A p \in Prompt : Ends(p) => True(p)
<1>1. IInv /\ [Next]_vars => [Act]_vars
  <2> SUFFICES ASSUME IInv, Next, NEW q \in Prompt, Ends(q) PROVE True(q)
    OBVIOUS
  <2> item \in [Prompt -> ItemState] /\ q \in Run /\ run \in [Run -> RunRec]
    BY Runs DEF IInv, TypeOK
  <2>1. ASSUME NEW p \in Prompt, Settle(p), run[p].status = "completed" => ~run[p].stop PROVE True(q)
    <3>1. Terminal(p) /\ Becomes(p, run[p].status, p)
      BY <2>1 DEF Settle, WriteFails, queue
    <3>2. p = q /\ item'[q] = run[q].status
      BY <3>1 DEF Becomes
    <3>3. run[q].status \in {"running", "completed", "failed", "interrupted"}
      BY DEF RunRec
    <3>4. q \in sent
      BY <3>1, <3>2 DEF Terminal, IInv, Facts, Deliveries
    <3> QED
      BY <2>1, <3>1, <3>2, <3>3, <3>4 DEF Terminal
  <2>2. CASE SettlementEnds
    <3>1. Settle(task.prompt) /\ run[task.prompt].status # "completed"
      BY <2>2 DEF SettlementEnds, Pauses, WriteFails, queue
    <3>2. task.prompt \in Prompt
      BY <2>2 DEF SettlementEnds, IInv, Facts, Told
    <3> QED
      BY <2>1, <3>1, <3>2
  <2>3. CASE AgainEnds
    <3>1. Settle(task.prompt) /\ task.answer = "ready" /\ task.at = "again"
      BY <2>3 DEF AgainEnds, queue
    <3>2. task.prompt \in Prompt /\ ~run[task.prompt].stop
      BY <3>1 DEF IInv, Facts, Told
    <3> QED
      BY <2>1, <3>1, <3>2
  <2>4. ASSUME NEW p \in Prompt, Archive(p) PROVE True(q)
    <3>1. Becomes(p, "withheld", last) /\ evidence[p] = "not-submitted"
      BY <2>4 DEF Archive, WriteFails, queue
    <3>2. p = q /\ item'[q] = "withheld"
      BY <3>1 DEF Becomes
    <3> QED
      BY <3>1, <3>2 DEF IInv, Facts, Deliveries
  <2>5. CASE User
    BY <2>5 DEF User, Resume, Stop, Hide, Enqueue, Remove, Becomes, Pauses, WriteFails, queue
  <2>6. CASE Others \/ Lifecycle \/ Aborted \/ Close \/ BridgeFails
    BY <2>6 DEF Others, Lifecycle, ForeignReserves, ForeignInstalls, ForeignRefused, RunEnds, Concludes, RunDone,
       CancelEnds, Aborted, Close, BridgeFails, WriteFails, queue
  <2>7. CASE Admission
    BY <2>7 DEF Admission, Install, Rejected, BeforeNative, Withholds, Reported, Pauses, WriteFails, queue
  <2>8. CASE Reconsider
    <3>1. ASSUME NEW p, NEW basis, ClaimOf(p, basis) PROVE ~Ends(q)
      BY <3>1 DEF ClaimOf, Pauses, WriteFails, queue
    <3> QED
      BY <2>8, <3>1 DEF Reconsider, PreflightAnswers, PreflightEnds, SuccessAnswers, SuccessEnds, Select, PausesFor,
         Pauses, WriteFails, queue
  <2>9. CASE FinishAnswers \/ FinishEnds \/ SettlementAnswers \/ \E p \in Prompt : Blocks(p) \/ Finish(p)
    BY <2>9 DEF FinishAnswers, FinishEnds, SettlementAnswers, Blocks, Finish, Pauses, WriteFails, queue
  <2> QED
    BY <2>2, <2>3, <2>4, <2>5, <2>6, <2>7, <2>8, <2>9 DEF Next, Finishing
<1> QED
  BY Invariant, <1>1, PTL DEF Spec, SettledTruthfully
=============================================================================
