------------------------- MODULE PendingInputDispatch -------------------------
(***************************************************************************)
(* How a queued prompt becomes a run and is settled: the reconsideration   *)
(* and the attempts of pending-input-scheduler.ts, the proofs it asks of   *)
(* pending-input-bridge.ts, and the user's controls                        *)
(* (pending-input-controls.ts), all under packages/sane-app/src.           *)
(*                                                                         *)
(* One conversation.  A prompt stands for its item, its claim and its run; *)
(* prompts are numbered in enqueue order.  Other runs (a prompt sent       *)
(* directly, a worker's report) compete for the conversation while no      *)
(* chain of queued prompts is active.                                      *)
(*                                                                         *)
(* A reconsideration is a task that reads, awaits a read-only proof, reads *)
(* again, awaits ... and acts.  Each await is two steps here: the answer   *)
(* is decided, and later the task resumes; anything may happen between     *)
(* them.  The durable queue, the coordinator and the lifecycle of a run    *)
(* have modules of their own (PendingInputStore, ConversationCoordinator,  *)
(* HarnessDispatch); here each is reduced to what the task compares.       *)
(***************************************************************************)
EXTENDS Naturals

CONSTANTS
  NumPrompts,  \* prompts of the conversation, in enqueue order
  Foreign      \* runs that do not come from the queue

ASSUME DispatchAssumption ==
  /\ NumPrompts \in Nat
  /\ Foreign \cap Nat = {}

None == 0
Prompt == 1 .. NumPrompts
Run == Prompt \cup Foreign

VARIABLES
  item,      \* prompt -> waiting, claimed, linked, or how it left the queue
  evidence,  \* prompt -> what the claim's evidence says of its delivery
  pause,     \* the conversation's durable pause
  last,      \* lastPredecessorRunId, of this chain
  heirs,     \* prompts claimed since the chain's last resume
  resumed,   \* the chain has a resume in its ledger
  gate,      \* open, closed (scheduler closed) or failed (the bridge failed closed)
  run,       \* the lifecycle of each run
  owner,     \* the coordinator's owner of the conversation
  lease,     \* the run an admission lease is held for
  latest,    \* predecessors: the conversation's latest lifecycle
  grant,     \* resumeGrants: the consent of a resume, and its predecessor
  attempt,   \* attempts: the claim this process works on
  task,      \* the reconsideration in progress
  sent,      \* history: prompts handed to the harness
  doubt,     \* history: a claim whose write failed, and may be on disk
  halted     \* history: the user's last word was Stop

queue == <<item, evidence, pause, last, heirs, resumed>>
coord == <<owner, lease, latest>>
history == <<sent, doubt, halted>>
vars == <<queue, gate, run, coord, grant, attempt, task, history>>

----------------------------------------------------------------------------
(* What the store, the coordinator and the lifecycles say. *)

Active(p) == item[p] \in {"waiting", "claimed", "linked"}
Chain == \E p \in Prompt : Active(p)
Unresolved == \E p \in Prompt : item[p] \in {"claimed", "linked"}
Head(p) == item[p] = "waiting" /\ \A q \in Prompt : item[q] = "waiting" => p <= q

\* hasReconciliation: the barrier of a run whose source is not reconciled yet.
Barrier == \E r \in Run : run[r].at = "ended"
Settled(r) == run[r].at \in {"ended", "done"}

\* predecessorRunId throws: the live predecessor is not the run that was settled
\* last in this chain.
Contradiction == latest # None /\ last # None /\ latest # last

\* successfulSettlement of a lifecycle, at one instant.
Success(r) ==
  IF gate = "failed" THEN "unproven"
  ELSE IF r \in Prompt /\ evidence[r] = "not-submitted" THEN "withheld"
  ELSE IF run[r].at # "done" THEN "unproven"
  ELSE IF owner = r THEN "unsettled"
  ELSE IF run[r].cancelling \/ run[r].stop THEN "stopped"
  ELSE IF gate = "closed" THEN "unavailable"
  ELSE IF run[r].status = "completed" THEN "ready" ELSE "unsuccessful"

\* ... and what its native proof can make of it.
Answers(r) ==
  {Success(r)} \cup (IF Success(r) = "ready" THEN {"unproven", "unavailable", "mismatch"} ELSE {})

\* readiness of the conversation for a fresh head, or for the holder of a lease.
Free(holder) == owner = None /\ ~Barrier /\ lease = holder

\* Mutant: the conversation is checked, the selection is not.
CurrentConversation == gate = "open" /\ pause = "none" /\ ~Unresolved /\ ~Contradiction

\* current(selection).
Current ==
  /\ gate = "open" /\ pause = "none" /\ task.fresh /\ Head(task.prompt) /\ ~Unresolved
  /\ latest = task.pred /\ ~Contradiction

\* resumeValid: a live consent, for this chain and the predecessor it was given for.
ConsentHolds ==
  /\ grant.at = "live" /\ resumed /\ pause = "none" /\ ~Unresolved /\ owner = None /\ ~Barrier
  /\ latest = grant.pred /\ (last # None => last = grant.pred)
  /\ grant.pred # None => Settled(grant.pred) /\ ~run[grant.pred].cancelling

\* An unconsumed consent that no longer holds is deleted when it is examined.
Revoked == [grant EXCEPT !.at = IF @ = "live" /\ ~ConsentHolds THEN "spent" ELSE @]

\* The preflight's ordinary path after a resume: only a prompt dispatched since,
\* and completed, carries the chain on.
CarriesOn == resumed => task.pred \in heirs /\ item[task.pred] = "completed"

NoTask == [at |-> "idle", prompt |-> None, pred |-> None, fresh |-> FALSE, answer |-> "none",
           proved |-> FALSE]
NoAttempt == [prompt |-> None, basis |-> "none", pred |-> None, at |-> "none"]

----------------------------------------------------------------------------
(* Writes.  Every mutation of the store makes a selection stale; a failed  *)
(* write fails the bridge closed, and its fence refuses every later one.   *)

Stale(t) == [t EXCEPT !.fresh = FALSE]

WriteFails == gate' = "failed" /\ UNCHANGED queue

\* store.pause; an equal pause is no write.
Pauses(code) ==
  \/ gate # "failed" /\ pause' = code /\ UNCHANGED <<gate, item, evidence, last, heirs, resumed>>
  \/ gate # "failed" /\ pause # code /\ WriteFails
  \/ gate = "failed" /\ UNCHANGED <<gate, queue>>

FirstPause(code) == IF pause = "none" THEN code ELSE pause

\* The state of a prompt changes; a chain ends with its last active prompt.
Becomes(p, state, settledRun) ==
  LET over == \A q \in Prompt \ {p} : ~Active(q) IN
  /\ item' = [item EXCEPT ![p] = state]
  /\ last' = IF over THEN None ELSE settledRun
  /\ heirs' = IF over THEN {} ELSE heirs
  /\ resumed' = (resumed /\ ~over)

----------------------------------------------------------------------------
(* The user. *)

Enqueue(p) ==
  /\ gate = "open" /\ item[p] = "absent" /\ \A q \in 1 .. (p - 1) : item[q] # "absent"
  /\ \/ item' = [item EXCEPT ![p] = "waiting"] /\ task' = Stale(task)
        /\ UNCHANGED <<gate, evidence, pause, last, heirs, resumed>>
     \/ WriteFails /\ UNCHANGED task
  /\ UNCHANGED <<run, coord, grant, attempt, history>>

Remove(p) ==
  /\ gate = "open" /\ item[p] = "waiting"
  /\ \/ Becomes(p, "removed", last) /\ task' = Stale(task) /\ UNCHANGED <<gate, evidence, pause>>
     \/ WriteFails /\ UNCHANGED task
  /\ UNCHANGED <<run, coord, grant, attempt, history>>

\* resume, and resumeCommitted behind it: a consent for the present predecessor.
Resume ==
  /\ gate = "open" /\ ~Unresolved /\ Chain
  /\ \/ /\ pause' = "none" /\ heirs' = {} /\ resumed' = TRUE /\ task' = Stale(task)
        /\ grant' = [at |-> "live", pred |-> latest] /\ halted' = FALSE
        /\ UNCHANGED <<gate, item, evidence, last>>
     \/ WriteFails /\ UNCHANGED <<task, grant, halted>>
  /\ UNCHANGED <<run, coord, attempt, sent, doubt>>

\* Mutant: only the owner is stopped, and a prompt being prepared has none yet.
StopOwnerOnly ==
  /\ gate = "open"
  /\ run' = IF owner # None THEN [run EXCEPT ![owner].stop = TRUE, ![owner].cancelling = TRUE] ELSE run
  /\ halted' = (Chain \/ owner # None \/ halted)
  /\ UNCHANGED <<queue, gate, task, coord, grant, attempt, sent, doubt>>

\* stop: the sticky flags of the owner precede the durable pause.
Stop ==
  /\ gate = "open"
  /\ run' = IF owner # None THEN [run EXCEPT ![owner].stop = TRUE, ![owner].cancelling = TRUE] ELSE run
  /\ IF Chain /\ pause \in {"none", "hidden"} THEN Pauses("stopped") ELSE UNCHANGED <<gate, queue>>
  /\ task' = (IF pause' = pause THEN task ELSE Stale(task))
  /\ halted' = (Chain \/ owner # None \/ halted)
  /\ UNCHANGED <<coord, grant, attempt, sent, doubt>>

Hide ==
  /\ gate = "open" /\ Chain /\ pause = "none" /\ Pauses("hidden")
  /\ task' = Stale(task)
  /\ UNCHANGED <<run, coord, grant, attempt, history>>

----------------------------------------------------------------------------
(* Other runs: refused while a chain is active. *)

ForeignReserves(f) ==
  /\ gate = "open" /\ run[f].at = "none" /\ Free(None) /\ ~Chain
  /\ lease' = f
  /\ UNCHANGED <<queue, gate, run, owner, latest, grant, attempt, task, history>>

\* recordLifecycle: the run becomes the predecessor of what comes next, and an
\* unbound consent ends.
ForeignInstalls(f) ==
  /\ gate = "open" /\ Free(f) /\ ~Chain
  /\ run' = [run EXCEPT ![f].at = "executing"]
  /\ owner' = f /\ latest' = f /\ lease' = None
  /\ grant' = [grant EXCEPT !.at = IF @ = "live" THEN "spent" ELSE @] /\ halted' = FALSE
  /\ UNCHANGED <<queue, gate, attempt, task, sent, doubt>>

ForeignRefused(f) ==
  /\ lease = f /\ lease' = None
  /\ UNCHANGED <<queue, gate, run, owner, latest, grant, attempt, task, history>>

----------------------------------------------------------------------------
(* The dispatch of a claimed prompt. *)

Predecessor(p) == IF attempt.at = "published" THEN p ELSE attempt.pred

\* checkSubmission, apart from the stage: the same lease, the same lifecycle, and
\* a predecessor that is released and was not stopped, unless the user resumed.
MaySubmit(p) ==
  /\ gate = "open" /\ ~Barrier
  /\ latest = Predecessor(p)
  /\ attempt.pred # None =>
       /\ owner # attempt.pred
       /\ ~run[attempt.pred].cancelling
       /\ attempt.basis # "user-resume" => ~run[attempt.pred].stop
       /\ attempt.basis = "user-resume" => Settled(attempt.pred)
  /\ IF owner = None THEN lease = p
                     ELSE owner = p /\ ~run[p].stop /\ ~run[p].cancelling

\* install: the claim is linked, the run owns the conversation and its lifecycle
\* is recorded and published, in one synchronous stretch.
Install(p) ==
  /\ attempt.prompt = p /\ attempt.at = "preparing"
  /\ owner = None /\ MaySubmit(p) /\ pause = "none" /\ item[p] = "claimed" /\ evidence[p] = "none"
  /\ item' = [item EXCEPT ![p] = "linked"] /\ task' = Stale(task)
  /\ run' = [run EXCEPT ![p].at = "executing"]
  /\ owner' = p /\ latest' = p
  /\ attempt' = [attempt EXCEPT !.at = "published"]
  /\ UNCHANGED <<evidence, pause, last, heirs, resumed, gate, lease, grant, history>>

\* A refusal before that, for whatever reason: without a lifecycle the admission
\* is not proven to have sent nothing (dispatchFinished).
Rejected(p) ==
  /\ attempt.prompt = p /\ attempt.at = "preparing"
  /\ attempt' = [attempt EXCEPT !.at = "refused"] /\ task' = Stale(task)
  /\ \/ /\ gate # "failed" /\ evidence' = [evidence EXCEPT ![p] = "unknown"]
        /\ pause' = "acceptance-unknown" /\ UNCHANGED <<gate, item, last, heirs, resumed>>
     \/ WriteFails
  /\ UNCHANGED <<run, coord, grant, history>>

\* beforeNative.  A durable Stop or Hide, and fresh drift once it is paused for,
\* are certified refusals; any other one fails the run closed.
BeforeNative(p) ==
  /\ run[p].at = "executing" /\ evidence[p] = "none" /\ attempt.prompt = p
  /\ \/ /\ MaySubmit(p) /\ pause = "none"
        /\ evidence' = [evidence EXCEPT ![p] = "attempted"] /\ sent' = sent \cup {p}
        /\ task' = Stale(task)
        /\ UNCHANGED <<item, pause, last, heirs, resumed, gate, run>>
     \/ /\ gate = "open"
        /\ pause \in {"stopped", "hidden"} \/ (MaySubmit(p) /\ pause = "none")
        /\ IF pause = "none" THEN Pauses("drift") ELSE UNCHANGED <<gate, queue>>
        /\ run' = [run EXCEPT ![p].at = "withheld"] /\ task' = Stale(task) /\ UNCHANGED sent
     \/ /\ WriteFails /\ run' = [run EXCEPT ![p].at = "withheld"] /\ UNCHANGED <<sent, task>>
  /\ UNCHANGED <<coord, grant, attempt, doubt, halted>>

\* withheld: the adapter itself finds, before any hand-over, that it will send nothing.
Withholds(p) ==
  /\ run[p].at = "executing" /\ evidence[p] = "none"
  /\ run' = [run EXCEPT ![p].at = "withheld"]
  /\ UNCHANGED <<queue, gate, coord, grant, attempt, task, history>>

\* A report of the adapter, which may come late: after the run has ended and its
\* delivery was recorded as unknown, it does not lift the uncertainty.
Reported(p) ==
  /\ gate # "failed" /\ p \in sent /\ item[p] = "linked" /\ evidence[p] \in {"attempted", "unknown"}
  /\ evidence' = [evidence EXCEPT ![p] = IF @ = "attempted" THEN "submitted" ELSE "late"]
  /\ task' = Stale(task)
  /\ UNCHANGED <<item, pause, last, heirs, resumed, gate, run, coord, grant, attempt, history>>

\* finish of the evidence.  What was withheld is on record before the owner's
\* configuration is compared; a drift found then pauses, which is a write of its own.
Concludes(p) ==
  LET withheld == run[p].at = "withheld" IN
  /\ gate # "failed"
  /\ evidence' = [evidence EXCEPT ![p] = IF withheld THEN "not-submitted" ELSE "unknown"]
  /\ \/ pause' = (IF withheld THEN pause ELSE FirstPause("acceptance-unknown")) /\ UNCHANGED gate
     \/ withheld /\ gate = "open" /\ pause' = "drift" /\ UNCHANGED gate
     \/ withheld /\ gate = "open" /\ pause # "drift" /\ gate' = "failed" /\ UNCHANGED pause
  /\ UNCHANGED <<item, last, heirs, resumed>>

\* The finalizer of a lifecycle: the evidence is concluded, the run settled, and
\* the conversation released unless an interrupt is on its way.
RunEnds(r) ==
  /\ run[r].at \in {"executing", "withheld"}
  /\ \E status \in {"completed", "failed", "interrupted"} :
       /\ run[r].at = "withheld" => status # "completed"
       /\ run' = [run EXCEPT ![r].at = "ended", ![r].status = status]
  /\ IF r \in Prompt /\ evidence[r] \in {"none", "attempted"}
       THEN \/ Concludes(r) /\ task' = Stale(task)
            \/ WriteFails /\ UNCHANGED task
       ELSE UNCHANGED <<queue, gate, task>>
  /\ owner' = IF run[r].cancelling \/ gate' = "failed" THEN owner ELSE None
  /\ UNCHANGED <<lease, latest, grant, attempt, history>>

\* The source is reconciled and the lifecycle done; a failed one keeps its barrier.
RunDone(r) ==
  /\ run[r].at = "ended" /\ gate # "failed"
  /\ run' = [run EXCEPT ![r].at = "done"]
  /\ UNCHANGED <<queue, gate, coord, grant, attempt, task, history>>

CancelEnds(r) ==
  /\ run[r].cancelling /\ run' = [run EXCEPT ![r].cancelling = FALSE]
  /\ owner' = IF owner = r /\ Settled(r) /\ gate # "failed" THEN None ELSE owner
  /\ UNCHANGED <<queue, gate, lease, latest, grant, attempt, task, history>>

----------------------------------------------------------------------------
(* reconsider, without an attempt: from the head to its claim. *)

Select(p) ==
  /\ task.at = "idle" /\ attempt.prompt = None
  /\ gate = "open" /\ pause = "none" /\ ~Unresolved /\ Head(p) /\ Free(None) /\ ~Contradiction
  /\ task' = [NoTask EXCEPT !.at = "preflight", !.prompt = p, !.pred = latest, !.fresh = TRUE]
  /\ UNCHANGED <<queue, gate, run, coord, grant, attempt, history>>

\* What the preflight can answer: a basis to claim on, a pause, or "wait".
Preflights ==
  {"wait", "drift"} \cup
  (IF Revoked.at = "live" THEN {"user-resume"}
   ELSE IF ~CarriesOn THEN {}
   ELSE IF task.pred = None THEN {basis \in {"new-idle-chain"} : last = None}
   ELSE {basis \in {"successful-predecessor"} : Success(task.pred) = "ready"}
        \cup {code \in {"stopped"} : Success(task.pred) = "stopped"}
        \cup {code \in {"failed"} : Success(task.pred) = "unsuccessful"})

Answered(a) == task' = [task EXCEPT !.answer = a]

PreflightAnswers ==
  /\ task.at = "preflight" /\ task.answer = "none"
  /\ \E a \in (IF Revoked = grant THEN Preflights ELSE {"wait"}) : Answered(a)
  /\ grant' = Revoked
  /\ UNCHANGED <<queue, gate, run, coord, attempt, history>>

\* Mutant: a failed claim always gives its lease back.
ClaimReleasesAlways(p, basis) ==
  IF ~(Current /\ Free(None))
    THEN UNCHANGED <<queue, gate, lease, grant, attempt, doubt>>
    ELSE \/ /\ task.pred # None => (IF basis = "user-resume" THEN ConsentHolds
                                    ELSE ~run[task.pred].stop /\ ~run[task.pred].cancelling)
            /\ \/ /\ item' = [item EXCEPT ![p] = "claimed"] /\ heirs' = heirs \cup {p}
                  /\ lease' = p
                  /\ attempt' = [prompt |-> p, basis |-> basis, pred |-> task.pred, at |-> "preparing"]
                  /\ grant' = [grant EXCEPT !.at = IF @ = "live" THEN "spent" ELSE @]
                  /\ UNCHANGED <<evidence, pause, last, resumed, gate, doubt>>
               \/ WriteFails /\ doubt' = p /\ UNCHANGED <<lease, grant, attempt>>
         \/ /\ Pauses("drift") \/ UNCHANGED <<gate, queue>>
            /\ grant' = Revoked /\ UNCHANGED <<lease, attempt, doubt>>

\* reserveAdmission and the claim, in one stretch.  A refused claim gives its
\* lease back; one whose write failed keeps it.
ClaimOf(p, basis) ==
  IF ~(Current /\ Free(None))
    THEN UNCHANGED <<queue, gate, lease, grant, attempt, doubt>>
    ELSE \/ /\ basis = "user-resume" => ConsentHolds
            /\ basis = "new-idle-chain" => task.pred = None
            /\ task.pred # None /\ basis # "user-resume" =>
                 ~run[task.pred].stop /\ ~run[task.pred].cancelling
            /\ lease' = p
            /\ \/ /\ item' = [item EXCEPT ![p] = "claimed"] /\ heirs' = heirs \cup {p}
                  /\ attempt' = [prompt |-> p, basis |-> basis, pred |-> task.pred, at |-> "preparing"]
                  /\ grant' = [grant EXCEPT !.at = IF @ = "live" THEN "spent" ELSE @]
                  /\ UNCHANGED <<evidence, pause, last, resumed, gate, doubt>>
               \/ WriteFails /\ doubt' = p /\ UNCHANGED <<grant, attempt>>
         \/ /\ Pauses("drift") \/ UNCHANGED <<gate, queue>>
            /\ grant' = Revoked /\ UNCHANGED <<lease, attempt, doubt>>

PausesFor(a) ==
  a \in {"stopped", "failed", "drift"} /\ Pauses(a) /\ UNCHANGED <<lease, grant, attempt, doubt>>

\* The task goes on behind the preflight.  Drift is an error, handled outside the
\* reconsideration: it pauses even if the selection is no longer current.
PreflightEnds ==
  /\ task.at = "preflight" /\ task.answer # "none" /\ gate # "closed"
  /\ IF task.answer = "drift"
       THEN task' = NoTask /\ PausesFor("drift")
     ELSE IF ~Current \/ task.answer = "wait"
       THEN task' = NoTask /\ UNCHANGED <<queue, gate, lease, grant, attempt, doubt>>
     ELSE IF task.answer = "successful-predecessor"
       THEN LET r == run[task.pred] IN
            IF r.stop \/ r.cancelling \/ r.status # "completed"
              THEN task' = NoTask /\ PausesFor(IF r.status = "failed" THEN "failed" ELSE "stopped")
              ELSE /\ task' = [task EXCEPT !.at = "success", !.answer = "none"]
                   /\ UNCHANGED <<queue, gate, lease, grant, attempt, doubt>>
     ELSE task' = NoTask /\ (PausesFor(task.answer)
            \/ (task.answer \in {"new-idle-chain", "user-resume"} /\ ClaimOf(task.prompt, task.answer)))
  /\ UNCHANGED <<run, owner, latest, sent, halted>>

\* successfulSettlement of the predecessor, after all other proofs.
SuccessAnswers ==
  /\ task.at = "success" /\ task.answer = "none"
  /\ \E a \in Answers(task.pred) : Answered(a)
  /\ UNCHANGED <<queue, gate, run, coord, grant, attempt, history>>

SuccessEnds ==
  /\ task.at = "success" /\ task.answer # "none" /\ gate # "closed" /\ task' = NoTask
  /\ IF Current /\ task.answer \in {"ready", "stopped", "unsuccessful", "mismatch"}
       THEN \/ task.answer = "ready" /\ ClaimOf(task.prompt, "successful-predecessor")
            \/ task.answer = "stopped" /\ PausesFor("stopped")
            \/ task.answer = "unsuccessful" /\ PausesFor("failed")
            \/ task.answer = "mismatch" /\ PausesFor("drift")
       ELSE UNCHANGED <<queue, gate, lease, grant, attempt, doubt>>
  /\ UNCHANGED <<run, owner, latest, sent, halted>>

----------------------------------------------------------------------------
(* finish: from the end of an attempt to its settlement. *)

Resolved == lease' = None /\ attempt' = NoAttempt

Finished(p) ==
  /\ task.at = "idle" /\ attempt.prompt = p /\ gate = "open"
  /\ attempt.at = "refused" \/ (attempt.at = "published" /\ run[p].at = "done")

\* Mutant: the lease outlives what it was taken for.
ArchiveKeepsLease(p) ==
  /\ Finished(p) /\ evidence[p] = "not-submitted"
  /\ \/ /\ Becomes(p, "withheld", last) /\ pause' = FirstPause("unavailable")
        /\ attempt' = NoAttempt /\ UNCHANGED <<gate, evidence, lease>>
     \/ WriteFails /\ UNCHANGED <<lease, attempt>>
  /\ UNCHANGED <<run, owner, latest, grant, task, history>>

\* What was proven withheld is archived.
Archive(p) ==
  /\ Finished(p) /\ evidence[p] = "not-submitted"
  /\ \/ /\ Becomes(p, "withheld", last) /\ pause' = FirstPause("unavailable") /\ Resolved
        /\ UNCHANGED <<gate, evidence>>
     \/ WriteFails /\ UNCHANGED <<lease, attempt>>
  /\ UNCHANGED <<run, owner, latest, grant, task, history>>

\* Delivery that was never proven blocks the conversation, for reconciliation.
Blocks(p) ==
  /\ Finished(p) /\ attempt.at = "published" /\ evidence[p] = "unknown"
  /\ pause # "acceptance-unknown" /\ Pauses("acceptance-unknown")
  /\ UNCHANGED <<run, coord, grant, attempt, task, history>>

\* A stopped or failed run pauses the chain first; then its success is asked for.
Finish(p) ==
  /\ Finished(p) /\ evidence[p] \in {"submitted", "late"}
  /\ LET stopping == run[p].stop \/ run[p].cancelling \/ run[p].status = "interrupted" IN
     IF (stopping \/ run[p].status = "failed") /\ pause = "none"
       THEN Pauses(IF stopping THEN "stopped" ELSE "failed") ELSE UNCHANGED <<queue, gate>>
  /\ task' = IF owner = None /\ ~Barrier
               THEN [NoTask EXCEPT !.at = "finish", !.prompt = p] ELSE task
  /\ UNCHANGED <<run, coord, grant, attempt, history>>

FinishAnswers ==
  /\ task.at \in {"finish", "again"} /\ task.answer = "none"
  /\ \E a \in Answers(task.prompt) : Answered(a)
  /\ UNCHANGED <<queue, gate, run, coord, grant, attempt, history>>

FinishEnds ==
  /\ task.at = "finish" /\ task.answer # "none" /\ gate # "closed"
  /\ IF task.answer \notin {"ready", "unavailable", "unsettled"} /\ run[task.prompt].status = "completed"
       THEN Pauses(IF task.answer = "mismatch" THEN "drift" ELSE "reconciliation")
       ELSE UNCHANGED <<queue, gate>>
  /\ task' = IF gate' = "failed" THEN NoTask
             ELSE [task EXCEPT !.at = "settlement", !.proved = (task.answer = "ready"), !.answer = "none"]
  /\ UNCHANGED <<run, coord, grant, attempt, history>>

\* Mutant: late delivery evidence is as good as any.
TerminalLate(p) ==
  /\ latest = p /\ Settled(p) /\ ~run[p].cancelling /\ owner = None /\ ~Barrier
  /\ evidence[p] \in {"submitted", "late"} /\ lease = p

\* terminal(): the run has let go of the conversation, nothing else holds it, and
\* its delivery is certain.
Terminal(p) ==
  /\ latest = p /\ Settled(p) /\ ~run[p].cancelling /\ owner = None /\ ~Barrier
  /\ evidence[p] = "submitted" /\ lease = p

\* settlement: an independent proof of the end of exactly this run.
SettlementAnswers ==
  /\ task.at = "settlement" /\ task.answer = "none"
  /\ \E a \in {"wait", "drift"} \cup
       (IF Terminal(task.prompt) /\ (run[task.prompt].status = "completed" => Success(task.prompt) = "ready")
          THEN {"ready"} ELSE {}) : Answered(a)
  /\ UNCHANGED <<queue, gate, run, coord, grant, attempt, history>>

\* The live facts are read a last time, and the record settled.
Settle(p) ==
  /\ IF ~Terminal(p) THEN UNCHANGED <<queue, gate, lease, attempt>>
     ELSE \/ /\ Becomes(p, run[p].status, p) /\ Resolved
             /\ pause' = IF run[p].status = "completed" THEN pause
                         ELSE FirstPause(IF run[p].status = "failed" THEN "failed" ELSE "stopped")
             /\ UNCHANGED <<gate, evidence>>
          \/ WriteFails /\ UNCHANGED <<lease, attempt>>
  /\ task' = NoTask

\* Mutant: the attempt's own lease counts as another admission.
HeldByLease(p) == owner # None \/ Barrier \/ latest # p \/ lease # None

Held(p) == owner # None \/ Barrier \/ latest # p

SettlementEnds ==
  LET p == task.prompt IN
  /\ task.at = "settlement" /\ task.answer # "none" /\ gate = "open"
  /\ IF task.answer = "drift"
       THEN Pauses("drift") /\ task' = NoTask /\ UNCHANGED <<lease, attempt>>
     ELSE IF task.answer = "wait" \/ (run[p].status = "completed" /\ ~task.proved) \/ Held(p)
       THEN task' = NoTask /\ UNCHANGED <<queue, gate, lease, attempt>>
     ELSE IF run[p].status = "completed"
       THEN task' = [task EXCEPT !.at = "again", !.answer = "none"] /\ UNCHANGED <<queue, gate, lease, attempt>>
     ELSE Settle(p)
  /\ UNCHANGED <<run, owner, latest, grant, history>>

\* A completed run must prove its success once more.
AgainEnds ==
  /\ task.at = "again" /\ task.answer # "none" /\ gate = "open"
  /\ IF task.answer # "ready" \/ Held(task.prompt)
       THEN task' = NoTask /\ UNCHANGED <<queue, gate, lease, attempt>>
       ELSE Settle(task.prompt)
  /\ UNCHANGED <<run, owner, latest, grant, history>>

\* observe: a closed scheduler ends every await.
Aborted ==
  /\ gate # "open" /\ task.at # "idle" /\ task' = NoTask
  /\ UNCHANGED <<queue, gate, run, coord, grant, attempt, history>>

Close ==
  /\ gate = "open" /\ gate' = "closed"
  /\ UNCHANGED <<queue, run, coord, grant, attempt, task, history>>

\* Another part of the bridge fails closed.
BridgeFails ==
  /\ gate = "open" /\ gate' = "failed"
  /\ UNCHANGED <<queue, run, coord, grant, attempt, task, history>>

----------------------------------------------------------------------------
(* The specification. *)

Init ==
  /\ item = [p \in Prompt |-> "absent"] /\ evidence = [p \in Prompt |-> "none"]
  /\ pause = "none" /\ last = None /\ heirs = {} /\ resumed = FALSE
  /\ gate = "open"
  /\ run = [r \in Run |-> [at |-> "none", status |-> "running", cancelling |-> FALSE, stop |-> FALSE]]
  /\ owner = None /\ lease = None /\ latest = None
  /\ grant = [at |-> "none", pred |-> None]
  /\ attempt = NoAttempt /\ task = NoTask
  /\ sent = {} /\ doubt = None /\ halted = FALSE

User == Resume \/ Stop \/ Hide \/ \E p \in Prompt : Enqueue(p) \/ Remove(p)

Others == \E f \in Foreign : ForeignReserves(f) \/ ForeignInstalls(f) \/ ForeignRefused(f)

Admission == \E p \in Prompt : Install(p) \/ Rejected(p) \/ BeforeNative(p) \/ Withholds(p) \/ Reported(p)

Lifecycle == \E r \in Run : RunEnds(r) \/ RunDone(r) \/ CancelEnds(r)

Reconsider == PreflightAnswers \/ PreflightEnds \/ SuccessAnswers \/ SuccessEnds
              \/ \E p \in Prompt : Select(p)

Finishing == FinishAnswers \/ FinishEnds \/ SettlementAnswers \/ SettlementEnds \/ AgainEnds
             \/ \E p \in Prompt : Archive(p) \/ Blocks(p) \/ Finish(p)

Next == User \/ Others \/ Admission \/ Lifecycle \/ Reconsider \/ Finishing
        \/ Aborted \/ Close \/ BridgeFails

Spec == Init /\ [][Next]_vars

\* The backstop poll reconsiders every conversation again and again, and each await
\* is answered or bounded by its timeout.  A proof that can be given is not refused
\* for ever, at any of its stages.
Ready(stage) ==
  /\ task.at = stage
  /\ stage = "settlement" => task.proved \/ run[task.prompt].status # "completed"
  /\ FinishAnswers \/ SettlementAnswers
  /\ task'.answer = "ready"

Fairness ==
  /\ WF_vars(Reconsider) /\ WF_vars(Finishing)
  /\ SF_vars(Ready("finish")) /\ SF_vars(Ready("settlement")) /\ SF_vars(Ready("again"))
  /\ WF_vars(\E r \in Run : CancelEnds(r))

FairSpec == Spec /\ Fairness

\* ... and neither is the consent of a user, nor the claim that it permits.
Consented == task.fresh /\ PreflightAnswers /\ task'.answer = "user-resume"
Claimed == PreflightEnds /\ attempt' # attempt

ServeSpec == FairSpec /\ SF_vars(Consented) /\ SF_vars(Claimed)

----------------------------------------------------------------------------
(* Properties. *)

ItemState == {"absent", "waiting", "removed", "claimed", "linked",
              "withheld", "completed", "failed", "interrupted"}
Evidence == {"none", "not-submitted", "attempted", "submitted", "unknown", "late"}
PauseCode == {"none", "stopped", "hidden", "failed", "drift", "acceptance-unknown",
              "reconciliation", "unavailable"}
RunRec == [at : {"none", "executing", "withheld", "ended", "done"},
           status : {"running", "completed", "failed", "interrupted"},
           cancelling : BOOLEAN, stop : BOOLEAN]
GrantRec == [at : {"none", "live", "spent"}, pred : Run \cup {None}]
AttemptRec == [prompt : Prompt \cup {None}, pred : Run \cup {None},
               basis : {"none", "new-idle-chain", "user-resume", "successful-predecessor"},
               at : {"none", "preparing", "published", "refused"}]
TaskRec == [at : {"idle", "preflight", "success", "finish", "settlement", "again"},
            prompt : Prompt \cup {None}, pred : Run \cup {None},
            fresh : BOOLEAN, proved : BOOLEAN,
            answer : {"none", "wait", "drift", "new-idle-chain", "user-resume",
                      "successful-predecessor", "stopped", "failed", "ready", "unproven",
                      "withheld", "unsettled", "unsuccessful", "unavailable", "mismatch"}]

\* Queue, claim, runs, leases, consents and the task keep their shape.
TypeOK ==
  /\ item \in [Prompt -> ItemState] /\ evidence \in [Prompt -> Evidence] /\ pause \in PauseCode
  /\ last \in Prompt \cup {None} /\ heirs \subseteq Prompt /\ resumed \in BOOLEAN
  /\ gate \in {"open", "closed", "failed"} /\ run \in [Run -> RunRec]
  /\ owner \in Run \cup {None} /\ lease \in Run \cup {None} /\ latest \in Run \cup {None}
  /\ grant \in GrantRec /\ attempt \in AttemptRec /\ task \in TaskRec
  /\ sent \subseteq Prompt /\ doubt \in Prompt \cup {None} /\ halted \in BOOLEAN

\* After the user's Stop nothing reaches a harness until the user speaks again,
\* whatever was being prepared, and even if the pause could not be written.
StopHolds == [][halted => sent' = sent]_vars

\* A claim is written several awaits after its head was selected.  What it claims
\* is still the head of a queue that is not paused, and follows the run that is the
\* conversation's last by then: one that was released, and that completed without
\* being stopped unless the user resumed.
FollowsProven(a) ==
  /\ Head(a.prompt) /\ pause = "none" /\ a.pred = latest
  /\ a.pred # None =>
       /\ Settled(a.pred) /\ owner # a.pred /\ ~run[a.pred].cancelling
       /\ a.basis # "user-resume" => run[a.pred].status = "completed" /\ ~run[a.pred].stop

\* Every claim that is written follows what is proved at that moment (reconsider).
PredecessorProved ==
  [][attempt' # attempt /\ attempt'.at = "preparing" => FollowsProven(attempt')]_vars

\* An unresolved claim, or one that may have reached the disk, keeps every other
\* run out of the conversation, to its end.
ClaimExcludes ==
  \A p \in Prompt : item[p] \in {"claimed", "linked"} \/ doubt = p =>
    lease = p /\ owner \in {None, p}

\* ... and a lease is held for nothing else: while the bridge works, no refused
\* claim leaves one behind.
LeaseAccounted ==
  gate # "failed" /\ lease \in Prompt =>
    item[lease] \in {"claimed", "linked"} /\ attempt.prompt = lease

\* What a prompt is settled as is what its run came to, at that very step, several
\* awaits after the run was first looked at: it is released, still the last run of
\* the conversation, not being interrupted, and its delivery was reported in time.
SettledTruthfully ==
  [][\A p \in Prompt :
       item'[p] # item[p] /\ item'[p] \in {"completed", "failed", "interrupted", "withheld"} =>
         /\ item'[p] = "withheld" <=> p \notin sent
         /\ item'[p] # "withheld" =>
              /\ item'[p] = run[p].status /\ evidence[p] = "submitted"
              /\ Settled(p) /\ latest = p /\ owner = None /\ ~run[p].cancelling
              /\ item'[p] = "completed" => ~run[p].stop]_vars

\* A queued run that was delivered and has ended does not stay unresolved in
\* silence: it is settled, or a pause tells the user.
FinishedAttemptEnds ==
  (attempt.prompt # None /\ run[attempt.prompt].at = "done") ~>
    (attempt.prompt = None \/ pause # "none" \/ gate # "open")

\* A withheld prompt is archived with the words that an explicit resume is what the
\* remaining text needs (pending-input-store.ts:311): a live resume is followed by
\* the claim of the head, or by a pause that says why not.
ResumeServesRest ==
  (grant.at = "live" /\ resumed /\ pause = "none" /\ Chain /\ ~Unresolved) ~>
    (Unresolved \/ pause # "none" \/ gate # "open" \/ ~Chain \/ owner # None)

=============================================================================
