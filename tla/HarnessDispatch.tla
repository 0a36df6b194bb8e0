-------------------------- MODULE HarnessDispatch --------------------------
(***************************************************************************)
(* One dispatch of a prompt to a harness: the evidence it gathers about    *)
(* whether native execution may have begun (dispatch-evidence.ts) and the  *)
(* lifecycle around it (startDispatchLifecycle of harness-dispatch.ts), up *)
(* to the proofs of settlement it hands out.                               *)
(*                                                                         *)
(* The finalizer of the lifecycle is one synchronous stretch between two   *)
(* awaits, so it is one action per stretch.  What interleaves with it: the *)
(* harness and its late reports, an interrupt, another run admitted to the *)
(* conversation, failures anywhere in the bridge, and the readers of the   *)
(* two settlement proofs, who await in the middle of them.                 *)
(*                                                                         *)
(* The hooks are the durable record of the prompt's owner (the prompt      *)
(* queue, or a run journal).  A hook that fails may have written; once     *)
(* the bridge has failed closed its fence refuses every further write.     *)
(***************************************************************************)
EXTENDS Naturals

VARIABLES
  phase,      \* state: the native boundary
  finished,   \* finish() was called
  seen,       \* withholdingObserved
  refused,    \* refusal: the certified refusal of the intent hook
  value,      \* value: the evidence snapshot
  record,     \* the evidence as the hooks' owner has it on disk
  healthy,    \* healthy
  retained,   \* the bridge failed closed: storageFailed and retainOwner
  native,     \* what really happened at the harness
  status,     \* owner.run.status
  at,         \* how far the lifecycle is
  order,      \* hooks.reconciliation?.order
  barrier,    \* the completion barrier stands in the conversation
  reconciled, processed,  \* reconciled and processingFinished
  admitted,   \* what ready() answered
  owner,      \* this run's ownership of the conversation
  cancelling, stopRequested,
  other,      \* another run owns the conversation
  asked,      \* settlement proofs that wait for their native I/O
  proved      \* settlement proofs that were granted

evidence == <<phase, finished, seen, refused, value>>
flow == <<status, at, barrier, reconciled, processed, admitted, owner>>
control == <<cancelling, stopRequested>>
readers == <<asked, proved>>
vars == <<phase, finished, seen, refused, value, record, healthy, retained, native, status, at,
          order, barrier, reconciled, processed, admitted, owner, cancelling, stopRequested,
          other, asked, proved>>

Nothing == [submission |-> "none", acceptance |-> "none"]
NotSubmitted == [submission |-> "not-submitted", acceptance |-> "not-accepted"]
Attempted == [submission |-> "attempted", acceptance |-> "unknown"]
Unknown == [submission |-> "unknown", acceptance |-> "unknown"]
Submitted(acc) == [submission |-> "submitted", acceptance |-> acc]

Evidence == {NotSubmitted, Attempted, Unknown} \cup {Submitted(a) : a \in {"unknown", "accepted"}}

\* The lifecycle fails closed, and the bridge with it.
FailClosed == healthy' = FALSE /\ retained' = TRUE

\* hooks.outcome: a failure may have reached the disk, but not past the fence.
Recorded(v) == ~retained /\ record' = v /\ UNCHANGED <<healthy, retained>>
Unrecorded(v) == record' \in (IF retained THEN {record} ELSE {record, v}) /\ FailClosed

----------------------------------------------------------------------------
(* The evidence of one lifecycle. *)

\* beforeNative: the durable intent, and the send right behind it in the same
\* turn, unless a last guard withholds it.
BeforeNative ==
  /\ at # "deferred" /\ healthy
  /\ phase = "fresh" /\ ~finished
  /\ \/ /\ Recorded(Attempted) /\ phase' = "possible-native" /\ value' = Attempted
        /\ native' \in {"none", "sent"} /\ UNCHANGED refused
     \/ /\ phase' = "withheld" /\ refused' = TRUE
        /\ UNCHANGED <<value, record, healthy, retained, native>>
     \/ /\ Unrecorded(Attempted) /\ phase' = "withheld"
        /\ UNCHANGED <<refused, value, native>>
  /\ UNCHANGED <<finished, seen, flow, order, control, other, readers>>

\* Unknown is weaker than an established fact and leaves it alone.
Merged(sub, acc) ==
  [submission |-> IF value.submission = "submitted" THEN "submitted" ELSE sub,
   acceptance |-> IF value.acceptance # "unknown" /\ acc = "unknown" THEN value.acceptance ELSE acc]

\* outcome, as the adapters call it beyond the boundary: at any time, even after
\* the lifecycle is done, and only with what really happened.
Outcome(sub, acc) ==
  LET merged == Merged(sub, acc) IN
  /\ phase = "possible-native"
  /\ sub = "submitted" => native # "none"
  /\ acc = "accepted" => sub = "submitted" /\ native = "accepted"
  /\ ~(sub = "unknown" /\ value.submission = "submitted" /\ merged.acceptance = value.acceptance)
  /\ value' = merged
  /\ Recorded(merged) \/ Unrecorded(merged)
  /\ UNCHANGED <<phase, finished, seen, refused, native, flow, order, control, other, readers>>

\* Mutant: non-submission may be asserted beyond the boundary.
WithheldAnywhere ==
  /\ phase' = "withheld"
  /\ UNCHANGED <<finished, seen, refused, value, record, healthy, retained, native, flow, order,
                 control, other, readers>>

\* withheld: the adapter, or a caller that could not publish the lifecycle,
\* asserts that nothing was sent.
Withheld ==
  /\ phase \in {"fresh", "withheld"} /\ phase' = "withheld"
  /\ UNCHANGED <<finished, seen, refused, value, record, healthy, retained, native, flow, order,
                 control, other, readers>>

\* finish: evidence that is still open is closed with what it can prove.
Conclusion ==
  CASE phase = "withheld" -> NotSubmitted
    [] phase = "fresh" \/ value = Attempted -> Unknown
    [] OTHER -> value

Finish ==
  /\ finished' = TRUE /\ value' = Conclusion
  /\ phase' = IF phase = "fresh" THEN "unconfirmed" ELSE phase
  /\ IF Conclusion = value /\ phase = "possible-native"
       THEN UNCHANGED <<seen, record, healthy, retained>>
       ELSE \/ Recorded(Conclusion) /\ seen' = (phase = "withheld")
            \/ Unrecorded(Conclusion) /\ UNCHANGED seen
  /\ UNCHANGED refused

----------------------------------------------------------------------------
(* The lifecycle. *)

\* The deferred start; a lifecycle that already failed never executes.
Start ==
  /\ at = "deferred" /\ at' = IF healthy THEN "executing" ELSE "terminating"
  /\ UNCHANGED <<evidence, record, healthy, retained, native, status, order, barrier, reconciled,
                 processed, admitted, owner, control, other, readers>>

\* ready(true) of the adapter.
Ready ==
  /\ at = "executing" /\ admitted = "no-answer" /\ admitted' = "admitted"
  /\ UNCHANGED <<evidence, record, healthy, retained, native, status, at, order, barrier,
                 reconciled, processed, owner, control, other, readers>>

\* The settlement of the owner and the request for its release, which an
\* outstanding interrupt or a bridge that failed closed holds back.
Settled == owner' = IF cancelling \/ retained' THEN "settled" ELSE "released"

\* The barrier ends only after a healthy reconciliation, and settlement proofs
\* wait for it; the optional wake asks for one before the lifecycle is done.
Processed(ok) ==
  /\ reconciled' = (healthy' /\ ok) /\ processed' = TRUE
  /\ at' \in {"proving", "done"}

\* Mutant: no barrier for a reconciliation that follows the release.
FinalizeUnbarred ==
  /\ admitted' = IF admitted = "no-answer" THEN "unconfirmed" ELSE admitted
  /\ Finish \/ (FailClosed /\ UNCHANGED <<evidence, record>>)
  /\ barrier' = (order = "before-release")
  /\ IF order = "before-release" THEN UNCHANGED owner ELSE Settled
  /\ IF order = "none" THEN Processed(TRUE)
                       ELSE at' = "reconciling" /\ UNCHANGED <<reconciled, processed>>

\* The finalizer up to its first await.  The identity check before finish()
\* may fail, and finish() is then skipped.  The barrier is never refused: the run
\* still owns its conversation, and an owned conversation has no other barrier.
Finalize ==
  /\ admitted' = IF admitted = "no-answer" THEN "unconfirmed" ELSE admitted
  /\ Finish \/ (FailClosed /\ UNCHANGED <<evidence, record>>)
  /\ barrier' = (order # "none")
  /\ IF order = "before-release" THEN UNCHANGED owner ELSE Settled
  /\ IF order = "none" THEN Processed(TRUE)
                       ELSE at' = "reconciling" /\ UNCHANGED <<reconciled, processed>>

\* execute() resolves, or rejects with the refusal this lifecycle certified.
ExecutionEnds ==
  /\ at = "executing"
  /\ status' \in {"running", "completed", "failed", "interrupted"}
  /\ status' = "completed" => native # "none"
  /\ Finalize
  /\ UNCHANGED <<native, order, control, other, readers>>

\* Any other rejection fails closed and awaits the termination of the run.
ExecutionFails ==
  /\ at = "executing" /\ at' = "terminating"
  /\ status' \in {"running", "failed", "interrupted"} /\ FailClosed
  /\ UNCHANGED <<evidence, record, native, order, barrier, reconciled, processed, admitted, owner,
                 control, other, readers>>

TerminationEnds ==
  /\ at = "terminating" /\ Finalize
  /\ UNCHANGED <<status, native, order, control, other, readers>>

\* The source reconciliation ends; it fails in a bridge that failed closed.
ReconciliationEnds ==
  /\ at = "reconciling"
  /\ \E ok \in BOOLEAN :
       /\ IF ok THEN ~retained /\ UNCHANGED <<healthy, retained>> ELSE FailClosed
       /\ IF order = "before-release" THEN Settled ELSE UNCHANGED owner
       /\ Processed(ok)
       /\ barrier' = (barrier /\ ~(healthy' /\ ok))
  /\ UNCHANGED <<evidence, record, native, status, order, admitted, control, other, readers>>

\* finished.resolve(), after the optional wake.
Done ==
  /\ at = "proving" /\ at' = "done"
  /\ UNCHANGED <<evidence, record, healthy, retained, native, status, order, barrier, reconciled,
                 processed, admitted, owner, control, other, readers>>

\* An identity check finds the installed run changed, at any of its many places.
LosesIdentity ==
  /\ healthy /\ FailClosed
  /\ UNCHANGED <<evidence, record, native, flow, order, control, other, readers>>

----------------------------------------------------------------------------
(* Settlement proofs. *)

Terminal ==
  /\ owner = "released" /\ ~cancelling /\ ~stopRequested /\ ~retained /\ status = "completed"

SuccessGate ==
  /\ healthy /\ ~refused /\ ~seen /\ reconciled /\ admitted = "admitted" /\ Terminal

Withholding == phase = "withheld" /\ value = NotSubmitted

\* releasedGate: the current owner, barrier and bridge, and decided evidence.  A
\* queued prompt also wants the withholding observed, which processed and healthy imply.
ReleasedGate ==
  /\ healthy /\ processed /\ reconciled /\ owner = "released" /\ ~other
  /\ ~retained /\ ~cancelling /\ ~barrier
  /\ Withholding \/ (/\ admitted = "admitted" /\ value.submission = "submitted"
                     /\ status \in {"completed", "failed", "interrupted"})

Gate(p) == IF p = "success" THEN SuccessGate ELSE ReleasedGate

\* The gate is passed once before the native proof is awaited ...
Ask(p) ==
  /\ p \notin asked /\ Gate(p) /\ asked' = asked \cup {p}
  /\ UNCHANGED <<evidence, record, healthy, retained, native, flow, order, control, other, proved>>

\* Mutant: the gate passed before the await is taken as still open.
RecheckCached(p) == TRUE

\* ... and the live facts are read again behind it.
Recheck(p) == IF p = "success" THEN healthy /\ Terminal ELSE ReleasedGate

Prove(p) ==
  /\ p \in asked /\ asked' = asked \ {p}
  /\ proved' = IF Recheck(p) THEN proved \cup {p} ELSE proved
  /\ UNCHANGED <<evidence, record, healthy, retained, native, flow, order, control, other>>

----------------------------------------------------------------------------
(* The harness and the rest of the bridge. *)

NativeAccepts ==
  /\ native = "sent" /\ native' = "accepted"
  /\ UNCHANGED <<evidence, record, healthy, retained, flow, order, control, other, readers>>

\* requestRunCancellation, of a run that still owns its conversation ...
Cancel ==
  /\ owner # "released" /\ ~cancelling
  /\ cancelling' = TRUE /\ stopRequested' = TRUE
  /\ UNCHANGED <<evidence, record, healthy, retained, native, flow, order, other, readers>>

\* Mutant: the end of an interrupt leaves the owner alone.
CancelEndsAlone ==
  /\ cancelling /\ cancelling' = FALSE
  /\ UNCHANGED <<evidence, record, healthy, retained, native, flow, order, stopRequested, other,
                 readers>>

\* ... and its end, which asks for the release again.
CancelEnds ==
  /\ cancelling /\ cancelling' = FALSE
  /\ owner' = IF owner = "settled" /\ ~retained THEN "released" ELSE owner
  /\ UNCHANGED <<evidence, record, healthy, retained, native, status, at, order, barrier, reconciled,
                 processed, admitted, stopRequested, other, readers>>

\* The coordinator admits another run.
OtherRuns ==
  /\ owner = "released" /\ ~barrier /\ ~retained /\ ~other /\ other' = TRUE
  /\ UNCHANGED <<evidence, record, healthy, retained, native, flow, order, control, readers>>

OtherEnds ==
  /\ other /\ other' = FALSE
  /\ UNCHANGED <<evidence, record, healthy, retained, native, flow, order, control, readers>>

\* Another part of the bridge fails closed.
BridgeFails ==
  /\ ~retained /\ retained' = TRUE
  /\ UNCHANGED <<evidence, record, healthy, native, flow, order, control, other, readers>>

Init ==
  /\ phase = "fresh" /\ finished = FALSE /\ seen = FALSE /\ refused = FALSE
  /\ value = NotSubmitted /\ record = Nothing
  /\ healthy = TRUE /\ retained = FALSE /\ native = "none"
  /\ status = "running" /\ at = "deferred" /\ order \in {"none", "before-release", "after-release"}
  /\ barrier = FALSE /\ reconciled = FALSE /\ processed = FALSE /\ admitted = "no-answer"
  /\ owner = "installed" /\ cancelling = FALSE /\ stopRequested = FALSE
  /\ other = FALSE /\ asked = {} /\ proved = {}

Reports == BeforeNative \/ Withheld \/ NativeAccepts
             \/ \E s \in {"submitted", "unknown"}, a \in {"unknown", "accepted"} : Outcome(s, a)

Lifecycle == Start \/ Ready \/ ExecutionEnds \/ ExecutionFails \/ TerminationEnds
               \/ ReconciliationEnds \/ Done \/ LosesIdentity

Bridge == Cancel \/ CancelEnds \/ OtherRuns \/ OtherEnds \/ BridgeFails

Next == Reports \/ Lifecycle \/ Bridge \/ (\E p \in {"success", "released"} : Ask(p) \/ Prove(p))

Spec == Init /\ [][Next]_vars

----------------------------------------------------------------------------
(* Properties. *)

\* The evidence and the lifecycle keep their shape.
TypeOK ==
  /\ phase \in {"fresh", "possible-native", "withheld", "unconfirmed"}
  /\ finished \in BOOLEAN /\ seen \in BOOLEAN /\ refused \in BOOLEAN
  /\ value \in Evidence /\ record \in Evidence \cup {Nothing}
  /\ healthy \in BOOLEAN /\ retained \in BOOLEAN
  /\ native \in {"none", "sent", "accepted"}
  /\ status \in {"running", "completed", "failed", "interrupted"}
  /\ at \in {"deferred", "executing", "terminating", "reconciling", "proving", "done"}
  /\ order \in {"none", "before-release", "after-release"}
  /\ barrier \in BOOLEAN /\ reconciled \in BOOLEAN /\ processed \in BOOLEAN
  /\ admitted \in {"no-answer", "admitted", "unconfirmed"}
  /\ owner \in {"installed", "settled", "released"}
  /\ cancelling \in BOOLEAN /\ stopRequested \in BOOLEAN /\ other \in BOOLEAN
  /\ asked \subseteq {"success", "released"} /\ proved \subseteq {"success", "released"}

\* What reached the harness is on record as possibly delivered: through failed
\* writes, refusals and late reports nothing that was sent is ever recorded as
\* not submitted, which would let the prompt be sent again.
SentIsRecorded == native # "none" => record.submission \in {"attempted", "submitted", "unknown"}

Rank(v) ==
  CASE v = Nothing -> 0 [] v = Attempted -> 1 [] v = Unknown -> 2 [] v = Submitted("unknown") -> 3
    [] OTHER -> 4

\* Evidence on record only becomes more exact, whatever the order of reports: a
\* fact (not submitted, submitted, accepted) is never taken back.
EvidenceGrows == [][record' # record =>
  /\ Rank(record) < Rank(record')
  /\ record'.submission = "not-submitted" => record = Nothing]_vars

\* A lifecycle that has processed everything and is still healthy has told its
\* owner how the submission ended, and both have the same evidence.
HealthyIsConcluded == processed /\ healthy =>
  record = value /\ record.submission \in {"not-submitted", "submitted", "unknown"}

\* No other run enters the conversation before this one's source is reconciled,
\* in either order of reconciliation and release.
ReconciledBeforeNext == other => reconciled /\ ~barrier

\* When the lifecycle is done, only an interrupt on its way or a bridge that
\* failed closed keeps the conversation: the release is never forgotten between
\* the finalizer and the end of an interrupt.
NothingKeptForever == at = "done" /\ ~retained /\ ~cancelling => owner = "released"

\* A proof of settlement holds when it is given, not only when it was asked for:
\* the bridge is still healthy, the run was reconciled, no other run has the
\* conversation (for a release), and the evidence on disk says what happened.
ProofsHold == [][\A p \in proved' \ proved :
  /\ healthy' /\ ~retained' /\ reconciled' /\ ~barrier' /\ owner' = "released"
  /\ p = "released" => ~other' /\ IF native' = "none" THEN record' = NotSubmitted
                                                      ELSE record'.submission = "submitted"
  /\ p = "success" => native' # "none" /\ record'.submission \in {"submitted", "unknown"}]_vars
=============================================================================
