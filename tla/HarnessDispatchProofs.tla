----------------------- MODULE HarnessDispatchProofs -----------------------
(***************************************************************************)
(* The evidence and the lifecycle of one dispatch: nothing that was sent   *)
(* is recorded as withheld, evidence only grows, and the settlement proofs *)
(* are true when they are given.                                           *)
(*                                                                         *)
(* The inductive invariant has two halves.  Boundary relates the phase of  *)
(* the evidence to what happened at the harness, to the snapshot and to    *)
(* the record.  Flow relates the progress of the lifecycle to ownership,   *)
(* barrier and reconciliation.  They meet in one fact: a lifecycle that is *)
(* not healthy lives in a bridge that failed closed, where nothing is      *)
(* written, released or admitted any more.                                 *)
(***************************************************************************)
EXTENDS HarnessDispatch, TLAPS

Open == {Attempted, Unknown, Submitted("unknown"), Submitted("accepted")}

Boundary ==
  /\ native # "none" => phase = "possible-native"
  /\ phase = "fresh" => record = Nothing /\ value = NotSubmitted /\ ~finished
  /\ phase = "withheld" => /\ value = NotSubmitted /\ record \in {Nothing, Attempted, NotSubmitted}
                           /\ healthy /\ ~finished => record = Nothing
  /\ phase = "unconfirmed" => record \in {Nothing, Unknown} /\ value = Unknown /\ finished
  /\ phase = "possible-native" => value \in Open /\ record \in Open
  /\ healthy /\ (finished \/ phase = "possible-native") => record = value
  /\ healthy /\ finished => value # Attempted
  /\ value.submission = "submitted" => native # "none"
  /\ ~healthy => retained

Early == at \in {"deferred", "executing", "terminating"}

Flow ==
  /\ Early => owner = "installed" /\ ~barrier /\ ~finished
  /\ at = "reconciling" => barrier
  /\ at = "reconciling" => (order = "before-release" <=> owner = "installed")
  /\ ~Early => finished \/ ~healthy
  /\ processed <=> at \in {"proving", "done"}
  /\ processed => owner # "installed"
  /\ owner = "settled" => cancelling \/ retained
  /\ reconciled => processed /\ ~barrier
  /\ processed /\ ~reconciled => retained
  /\ other => reconciled
  /\ status = "completed" => native # "none"
  /\ asked # {} => reconciled

IInv == TypeOK /\ Boundary /\ Flow

\* The evidence values, field by field.
LEMMA Facts ==
  /\ Nothing.submission = "none" /\ NotSubmitted.submission = "not-submitted"
  /\ Attempted.submission = "attempted" /\ Unknown.submission = "unknown"
  /\ Submitted("unknown").submission = "submitted" /\ Submitted("accepted").submission = "submitted"
  /\ Nothing.acceptance = "none" /\ NotSubmitted.acceptance = "not-accepted"
  /\ Attempted.acceptance = "unknown" /\ Unknown.acceptance = "unknown"
  /\ Submitted("unknown").acceptance = "unknown" /\ Submitted("accepted").acceptance = "accepted"
  /\ Open = {Attempted, Unknown, Submitted("unknown"), Submitted("accepted")}
  /\ Evidence = Open \cup {NotSubmitted}
BY DEF Nothing, NotSubmitted, Attempted, Unknown, Submitted, Open, Evidence

\* A lifecycle that was just installed satisfies the invariant.
THEOREM IInvInit == Init => IInv
BY Facts DEF Init, IInv, TypeOK, Boundary, Flow, Early

\* The merge of a report beyond the boundary stays there, and loses nothing.
LEMMA MergedOpen ==
  ASSUME NEW s \in {"submitted", "unknown"}, NEW a \in {"unknown", "accepted"},
         a = "accepted" => s = "submitted", value \in Open
  PROVE  /\ Merged(s, a) \in Open \ {Attempted}
         /\ Merged(s, a).submission = "submitted" => s = "submitted" \/ value.submission = "submitted"
         /\ value = Unknown => Merged(s, a) \in {Unknown, Submitted("unknown"), Submitted("accepted")}
         /\ value = Submitted("unknown") => Merged(s, a) \in {Submitted("unknown"), Submitted("accepted")}
         /\ value = Submitted("accepted") => Merged(s, a) = Submitted("accepted")
BY DEF Merged, Open, Attempted, Unknown, Submitted

\* What finish() concludes, in the phases it can find.
LEMMA ConclusionOpen ==
  ASSUME Boundary, TypeOK, ~finished
  PROVE  /\ phase = "withheld" => Conclusion = NotSubmitted
         /\ phase = "fresh" => Conclusion = Unknown
         /\ phase = "possible-native" =>
              /\ Conclusion \in Open \ {Attempted}
              /\ Conclusion.submission = "submitted" => value.submission = "submitted"
              /\ value # Attempted => Conclusion = value
              /\ value = Attempted => Conclusion = Unknown
         /\ phase # "unconfirmed"
BY Facts DEF Boundary, TypeOK, Conclusion

\* The evidence half of the finalizer, in every one of its outcomes.
LEMMA FinalizeBoundary ==
  ASSUME TypeOK, Boundary, ~finished, UNCHANGED native,
         Finish \/ (FailClosed /\ UNCHANGED <<evidence, record>>)
  PROVE  /\ Boundary' /\ (finished' \/ ~healthy')
         /\ value' \in Evidence /\ record' \in Evidence \cup {Nothing}
         /\ phase' \in {"fresh", "possible-native", "withheld", "unconfirmed"}
         /\ finished' \in BOOLEAN /\ seen' \in BOOLEAN /\ refused' \in BOOLEAN
         /\ healthy' \in BOOLEAN /\ retained' \in BOOLEAN
         /\ (retained => retained') /\ (native # "none" => record'.submission \in
                                          {"attempted", "submitted", "unknown"})
<1>1. CASE FailClosed /\ UNCHANGED <<evidence, record>>
  BY <1>1, Facts DEF TypeOK, Boundary, FailClosed, evidence
<1>2. CASE Finish
  <2>1. CASE phase = "withheld"
    BY <1>2, <2>1, ConclusionOpen, Facts DEF Finish, Recorded, Unrecorded, FailClosed, TypeOK, Boundary
  <2>2. CASE phase = "fresh"
    BY <1>2, <2>2, ConclusionOpen, Facts DEF Finish, Recorded, Unrecorded, FailClosed, TypeOK, Boundary
  <2>3. CASE phase = "possible-native"
    BY ZenonT(40), <1>2, <2>3, ConclusionOpen, Facts DEF Finish, Recorded, Unrecorded, FailClosed, TypeOK, Boundary
  <2> QED BY <2>1, <2>2, <2>3, ConclusionOpen DEF TypeOK
<1> QED BY <1>1, <1>2

\* The finalizer keeps the invariant, wherever the execution before it ended.
LEMMA FinalizeKeeps ==
  ASSUME IInv, Early, Finalize, UNCHANGED <<native, order, control, other, readers>>,
         status' \in {"running", "completed", "failed", "interrupted"},
         status' = "completed" => native # "none"
  PROVE  IInv'
<1>1. ~finished /\ owner = "installed" /\ TypeOK /\ Boundary /\ Flow /\ ~processed /\ ~reconciled
  BY DEF IInv, Flow, Early
<1>2. Finish \/ (FailClosed /\ UNCHANGED <<evidence, record>>)
  BY DEF Finalize
<1>3. Boundary' /\ (finished' \/ ~healthy')
  BY <1>1, <1>2, FinalizeBoundary
<1>4. TypeOK'
  <2>1. owner' \in {"installed", "settled", "released"} /\ admitted' \in {"no-answer", "admitted", "unconfirmed"}
    BY <1>1 DEF TypeOK, Finalize, Settled
  <2>2. /\ at' \in {"deferred", "executing", "terminating", "reconciling", "proving", "done"}
        /\ reconciled' \in BOOLEAN /\ processed' \in BOOLEAN /\ barrier' \in BOOLEAN
    BY <1>1, <1>2, FinalizeBoundary DEF TypeOK, Finalize, Processed
  <2> QED BY <2>1, <2>2, <1>1, <1>2, FinalizeBoundary DEF TypeOK, control, readers
<1>5. Flow'
  <2>1. CASE order = "none"
    BY <2>1, <1>1, <1>2, <1>3, FinalizeBoundary DEF Finalize, Processed, Settled, Flow, Early, TypeOK, Boundary, control, readers
  <2>2. CASE order # "none"
    BY <2>2, <1>1, <1>2, <1>3, FinalizeBoundary DEF Finalize, Settled, Flow, Early, TypeOK, Boundary, control, readers
  <2> QED BY <2>1, <2>2
<1> QED BY <1>3, <1>4, <1>5 DEF IInv

\* Every step but the three of the finalizer, one at a time.
THEOREM IInvStep == IInv /\ [Next]_vars => IInv'
<1> SUFFICES ASSUME IInv, [Next]_vars PROVE IInv'
  OBVIOUS
<1> USE DEF IInv
<1>1. CASE BeforeNative
  <2>1. TypeOK'
    <3>1. value' \in Evidence /\ record' \in Evidence \cup {Nothing}
      BY <1>1, Facts DEF BeforeNative, Recorded, Unrecorded, TypeOK
    <3>2. healthy' \in BOOLEAN /\ retained' \in BOOLEAN /\ refused' \in BOOLEAN
      BY <1>1 DEF BeforeNative, Recorded, Unrecorded, FailClosed, TypeOK
    <3>3. native' \in {"none", "sent", "accepted"} /\ phase' \in {"possible-native", "withheld"}
      BY <1>1 DEF BeforeNative, TypeOK
    <3> QED BY <1>1, <3>1, <3>2, <3>3 DEF BeforeNative, TypeOK, flow, control, readers
  <2>2. Boundary'
    BY <1>1, Facts DEF BeforeNative, Recorded, Unrecorded, FailClosed, TypeOK, Boundary
  <2>3. Flow'
    BY <1>1 DEF BeforeNative, Recorded, Unrecorded, FailClosed, TypeOK, Boundary, Flow, Early, flow, control, readers
  <2> QED BY <2>1, <2>2, <2>3
<1>2. CASE Withheld
  BY <1>2, Facts DEF Withheld, TypeOK, Boundary, Flow, Early, flow, control, readers
<1>3. CASE NativeAccepts
  BY <1>3, Facts DEF NativeAccepts, TypeOK, Boundary, Flow, Early, evidence, flow, control, readers
<1>4. ASSUME NEW s \in {"submitted", "unknown"}, NEW a \in {"unknown", "accepted"}, Outcome(s, a)
      PROVE  IInv'
  <2>1. value \in Open /\ (a = "accepted" => s = "submitted")
    BY <1>4 DEF Outcome, Boundary
  <2>2. /\ Merged(s, a) \in Open \ {Attempted} /\ value' = Merged(s, a)
        /\ Merged(s, a).submission = "submitted" => native # "none"
    BY <1>4, <2>1, MergedOpen DEF Outcome, Boundary
  <2>3. TypeOK'
    <3>1. value' \in Evidence /\ record' \in Evidence \cup {Nothing}
      BY <1>4, <2>2, Facts DEF Outcome, Recorded, Unrecorded, TypeOK
    <3>2. healthy' \in BOOLEAN /\ retained' \in BOOLEAN
      BY <1>4 DEF Outcome, Recorded, Unrecorded, FailClosed, TypeOK
    <3> QED BY <1>4, <3>1, <3>2 DEF Outcome, TypeOK, flow, control, readers
  <2>4. Boundary'
    BY <1>4, <2>2, Facts DEF Outcome, Recorded, Unrecorded, FailClosed, TypeOK, Boundary
  <2>5. Flow'
    BY <1>4 DEF Outcome, Recorded, Unrecorded, FailClosed, TypeOK, Boundary, Flow, Early, flow, control, readers
  <2> QED BY <2>3, <2>4, <2>5
<1>5. CASE Start
  BY <1>5, Facts DEF Start, TypeOK, Boundary, Flow, Early, evidence, control, readers
<1>6. CASE Ready
  BY <1>6, Facts DEF Ready, TypeOK, Boundary, Flow, Early, evidence, control, readers
<1>7. CASE ExecutionEnds
  BY <1>7, FinalizeKeeps DEF ExecutionEnds, Early
<1>8. CASE ExecutionFails
  <2>1. TypeOK'
    <3>1. healthy' \in BOOLEAN /\ retained' \in BOOLEAN
      BY <1>8 DEF ExecutionFails, FailClosed, TypeOK
    <3> QED BY <1>8, <3>1 DEF ExecutionFails, TypeOK, evidence, control, readers
  <2>2. Boundary'
    BY <1>8, Facts DEF ExecutionFails, FailClosed, TypeOK, Boundary, evidence
  <2>3. Flow'
    BY <1>8 DEF ExecutionFails, FailClosed, evidence, control, readers, TypeOK, Boundary, Flow, Early
  <2> QED BY <2>1, <2>2, <2>3
<1>9. CASE TerminationEnds
  BY <1>9, FinalizeKeeps DEF TerminationEnds, Early, TypeOK, Flow
<1>10. CASE ReconciliationEnds
  <2>1. PICK ok \in BOOLEAN :
          /\ IF ok THEN ~retained /\ UNCHANGED <<healthy, retained>> ELSE FailClosed
          /\ IF order = "before-release" THEN Settled ELSE UNCHANGED owner
          /\ Processed(ok)
          /\ barrier' = (barrier /\ ~(healthy' /\ ok))
    BY <1>10 DEF ReconciliationEnds
  <2>2. at = "reconciling" /\ UNCHANGED <<evidence, record, native, status, order, admitted, control, other, readers>>
    BY <1>10 DEF ReconciliationEnds
  <2>3. TypeOK'
    <3>1. healthy' \in BOOLEAN /\ retained' \in BOOLEAN
      BY <2>1 DEF FailClosed, TypeOK
    <3>2. owner' \in {"installed", "settled", "released"}
      BY <2>1 DEF Settled, TypeOK
    <3>3. /\ reconciled' \in BOOLEAN /\ processed' \in BOOLEAN /\ barrier' \in BOOLEAN
          /\ at' \in {"proving", "done"}
      BY <2>1, <3>1 DEF Processed, TypeOK
    <3> QED BY <2>2, <3>1, <3>2, <3>3 DEF TypeOK, evidence, control, readers
  <2>4. Boundary'
    BY <2>1, <2>2 DEF FailClosed, TypeOK, Boundary, evidence
  <2>5. Flow'
    <3>1. CASE order = "before-release"
      BY <2>1, <2>2, <3>1 DEF FailClosed, Settled, Processed, TypeOK, Boundary, Flow, Early, evidence, control, readers
    <3>2. CASE order # "before-release"
      <4>1. /\ processed' /\ ~Early' /\ at' \in {"proving", "done"} /\ owner' = owner
            /\ reconciled' = (healthy' /\ ok) /\ (~healthy' => retained') /\ (retained => retained')
        BY <2>1, <2>2, <3>2 DEF FailClosed, Processed, Early, Boundary
      <4>2. ~reconciled' => retained'
        BY <2>1, <2>4, <4>1 DEF FailClosed, Boundary
      <4>3. ~processed /\ ~reconciled /\ ~other /\ asked = {}
        BY <2>2 DEF Flow
      <4>4. owner = "settled" => cancelling \/ retained
        BY DEF Flow
      <4>5. owner # "installed" /\ (finished' \/ ~healthy')
        BY <2>1, <2>2, <3>2 DEF Flow, Early, FailClosed, evidence
      <4> QED BY <2>1, <2>2, <3>2, <4>1, <4>2, <4>3, <4>4, <4>5 DEF TypeOK, Flow, Early, evidence, control, readers, Processed, FailClosed
    <3> QED BY <3>1, <3>2
  <2> QED BY <2>3, <2>4, <2>5
<1>11. CASE Done
  BY <1>11, Facts DEF Done, TypeOK, Boundary, Flow, Early, evidence, control, readers
<1>12. CASE LosesIdentity
  <2>1. TypeOK'
    <3>1. healthy' \in BOOLEAN /\ retained' \in BOOLEAN
      BY <1>12 DEF LosesIdentity, FailClosed, TypeOK
    <3> QED BY <1>12, <3>1 DEF LosesIdentity, TypeOK, evidence, flow, control, readers
  <2>2. Boundary'
    BY <1>12, Facts DEF LosesIdentity, FailClosed, TypeOK, Boundary, evidence
  <2>3. Flow'
    BY <1>12 DEF LosesIdentity, FailClosed, TypeOK, Boundary, Flow, Early, evidence, flow, control, readers
  <2> QED BY <2>1, <2>2, <2>3
<1>13. CASE Cancel
  <2>1. TypeOK'
    <3>1. cancelling' \in BOOLEAN /\ stopRequested' \in BOOLEAN
      BY <1>13 DEF Cancel, TypeOK
    <3> QED BY <1>13, <3>1 DEF Cancel, TypeOK, evidence, flow, readers
  <2>2. Boundary'
    BY <1>13, Facts DEF Cancel, TypeOK, Boundary, evidence
  <2>3. Flow'
    BY <1>13 DEF Cancel, TypeOK, Boundary, Flow, Early, evidence, flow, readers
  <2> QED BY <2>1, <2>2, <2>3
<1>14. CASE CancelEnds
  <2>1. TypeOK'
    <3>1. cancelling' \in BOOLEAN /\ owner' \in {"installed", "settled", "released"}
      BY <1>14 DEF CancelEnds, TypeOK
    <3> QED BY <1>14, <3>1 DEF CancelEnds, TypeOK, evidence, readers
  <2>2. Boundary'
    BY <1>14, Facts DEF CancelEnds, TypeOK, Boundary, evidence
  <2>3. Flow'
    BY <1>14 DEF CancelEnds, evidence, readers, TypeOK, Boundary, Flow, Early
  <2> QED BY <2>1, <2>2, <2>3
<1>15. CASE OtherRuns
  <2>1. TypeOK'
    BY <1>15 DEF OtherRuns, TypeOK, evidence, flow, control, readers
  <2>2. Boundary'
    BY <1>15, Facts DEF OtherRuns, TypeOK, Boundary, evidence
  <2>3. Flow'
    BY <1>15 DEF OtherRuns, evidence, flow, control, readers, TypeOK, Boundary, Flow, Early
  <2> QED BY <2>1, <2>2, <2>3
<1>16. CASE OtherEnds
  <2>1. TypeOK'
    <3>1. other' \in BOOLEAN
      BY <1>16 DEF OtherEnds, TypeOK
    <3> QED BY <1>16, <3>1 DEF OtherEnds, TypeOK, evidence, flow, control, readers
  <2>2. Boundary'
    BY <1>16, Facts DEF OtherEnds, TypeOK, Boundary, evidence
  <2>3. Flow'
    BY <1>16 DEF OtherEnds, evidence, flow, control, readers, TypeOK, Boundary, Flow, Early
  <2> QED BY <2>1, <2>2, <2>3
<1>17. CASE BridgeFails
  BY <1>17, Facts DEF BridgeFails, TypeOK, Boundary, Flow, Early, evidence, flow, control, readers
<1>18. ASSUME NEW p \in {"success", "released"}, Ask(p) PROVE IInv'
  BY <1>18, Facts DEF Ask, Gate, SuccessGate, ReleasedGate, TypeOK, Boundary, Flow, Early, evidence, flow, control
<1>19. ASSUME NEW p \in {"success", "released"}, Prove(p) PROVE IInv'
  BY <1>19, Facts DEF Prove, TypeOK, Boundary, Flow, Early, evidence, flow, control
<1>20. CASE UNCHANGED vars
  BY <1>20, Facts DEF vars, TypeOK, Boundary, Flow, Early
<1> QED
  BY <1>1, <1>2, <1>3, <1>4, <1>5, <1>6, <1>7, <1>8, <1>9, <1>10, <1>11, <1>12, <1>13, <1>14, <1>15,
     <1>16, <1>17, <1>18, <1>19, <1>20 DEF Next, Reports, Lifecycle, Bridge

\* Everything the invariant says holds of every execution.
THEOREM Invariance == Spec => []IInv
BY IInvInit, IInvStep, PTL DEF Spec

\* The state keeps its shape.
THEOREM TypeCorrect == Spec => []TypeOK
BY Invariance, PTL DEF IInv

\* What reached the harness is never on record as withheld.
THEOREM NeverSentUnrecorded == Spec => []SentIsRecorded
<1>1. IInv => SentIsRecorded
  BY Facts DEF IInv, Boundary, SentIsRecorded
<1> QED BY <1>1, Invariance, PTL

\* Healthy processing ends with evidence that its owner has as well.
THEOREM ConcludedEvidence == Spec => []HealthyIsConcluded
<1>1. IInv => HealthyIsConcluded
  <2> SUFFICES ASSUME IInv, processed, healthy
               PROVE  record = value /\ record.submission \in {"not-submitted", "submitted", "unknown"}
    BY DEF HealthyIsConcluded
  <2>1. finished /\ record = value /\ value # Attempted /\ value \in Evidence
    BY DEF IInv, TypeOK, Boundary, Flow, Early
  <2> QED BY <2>1, Facts
<1> QED BY <1>1, Invariance, PTL

\* No other run comes before the reconciliation of this one.
THEOREM ReconciledFirst == Spec => []ReconciledBeforeNext
<1>1. IInv => ReconciledBeforeNext
  BY DEF IInv, Flow, ReconciledBeforeNext
<1> QED BY <1>1, Invariance, PTL

\* The finalizer and the end of an interrupt release the conversation between them.
THEOREM ReleasedInTheEnd == Spec => []NothingKeptForever
<1>1. IInv => NothingKeptForever
  BY DEF IInv, TypeOK, Flow, NothingKeptForever
<1> QED BY <1>1, Invariance, PTL

\* Evidence is never taken back, by no report, refusal, failed write or finish.
THEOREM EvidenceOnlyGrows == Spec => EvidenceGrows
<1> DEFINE Grows == record' # record => /\ Rank(record) < Rank(record')
                                        /\ record'.submission = "not-submitted" => record = Nothing
<1>1. IInv /\ [Next]_vars => [Grows]_vars
  <2> SUFFICES ASSUME IInv, Next, record' # record PROVE Grows
    OBVIOUS
  <2>1. CASE BeforeNative
    <3>1. record = Nothing /\ record' = Attempted
      BY <2>1 DEF BeforeNative, Recorded, Unrecorded, IInv, Boundary
    <3> QED BY <3>1, Facts DEF Rank
  <2>2. ASSUME NEW s \in {"submitted", "unknown"}, NEW a \in {"unknown", "accepted"}, Outcome(s, a)
        PROVE  Grows
    <3>1. record' = Merged(s, a) /\ record = value /\ value \in Open /\ (a = "accepted" => s = "submitted")
      BY <2>2 DEF Outcome, Recorded, Unrecorded, IInv, Boundary
    <3>2. /\ record' \in Open \ {Attempted}
          /\ record = Unknown => record' \in {Unknown, Submitted("unknown"), Submitted("accepted")}
          /\ record = Submitted("unknown") => record' \in {Submitted("unknown"), Submitted("accepted")}
          /\ record = Submitted("accepted") => record' = Submitted("accepted")
      BY <3>1, MergedOpen
    <3> QED BY <3>1, <3>2, Facts DEF Rank
  <2>3. CASE ExecutionEnds \/ TerminationEnds
    <3>1. ~finished /\ (Finish \/ (FailClosed /\ UNCHANGED <<evidence, record>>))
      BY <2>3 DEF ExecutionEnds, TerminationEnds, Finalize, IInv, Flow, Early
    <3>2. Finish /\ record' = Conclusion /\ healthy
      BY <3>1 DEF Finish, Recorded, Unrecorded, IInv, Boundary
    <3>3. CASE phase = "withheld"
      <4>1. record = Nothing /\ record' = NotSubmitted
        BY <3>1, <3>2, <3>3, ConclusionOpen DEF IInv, Boundary
      <4> QED BY <4>1, Facts DEF Rank
    <3>4. CASE phase = "fresh"
      <4>1. record = Nothing /\ record' = Unknown
        BY <3>1, <3>2, <3>4, ConclusionOpen DEF IInv, Boundary
      <4> QED BY <4>1, Facts DEF Rank
    <3>5. CASE phase = "possible-native"
      <4>1. record = Attempted /\ record' = Unknown
        BY <3>1, <3>2, <3>5, ConclusionOpen DEF IInv, Boundary
      <4> QED BY <4>1, Facts DEF Rank
    <3> QED BY <3>1, <3>3, <3>4, <3>5, ConclusionOpen DEF IInv, TypeOK
  <2> QED BY <2>1, <2>2, <2>3 DEF Next, Reports, Lifecycle, Bridge, Withheld, NativeAccepts, Start, Ready,
        ExecutionFails, ReconciliationEnds, Done, LosesIdentity, Cancel, CancelEnds, OtherRuns, OtherEnds,
        BridgeFails, Ask, Prove
<1> QED BY <1>1, Invariance, PTL DEF Spec, EvidenceGrows

\* A settlement proof is true when it is given.
THEOREM ProofsAreTrue == Spec => ProofsHold
<1> DEFINE Holds(p) ==
      /\ healthy' /\ ~retained' /\ reconciled' /\ ~barrier' /\ owner' = "released"
      /\ p = "released" => ~other' /\ IF native' = "none" THEN record' = NotSubmitted
                                                          ELSE record'.submission = "submitted"
      /\ p = "success" => native' # "none" /\ record'.submission \in {"submitted", "unknown"}
<1>1. IInv /\ [Next]_vars => [\A p \in proved' \ proved : Holds(p)]_vars
  <2> SUFFICES ASSUME IInv, Next, NEW p \in proved' \ proved PROVE Holds(p)
    OBVIOUS
  <2>1. /\ Prove(p) /\ p \in {"success", "released"} /\ Recheck(p)
        /\ UNCHANGED <<evidence, record, healthy, retained, native, flow, other>>
    BY DEF Next, Reports, Lifecycle, Bridge, BeforeNative, Outcome, Withheld, NativeAccepts, Start, Ready,
        ExecutionEnds, ExecutionFails, TerminationEnds, ReconciliationEnds, Done, LosesIdentity, Cancel,
        CancelEnds, OtherRuns, OtherEnds, BridgeFails, Ask, Prove, readers
  <2>2. p \in asked /\ reconciled /\ ~barrier /\ processed
    BY <2>1 DEF Prove, IInv, Flow
  <2>3. CASE p = "success"
    <3>1. healthy /\ ~retained /\ owner = "released" /\ status = "completed"
      BY <2>1, <2>3 DEF Recheck, Terminal
    <3>2. native # "none" /\ phase = "possible-native" /\ finished /\ record = value
          /\ value \in Open /\ value # Attempted
      BY <2>2, <3>1 DEF IInv, Boundary, Flow, Early
    <3>3. record.submission \in {"submitted", "unknown"}
      BY <3>2, Facts
    <3> QED BY <2>1, <2>2, <2>3, <3>1, <3>2, <3>3 DEF flow
  <2>4. CASE p = "released"
    <3>1. ReleasedGate
      BY <2>1, <2>4 DEF Recheck
    <3>2. healthy /\ ~retained /\ owner = "released" /\ ~other /\ finished /\ record = value
      BY <2>2, <3>1 DEF ReleasedGate, IInv, Boundary, Flow, Early
    <3>3. IF native = "none" THEN record = NotSubmitted ELSE record.submission = "submitted"
      BY <3>1, <3>2, Facts DEF ReleasedGate, Withholding, IInv, Boundary
    <3> QED BY <2>1, <2>2, <2>4, <3>2, <3>3 DEF flow
  <2> QED BY <2>1, <2>3, <2>4
<1> QED BY <1>1, Invariance, PTL DEF Spec, ProofsHold

=============================================================================
