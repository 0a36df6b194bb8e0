------------------------ MODULE PendingInputRecovery ------------------------
(***************************************************************************)
(* What becomes of a claim that an earlier process left unresolved         *)
(* (pending-input-recovery.ts; opencode-run-service.ts                     *)
(* observeRecoveredInput; the originals of bridge.ts: their journals, the  *)
(* terminalize and protocolMismatch writes, startup, Stop and shutdown),   *)
(* all under packages/sane-app/src.                                        *)
(*                                                                         *)
(* One claim.  An observation never submits: it reads the harness, records *)
(* what is proven and settles the claim in four writes (a marker in the    *)
(* run's log, its sync, the run's metadata, the queue), each behind an     *)
(* await.  The process may stop, fail or close between any two of them and *)
(* the next one starts over from what is on disk.                          *)
(***************************************************************************)
EXTENDS Naturals

CONSTANT MaxBoots  \* bound: starts of the process

ASSUME RecoveryAssumption == MaxBoots \in Nat \ {0}

VARIABLES
  proc,     \* down, up, closing, or drained (closing, with its observations closed)
  failed,   \* the bridge's storageFailed
  boots,    \* how often it was started
  barred,   \* meta.reconciliationRequired
  harness,  \* the harness of the claim
  item,     \* the claim in pending-inputs.json
  pause,    \* the durable pause of its conversation
  journal,  \* the log of its run: markers, and whether an append was torn
  run,      \* the status of its run in the metadata, if it is there
  native,   \* what the harness made of the prompt
  drift,    \* source, configuration or context differ from the claim's pins
  fence,    \* stopFences: the user stopped the conversation in this process
  wanted,   \* a Stop that waits for the observation before it
  task      \* the observation in progress

disk == <<item, pause, journal, run, barred>>
outside == <<harness, native, drift>>
latches == <<proc, failed, boots>>
stop == <<fence, wanted>>
vars == <<latches, disk, outside, stop, task>>

Terminal == {"completed", "failed", "interrupted"}
NoMark == [status |-> "none", basis |-> "none"]
NoTask == [at |-> "idle", stop |-> FALSE, seen |-> "none", goal |-> NoMark]

----------------------------------------------------------------------------
(* What an observation is allowed to see. *)

Unresolved == item.at \in {"claimed", "run-linked"}
Withheld == ~item.possible /\ item.evidence = "not-submitted"
Accepted(i) == i.at = "run-linked" /\ i.possible /\ i.evidence = "accepted"

\* Mutant: observations are never closed.
CurrentWhenDrained == ~failed /\ proc # "down" /\ Unresolved /\ ~barred /\ ~drift

\* validate: run again after every await.
Current == ~failed /\ proc \in {"up", "closing"} /\ Unresolved /\ ~barred /\ ~drift

\* ... and with no shutdown under way, available(false).
Live == Current /\ proc = "up"

WithheldStatus == IF harness = "claude-code" THEN "interrupted" ELSE "failed"

Fatal == failed' = TRUE /\ task' = NoTask

Pauses(code) ==
  \/ pause' = code /\ UNCHANGED failed
  \/ pause # code /\ failed' = TRUE /\ pause' \in {pause, code}

FirstPause(code) == IF pause = "none" THEN code ELSE pause

\* A refusal ends the observation; one for drift is left in the queue as a pause.
Refuse ==
  /\ task' = NoTask
  /\ IF Unresolved /\ drift /\ ~barred /\ ~failed /\ proc = "up"
       THEN Pauses("drift") ELSE UNCHANGED <<failed, pause>>

\* The frame of a step of the observation that writes none of the four files.
NoWrite == UNCHANGED <<proc, boots, barred, item, journal, run, outside, fence>>

Go(at) == task' = [task EXCEPT !.at = at]

----------------------------------------------------------------------------
(* From the poll, or a Stop, to an answer of the harness. *)

\* observeOnce: one observation at a time; claims of the other harnesses are looked
\* at only if they were withheld.
Begin(isStop) ==
  /\ task.at = "idle" /\ proc = "up" /\ ~failed /\ Unresolved
  /\ IF isStop THEN wanted ELSE harness = "opencode" \/ Withheld
  /\ wanted' = (wanted /\ ~isStop)
  /\ IF Current THEN task' = [NoTask EXCEPT !.at = "pins", !.stop = isStop] /\ UNCHANGED <<failed, pause>>
                ELSE Refuse
  /\ NoWrite

WithheldMark == [status |-> WithheldStatus, basis |-> "not-submitted"]

\* What the files prove without the harness: that nothing was sent, or how an
\* earlier observation saw it end.
KnownEnd ==
  CASE journal.unsafe -> NoMark
    [] ~journal.unsafe /\ Withheld -> WithheldMark
    [] ~journal.unsafe /\ ~Withheld /\ Accepted(item)
         /\ journal.mark.basis = "exact-native-terminal" -> journal.mark
    [] OTHER -> NoMark

\* The pins of the claim are acquired, and its files read.
PinsAcquired ==
  /\ task.at = "pins" /\ Live
  /\ task' = (IF KnownEnd # NoMark THEN [task EXCEPT !.at = "terminalize", !.goal = KnownEnd]
              ELSE IF harness = "opencode" THEN [task EXCEPT !.at = "reading"] ELSE NoTask)
  /\ UNCHANGED <<failed, pause, wanted>> /\ NoWrite

\* ... or they cannot be at the moment, or the observation has lost its ground.
PinsRefused ==
  /\ task.at = "pins"
  /\ IF Live THEN task' = NoTask /\ UNCHANGED <<failed, pause>> ELSE Refuse
  /\ UNCHANGED wanted /\ NoWrite

\* readCommand: what is true of the prompt when the harness looks, no answer, or
\* one that contradicts the protocol.
ReadAnswers ==
  /\ task.at = "reading" /\ task.seen = "none"
  /\ \E seen \in {native, "unavailable", "contradiction"} :
       task' = [task EXCEPT !.seen = IF seen = "none" THEN "nothing" ELSE seen]
  /\ UNCHANGED <<failed, pause, wanted>> /\ NoWrite

\* Mutant: an input that is gone was interrupted.
OutcomeOfCancelled(seen) == IF seen = "cancelled" THEN "interrupted" ELSE seen

\* The end that an answer reports, if it reports one.
Outcome(seen) == seen

\* An exact receipt of the queue proves acceptance; nothing else does.
Receipt ==
  /\ task.seen = "queued" /\ ~journal.unsafe
  /\ item.at = "run-linked" /\ item.possible /\ item.evidence # "accepted"

\* Mutant: an exact end outweighs a contradiction seen before.
BelievedAgain(i) ==
  CASE task.stop /\ proc = "up" /\ task.seen = "queued" /\ ~journal.unsafe -> Go("cancelling")
    [] Outcome(task.seen) \in Terminal /\ proc = "up" /\ Accepted(i) ->
         task' = [task EXCEPT !.at = "terminalize",
                    !.goal = [status |-> Outcome(task.seen), basis |-> "exact-native-terminal"]]
    [] OTHER -> task' = NoTask

\* Behind an answer that is believed, in one stretch: cancel, terminalize or end.
Believed(i) ==
  CASE task.stop /\ proc = "up" /\ task.seen = "queued" /\ ~journal.unsafe -> Go("cancelling")
    [] Outcome(task.seen) \in Terminal /\ proc = "up" /\ Accepted(i) /\ ~journal.unsafe ->
         task' = [task EXCEPT !.at = "terminalize",
                    !.goal = [status |-> Outcome(task.seen), basis |-> "exact-native-terminal"]]
    [] OTHER -> task' = NoTask

ReadEnds ==
  /\ task.at = "reading" /\ task.seen # "none"
  /\ UNCHANGED <<proc, boots, barred, journal, run, outside, stop>>
  /\ CASE ~Current -> Refuse /\ UNCHANGED item
       [] Current /\ task.seen = "unavailable" -> task' = NoTask /\ UNCHANGED <<item, pause, failed>>
       [] Current /\ task.seen = "contradiction" ->
            (IF journal.unsafe THEN task' = NoTask ELSE Go("marking")) /\ UNCHANGED <<item, pause, failed>>
       [] Current /\ task.seen \notin {"unavailable", "contradiction"} ->
            LET accepted == [item EXCEPT !.evidence = "accepted"] IN
            IF Receipt
              THEN \/ item' = accepted /\ Believed(accepted) /\ UNCHANGED <<pause, failed>>
                   \/ item' \in {item, accepted} /\ Fatal /\ UNCHANGED pause
              ELSE Believed(item) /\ UNCHANGED <<item, pause, failed>>

----------------------------------------------------------------------------
(* A contradiction is written down before anything else; any trouble with  *)
(* that write fails the bridge closed.                                     *)

Marks ==
  /\ task.at = "marking"
  /\ IF Current /\ journal.unsafe THEN task' = NoTask /\ UNCHANGED <<journal, failed>>
     ELSE \/ /\ Current /\ journal.there
             /\ journal' = [journal EXCEPT !.unsafe = TRUE] /\ Go("marked") /\ UNCHANGED failed
          \/ Current /\ journal.there /\ journal' = [journal EXCEPT !.torn = TRUE] /\ Fatal
          \/ ~(Current /\ journal.there) /\ Fatal /\ UNCHANGED journal
  /\ UNCHANGED <<proc, boots, barred, item, pause, run, outside, stop>>

\* The marker is synced, and the observation ends.
Marked ==
  /\ task.at = "marked"
  /\ Fatal \/ (Current /\ task' = NoTask /\ UNCHANGED failed)
  /\ UNCHANGED <<pause, wanted>> /\ NoWrite

----------------------------------------------------------------------------
(* Stop: an input that still waits in the harness is deleted there.        *)

\* Mutant: what was found before the endpoint was resolved is not asked again.
MayCancelOnce == proc = "up"

\* validate(true), at the moment the request is sent.
MayCancel == Live /\ ~journal.unsafe

\* A request that is sent may be answered, contradict the protocol or fail; it may have
\* taken effect whatever comes back.
Cancels ==
  /\ task.at = "cancelling"
  /\ \/ /\ MayCancel
        /\ native' \in {native, IF native = "queued" THEN "cancelled" ELSE native}
        /\ Go("cancelled") \/ Go("marking") \/ task' = NoTask
        /\ UNCHANGED <<failed, pause>>
     \/ /\ ~MayCancel /\ UNCHANGED native
        /\ IF Current THEN task' = NoTask /\ UNCHANGED <<failed, pause>> ELSE Refuse
  /\ UNCHANGED <<proc, boots, barred, item, journal, run, harness, drift, stop>>

\* The answer to a cancellation proves nothing: the command is read again.
CancelReturns ==
  /\ task.at = "cancelled"
  /\ IF MayCancel THEN task' = [NoTask EXCEPT !.at = "reading"] /\ UNCHANGED <<failed, pause>>
     ELSE IF Current THEN task' = NoTask /\ UNCHANGED <<failed, pause>> ELSE Refuse
  /\ UNCHANGED wanted /\ NoWrite

----------------------------------------------------------------------------
(* terminalize, and the settlement behind it.                              *)

\* Mutant: only a run that still runs may be ended.
RunAgreesRunning(goal) == run \in {"none", "running"}

\* The metadata may lag behind the proof, or have it already.
RunAgrees(goal) == run \in {"none", "running", goal.status}

TerminalizeBegins ==
  /\ task.at = "terminalize"
  /\ IF ~Current THEN Refuse
     ELSE IF ~RunAgrees(task.goal) THEN task' = NoTask /\ UNCHANGED <<failed, pause>>
     ELSE /\ UNCHANGED pause
          /\ CASE journal.mark = task.goal -> Go("publishing") /\ UNCHANGED failed
               [] journal.mark \notin {NoMark, task.goal} -> Fatal
               [] journal.mark = NoMark /\ journal.there -> Go("append") /\ UNCHANGED failed
               [] journal.mark = NoMark /\ ~journal.there ->
                    IF run = "none" /\ task.goal.basis = "not-submitted"
                      THEN Go("settling") /\ UNCHANGED failed ELSE Fatal
  /\ UNCHANGED wanted /\ NoWrite

\* The log is open; behind this check the file is examined, which is one await more.
AppendBegins ==
  /\ task.at = "append"
  /\ IF Current THEN Go("appending") /\ UNCHANGED <<failed, pause>> ELSE Refuse
  /\ UNCHANGED wanted /\ NoWrite

Appends ==
  /\ task.at = "appending"
  /\ \/ journal' = [journal EXCEPT !.mark = task.goal] /\ Go("appended") /\ UNCHANGED failed
     \/ journal' = [journal EXCEPT !.torn = TRUE] /\ Fatal
     \/ Fatal /\ UNCHANGED journal
  /\ UNCHANGED <<proc, boots, barred, item, pause, run, outside, stop>>

Appended ==
  /\ task.at = "appended"
  /\ \/ IF Current THEN Go("publishing") /\ UNCHANGED <<failed, pause>> ELSE Refuse
     \/ Current /\ Fatal /\ UNCHANGED pause
  /\ UNCHANGED wanted /\ NoWrite

\* The metadata is replaced as a whole; a failure leaves the old or the new one.
Publishes ==
  /\ task.at = "publishing"
  /\ LET ended == IF run = "running" THEN task.goal.status ELSE run IN
     \/ Current /\ run' = ended /\ Go("settling") /\ UNCHANGED <<failed, pause>>
     \/ Current /\ run # "none" /\ run' \in {run, ended} /\ Fatal /\ UNCHANGED pause
     \/ ~Current /\ Refuse /\ UNCHANGED run
  /\ UNCHANGED <<proc, boots, barred, item, journal, outside, stop>>

\* store.archiveNotSubmitted, or store.settle.
Ending(goal) ==
  [item EXCEPT !.at = "settled",
     !.status = IF goal.basis = "not-submitted" THEN "not-submitted" ELSE goal.status]

PauseAfter(goal) ==
  IF goal.basis = "not-submitted" THEN FirstPause("admission-unavailable")
  ELSE IF goal.status = "completed" THEN pause
  ELSE FirstPause(IF goal.status = "failed" THEN "failed" ELSE "stopped")

Settles ==
  /\ task.at = "settling"
  /\ \/ /\ Current /\ item' = Ending(task.goal) /\ pause' = PauseAfter(task.goal)
        /\ task' = NoTask /\ UNCHANGED failed
     \/ /\ Current /\ Fatal
        /\ \/ UNCHANGED <<item, pause>>
           \/ item' = Ending(task.goal) /\ pause' = PauseAfter(task.goal)
     \/ ~Current /\ Refuse /\ UNCHANGED item
  /\ UNCHANGED <<proc, boots, barred, journal, run, outside, stop>>

----------------------------------------------------------------------------
(* The user and the process. *)

\* The Stop of the user pauses the conversation, which startup did already, and only
\* then asks its original.
Stop ==
  /\ proc = "up" /\ ~failed /\ Unresolved
  /\ pause' = FirstPause("stopped")
  /\ fence' = (fence \/ harness = "opencode") /\ wanted' = (wanted \/ harness = "opencode")
  /\ UNCHANGED <<latches, barred, item, journal, run, outside, task>>

Close ==
  /\ proc = "up" /\ proc' = "closing"
  /\ UNCHANGED <<failed, boots, disk, outside, stop, task>>

\* The bounded drain ends, whether the observation has ended or not.
Drain ==
  /\ proc = "closing" /\ proc' = "drained"
  /\ UNCHANGED <<failed, boots, disk, outside, stop, task>>

\* Another part of the bridge fails closed.
BridgeFails ==
  /\ proc # "down" /\ ~failed /\ failed' = TRUE
  /\ UNCHANGED <<proc, boots, disk, outside, stop, task>>

\* The process ends; an append on its way may leave half a record.
Crash ==
  /\ proc # "down" /\ proc' = "down" /\ failed' = FALSE
  /\ journal' \in {journal, IF task.at \in {"marking", "appending"} /\ journal.there
                              THEN [journal EXCEPT !.torn = TRUE] ELSE journal}
  /\ task' = NoTask /\ fence' = FALSE /\ wanted' = FALSE
  /\ UNCHANGED <<boots, barred, item, pause, run, outside>>

\* Startup: logs of known runs are repaired, runs that cannot be recovered are
\* called interrupted and bar the installation until an operator confirms it, claims
\* become uncertain and their conversation is paused.  Startup refuses a run of the
\* metadata without a log, and a torn log that no metadata names is never repaired.
Start(confirmed) ==
  /\ proc = "down" /\ boots < MaxBoots /\ boots' = boots + 1
  /\ run # "none" => journal.there
  /\ journal.torn => run # "none"
  /\ LET lost == run = "running" /\ harness # "opencode" IN
     /\ run' = IF lost THEN "interrupted" ELSE run
     /\ barred' = (~confirmed /\ (barred \/ lost))
  /\ journal' = [journal EXCEPT !.torn = FALSE]
  /\ pause' \in {FirstPause("restart")} \cup (IF Unresolved THEN {} ELSE {pause})
               \cup (IF Unresolved /\ drift THEN {"drift"} ELSE {})
  /\ proc' = "up"
  /\ UNCHANGED <<failed, item, outside, stop, task>>

----------------------------------------------------------------------------
(* What is outside of the process. *)

\* A prompt may reach the harness late.  Only OpenCode can be asked after a restart;
\* what the others did with a prompt is nobody's to know, and stays out.
NativeMoves ==
  /\ harness = "opencode"
  /\ \/ native = "none" /\ item.possible /\ native' = "queued"
     \/ native = "queued" /\ native' = "running"
     \/ native = "running" /\ native' \in Terminal
  /\ UNCHANGED <<latches, disk, harness, drift, stop, task>>

Drifts ==
  /\ drift' = ~drift
  /\ UNCHANGED <<latches, disk, harness, native, stop, task>>

----------------------------------------------------------------------------
(* The specification. *)

\* What a process can leave behind: a claim before its run was linked, one withheld
\* from the harness, and one that may have been sent.
Left(h) ==
  LET Of(at, possible, evidence) ==
        [at |-> at, possible |-> possible, evidence |-> evidence, status |-> "none"] IN
  [item : {Of("claimed", FALSE, e) : e \in {"none", "unknown"}}, run : {"none"},
   there : {FALSE}, native : {"none"}]
  \cup [item : {Of("run-linked", FALSE, e) : e \in {"none", "unknown", "not-submitted"}},
        run : {"none", "running", "failed", "interrupted"}, there : BOOLEAN, native : {"none"}]
  \cup [item : {Of("run-linked", TRUE, "unknown")}, run : {"running", "failed"}, there : {TRUE},
        native : IF h = "opencode" THEN {"none", "queued", "running", "cancelled"} \cup Terminal
                                   ELSE {"none"}]
  \cup [item : {Of("run-linked", TRUE, "accepted")}, run : {"running"}, there : {TRUE},
        native : IF h = "opencode" THEN {"queued", "running", "cancelled"} \cup Terminal ELSE {"none"}]

Init ==
  /\ harness \in {"opencode", "claude-code", "grok"}
  /\ \E left \in Left(harness) :
       /\ item = left.item /\ run = left.run /\ native = left.native
       /\ journal \in [there : {left.there}, mark : {NoMark}, torn : {FALSE},
                       unsafe : {FALSE, left.item.possible /\ harness = "opencode"}]
  /\ proc = "down" /\ failed = FALSE /\ boots = 0 /\ barred = FALSE
  /\ pause \in {"none", "stopped"} /\ drift = FALSE
  /\ fence = FALSE /\ wanted = FALSE /\ task = NoTask

Observing == PinsAcquired \/ PinsRefused \/ ReadAnswers \/ ReadEnds \/ Marks \/ Marked
             \/ Cancels \/ CancelReturns \/ TerminalizeBegins \/ AppendBegins \/ Appends
             \/ Appended \/ Publishes \/ Settles

Process == Stop \/ Close \/ Drain \/ BridgeFails \/ Crash \/ \E c \in BOOLEAN : Start(c)

Next == Observing \/ (\E s \in BOOLEAN : Begin(s)) \/ Process \/ NativeMoves \/ Drifts

Spec == Init /\ [][Next]_vars

\* The poll looks again every two seconds and every await is bounded; pins that can be
\* acquired and answers that can be had are not withheld for ever.
ReadsTruly == ReadAnswers /\ task'.seen = native

FairSpec ==
  /\ Spec
  /\ WF_vars(Begin(FALSE)) /\ WF_vars(Observing)
  /\ SF_vars(PinsAcquired) /\ SF_vars(ReadsTruly)

----------------------------------------------------------------------------
(* Properties. *)

Phase == {"idle", "pins", "reading", "marking", "marked", "cancelling", "cancelled",
          "terminalize", "append", "appending", "appended", "publishing", "settling"}
PauseCode == {"none", "stopped", "restart", "drift", "failed", "admission-unavailable"}
Native == {"none", "queued", "running", "cancelled"} \cup Terminal
MarkRec == [status : {"none"} \cup Terminal,
            basis : {"none", "not-submitted", "exact-native-terminal"}]
ItemRec == [at : {"claimed", "run-linked", "settled"}, possible : BOOLEAN,
            evidence : {"none", "unknown", "not-submitted", "accepted"},
            status : {"none", "not-submitted"} \cup Terminal]
JournalRec == [there : BOOLEAN, torn : BOOLEAN, unsafe : BOOLEAN, mark : MarkRec]
TaskRec == [at : Phase, stop : BOOLEAN, goal : MarkRec,
            seen : Native \cup {"nothing", "unavailable", "contradiction"}]

\* The claim, its files, its harness and the observation keep their shape.
TypeOK ==
  /\ proc \in {"down", "up", "closing", "drained"} /\ failed \in BOOLEAN
  /\ boots \in 0 .. MaxBoots /\ barred \in BOOLEAN
  /\ harness \in {"opencode", "claude-code", "grok"}
  /\ item \in ItemRec /\ pause \in PauseCode /\ journal \in JournalRec
  /\ run \in {"none", "running"} \cup Terminal /\ native \in Native
  /\ drift \in BOOLEAN /\ fence \in BOOLEAN /\ wanted \in BOOLEAN
  /\ task \in TaskRec

\* However many processes worked on it, a settled claim tells how the harness really
\* ended what it had accepted, or that nothing was ever sent, and neither the
\* metadata nor the log of the run says anything else.
SettledTruly ==
  item.at = "settled" =>
    /\ IF item.status = "not-submitted" THEN native = "none" /\ ~item.possible
                                        ELSE native = item.status /\ item.evidence = "accepted"
    /\ run # "running"
    /\ item.status # "not-submitted" =>
         run \in {"none", item.status}
         /\ journal.mark = [status |-> item.status, basis |-> "exact-native-terminal"]

\* Once a contradiction of the protocol is in the log nothing resolves the claim or
\* acts on the harness, in this process or a later one: that is for an operator.
UnsafeIsFinal ==
  [][journal.unsafe => item' = item /\ (native' = "cancelled" => native = "cancelled")]_vars

\* A prompt that waits in the harness is deleted there only for a Stop of this
\* process's user, while the process is neither closing nor failed and the claim
\* is as it was pinned, at the moment of the request.
CancelFenced ==
  [][native = "queued" /\ native' = "cancelled" =>
       fence /\ proc = "up" /\ ~failed /\ ~drift]_vars

\* After the bounded drain of a shutdown the records of the queue and of the runs
\* are left alone (bridge.ts:7083), although an observation may still be under way.
DrainedIsQuiet == [][proc = "drained" => UNCHANGED <<item, pause, run>>]_vars

\* An accepted prompt that has ended is settled and a withheld one archived, at the
\* latest by the process that is left in peace, wherever the ones before it stopped.
\* Excused are only what the user, an operator or a fault must clear first, and a
\* run whose status says something else.
Due ==
  \/ Accepted(item) /\ native \in Terminal /\ run \in {"none", "running", native}
  \/ Withheld /\ run \in {"none", "running", WithheldStatus}

\* Whatever is due is concluded, or the conversation is the user's or an operator's.
Concludes ==
  (proc = "up" /\ Due) ~>
    (~Unresolved \/ proc # "up" \/ failed \/ drift \/ barred \/ journal.unsafe)

\* A withheld prompt is no reservation that only an operator could lift
\* (pending-input-recovery.ts:271-272), whatever its run was called when it ended:
\* a run that a shutdown cut off in its preparation is "interrupted".
WithheldIsArchived ==
  (proc = "up" /\ Withheld /\ harness = "opencode") ~>
    (~Unresolved \/ proc # "up" \/ failed \/ drift \/ barred)
=============================================================================
