--------------------------- MODULE PendingInputWake ---------------------------
(***************************************************************************)
(* When the queued prompts are looked at: pending-input-wake.ts, the       *)
(* rounds of pending-input-scheduler.ts, and the bridge between them and   *)
(* the coordinator (bridge.ts, pending-input-bridge.ts), all under         *)
(* packages/sane-app/src.                                                  *)
(*                                                                         *)
(* A hint makes the wake ask for a round of the scheduler; a round         *)
(* reconsiders a bounded number of conversations in round-robin order and  *)
(* waits for all of them.  A hint is never a permission: what a            *)
(* reconsideration finds after its awaits decides.  What the store, the    *)
(* coordinator and the harness say of a conversation is abstracted to one  *)
(* fact, "clear": nothing stands against its next step (no pause, no other *)
(* execution, native source idle, predecessor released).                   *)
(*                                                                         *)
(* `polling` of the wake is true within one synchronous call only, and a   *)
(* conversation is never in `tasks` when a pass begins, since the previous *)
(* pass has awaited it: neither is a variable here.                        *)
(***************************************************************************)
EXTENDS Naturals, FiniteSets

CONSTANTS
  NumConversations,  \* records of the store, in their order
  Limit,             \* maxConversationsPerPass
  MaxQueue,          \* bound on the prompts waiting in a conversation
  MaxOps             \* bound on the enqueues and removals of a behaviour

ASSUME WakeAssumption ==
  /\ NumConversations \in Nat \ {0} /\ Limit \in Nat \ {0}
  /\ MaxQueue \in Nat /\ MaxOps \in Nat

Conversation == 1 .. NumConversations

VARIABLES
  gate,           \* startupStorageHealthy, and why not
  hints,          \* the wake: idle, started, closed
  queued, dirty,  \* the wake's microtask and its dirty flag
  reconsidering,  \* the bridge's latch over the scheduler's own rounds
  capacity,       \* the coordinator's wake: for the scheduler's own lease or another's
  closed,         \* the scheduler is closed
  round,          \* the scheduler's dirty flag, wakeTask, pass and cursor
  work,           \* conversation -> the progress of its reconsideration
  queue, claim,   \* conversation -> prompts waiting, and the attempt that was claimed
  clear,          \* conversation -> nothing stands against its next step
  ops

wakeVars == <<hints, queued, dirty>>
storeVars == <<queue, claim, clear, ops>>
vars == <<gate, hints, queued, dirty, reconsidering, capacity, closed, round, work,
          queue, claim, clear, ops>>

Active == {c \in Conversation : queue[c] > 0 \/ claim[c] # "none"}
HasWork == Active # {}

\* An idle conversation with a prompt at its head.
HeadWaits(c) == claim[c] = "none" /\ queue[c] > 0

\* The scheduler has something to do for a conversation.
Due(c) == claim[c] = "done" \/ HeadWaits(c)

\* notify: one microtask for all hints of a turn.
Notify ==
  IF hints = "started" THEN dirty' = TRUE /\ queued' = TRUE /\ UNCHANGED hints
                       ELSE UNCHANGED wakeVars

\* PendingInputScheduler.wake: hints that come while its task runs are coalesced.
Requested ==
  IF closed THEN round
  ELSE [round EXCEPT !.dirty = TRUE, !.task = IF @ = "none" THEN "running" ELSE @]

\* A release of the coordinator asks for its wake, until the bridge closes.
Released(whose) == capacity' = IF gate = "closing" \/ capacity = "own" THEN capacity ELSE whose

----------------------------------------------------------------------------
(* The wake. *)

\* startPendingInputWake: only a healthy bridge starts it.
Start ==
  /\ gate = "starting" /\ gate' = "open" /\ hints' = "started"
  /\ dirty' = HasWork /\ queued' = HasWork
  /\ UNCHANGED <<reconsidering, capacity, closed, round, work, storeVars>>

\* The backstop timer.
Tick ==
  /\ hints = "started" /\ Notify
  /\ UNCHANGED <<gate, reconsidering, capacity, closed, round, work, storeVars>>

\* flush: without health or work the hint stays dirty for the next one.
Flush ==
  /\ queued /\ queued' = FALSE
  /\ IF hints = "started" /\ dirty /\ gate = "open" /\ HasWork
       THEN dirty' = FALSE /\ reconsidering' = TRUE /\ round' = Requested
       ELSE UNCHANGED <<dirty, reconsidering, round>>
  /\ UNCHANGED <<gate, hints, capacity, closed, work, storeVars>>

\* Mutant: the scheduler's own releases are passed on as well.
CoordinatorWakeUnfiltered ==
  /\ capacity # "none" /\ capacity' = "none"
  /\ IF gate = "open" THEN Notify ELSE UNCHANGED wakeVars
  /\ UNCHANGED <<gate, reconsidering, closed, round, work, storeVars>>

\* The coordinator's wake, which is not passed on during a reconsideration.
CoordinatorWake ==
  /\ capacity # "none" /\ capacity' = "none"
  /\ IF gate = "open" /\ ~reconsidering THEN Notify ELSE UNCHANGED wakeVars
  /\ UNCHANGED <<gate, reconsidering, closed, round, work, storeVars>>

\* markReconsidering waits for the scheduler's task.  The wake for a lease that
\* a round released is dispatched within microtasks that end before the round.
ReconsideringEnds ==
  /\ reconsidering /\ round.task = "none" /\ capacity # "own"
  /\ reconsidering' = FALSE
  /\ UNCHANGED <<gate, wakeVars, capacity, closed, round, work, storeVars>>

----------------------------------------------------------------------------
(* The rounds of the scheduler. *)

Position(c) == Cardinality({d \in Active : d < c})

\* The conversations a pass takes, from the cursor on.
Taken ==
  LET len == Cardinality(Active) IN
  {c \in Active : (Position(c) + (len - (round.cursor % len))) % len < Limit}

\* Mutant: every pass begins with the same conversation.
CursorKept == round.cursor

\* Where the next pass goes on.
Cursor ==
  LET len == Cardinality(Active)
      count == IF Limit < len THEN Limit ELSE len IN
  ((round.cursor % len) + count) % len

MorePasses == round.pass < 2

\* One pass of the loop, at most two in a task; it begins when the work of the
\* pass before it has ended.
Pass ==
  /\ round.task = "running" /\ \A c \in Conversation : work[c] = "none"
  /\ IF MorePasses /\ round.dirty /\ ~closed
       THEN IF HasWork
              THEN /\ round' = [round EXCEPT !.dirty = FALSE, !.pass = @ + 1, !.cursor = Cursor]
                   /\ work' = [c \in Conversation |-> IF c \in Taken THEN "begun" ELSE "none"]
              ELSE /\ round' = [round EXCEPT !.dirty = FALSE, !.task = "ending"]
                   /\ UNCHANGED work
       ELSE round' = [round EXCEPT !.task = "ending"] /\ UNCHANGED work
  /\ UNCHANGED <<gate, wakeVars, reconsidering, capacity, closed, storeVars>>

\* The finally handler.  A hint that came since the last test stays dirty.
WakeTaskEnds ==
  /\ round.task = "ending"
  /\ round' = [round EXCEPT !.task = "none", !.pass = 0]
  /\ UNCHANGED <<gate, wakeVars, reconsidering, capacity, closed, work, storeVars>>

\* reconsider, up to its first await: a finished attempt is to be settled, the
\* head of an idle conversation to be examined.  What stands against it may show
\* at once or only to the preflight; the readiness of the head is asked through
\* the latch.
Begin(c) ==
  /\ work[c] = "begun" /\ ~closed
  /\ \/ /\ claim[c] = "done" /\ work' = [work EXCEPT ![c] = "awaiting"]
        /\ UNCHANGED reconsidering
     \/ /\ HeadWaits(c) /\ gate = "open" /\ work' = [work EXCEPT ![c] = "awaiting"]
        /\ reconsidering' = TRUE
     \/ /\ ~(Due(c) /\ clear[c] /\ gate = "open") /\ work' = [work EXCEPT ![c] = "none"]
        /\ UNCHANGED reconsidering \/ (HeadWaits(c) /\ reconsidering' = TRUE)
  /\ UNCHANGED <<gate, wakeVars, capacity, closed, round, storeVars>>

\* The head is still the one that was examined and nothing stands against it.
Claim(c) ==
  /\ work[c] = "awaiting" /\ ~closed /\ HeadWaits(c)
  /\ clear[c] /\ gate = "open"
  /\ claim' = [claim EXCEPT ![c] = "running"] /\ queue' = [queue EXCEPT ![c] = @ - 1]
  /\ work' = [work EXCEPT ![c] = "none"]
  /\ UNCHANGED <<gate, wakeVars, reconsidering, capacity, closed, round, clear, ops>>

\* It is not: the preflight says so, or the claim, whose lease is then released.
Refuse(c) ==
  /\ work[c] \in {"awaiting", "stale"} /\ ~closed
  /\ work[c] = "stale" \/ ~clear[c] \/ gate # "open"
  /\ work' = [work EXCEPT ![c] = "none"]
  /\ \/ UNCHANGED capacity
     \/ /\ work[c] = "awaiting" /\ claim[c] = "none" /\ gate = "open"
        /\ Released("own")
  /\ UNCHANGED <<gate, wakeVars, reconsidering, closed, round, storeVars>>

\* finish: the attempt is settled, and the task looks at the next head.
Settle(c) ==
  /\ work[c] = "awaiting" /\ ~closed /\ claim[c] = "done"
  /\ clear[c] /\ gate \in {"open", "unhealthy"}
  /\ claim' = [claim EXCEPT ![c] = "none"] /\ work' = [work EXCEPT ![c] = "begun"]
  /\ round' = Requested /\ Released("foreign")
  /\ UNCHANGED <<gate, wakeVars, reconsidering, closed, queue, clear, ops>>

\* A failure that is no refusal: the scheduler closes and the bridge fails closed.
Fatal(c) ==
  /\ work[c] # "none" /\ ~closed
  /\ work' = [work EXCEPT ![c] = "none"]
  /\ closed' = TRUE /\ round' = [round EXCEPT !.dirty = FALSE]
  /\ gate' = "failed" /\ hints' = "closed" /\ queued' = FALSE /\ dirty' = FALSE
  /\ UNCHANGED <<reconsidering, capacity, storeVars>>

\* Mutant: a closed scheduler waits for the answer all the same.
NeverAborted(c) ==
  /\ closed /\ work[c] = "begun" /\ work' = [work EXCEPT ![c] = "none"]
  /\ UNCHANGED <<gate, wakeVars, reconsidering, capacity, closed, round, storeVars>>

\* observe: closing ends every await, whatever it waits for.
Aborted(c) ==
  /\ closed /\ work[c] # "none" /\ work' = [work EXCEPT ![c] = "none"]
  /\ UNCHANGED <<gate, wakeVars, reconsidering, capacity, closed, round, storeVars>>

Answer(c) == Claim(c) \/ Refuse(c) \/ Settle(c) \/ Fatal(c)

----------------------------------------------------------------------------
(* Users, runs and the bridge. *)

\* A change of the queue makes an examined head stale and hints.
Staled(c) == [work EXCEPT ![c] = IF @ = "awaiting" /\ claim[c] = "none" THEN "stale" ELSE @]

Enqueue(c) ==
  /\ gate \in {"open", "unhealthy"} /\ queue[c] < MaxQueue /\ ops < MaxOps
  /\ queue' = [queue EXCEPT ![c] = @ + 1] /\ ops' = ops + 1
  /\ work' = Staled(c) /\ Notify
  /\ UNCHANGED <<gate, reconsidering, capacity, closed, round, claim, clear>>

Remove(c) ==
  /\ gate \in {"open", "unhealthy"} /\ queue[c] > 0 /\ ops < MaxOps
  /\ queue' = [queue EXCEPT ![c] = @ - 1] /\ ops' = ops + 1
  /\ work' = Staled(c) /\ Notify
  /\ UNCHANGED <<gate, reconsidering, capacity, closed, round, claim, clear>>

\* The lifecycle of a claimed prompt is done, or its admission was refused.
RunEnds(c) ==
  /\ claim[c] = "running" /\ claim' = [claim EXCEPT ![c] = "done"]
  /\ round' = Requested
  /\ UNCHANGED <<gate, wakeVars, reconsidering, capacity, closed, work, queue, clear, ops>>

\* A submission check of a running dispatch goes through the same latch.
Submits(c) ==
  /\ claim[c] = "running" /\ ~closed /\ reconsidering' = TRUE
  /\ UNCHANGED <<gate, wakeVars, capacity, closed, round, work, storeVars>>

\* Another execution, a pause, native activity ...
Blocks(c) ==
  /\ clear[c] /\ clear' = [clear EXCEPT ![c] = FALSE]
  /\ UNCHANGED <<gate, wakeVars, reconsidering, capacity, closed, round, work, queue, claim, ops>>

\* ... and its end: a release, a resume or domain change, or without any hint.
Clears(c) ==
  /\ ~clear[c] /\ clear' = [clear EXCEPT ![c] = TRUE]
  /\ \/ Released("foreign") /\ UNCHANGED wakeVars
     \/ Notify /\ UNCHANGED capacity
     \/ UNCHANGED <<wakeVars, capacity>>
  /\ UNCHANGED <<gate, reconsidering, closed, round, work, queue, claim, ops>>

\* Ownership is retained for reconciliation: the wake stays, nothing may run.
LosesHealth ==
  /\ gate = "open" /\ gate' = "unhealthy"
  /\ UNCHANGED <<wakeVars, reconsidering, capacity, closed, round, work, storeVars>>

HintsClosed == hints' = "closed" /\ queued' = FALSE /\ dirty' = FALSE

\* failClosed: the wake closes, a round in progress finds nothing to start.
FailClosed ==
  /\ gate \in {"starting", "open", "unhealthy"} /\ gate' = "failed" /\ HintsClosed
  /\ UNCHANGED <<reconsidering, capacity, closed, round, work, storeVars>>

\* close of the bridge: the wake, then the scheduler, in one synchronous call.
Close ==
  /\ gate # "closing" /\ gate' = "closing" /\ HintsClosed
  /\ closed' = TRUE /\ round' = [round EXCEPT !.dirty = FALSE]
  /\ UNCHANGED <<reconsidering, capacity, work, storeVars>>

Init ==
  /\ gate = "starting" /\ hints = "idle" /\ queued = FALSE /\ dirty = FALSE
  /\ reconsidering = FALSE /\ capacity = "none" /\ closed = FALSE
  /\ round = [dirty |-> FALSE, task |-> "none", pass |-> 0, cursor |-> 0]
  /\ work = [c \in Conversation |-> "none"]
  /\ queue \in [Conversation -> 0 .. MaxQueue]
  /\ claim \in [Conversation -> {"none", "running"}]
  /\ clear \in [Conversation -> BOOLEAN] /\ ops = 0

Reconsider(c) == Begin(c) \/ Answer(c) \/ Aborted(c)

\* What comes from outside: none of it is ever certain to come, but the timer.
External ==
  \/ Tick \/ Start \/ LosesHealth \/ FailClosed \/ Close
  \/ \E c \in Conversation : Enqueue(c) \/ Remove(c) \/ RunEnds(c) \/ Submits(c) \/ Blocks(c) \/ Clears(c)

Next ==
  \/ External \/ Flush \/ CoordinatorWake \/ ReconsideringEnds \/ Pass \/ WakeTaskEnds
  \/ \E c \in Conversation : Reconsider(c)

Spec == Init /\ [][Next]_vars

\* The runtime runs its microtasks.
Microtasks ==
  /\ WF_vars(Flush) /\ WF_vars(CoordinatorWake) /\ WF_vars(ReconsideringEnds)
  /\ WF_vars(Pass) /\ WF_vars(WakeTaskEnds)
  /\ \A c \in Conversation : WF_vars(Begin(c)) /\ WF_vars(Aborted(c))

\* No preflight needs to answer.
CloseSpec == Spec /\ Microtasks

\* The timer fires, and the read-only preflights answer.
FairSpec == CloseSpec /\ WF_vars(Tick) /\ \A c \in Conversation : WF_vars(Answer(c))

----------------------------------------------------------------------------
(* Properties. *)

\* The wake, the rounds and their bookkeeping keep their shape.
TypeOK ==
  /\ gate \in {"starting", "open", "unhealthy", "failed", "closing"}
  /\ hints \in {"idle", "started", "closed"}
  /\ queued \in BOOLEAN /\ dirty \in BOOLEAN /\ reconsidering \in BOOLEAN /\ closed \in BOOLEAN
  /\ capacity \in {"none", "own", "foreign"}
  /\ round \in [dirty : BOOLEAN, task : {"none", "running", "ending"}, pass : 0 .. 2, cursor : Nat]
  /\ work \in [Conversation -> {"none", "begun", "awaiting", "stale"}]
  /\ queue \in [Conversation -> Nat]
  /\ claim \in [Conversation -> {"none", "running", "done"}]
  /\ clear \in [Conversation -> BOOLEAN] /\ ops \in 0 .. MaxOps

\* While the wake for a lease that the scheduler reserved and released itself is
\* on its way, the latch is up, whoever asked for the round: it cannot come back
\* as a hint.
OwnReleaseHidden == capacity = "own" => reconsidering

\* A prompt at the head, or a finished attempt, of a conversation that nothing
\* stands against is not left lying, whichever hints were lost or suppressed and
\* however many other conversations are busy.
HeadServed == \A c \in Conversation :
  <>[](clear[c] /\ gate = "open") => []<>~Due(c)

Quiet == round.task = "none" /\ ~queued /\ capacity = "none"

\* Rounds do not feed themselves: when nothing more comes from outside, not even
\* the timer, they end, also while a refused head stays in the queue.
Quiesces == []<><<External>>_vars \/ <>[]Quiet

\* A closed bridge drains and stays so, even if a preflight never answers.
CloseDrains == (gate = "closing") ~> [](Quiet /\ \A c \in Conversation : work[c] = "none")
=============================================================================
