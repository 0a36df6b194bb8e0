------------------------ MODULE PendingInputWakeProofs ------------------------
(* The safety of PendingInputWake for any number of conversations and any     *)
(* bound of a pass.  The latch falls only when the task is over, so what has  *)
(* to be known of a round is that its task lasts, and that every examination  *)
(* of a head in it went through the latch.                                    *)
EXTENDS PendingInputWake, FiniteSetTheorems, TLAPS

\* A reconsideration belongs to a task that waits for it, and the examination of
\* a head keeps the latch up.
Latched == \A c \in Conversation :
  /\ work[c] # "none" => round.task = "running"
  /\ work[c] = "awaiting" /\ claim[c] = "none" => reconsidering

----------------------------------------------------------------------------
\* A request of the scheduler leaves a round that is a round, and never ends a
\* task (the coalescing of pending-input-scheduler.ts, wake).
LEMMA RequestedKeeps ==
  ASSUME TypeOK
  PROVE  /\ Requested \in [dirty : BOOLEAN, task : {"none", "running", "ending"}, pass : 0 .. 2, cursor : Nat]
         /\ round.task = "running" => Requested.task = "running"
  BY DEF TypeOK, Requested

\* The cursor a pass computes is a number: it is computed only when a conversation
\* has work, so the list it is reduced by is not empty.
LEMMA CursorNat ==
  ASSUME TypeOK, HasWork
  PROVE  Cursor \in Nat
<1> DEFINE len == Cardinality(Active)
<1>1. IsFiniteSet(Active)
  <2>1. IsFiniteSet(Conversation)
    BY WakeAssumption, FS_Interval, SMT DEF Conversation
  <2>2. Active \subseteq Conversation
    BY DEF Active
  <2> QED
    BY <2>1, <2>2, FS_Subset
<1>2. len \in Nat \ {0}
  BY <1>1, FS_CardinalityType, FS_EmptySet DEF HasWork
<1>3. round.cursor \in Nat /\ Limit \in Nat
  BY WakeAssumption DEF TypeOK
<1> HIDE DEF len
<1>4. (round.cursor % len) \in Nat
  BY <1>2, <1>3
<1>5. (IF Limit < len THEN Limit ELSE len) \in Nat
  BY <1>2, <1>3
<1>6. ((round.cursor % len) + (IF Limit < len THEN Limit ELSE len)) % len \in Nat
  BY <1>2, <1>4, <1>5
<1> QED
  BY <1>6 DEF Cursor, len

\* A hint leaves the wake's variables what they are.
LEMMA NotifyType ==
  ASSUME TypeOK, Notify
  PROVE  hints' \in {"idle", "started", "closed"} /\ dirty' \in BOOLEAN /\ queued' \in BOOLEAN
BY DEF TypeOK, Notify, wakeVars

\* A release leaves the pending capacity wake one of its three values.
LEMMA ReleasedType ==
  ASSUME TypeOK, NEW whose \in {"own", "foreign"}, Released(whose)
  PROVE  capacity' \in {"none", "own", "foreign"}
BY DEF TypeOK, Released

----------------------------------------------------------------------------
(* One step of the actions that touch the rounds. *)

\* A pass keeps the types: the cursor stays a number and the pass within two.
LEMMA PassType ==
  ASSUME TypeOK, Pass
  PROVE  TypeOK'
<1>1. CASE MorePasses /\ round.dirty /\ ~closed /\ HasWork
  <2>1. round' = [round EXCEPT !.dirty = FALSE, !.pass = @ + 1, !.cursor = Cursor]
    BY <1>1 DEF Pass
  <2>2. Cursor \in Nat
    BY <1>1, CursorNat
  <2>3. round.pass + 1 \in 0 .. 2
    BY <1>1 DEF TypeOK, MorePasses
  <2>4. round' \in [dirty : BOOLEAN, task : {"none", "running", "ending"}, pass : 0 .. 2, cursor : Nat]
    BY <2>1, <2>2, <2>3 DEF TypeOK
  <2>5. work' \in [Conversation -> {"none", "begun", "awaiting", "stale"}]
    BY <1>1 DEF Pass
  <2> QED
    BY <2>4, <2>5 DEF TypeOK, Pass, wakeVars, storeVars
<1>2. CASE ~(MorePasses /\ round.dirty /\ ~closed /\ HasWork)
  <2>1. round' \in [dirty : BOOLEAN, task : {"none", "running", "ending"}, pass : 0 .. 2, cursor : Nat]
    BY <1>2 DEF TypeOK, Pass
  <2>2. UNCHANGED work
    BY <1>2 DEF Pass
  <2> QED
    BY <2>1, <2>2 DEF TypeOK, Pass, wakeVars, storeVars
<1> QED
  BY <1>1, <1>2

\* A reconsideration keeps the types, whatever its answer.
LEMMA ReconsiderType ==
  ASSUME TypeOK, NEW c \in Conversation, Reconsider(c)
  PROVE  TypeOK'
<1>1. CASE Begin(c)
  <2>1. work' \in [Conversation -> {"none", "begun", "awaiting", "stale"}]
    BY <1>1 DEF TypeOK, Begin
  <2>2. reconsidering' \in BOOLEAN
    BY <1>1 DEF TypeOK, Begin
  <2> QED
    BY <1>1, <2>1, <2>2 DEF TypeOK, Begin, wakeVars, storeVars
<1>2. CASE Claim(c)
  BY <1>2 DEF TypeOK, Claim, HeadWaits, wakeVars
<1>3. CASE Refuse(c)
  BY <1>3 DEF TypeOK, Refuse, Released, wakeVars, storeVars
<1>4. CASE Settle(c)
  BY <1>4, RequestedKeeps DEF TypeOK, Settle, Released, wakeVars
<1>5. CASE Fatal(c)
  BY <1>5 DEF TypeOK, Fatal, storeVars
<1>6. CASE Aborted(c)
  BY <1>6 DEF TypeOK, Aborted, wakeVars, storeVars
<1> QED
  BY <1>1, <1>2, <1>3, <1>4, <1>5, <1>6 DEF Reconsider, Answer

\* What comes from outside keeps the types.
LEMMA ExternalType ==
  ASSUME TypeOK, External
  PROVE  TypeOK'
<1>1. CASE Tick
  BY <1>1 DEF TypeOK, Tick, Notify, wakeVars, storeVars
<1>2. CASE Start
  BY <1>2 DEF TypeOK, Start, HasWork, storeVars
<1>3. CASE LosesHealth
  BY <1>3 DEF TypeOK, LosesHealth, wakeVars, storeVars
<1>4. CASE FailClosed
  BY <1>4 DEF TypeOK, FailClosed, HintsClosed, storeVars
<1>5. CASE Close
  BY <1>5 DEF TypeOK, Close, HintsClosed, storeVars
<1>6. ASSUME NEW c \in Conversation, Enqueue(c) PROVE TypeOK'
  <2>1. ops' \in 0 .. MaxOps /\ queue' \in [Conversation -> Nat]
    BY <1>6, WakeAssumption DEF TypeOK, Enqueue
  <2>2. work' \in [Conversation -> {"none", "begun", "awaiting", "stale"}]
    BY <1>6 DEF TypeOK, Enqueue, Staled
  <2>3. Notify
    BY <1>6 DEF Enqueue
  <2> QED
    BY <1>6, <2>1, <2>2, <2>3, NotifyType DEF TypeOK, Enqueue
<1>7. ASSUME NEW c \in Conversation, Remove(c) PROVE TypeOK'
  <2>1. ops' \in 0 .. MaxOps /\ queue' \in [Conversation -> Nat]
    BY <1>7, WakeAssumption DEF TypeOK, Remove
  <2>2. work' \in [Conversation -> {"none", "begun", "awaiting", "stale"}]
    BY <1>7 DEF TypeOK, Remove, Staled
  <2>3. Notify
    BY <1>7 DEF Remove
  <2> QED
    BY <1>7, <2>1, <2>2, <2>3, NotifyType DEF TypeOK, Remove
<1>8. ASSUME NEW c \in Conversation, RunEnds(c) PROVE TypeOK'
  BY <1>8, RequestedKeeps DEF TypeOK, RunEnds, wakeVars
<1>9. ASSUME NEW c \in Conversation, Submits(c) PROVE TypeOK'
  BY <1>9 DEF TypeOK, Submits, wakeVars, storeVars
<1>10. ASSUME NEW c \in Conversation, Blocks(c) PROVE TypeOK'
  BY <1>10 DEF TypeOK, Blocks, wakeVars
<1>11. ASSUME NEW c \in Conversation, Clears(c) PROVE TypeOK'
  <2>1. clear' \in [Conversation -> BOOLEAN]
    BY <1>11 DEF TypeOK, Clears
  <2>2. CASE Released("foreign") /\ UNCHANGED wakeVars
    BY <1>11, <2>1, <2>2, ReleasedType DEF TypeOK, Clears, wakeVars
  <2>3. CASE Notify /\ UNCHANGED capacity
    BY <1>11, <2>1, <2>3, NotifyType DEF TypeOK, Clears
  <2>4. CASE UNCHANGED <<wakeVars, capacity>>
    BY <1>11, <2>1, <2>4 DEF TypeOK, Clears, wakeVars
  <2> QED
    BY <1>11, <2>2, <2>3, <2>4 DEF Clears
<1> QED
  BY <1>1, <1>2, <1>3, <1>4, <1>5, <1>6, <1>7, <1>8, <1>9, <1>10, <1>11 DEF External

\* The bridge starts well typed.
LEMMA InitType ==
  ASSUME Init
  PROVE  TypeOK
<1>1. round \in [dirty : BOOLEAN, task : {"none", "running", "ending"}, pass : 0 .. 2, cursor : Nat]
  BY DEF Init
<1>2. ops \in 0 .. MaxOps
  BY WakeAssumption DEF Init
<1>3. queue \in [Conversation -> Nat]
  BY WakeAssumption DEF Init
<1> QED
  BY <1>1, <1>2, <1>3 DEF Init, TypeOK

\* The variables of the wake, the rounds, the latch and the store stay what they
\* are (all of pending-input-wake.ts and of the scheduler's bookkeeping).
THEOREM TypeCorrect == Spec => []TypeOK
<1>1. Init => TypeOK
  BY InitType
<1>2. TypeOK /\ [Next]_vars => TypeOK'
  <2> SUFFICES ASSUME TypeOK, [Next]_vars PROVE TypeOK'
    OBVIOUS
  <2>1. CASE Flush
    BY <2>1, RequestedKeeps DEF TypeOK, Flush, storeVars
  <2>2. CASE CoordinatorWake
    <3>1. hints' \in {"idle", "started", "closed"} /\ dirty' \in BOOLEAN /\ queued' \in BOOLEAN
      BY <2>2, NotifyType DEF TypeOK, CoordinatorWake, wakeVars
    <3>2. capacity' = "none"
      BY <2>2 DEF CoordinatorWake
    <3> QED
      BY <2>2, <3>1, <3>2 DEF TypeOK, CoordinatorWake, storeVars
  <2>3. CASE ReconsideringEnds
    BY <2>3 DEF TypeOK, ReconsideringEnds, wakeVars, storeVars
  <2>4. CASE WakeTaskEnds
    <3>1. round' \in [dirty : BOOLEAN, task : {"none", "running", "ending"}, pass : 0 .. 2, cursor : Nat]
      <4>1. 0 \in 0 .. 2
        OBVIOUS
      <4> QED
        BY <2>4, <4>1 DEF TypeOK, WakeTaskEnds
    <3> QED
      BY <2>4, <3>1 DEF TypeOK, WakeTaskEnds, wakeVars, storeVars
  <2>5. CASE UNCHANGED vars
    BY <2>5 DEF TypeOK, vars
  <2> QED
    BY <2>1, <2>2, <2>3, <2>4, <2>5, PassType, ReconsiderType, ExternalType DEF Next
<1> QED
  BY <1>1, <1>2, PTL DEF Spec

----------------------------------------------------------------------------
(* The latch. *)

\* A step that begins no reconsideration, settles nothing and keeps task and
\* latch, or sets them, keeps the examinations under the latch.
LEMMA SameRounds ==
  ASSUME TypeOK, Latched,
         \A c \in Conversation :
           /\ work'[c] # "none" => work[c] # "none"
           /\ work'[c] = "awaiting" /\ claim'[c] = "none" =>
                work[c] = "awaiting" /\ claim[c] = "none",
         round.task = "running" => round'.task = "running",
         reconsidering => reconsidering'
  PROVE  Latched'
<1> SUFFICES ASSUME NEW c \in Conversation
             PROVE  /\ work'[c] # "none" => round'.task = "running"
                    /\ work'[c] = "awaiting" /\ claim'[c] = "none" => reconsidering'
  BY Zenon DEF Latched
<1>1. work'[c] # "none" => round'.task = "running"
  BY Zenon DEF Latched
<1>2. work'[c] = "awaiting" /\ claim'[c] = "none" => reconsidering'
  BY Zenon DEF Latched
<1> QED
  BY <1>1, <1>2, Zenon

\* A reconsideration that goes on was in a task, and examines its head only
\* through the latch.
LEMMA ReconsiderLatched ==
  ASSUME TypeOK, Latched, NEW c \in Conversation, Reconsider(c)
  PROVE  Latched'
<1>1. CASE Begin(c)
  BY <1>1 DEF TypeOK, Latched, Begin, HeadWaits, storeVars
<1>2. CASE Claim(c)
  BY <1>2, SameRounds DEF TypeOK, Claim
<1>3. CASE Refuse(c)
  BY <1>3, SameRounds DEF TypeOK, Refuse, storeVars
<1>4. CASE Settle(c)
  BY <1>4, RequestedKeeps DEF TypeOK, Latched, Settle
<1>5. CASE Fatal(c)
  BY <1>5, SameRounds DEF TypeOK, Fatal, storeVars
<1>6. CASE Aborted(c)
  BY <1>6, SameRounds DEF TypeOK, Aborted, storeVars
<1> QED
  BY <1>1, <1>2, <1>3, <1>4, <1>5, <1>6 DEF Reconsider, Answer

\* Nothing from outside begins a reconsideration or lowers the latch.
LEMMA ExternalLatched ==
  ASSUME TypeOK, Latched, External
  PROVE  Latched'
<1>1. CASE Tick \/ Start \/ LosesHealth \/ FailClosed
  BY <1>1, SameRounds DEF Tick, Start, LosesHealth, FailClosed, storeVars
<1>2. CASE Close
  BY <1>2, SameRounds DEF TypeOK, Close, storeVars
<1>3. ASSUME NEW c \in Conversation, Enqueue(c) \/ Remove(c) PROVE Latched'
  BY <1>3, SameRounds DEF TypeOK, Enqueue, Remove, Staled
<1>4. ASSUME NEW c \in Conversation, RunEnds(c) PROVE Latched'
  BY <1>4, RequestedKeeps, SameRounds DEF TypeOK, RunEnds
<1>5. ASSUME NEW c \in Conversation, Submits(c) PROVE Latched'
  BY <1>5, SameRounds DEF Submits, storeVars
<1>6. ASSUME NEW c \in Conversation, Blocks(c) \/ Clears(c) PROVE Latched'
  BY <1>6, SameRounds DEF Blocks, Clears
<1> QED
  BY <1>1, <1>2, <1>3, <1>4, <1>5, <1>6 DEF External

\* Every step keeps the examinations of a round under the latch.
LEMMA LatchedStep ==
  ASSUME TypeOK, Latched, [Next]_vars
  PROVE  Latched'
<1>1. CASE Flush
  BY <1>1, RequestedKeeps, SameRounds DEF Flush, storeVars
<1>2. CASE CoordinatorWake
  BY <1>2, SameRounds DEF CoordinatorWake, storeVars
<1>3. CASE ReconsideringEnds
  BY <1>3 DEF Latched, ReconsideringEnds, storeVars
<1>4. CASE Pass
  BY <1>4 DEF TypeOK, Latched, Pass
<1>5. CASE WakeTaskEnds
  BY <1>5 DEF TypeOK, Latched, WakeTaskEnds
<1>6. CASE UNCHANGED vars
  BY <1>6, SameRounds DEF vars
<1> QED
  BY <1>1, <1>2, <1>3, <1>4, <1>5, <1>6, ReconsiderLatched, ExternalLatched DEF Next

\* The wake for a lease of the scheduler's own is asked for under the latch, and
\* the latch does not fall before it was served.
LEMMA HiddenStep ==
  ASSUME TypeOK, Latched, OwnReleaseHidden, [Next]_vars
  PROVE  OwnReleaseHidden'
<1>1. CASE Flush \/ CoordinatorWake \/ ReconsideringEnds \/ Pass \/ WakeTaskEnds
  BY <1>1 DEF OwnReleaseHidden, Flush, CoordinatorWake, ReconsideringEnds, Pass, WakeTaskEnds
<1>2. ASSUME NEW c \in Conversation, Begin(c) \/ Claim(c) \/ Fatal(c) \/ Aborted(c) PROVE OwnReleaseHidden'
  BY <1>2 DEF TypeOK, OwnReleaseHidden, Begin, Claim, Fatal, Aborted
<1>3. ASSUME NEW c \in Conversation, Refuse(c) PROVE OwnReleaseHidden'
  BY <1>3 DEF OwnReleaseHidden, Latched, Refuse, Released
<1>4. ASSUME NEW c \in Conversation, Settle(c) PROVE OwnReleaseHidden'
  BY <1>4 DEF OwnReleaseHidden, Settle, Released
<1>5. CASE Tick \/ Start \/ LosesHealth \/ FailClosed \/ Close
  BY <1>5 DEF OwnReleaseHidden, Tick, Start, LosesHealth, FailClosed, Close
<1>6. ASSUME NEW c \in Conversation, Enqueue(c) \/ Remove(c) \/ RunEnds(c) \/ Submits(c) PROVE OwnReleaseHidden'
  BY <1>6 DEF OwnReleaseHidden, Enqueue, Remove, RunEnds, Submits
<1>7. ASSUME NEW c \in Conversation, Blocks(c) \/ Clears(c) PROVE OwnReleaseHidden'
  BY <1>7 DEF OwnReleaseHidden, Blocks, Clears, Released
<1>8. CASE UNCHANGED vars
  BY <1>8 DEF OwnReleaseHidden, vars
<1> QED
  BY <1>1, <1>2, <1>3, <1>4, <1>5, <1>6, <1>7, <1>8 DEF Next, External, Reconsider, Answer

\* A lease that the scheduler reserves and gives back within a round can not come
\* back as a hint for another one: while its wake is on the way the latch of the
\* bridge is up (bridge.ts, the coordinator's wake; pending-input-bridge.ts,
\* markReconsidering).
THEOREM OwnReleasesHidden == Spec => []OwnReleaseHidden
<1>1. Init => TypeOK /\ Latched /\ OwnReleaseHidden
  BY InitType DEF Init, Latched, OwnReleaseHidden
<1>2. TypeOK /\ Latched /\ OwnReleaseHidden /\ [Next]_vars => Latched' /\ OwnReleaseHidden'
  BY LatchedStep, HiddenStep
<1> QED
  BY <1>1, <1>2, TypeCorrect, PTL DEF Spec
=============================================================================
