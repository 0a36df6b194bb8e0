# SANE: models, checks and proofs

SANE is a browser application server, written in TypeScript for Bun, that runs conversations with
native coding harnesses (Claude Code, OpenCode, Grok). The server owns the conversations: it decides
which prompt runs where and when, keeps that decision on disk, and has to be right about it through
crashes, interrupts, late answers and failed writes, because the harness it talks to cannot take a
prompt back. This directory models that part of the server in TLA+, checks it with TLC and proves
its main properties with TLAPS.

Paths below are relative to `src/packages/sane-app/src/` unless they say otherwise.

## 1. Inventory

One process, one thread: the server interleaves at `await`s, timers and callbacks, not at
instructions. `bridge.ts` is the composition root. It holds the routes, wires the services and owns
three latches (started, failed, closing) that every other part consults.

| Component | State | Operations | Talks to | What is hard | What makes it right |
|---|---|---|---|---|---|
| Pending-input store (`pending-input-store.ts`, codec, contract) | records in memory and `pending-inputs.json`, failure latch, recovery latch | enqueue, remove, resume, pause, claim, link, beforeNative, outcome, settle, archive, recover | scheduler, routes, recovery | ambiguous writes, restarts in any phase of a claim, a strict decode that refuses what it did not expect | in order, one at a time, never twice; nothing lost; always loadable |
| Conversation coordinator (`conversation-coordinator.ts`) | owners, reservations, leases, reconciliation barriers, coalesced wake | reserve, extend, install, release, adopt, begin and end of reconciliation, wake, close | every feature that starts a run | requests hold leases across awaits; releases race interrupts; shutdown overlaps everything | one execution per conversation, capacity, no lost wake |
| Harness dispatch (`harness-dispatch.ts`, `dispatch-evidence.ts`, `dispatch-run.ts`) | evidence of one submission, health, progress of the lifecycle | beforeNative, outcome, withheld, finish, execute, finalize, settlement proofs | coordinator, run services, store | the harness answers at any time; hooks fail after writing; proofs await native I/O | nothing sent is recorded as withheld; proofs true when given |
| Run controls (`run-owner.ts`, `run-controls.ts`) | the run, its flags, the shared interrupt attempt | cancel, stop | coordinator, run services | an interrupt outlives the run it is for | the interrupt never meets the next run |
| Pending-input scheduler (`pending-input-scheduler.ts`, `-service.ts`) | round in progress, leases, live claims | notify, round, claim, settle | store, coordinator, dispatch | reads, awaits, then acts | claims only what is still the head and still admissible |
| Prompt wake (`pending-input-wake.ts`) | dirty, queued, polling, timer | notify, flush, close | scheduler, coordinator | hints during a flush; a backstop timer | a queued prompt is eventually looked at |
| Recovery (`pending-input-recovery.ts`, `settled-journal-reconciliation.ts`) | observations of the last process's claims | observe, settle, archive, release | store, run journal, coordinator | several awaits while the user acts | never starts, only settles what is proven |
| Run journal (`run-journal.ts`) | reserved, appended, durable prefix, pins of the file | claim, reserve, drain, flush, relinquish | run services | partial appends, swapped files | one contiguous sequence, published only when written |
| App record store (`app-store.ts`, `metadata-publication.ts`) | JSON files replaced atomically | write | all stores | failure before or after the rename | the old or the new file, never a mixture |
| Conversation updates (`conversation-update-store.ts`) | append-only rows, floor, checkpoints | commit, page, prune | browsers, history | a reader pages while rows are pruned | a page is a gapless part of one snapshot |
| App admissions (`app-admission-*.ts`) | request records | claim, run, replay | routes | a request repeated after a lost answer | the same id never runs two effects |
| Workers and outbox (`worker-store.ts`, `worker-outbox.ts`, `workers.ts`) | worker tasks, report deliveries | start, report, deliver, recover | coordinator, dispatch | reports to a busy or restarted parent | a report is delivered, at most once |
| User questions (`user-questions-*.ts`) | questions, answers, delivery state | ask, answer, deliver | harness sockets | an answer races the end of the run | delivered once, or known not to be |
| Context messages (`context-message*.ts`, `pending-activation-journal.ts`) | messages, activation journal | prepare, activate, settle | dispatch | activation across restarts | activated once |
| Conversation lifecycle (`session-retirement.ts`, `branches.ts`, `handoff.ts`) | retirement journal, handoffs | retire, resume a retirement, hand off | stores, coordinator | a multi-step deletion interrupted anywhere | finishes, touches nothing else |
| Run services (`claude-run-service.ts`, `opencode*.ts`, `grok*.ts`) | child processes, streams, HTTP clients | execute, interrupt, observe | harnesses | native protocols | what they report is what happened |
| Installation ownership (`installation-ownership.ts`) | lock file, process identity | acquire, assert | all writers | a second server | the fence every write checks |
| Asides, science, push, shares, uploads, terminals, Git, browser control | small stores, subprocesses, sockets | per feature | bridge | mostly I/O | per feature |
| Transcripts, frontend, core, CLI, plugins, templates | projections and presentation | | | | |

`PROJECT.json` lists every component with its status, and every hazard at its line with the
properties that cover it or the reason why none does yet.

### How a prompt travels

A prompt typed while its conversation is busy is *enqueued* durably. When the conversation may run,
the scheduler *reserves* it with the coordinator, *claims* the head of its chain in the store (the
identities of the run are durable before anything else happens), *installs* a run owner over the
lease, *links* the claim to it and starts a dispatch. Just before the first byte to the harness, the
dispatch calls *beforeNative*, which makes the possibility of delivery durable. From there on, the
prompt can only end as settled, or stay unconfirmed: nobody may send it again. Reports of the
harness sharpen the evidence. The finalizer of the dispatch closes it, reconciles the native source
behind a barrier, releases the conversation and proves settlement to whoever asks, and the
scheduler settles the record and looks at the next one. A restart finds claims in any of these
phases and classifies them as uncertain.

The record, the arbitration and the dispatch are where this can go wrong for good; they are the
modules of the core. Around them: whether a prompt is looked at at all (the wake), how a
reconsideration turns it into a run across its awaits (the scheduler), what the next process makes of
an unresolved claim (recovery), and the two records by which everybody else learns what a run did (its
log, and the feed of updates projected from it).

## 2. Modules

| Module | Models | State and actions |
|---|---|---|
| `PendingInputStore` | `pending-input-store.ts`, and the record invariant of `pending-input-codec.ts` as `Decodes` | `mem` is `this.records`, `disk` the file, `failed` the latch with its cause; one action per store method, plus `Restart` and `FenceFails`. `granted` and `mine` are history: what beforeNative answered, and what this process claimed |
| `PromptQueue` | nothing of the code: what the store promises | a prompt is new, queued, handed over, ended |
| `PendingInputDelivery` | the mapping from the records on disk to `PromptQueue` | |
| `ConversationCoordinator` | `conversation-coordinator.ts`, with the settling, cancelling and releasing steps of `harness-dispatch.ts`, `run-controls.ts` and `bridge.ts` | the four maps of the class, the runs, the latches of the bridge, and the wake task as a small automaton over its microtasks |
| `HarnessDispatch` | `dispatch-evidence.ts` and `startDispatchLifecycle` | the variables of the two closures, one action per synchronous stretch between two awaits, and the environment: harness, hooks that fail, interrupts, other runs, readers of proofs |
| `PendingInputWake` | `pending-input-wake.ts`, the rounds of `pending-input-scheduler.ts`, and the bridge's glue between them and the coordinator | the flags of the wake, the wake task with its passes and cursor, the latch `reconsidering`; a reconsideration is begun, awaits, and is claimed, refused, settled, fatal or aborted. Everything the store, the coordinator and the harness may hold against a conversation is one fact, `clear`, which the environment raises and lowers with or without a hint |
| `PendingInputDispatch` | the reconsideration and the attempts of `pending-input-scheduler.ts`, with `pending-input-bridge.ts` (preflight, consents, proofs, native boundary) and `pending-input-controls.ts` (stop, hide, resume) | one conversation; `task` is the reconsideration at one of its awaits, with what it selected and what it was answered; `attempt`, `grant`, `latest` and `lease` are the maps of the same meaning. Each await is two steps, answer and continuation, and anything happens between them |
| `PendingInputRecovery` | `pending-input-recovery.ts`, the observation of `opencode-run-service.ts`, the originals of `bridge.ts` | one claim of an earlier process; `task` is the observation at one of its awaits; the queue, the metadata and the log are written one behind an await of the other |
| `RunJournal` | `run-journal.ts`, the serial queue of commits in `bridge.ts`, `decodeLog` and the repair at startup | `list` is the run's events in memory, `state` what the writer knows of the file, `file` the log, torn or not at its end, `kept` what a power loss cannot take |
| `ConversationUpdates` | `conversation-updates.ts`, `conversation-update-store.ts`, the replay at startup in `bridge.ts` | the queue of tasks, the committed record, the file, the reader's cursor. The log of a run is what `RunJournal` has accepted |
| `MCPendingInputStore` | instance for TLC (symmetry) | |
| `PendingInputStoreProofs` (with the refinement of `PendingInputDelivery`), `ConversationCoordinatorProofs`, `HarnessDispatchProofs`, `PendingInputWakeProofs`, `PendingInputDispatchProofs`, `PendingInputRecoveryProofs`, `RunJournalProofs`, `ConversationUpdatesProofs` | the theorems | |

The components meet in these modules, each over the part of its neighbours that it can observe:
`ConversationCoordinator` has the steps of its callers, `PendingInputWake` has scheduler, coordinator and
bridge around the wake, `PendingInputDispatch` has queue, coordinator, lifecycles and controls around a
reconsideration, `PendingInputRecovery` has queue, log, metadata and harness around an observation. A
product of the full modules would be far beyond TLC and would say nothing that these do not.

### Modelling decisions

* **Synchronous methods are one action.** A mutation of the store (fence, candidate, decode, write,
  publish) has no await in it, so it is one action whose outcomes are: published; write failed with
  the old or the new file on disk; fence failed; decode refused. The same holds for every method of
  the coordinator and for the finalizer's stretches. A refused call is a stutter.
* **An await is two steps.** In `PendingInputDispatch` and `PendingInputRecovery` the answer is decided in
  one step, and the task goes on with it in a later one. Between them the user stops, removes or
  resumes, runs end, the bridge closes or fails. What the code checks again after an await is the guard
  of the second step, and nothing else is. An error thrown behind an await passes by these checks: a
  preflight that finds a drift pauses the conversation even if its selection is stale (`handle`,
  `pending-input-scheduler.ts:186-192`).
* **Ambiguous writes.** `atomicAppRecord` writes a temporary file, syncs, renames and syncs the
  directory. A failure may therefore have happened on either side of the rename: the disk then holds
  the old or the new records, nothing is published, and the process refuses every later mutation.
  In `HarnessDispatch` the same appears as hooks that fail after writing, and as a fence that refuses
  all writes once the bridge failed closed; in `PendingInputDispatch` as `doubt`, a claim that may be on
  disk although nobody was told.
* **Logs are appended, not replaced.** `RunJournal` keeps for each log how much a power loss cannot
  take. A failing or interrupted append leaves any prefix, and the log may be torn: half a record follows, or
  the last one is complete but for its newline. Both are one value, because `decodeLog` keeps what is complete
  and has the file rewritten in place either way. `Crash` is the end of the process and of the machine in one.
* **Logs are read when they are needed.** The journal of a settled run may be read, and repaired, long after
  startup (`materializeDeferred`) or never; `Load` may therefore happen at any time of a process, for each log by itself.
* **Crashes.** `Restart` (or `Crash` and `Boot`) may follow every step: memory is rebuilt from the disk.
* **Identities.** A run stands for the identities allocated together for one claim. A chain is named
  by the sequence number of its first item. Prompts, snapshots and pins are model values: the store
  compares them and never looks inside. A record of a log is the boot that reserved it and its sequence
  number, so that a lost record differs from the one that takes its place.
* **The decode is modelled in full**, conjunct by conjunct, because it is what the store may trip
  over: `RecordsInv` says, among others, that it never does.
* **Callbacks that can only refuse** (policy, predecessor retention, the adapters' native proofs) are
  stuttering steps, or one of the answers where an await hangs on them.
* **Identity drift.** `harness-dispatch.ts` compares the installed run and its configuration at many
  places. All of these checks have one effect, to fail closed, and `LosesIdentity` may happen at any
  time. In `PendingInputDispatch` a drift is an answer, in `PendingInputRecovery` a fact of the environment.
* **Microtasks.** A microtask is an action of its own where something can come before it. Two
  orders are fixed by counting them: the latch over a round falls only after the task of the round,
  and the coordinator's wake for a lease that the round itself released is dispatched before that
  (two microtasks against the four promises that a round still has to resolve), which is the guard
  of `ReconsideringEnds`.
* **Hooks of the wake** that throw or return promises close it and fail the bridge, which is
  `FailClosed`. A conversation paused for its retirement counts as one that has work.
* Mutants are the definitions named in `PROJECT.json` under `mutants`, each next to the definition it
  breaks. They take no part in the specifications.

## 3. Runs

| Run | Instance | States | What it shows |
|---|---|---|---|
| `queue` | 1 conversation, 2 prompts, 2 runs, revision up to 12 | 355 091 | order, one at a time, durable grants and no replay after a restart, for two prompts carried from enqueue to settlement; the disk implements `PromptQueue` |
| `queue_control` | 1 conversation, 3 request ids, 2 pins, full queue at 2, revision up to 8 | 488 687 | removals, resumes and pauses meet claims, a full queue and restarts: the records stay loadable, pauses end only by a resume, a change is visible in the revision, history is final |
| `coordinator` | 2 conversations, 1 lease, 2 owners, 1 slot | 470 364 | agreement of the maps, one execution, capacity, shutdown; no wake is lost (liveness) |
| `dispatch` | one dispatch, all three orders of reconciliation | 26 284 | evidence, barrier, release and settlement proofs in every interleaving |
| `wake` | 2 conversations, 1 per pass, 1 prompt waiting in each, 1 enqueue or removal | 264 488 | every due prompt is reached although hints get lost, rounds do not feed themselves, shutdown drains (all three liveness) |
| `dispatch_chain` | 2 prompts and 1 run from elsewhere | 623 567 | claims exclude other runs and leave no lease behind; Stop holds at every await; predecessors are proved when the claim is written; settlement says what the run came to; a finished run is settled or a pause says why (liveness) |
| `journal` | 2 logs of 2 records, 3 starts | 1 211 985 | the file is the beginning of the events in memory, callbacks are told each record once and in order, a fence's word survives power loss and restart, and logs are only appended to |
| `updates` | 1 run of 2 events in 2 kinds, batches and feed of 2, pages of 1, correlations behind one task, 3 starts | 3 453 632 | the feed shows what the log holds, once and in order; a reader has no gap; a feed that lags says so; the queue of batches never stalls |
| `recovery` | 1 claim of any harness in any phase, 3 starts | 372 438 | a settled claim is true in queue, metadata and log; contradictions are final; cancellation only for this process's Stop; neither the queue nor the metadata is written after the drain; what is due is concluded (liveness) |
| `resume_rest` | 3 prompts | violation | see Findings |
| `journal_repair` | 1 log of 3 records, 3 starts | violation | see Findings |
| `recovery_withheld` | 1 claim, 2 starts | violation | see Findings |

The type invariants of the modules with proofs, `EvidenceGrows` and `HealthyIsConcluded` of `HarnessDispatch`
and `OwnReleaseHidden` of `PendingInputWake` are theorems (section 4) and in no run.

### Findings

Three runs state what a comment of the code says, and TLC shows a behaviour that violates it.

* `resume_rest`: `archiveNotSubmitted` tells the user that "explicit resume is required for remaining
  waiting text" (`pending-input-store.ts:311`). In a chain that settled one prompt and withheld the next,
  that resume is never served: the withheld run has become the conversation's predecessor
  (`pending-input-bridge.ts:589`) but not the chain's (`lastPredecessorRunId`), and
  `predecessorRunId` (`pending-input-scheduler.ts:210`) refuses the pair on every reconsideration. The
  refusal is dropped (`:189-191`), no pause appears, and the text waits until the process restarts.
* `journal_repair`: "Complete records with bad schema, blank lines, and malformed terminated records are
  corruption, never silently discarded" (`history.ts:197-199`). Startup repairs a torn log with
  `writeFileSync` in place (`bridge.ts:1725`), unsynced; a crash there leaves a shorter log whose complete,
  synced records are gone, and the next startup accepts it. This is the exception in `FlushedSurvives`.
* `recovery_withheld`: an original "must not become an operator-only permanent reservation"
  (`pending-input-recovery.ts:271-272`). A withheld OpenCode prompt whose run was published as interrupted is
  terminalized as failed, which `bridge.ts:6770-6772` refuses, every two seconds and in every later process.
  `Concludes` therefore excuses a run whose status says something else.

Read while modelling, and not the subject of a run:

* A power loss may cut a log below the feed's checkpoint. If the log regrows to exactly the checkpoint before
  the next start, the replay there finds the lengths equal and accepts them
  (`conversation-updates.ts:319`, `:333`). `FeedFollowsJournal` speaks of runs whose log was not cut.
* `bridge.ts:691` says of the feed that its failure never blocks execution; a failed note of the log lengths
  refuses the start (`bridge.ts:1748`).
* `terminalize` appends to the log after `await file.stat()` without validating again
  (`bridge.ts:6786-6793`), so that an append may land after the bounded drain. `DrainedIsQuiet` speaks of the
  queue and the metadata only.

### Bounds

* `MaxWaiting` is 3 in the code and 2 here: the full queue is reached with the ids at hand.
* `MaxRevision` and `MaxSequence` stand for `Number.MAX_SAFE_INTEGER`. The model keeps the code's
  guards at the limit, so the small values also check what happens *at* the limit. One prompt needs
  six revisions from enqueue to settlement (enqueue, claim, link, intent, evidence, settle): 12 are
  enough for two prompts one after the other, and for one with every detour.
* The store runs have one conversation. What two of them share (native sessions, run identities, sequence
  numbers) is `Global`, a part of `RecordsInv`, and proved for any number of conversations.
* Two runs are enough for a run identity to be reused wrongly, two owners over two conversations and one slot
  for every pairwise race of the coordinator; a lease may cover both conversations and be extended.
* A dispatch is a single object, so `HarnessDispatch` has no constants: the run is exhaustive.
* One conversation per pass and two that have work is the smallest instance in which a pass leaves
  someone out (the code takes 32). A bound on enqueues and removals is more than a bound on the
  state there: each one makes the examination under way stale, so an endless stream of them would
  keep a conversation from ever being claimed, and an endless change of the list under the cursor
  could pass over one of more than 32 conversations forever. The code promises no more ("bounded
  round-robin reconsideration, NOT fairness", `pending-input-scheduler.ts:72`), so `HeadServed` is
  stated for users who pause some time. Blocking and clearing is not bounded.
* Two prompts of a chain are a predecessor and its successor, and one run from elsewhere is what may come
  between them; the third prompt of `resume_rest` is the text that remains. Stops, resumes and hides are not
  bounded. Prompts are enqueued in the order of their numbers, which the store guarantees.
* Two records are what a drain can write one of before it stops, and three starts are a process that writes,
  one that repairs what it left and one that reads what the repair left. The same three starts
  serve recovery (the process that leaves the claim is before the first) and the feed (write, lose, replay).
* The feed keeps two rows (8192 in the code), a batch collects two events (64), a page shows one row (at most 100):
  a reader needs several pages while rows are pruned under it. `Kind` leaves out events that show
  nothing; the model has them, and with them the run exceeds its time.
  `MaxQueue` bounds the correlations only: one is asked for while at most one task waits, so that it also seals a
  batch that still collects.
* `CHECK_DEADLOCK FALSE` where the modelled object ends: a dispatch, a conversation whose prompts are
  all settled, a journal, a feed and a claim after their last start.

### Fairness

`FairSpec` of `ConversationCoordinator` has weak fairness of the wake task. Its steps are
microtasks and a pass that is one synchronous notification (`bridge.ts:792`), and the runtime runs
microtasks before anything else, so a step of the task that is enabled is taken. Nothing is assumed
of requests, runs or callers.

`PendingInputWake`: the microtasks go on (a round, a flush, the end of a task, the end of an aborted await),
the interval timer fires, and an open scheduler's preflight answers, which the code relies on ("read-only bounded
scheduler work", `pending-input-scheduler.ts:195`) and the adapters have to provide. A closed scheduler takes no
answer, so `CloseDrains` rests on the aborts alone. Nothing is assumed of hints: every wake-up from outside may
stay away, so that what `HeadServed` rests on is the backstop timer.

`PendingInputDispatch`: reconsiderations are made (what `HeadServed` shows) and the awaits of a finished attempt
return; an interrupt ends, as its timeout enforces; and a settlement proof that can be had infinitely often is had (strong
fairness of the `ready` answers, since a transport may fail any number of times but not for ever).
`ServeSpec`, for `resume_rest` only, adds the same of a resume's consent and of the claim it permits: the violation
is then no accident of an unlucky answer.

`PendingInputRecovery`: the poll looks every two seconds (`pending-input-recovery.ts`) and every await is bounded,
which is weak fairness of the observation; pins that can be acquired and true answers of the harness are not
withheld for ever (strong fairness).

`HarnessDispatch`, `RunJournal` and `ConversationUpdates` are checked for safety and have no fairness.

## 4. Theorems

All proofs are checked by TLAPS from nothing but the constants' assumptions
(`StoreAssumption`, `CoordinatorAssumption`, `WakeAssumption`, `DispatchAssumption`, `RecoveryAssumption`,
`JournalAssumption`, `UpdatesAssumption`: limits are numbers, the null values are none of the
real ones, `Req` and `Session` are finite), which TLC evaluates in every run. They hold for every
number of conversations, prompts, runs, leases, owners, records and starts, and for every limit.

**Store** (`PendingInputStoreProofs`): `TypeCorrect`, `RecordsAlwaysDecode`, `GrantsAreDurable`,
`DeliveryInOrder`. The decode alone is not inductive: it says that a claim's predecessor is the
newest settlement of its chain, which an operation preserves only because chains follow one another
and a claim never overtakes an active item. `Frontier` says both, and `RecordsInv` contains it. The
proof has three layers. `Evolves` describes what any operation may do to a conversation, and
`EvolvesOK` shows that this keeps the decode and the frontier; one lemma per operation shows that it
is such a step; `Replaced` lifts it to all conversations, where run identities and native sessions
are global. `Published` then treats write, failure and publication once for all operations.

**Records over time** (`PendingInputStoreProofs`): `PausesHold`, `RevisionsWitness`, `HistoryStays`, `GrantsToClaimants`,
action properties of what a process publishes. Their danger is a write that failed and surfaces after a restart:
what is on disk must then be a later state of what was published. `RecordsOnlyAdvance` is the invariant that says so
(`HInv`): `Ahead` compares memory and disk, and outside recovery every open claim is the present process's. `FinalItem`
and `Later` describe once what an operation may do to an item and to a conversation; each operation is shown to be such
a step.

**Delivery** (`PendingInputStoreProofs`): `Implementation`, the store implements `PromptQueue`. `Written` says once
that an operation, which writes one conversation, changes the queue at most where its prompt stands and moves no
place; each operation then names the prompt and the promise (`Withdrawn`, `Finished`, accept, hand over) or shows a
stutter. The store's invariant does the work in two places: a new sequence number lies behind everything
(`Global`), and the prompt handed over is the oldest unfinished one (`HeadOfQueue`, from `ChainShape` and `Ordered`).

**Coordinator** (`ConversationCoordinatorProofs`): `TypeCorrect`, `LeasesAgree`, `ExecutionsApart`,
`CapacityKept`, `ClosingIsFinal`. `OneExecution` speaks of the moment a second owner is installed,
when the registry no longer shows the first. `Gone` is the strengthening: whoever has left the
registry has settled and no interrupt for it is on its way.

**Dispatch** (`HarnessDispatchProofs`): `TypeCorrect`, `NeverSentUnrecorded`, `ConcludedEvidence`,
`ReconciledFirst`, `ReleasedInTheEnd`, `EvidenceOnlyGrows`, `ProofsAreTrue`. The invariant has two
halves: `Boundary` relates the phase of the evidence to the harness, the snapshot and the record,
`Flow` relates the progress of the lifecycle to ownership and barrier. They meet in one fact: a
lifecycle that is not healthy lives in a bridge that failed closed, where nothing more is written,
released or admitted.

**Wake** (`PendingInputWakeProofs`): `TypeCorrect`, `OwnReleasesHidden`, for any number of
conversations and any bound of a pass. The strengthening `Latched` says that a reconsideration
belongs to a task that lasts and that the examination of a head keeps the latch up.

**Scheduler** (`PendingInputDispatchProofs`): `TypeCorrect`, `ClaimsExclude`, `LeasesAccounted`, `StopIsHeld`,
`PredecessorsProved`, `SettlementsTruthful`. The three action properties compare a step with what was read several
awaits before, so the invariant must say what of an answer is still true when the task goes on: `Told` (a run that
is done stays done, and once released is never owner again). `Statuses`, `Claims`, `Deliveries`, `Fresh` and `Owner`
relate the maps; `Halted` says what a Stop leaves behind, a pause or a stopped predecessor that no claim may
follow without a resume.

**Recovery** (`PendingInputRecoveryProofs`): `TypeCorrect`, `SettlementsAreTrue`, `UnsafeStays`,
`CancellationsAreFenced`, `DrainLeavesQuiet`. `MarksProved` says that the goal an observation holds in memory, and the
marker in the log, are proved by the claim and the harness; `Progress` gives the order of the four writes, each of
which finds the earlier ones as it left them or as a later process would redo them.

**Journal** (`RunJournalProofs`): `TypeCorrect`, `FileFollows`, `FlushesSurvive`, `OnlyAppendsHolds`, `TellsInOrder`. `Shape` types the
variables as functions and carries the bound of the logs; `Writer` fits what the writer remembers of a file to the records in
memory; `Commits` says that a queued commit is for a record of a held log; `Files` keeps foreign files apart; `Durable`
is `FlushedSurvives` with the length that a power loss cannot take, without which it is not inductive. `TellsInOrder`
needs one fact more (`TInv`): the records of earlier boots are a beginning of each log, so that their number is the place
after which the present boot's records are told.

**Updates** (`ConversationUpdatesProofs`): `TypeCorrect`, `NoBatchIsStuck`, `LagIsNeverSilent`, `ReadingHasNoGaps`,
`FeedIsFaithful`. First come the operators: `InOrder` enumerates a finite set of numbers (`Ranks`, by cardinalities),
and what it returns fixes the rows of a projection. Four invariants follow.

* `Base` is the type invariant with two facts: the committed record of a store that serves is the file (`Published`), and
  a queued batch speaks of events its log holds (`Tasks`). From it `Moves` says once what any step does to the file:
  nothing, `Absent`, a new record, or an `Outcome` of the record before.
* `LagInv`: while the feed works, the end of each log is reached, queued in a batch or told, and no checkpoint is past its
  log untold. `LagIsTold` speaks of empty queues alone and is not inductive. `Begun` adds that a run which has a
  checkpoint has events, so that a start replays it.
* `Reading` is `GaplessReading` for every epoch, with the order of the reader's positions; no epoch, the reader's or the
  file's, is later than the last start, so that a new record never has an epoch that was read before.
* `Feed` is `FeedFollowsJournal` with the checkpoint inside the log, without which an appended event could change what is to show.

### Only model-checked

* `WakeServed`, `HeadServed`, `Quiesces`, `CloseDrains`, `FinishedAttemptEnds`, `Concludes`: liveness under fairness is
  out of the prover's reach. Every other property of the passing runs is a theorem.
* The properties of the three violation runs, which do not hold.

## 5. Plan

Built in this order: store, coordinator, dispatch, wake; then the scheduler's reconsideration, the run journal, the
feed, recovery, and the refinement proof. What could follow:

1. `AppAdmission`: idempotent requests through lost answers and restarts.
2. Worker deliveries and their recovery, user questions, retirement: protocols with a durable state of their own.
3. `settled-journal-reconciliation.ts`, and several originals in one recovery.

## 6. Not modelled, and why

Native protocols, child processes, file systems and sockets are I/O: their effect on the modelled
state is the reports they produce, which the models take in every order. Transcript projections,
the frontend, the CLI, schemas, templates and plugins have no protocol state; they are most of the repository's
lines. The lock of the
installation is an operating-system fact; the models use the fence it provides. The shape checks of
the codecs (lengths, character classes, digests) are abstracted, since no property tells them apart.

Within the modelled components:

* `ConversationUpdates` leaves out native producers (`upsertNativeBatch`), worker attention, the filtering of pages by
  conversation and the list of active runs in the bootstrap; a correlation is modelled as a task of the queue that
  commits or is refused without a trace.
* `RunJournal` leaves out the logs whose reading `bridge.ts:1690-1719` proves unnecessary, and the refusals to repair
  the log of an archived conversation, of a pending activation or for a read-only capture.
* `PendingInputDispatch` leaves out the routes, the domain guard and the harness-specific reads behind a preflight,
  whose answers are nondeterministic.
* `PendingInputRecovery` has one claim. Several originals are observed one after the other and meet only in
  `barred`. Power losses and replaced logs are in `RunJournal` only. A torn log that no metadata names, and a run
  of the metadata without its log (`bridge.ts:1720`), refuse the startup, which is no step of a claim.
* `HarnessDispatch` leaves out the configuration pins of queued launches.
* A preflight that hangs holds up a pass of the scheduler (`pending-input-scheduler.ts:254`); that the reads behind it are
  bounded is the adapters' business.

## 7. Running

    tlc -workers 2 -config MCPendingInputStore.cfg MCPendingInputStore.tla
    tlc -workers 2 -config HarnessDispatch.cfg HarnessDispatch.tla
    tlc -workers 2 -config PendingInputDispatch.cfg PendingInputDispatch.tla
    tlapm PendingInputStoreProofs.tla
    tlapm ConversationUpdatesProofs.tla

`PROJECT.json` names the module and the configuration of every run.
