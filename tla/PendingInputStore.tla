------------------------- MODULE PendingInputStore -------------------------
(***************************************************************************)
(* The durable queue of prompts that wait for a busy conversation:         *)
(* packages/sane-app/src/pending-input-store.ts, with the record invariant *)
(* decodePendingInputRecords of pending-input-codec.ts.                    *)
(*                                                                         *)
(* Every mutation of the store is synchronous: candidate, strict decode,   *)
(* atomic write, publication.  So each operation is one action, and what   *)
(* interleaves is the order of calls, failed writes that may or may not    *)
(* have reached the disk, crashes, and the startup classification.         *)
(*                                                                         *)
(* Identities.  An item is named by its conversation and the request that  *)
(* enqueued it.  A chain is named by the sequence number of its first      *)
(* item, a fresh identity as crypto.randomUUID's is.  A run stands for the *)
(* identities preallocated together for one claim: run, native command,    *)
(* attempt and authorization.  A refused call changes nothing and is a     *)
(* stuttering step.                                                        *)
(***************************************************************************)
EXTENDS Naturals, Sequences, FiniteSets

CONSTANTS
  Conv,          \* App conversations
  Req,           \* browser request ids: of inputs, removals and resumes
  Run,           \* preallocated dispatch identities
  Pin,           \* the admission, catalog and configuration a chain is pinned to
  Native,        \* native sessions of the harnesses
  OpenCode,      \* the native sessions whose harness can prove acceptance
  PauseCode,     \* the safety pauses callers impose
  MaxWaiting,    \* waiting inputs per conversation: 3 in the code
  MaxRevision,   \* Number.MAX_SAFE_INTEGER in the code
  MaxSequence    \* Number.MAX_SAFE_INTEGER in the code

\* The pauses the store imposes by itself, besides those of its callers.  A pause
\* is its code and its reason together, as equal() compares them.
OwnPause == {"restart", "acceptance-unknown", "stopped", "failed", "admission-unavailable"}

NoRun == "no-run"
NoPin == "no-pin"
NoNative == "no-native"
NoPause == "none"

ASSUME StoreAssumption ==
  /\ MaxWaiting \in Nat /\ MaxRevision \in Nat /\ MaxSequence \in Nat
  /\ NoRun \notin Run /\ NoPin \notin Pin /\ NoNative \notin Native
  /\ NoPause \notin PauseCode
  /\ OpenCode \subseteq Native /\ IsFiniteSet(Req)

VARIABLES
  mem,              \* this.records: what the process has published
  disk,             \* pending-inputs.json
  recoveryRequired, \* this.recoveryRequired
  failed,           \* this.storageFailed, with the reason it was set
  granted,          \* per conversation, the items whose beforeNative returned, in order
  mine              \* the runs this process claimed

vars == <<mem, disk, recoveryRequired, failed, granted, mine>>

----------------------------------------------------------------------------
(* Records. *)

Submission == {"not-submitted", "attempted", "submitted", "unknown"}
Acceptance == {"not-accepted", "accepted", "unknown"}
Status == {"completed", "failed", "interrupted"}

NoClaim == [run |-> NoRun, pred |-> NoRun, expected |-> 0, possibleNative |-> FALSE,
            uncertain |-> FALSE, submission |-> "none", acceptance |-> "none"]

ClaimRec == [run : Run \cup {NoRun}, pred : Run \cup {NoRun}, expected : Nat,
             possibleNative : BOOLEAN, uncertain : BOOLEAN,
             submission : Submission \cup {"none"}, acceptance : Acceptance \cup {"none"}]

NoItem == [state |-> "absent", seq |-> 0, chain |-> 0, pin |-> NoPin, native |-> NoNative,
           receipt |-> 0, claim |-> NoClaim, history |-> "none"]

ItemRec == [state : {"absent", "waiting", "claimed", "run-linked", "removed", "settled"},
            seq : Nat, chain : Nat, pin : Pin \cup {NoPin}, native : Native \cup {NoNative},
            receipt : Nat, claim : ClaimRec, history : Status \cup {"not-submitted", "none"}]

NoOp == [kind |-> "none", target |-> "none", outcome |-> "none", revision |-> 0]

OpRec == [kind : {"none", "remove", "resume"}, target : Req \cup {"none"},
          outcome : {"none", "removed", "already-removed", "claimed", "resumed"}, revision : Nat]

\* revision 0 is a conversation the records do not hold yet; chain 0 is null.
NewConv == [revision |-> 0, chain |-> 0, pin |-> NoPin, pause |-> NoPause,
            lastChain |-> 0, lastRun |-> NoRun,
            item |-> [r \in Req |-> NoItem], op |-> [r \in Req |-> NoOp]]

ConvRec == [revision : Nat, chain : Nat, pin : Pin \cup {NoPin},
            pause : PauseCode \cup OwnPause \cup {NoPause},
            lastChain : Nat, lastRun : Run \cup {NoRun},
            item : [Req -> ItemRec], op : [Req -> OpRec]]

Records == [next : Nat, conv : [Conv -> ConvRec]]

EmptyRecords == [next |-> 1, conv |-> [c \in Conv |-> NewConv]]

Active(i) == i.state \in {"waiting", "claimed", "run-linked"}
Unresolved(i) == i.state \in {"claimed", "run-linked"}
Waiting(i) == i.state = "waiting"

Some(P(_), cv) == \E r \in Req : P(cv.item[r])

IsHead(cv, r) ==
  /\ Waiting(cv.item[r])
  /\ \A q \in Req : Waiting(cv.item[q]) => cv.item[r].seq <= cv.item[q].seq

\* The ids of one conversation share a namespace: an input's id is no operation's.
Unused(cv, r) == cv.item[r].state = "absent" /\ cv.op[r].kind = "none"

RunUsed(rec, run) == \E c \in Conv, r \in Req : rec.conv[c].item[r].claim.run = run

----------------------------------------------------------------------------
(* validateEvidence: which evidence a claim can carry. *)

EvidenceOK(i, sub, acc) ==
  /\ IF sub = "not-submitted" THEN ~i.claim.possibleNative /\ acc = "not-accepted"
                              ELSE acc # "not-accepted"
  /\ sub \in {"attempted", "submitted"} => i.claim.possibleNative
  /\ acc = "accepted" => sub = "submitted" /\ i.native \in OpenCode

(* decodePendingInputRecords, in named parts. *)

ItemShape(i) ==
  /\ i.state = "absent" => i = NoItem
  /\ i.state \in {"waiting", "removed"} => i.claim = NoClaim /\ i.history = "none"
  /\ i.state \in {"claimed", "run-linked", "settled"} => i.claim.run # NoRun
  /\ i.state # "settled" => i.history = "none"

ItemEvidence(i) ==
  LET k == i.claim IN
  i.claim.run # NoRun =>
    /\ k.submission # "none" => EvidenceOK(i, k.submission, k.acceptance)
    /\ k.possibleNative => k.submission \notin {"none", "not-submitted"}
    /\ i.state = "claimed" =>
         ~k.possibleNative /\ k.submission \in {"none", "not-submitted", "unknown"}
    /\ k.submission = "unknown" => k.uncertain
    /\ i.state = "settled" =>
         /\ ~k.uncertain
         /\ IF i.history = "not-submitted"
              THEN ~k.possibleNative /\ k.submission = "not-submitted"
              ELSE i.history \in Status /\ k.submission = "submitted"

ItemRevisions(cv, i) ==
  i.state # "absent" =>
    /\ 0 < i.receipt /\ i.receipt <= cv.revision
    /\ i.claim.run # NoRun => i.receipt <= i.claim.expected /\ i.claim.expected < cv.revision

\* At most three waiting, one unresolved, on the one chain the record names.
ChainShape(cv) ==
  /\ Cardinality({r \in Req : Waiting(cv.item[r])}) <= MaxWaiting
  /\ \A r, q \in Req : Unresolved(cv.item[r]) /\ Unresolved(cv.item[q]) => r = q
  /\ \A r \in Req : Active(cv.item[r]) => cv.chain = cv.item[r].chain /\ cv.pin = cv.item[r].pin
  /\ cv.chain # 0 <=> Some(Active, cv)
  /\ \A r \in Req : Active(cv.item[r]) /\ cv.item[r].claim.uncertain => cv.pause # NoPause

\* Enqueue order is receipt order, and no claim has skipped an older waiter.
Ordered(cv) == \A r, q \in Req :
  LET i == cv.item[r]  j == cv.item[q] IN
  i.state # "absent" /\ j.state # "absent" /\ i.seq < j.seq =>
    /\ i.receipt < j.receipt
    /\ Waiting(i) => ~Unresolved(j)

Settlement(i) == i.state = "settled" /\ i.history \in Status

\* A claim names the run that was settled last in its chain, and
\* lastAuthorization is the newest settlement of the conversation.
Predecessors(cv) ==
  /\ \A r, q \in Req :
       /\ Settlement(cv.item[r]) /\ cv.item[q].claim.run # NoRun
       /\ cv.item[r].chain = cv.item[q].chain /\ cv.item[r].seq < cv.item[q].seq
       /\ \A x \in Req : Settlement(cv.item[x]) /\ cv.item[x].chain = cv.item[q].chain
                           => cv.item[x].seq <= cv.item[r].seq \/ cv.item[x].seq >= cv.item[q].seq
       => cv.item[q].claim.pred = cv.item[r].claim.run
  /\ cv.lastRun = NoRun <=> ~Some(Settlement, cv)
  /\ \A r \in Req :
       /\ Settlement(cv.item[r])
       /\ \A x \in Req : Settlement(cv.item[x]) => cv.item[x].seq <= cv.item[r].seq
       => cv.lastRun = cv.item[r].claim.run /\ cv.lastChain = cv.item[r].chain

Operations(cv) == \A o \in Req :
  LET op == cv.op[o] IN
  op.kind # "none" =>
    /\ 0 < op.revision /\ op.revision <= cv.revision
    /\ cv.item[o].state = "absent"
    /\ op.kind = "remove" =>
         /\ op.target \in Req /\ cv.item[op.target].state # "absent"
         /\ IF op.outcome = "claimed" THEN cv.item[op.target].claim.run # NoRun
                                      ELSE cv.item[op.target].state = "removed"

Exists(rec, c, r) == rec.conv[c].item[r].state # "absent"

\* Across conversations: sequences, runs and native sessions have one owner each.
Global(rec) == \A c, d \in Conv : \A r, q \in Req :
  /\ Exists(rec, c, r) => 0 < rec.conv[c].item[r].seq /\ rec.conv[c].item[r].seq < rec.next
  /\ Exists(rec, c, r) /\ Exists(rec, d, q) /\ <<c, r>> # <<d, q>> =>
       LET i == rec.conv[c].item[r]  j == rec.conv[d].item[q] IN
       /\ i.seq # j.seq
       /\ i.claim.run # NoRun => i.claim.run # j.claim.run
       /\ c # d => i.native # j.native
       /\ i.chain = j.chain => c = d /\ i.pin = j.pin

ConvOK(cv) ==
  /\ \A r \in Req : ItemShape(cv.item[r]) /\ ItemEvidence(cv.item[r]) /\ ItemRevisions(cv, cv.item[r])
  /\ cv.pause \in PauseCode \cup OwnPause \cup {NoPause}
  /\ ChainShape(cv) /\ Ordered(cv) /\ Predecessors(cv) /\ Operations(cv)

Decodes(rec) == 0 < rec.next /\ Global(rec) /\ \A c \in Conv : ConvOK(rec.conv[c])

----------------------------------------------------------------------------
(* change(): the frame of every mutation. *)

Put(c, cv) == [mem EXCEPT !.conv[c] = cv]

\* Mutant: the caller's effect is not withdrawn when the write fails.
ChangeAnswersEarly(cand, effect) ==
  /\ failed = "no"
  /\ IF ~Decodes(cand)
       THEN failed' = "invariant" /\ UNCHANGED <<mem, disk, recoveryRequired, granted, mine>>
       ELSE \/ mem' = cand /\ disk' = cand /\ effect /\ UNCHANGED <<failed>>
            \/ failed' = "write" /\ disk' \in {disk, cand} /\ UNCHANGED mem /\ effect

\* The write can fail before or after its rename: either way nothing is
\* published and the process refuses every later mutation.
Change(cand, effect) ==
  /\ failed = "no"
  /\ IF ~Decodes(cand)
       THEN failed' = "invariant" /\ UNCHANGED <<mem, disk, recoveryRequired, granted, mine>>
       ELSE \/ mem' = cand /\ disk' = cand /\ effect /\ UNCHANGED <<failed>>
            \/ /\ failed' = "write" /\ disk' \in {disk, cand}
               /\ UNCHANGED <<mem, recoveryRequired, granted, mine>>

Mutate(c, cv, effect) == ~recoveryRequired /\ Change(Put(c, cv), effect)

NoEffect == UNCHANGED <<recoveryRequired, granted, mine>>

\* Mutant: a chain outlives its last active item.
FinishChainNever(cv) == cv

FinishChain(cv) ==
  IF Some(Active, cv) THEN cv ELSE [cv EXCEPT !.chain = 0, !.pin = NoPin]

CanBump(cv) == cv.revision < MaxRevision

PauseIfNone(cv, code) == IF cv.pause = NoPause THEN code ELSE cv.pause

(***************************************************************************)
(* The operations: what each makes of a conversation, then the action.     *)
(***************************************************************************)

\* enqueue.  The decode of the request and its fingerprint are abstracted: the
\* same id with the same intent answers with the old receipt and changes nothing.
Enqueued(rec, c, r, p, n) ==
  LET cv == rec.conv[c]
      chain == IF cv.chain = 0 THEN rec.next ELSE cv.chain
      item == [NoItem EXCEPT !.state = "waiting", !.seq = rec.next, !.chain = chain,
                             !.pin = p, !.native = n, !.receipt = cv.revision + 1]
  IN [next |-> rec.next + 1,
      conv |-> [rec.conv EXCEPT ![c] =
        [cv EXCEPT !.revision = @ + 1, !.chain = chain, !.pin = p, !.item[r] = item]]]

Enqueue(c, r, p, n) ==
  LET cv == mem.conv[c] IN
  /\ Unused(cv, r)
  /\ \A d \in Conv \ {c} : \A q \in Req : mem.conv[d].item[q].native # n
  /\ CanBump(cv) /\ mem.next < MaxSequence
  /\ Cardinality({q \in Req : Waiting(cv.item[q])}) < MaxWaiting
  /\ cv.chain # 0 => cv.pin = p
  /\ ~recoveryRequired
  /\ Change(Enqueued(mem, c, r, p, n), NoEffect)

\* remove.  A claimed input is never withdrawn; the answer names its run.
RemovalOutcome(i) ==
  IF i.claim # NoClaim THEN "claimed"
  ELSE IF i.state = "removed" THEN "already-removed" ELSE "removed"

Removed(cv, o, r) ==
  FinishChain([cv EXCEPT !.revision = @ + 1,
    !.item[r].state = IF cv.item[r].claim # NoClaim THEN @ ELSE "removed",
    !.op[o] = [kind |-> "remove", target |-> r,
               outcome |-> RemovalOutcome(cv.item[r]), revision |-> cv.revision + 1]])

Remove(c, o, r) ==
  LET cv == mem.conv[c] IN
  /\ Unused(cv, o) /\ cv.item[r].state # "absent" /\ CanBump(cv)
  /\ Mutate(c, Removed(cv, o, r), NoEffect)

\* resume.
Resumed(cv, o) ==
  [cv EXCEPT !.pause = NoPause, !.revision = @ + 1,
             !.op[o] = [kind |-> "resume", target |-> "none",
                        outcome |-> "resumed", revision |-> cv.revision + 1]]

Resume(c, o, expected) ==
  LET cv == mem.conv[c] IN
  /\ Unused(cv, o) /\ cv.revision > 0 /\ expected = cv.revision
  /\ ~Some(Unresolved, cv) /\ cv.chain # 0 /\ Some(Waiting, cv) /\ CanBump(cv)
  /\ Mutate(c, Resumed(cv, o), NoEffect)

\* pause.  An equal pause is answered without a write.
Paused(cv, code) == [cv EXCEPT !.pause = code, !.revision = @ + 1]

Pause(c, code) ==
  LET cv == mem.conv[c] IN
  /\ cv.revision > 0 /\ cv.pause # code /\ CanBump(cv)
  /\ Mutate(c, Paused(cv, code), NoEffect)

\* claim.
Claimed(cv, r, run, pred) ==
  [cv EXCEPT !.revision = @ + 1,
             !.item[r] = [@ EXCEPT !.state = "claimed",
               !.claim = [NoClaim EXCEPT !.run = run, !.pred = pred, !.expected = cv.revision]]]

Claim(c, r, run, pred, expected) ==
  LET cv == mem.conv[c] IN
  /\ expected = cv.revision /\ cv.pause = NoPause
  /\ ~Some(Unresolved, cv) /\ IsHead(cv, r)
  /\ cv.lastRun # NoRun /\ cv.lastChain = cv.item[r].chain => pred = cv.lastRun
  /\ ~RunUsed(mem, run) /\ CanBump(cv)
  /\ Mutate(c, Claimed(cv, r, run, pred),
            mine' = mine \cup {run} /\ UNCHANGED <<recoveryRequired, granted>>)

\* owned(): every later step names the exact unresolved claim of an item.
Owned(cv, r) == Unresolved(cv.item[r])

\* A claim no step towards the harness has been taken for.
Untouched(k) == ~k.uncertain /\ ~k.possibleNative /\ k.submission = "none"

\* link: the run record of the claim exists.
Linked(cv, r) == [cv EXCEPT !.revision = @ + 1, !.item[r].state = "run-linked"]

Link(c, r) ==
  LET cv == mem.conv[c] IN
  /\ Owned(cv, r) /\ cv.pause = NoPause /\ cv.item[r].state = "claimed"
  /\ Untouched(cv.item[r].claim) /\ CanBump(cv)
  /\ Mutate(c, Linked(cv, r), NoEffect)

\* beforeNative: the durable intent, returned to the caller that then submits.
Attempted(cv, r) ==
  [cv EXCEPT !.revision = @ + 1,
             !.item[r].claim = [@ EXCEPT !.possibleNative = TRUE,
                                         !.submission = "attempted", !.acceptance = "unknown"]]

\* Mutant: a second intent for the same claim.
BeforeNativeAgain(c, r) ==
  LET cv == mem.conv[c] IN
  /\ Owned(cv, r) /\ cv.pause = NoPause /\ cv.item[r].state = "run-linked"
  /\ ~cv.item[r].claim.uncertain /\ CanBump(cv)
  /\ Mutate(c, Attempted(cv, r),
            granted' = [granted EXCEPT ![c] = Append(@, r)] /\ UNCHANGED <<recoveryRequired, mine>>)

BeforeNative(c, r) ==
  LET cv == mem.conv[c] IN
  /\ Owned(cv, r) /\ cv.pause = NoPause /\ cv.item[r].state = "run-linked"
  /\ Untouched(cv.item[r].claim) /\ CanBump(cv)
  /\ Mutate(c, Attempted(cv, r),
            granted' = [granted EXCEPT ![c] = Append(@, r)] /\ UNCHANGED <<recoveryRequired, mine>>)

\* outcome: evidence of delivery, which is never taken back.
NoReversal(k, sub, acc) ==
  /\ k.submission = "not-submitted" => sub = "not-submitted"
  /\ k.submission = "submitted" => sub = "submitted"
  /\ k.acceptance = "accepted" => acc = "accepted"

WithEvidence(k, sub, acc) ==
  [k EXCEPT !.submission = sub, !.acceptance = acc,
            !.uncertain = IF sub = "unknown" THEN TRUE ELSE @]

EvidencePause(cv, sub) ==
  IF sub = "unknown" THEN PauseIfNone(cv, "acceptance-unknown") ELSE cv.pause

Evidenced(cv, r, sub, acc) ==
  [cv EXCEPT !.revision = @ + 1, !.pause = EvidencePause(cv, sub),
             !.item[r].claim = WithEvidence(@, sub, acc)]

\* Mutant: later evidence overrides earlier evidence.
OutcomeReversed(c, r, sub, acc) ==
  LET cv == mem.conv[c]  i == cv.item[r] IN
  /\ Owned(cv, r) /\ EvidenceOK(i, sub, acc) /\ sub # "attempted"
  /\ i.state = "run-linked" \/ sub \in {"not-submitted", "unknown"}
  /\ CanBump(cv)
  /\ Mutate(c, Evidenced(cv, r, sub, acc), NoEffect)

Outcome(c, r, sub, acc) ==
  LET cv == mem.conv[c]  i == cv.item[r] IN
  /\ Owned(cv, r) /\ EvidenceOK(i, sub, acc) /\ sub # "attempted"
  /\ i.state = "run-linked" \/ sub \in {"not-submitted", "unknown"}
  /\ NoReversal(i.claim, sub, acc) /\ CanBump(cv)
  /\ Mutate(c, Evidenced(cv, r, sub, acc), NoEffect)

\* Mutant: a completed run lifts the pause.
SettlePauseLifts(cv, status) ==
  CASE status = "completed" -> NoPause
    [] status = "interrupted" -> PauseIfNone(cv, "stopped")
    [] status = "failed" -> PauseIfNone(cv, "failed")

\* settle: the reconciled end of a submitted run.
SettlePause(cv, status) ==
  CASE status = "completed" -> cv.pause
    [] status = "interrupted" -> PauseIfNone(cv, "stopped")
    [] status = "failed" -> PauseIfNone(cv, "failed")

Ended(i, history) ==
  [i EXCEPT !.state = "settled", !.history = history, !.claim = [@ EXCEPT !.uncertain = FALSE]]

Settled(cv, r, status) ==
  FinishChain([cv EXCEPT !.revision = @ + 1, !.pause = SettlePause(cv, status),
                         !.lastChain = cv.item[r].chain, !.lastRun = cv.item[r].claim.run,
                         !.item[r] = Ended(@, status)])

Settle(c, r, status) ==
  LET cv == mem.conv[c] IN
  /\ Owned(cv, r) /\ cv.item[r].state = "run-linked"
  /\ cv.item[r].claim.submission = "submitted" /\ CanBump(cv)
  /\ Mutate(c, Settled(cv, r, status), NoEffect)

\* archiveNotSubmitted: the reconciled end of a run that was withheld.
Archived(cv, r) ==
  FinishChain([cv EXCEPT !.revision = @ + 1, !.pause = PauseIfNone(cv, "admission-unavailable"),
                         !.item[r] = Ended(@, "not-submitted")])

ArchiveNotSubmitted(c, r) ==
  LET cv == mem.conv[c] IN
  /\ Owned(cv, r) /\ ~cv.item[r].claim.possibleNative
  /\ cv.item[r].claim.submission = "not-submitted" /\ CanBump(cv)
  /\ Mutate(c, Archived(cv, r), NoEffect)

\* Mutant: the classification does not count as a change.
RecoveredSilently(cv) ==
  IF ~Some(Active, cv) THEN cv
  ELSE [cv EXCEPT !.pause = PauseIfNone(cv, "restart"),
                  !.item = [r \in Req |-> IF Unresolved(cv.item[r])
                                            THEN [cv.item[r] EXCEPT !.claim.uncertain = TRUE]
                                            ELSE cv.item[r]]]

\* recover: the explicit startup mutation, under the App lock.
Recovered(cv) ==
  IF ~Some(Active, cv) THEN cv
  ELSE [cv EXCEPT !.revision = @ + 1, !.pause = PauseIfNone(cv, "restart"),
                  !.item = [r \in Req |-> IF Unresolved(cv.item[r])
                                            THEN [cv.item[r] EXCEPT !.claim.uncertain = TRUE]
                                            ELSE cv.item[r]]]

Recover ==
  /\ recoveryRequired
  /\ \A c \in Conv : Some(Active, mem.conv[c]) => CanBump(mem.conv[c])
  /\ Change([mem EXCEPT !.conv = [c \in Conv |-> Recovered(mem.conv[c])]],
            recoveryRequired' = FALSE /\ UNCHANGED <<granted, mine>>)

\* Mutant: the next process takes the loaded claims for its own.
RestartTrusting ==
  /\ mem' = disk /\ failed' = "no" /\ mine' = {}
  /\ recoveryRequired' = FALSE
  /\ UNCHANGED <<disk, granted>>

\* The process ends, at any step, and the next one loads what the disk holds.
Restart ==
  /\ mem' = disk /\ failed' = "no" /\ mine' = {}
  /\ recoveryRequired' = \E c \in Conv : Some(Active, disk.conv[c])
  /\ UNCHANGED <<disk, granted>>

\* beforeMutation or validateLive throws anything but a domain refusal.
FenceFails ==
  /\ failed = "no" /\ failed' = "fence"
  /\ UNCHANGED <<mem, disk, recoveryRequired, granted, mine>>

----------------------------------------------------------------------------

Init ==
  /\ mem = EmptyRecords /\ disk = EmptyRecords
  /\ recoveryRequired = FALSE /\ failed = "no"
  /\ granted = [c \in Conv |-> <<>>] /\ mine = {}

Ask(c) ==
  \/ \E r \in Req, p \in Pin, n \in Native : Enqueue(c, r, p, n)
  \/ \E o, r \in Req : Remove(c, o, r)
  \/ \E o \in Req, e \in 1..MaxRevision : Resume(c, o, e)
  \/ \E code \in PauseCode : Pause(c, code)

Dispatch(c) ==
  \/ \E r \in Req, run \in Run, pred \in Run \cup {NoRun}, e \in 1..MaxRevision :
       Claim(c, r, run, pred, e)
  \/ \E r \in Req : Link(c, r) \/ BeforeNative(c, r) \/ ArchiveNotSubmitted(c, r)
  \/ \E r \in Req, sub \in Submission, acc \in Acceptance : Outcome(c, r, sub, acc)
  \/ \E r \in Req, status \in Status : Settle(c, r, status)

Next == (\E c \in Conv : Ask(c) \/ Dispatch(c)) \/ Recover \/ Restart \/ FenceFails

Spec == Init /\ [][Next]_vars

----------------------------------------------------------------------------
(* Properties. *)

\* Records keep their shape, in the process and on disk.
TypeOK ==
  /\ mem \in Records /\ disk \in Records
  /\ recoveryRequired \in BOOLEAN
  /\ failed \in {"no", "write", "fence", "invariant"}
  /\ granted \in [Conv -> Seq(Req)]
  /\ mine \subseteq Run

\* No sequence of legal calls, failed writes and restarts builds a candidate the
\* strict decode refuses: "Pending input invariant failed" (store.ts:80) never
\* stops a healthy process, and the file always loads at the next start.
NeverPoisoned == failed # "invariant"

\* What the decode does not say and its preservation needs: chains follow one
\* another, and whatever was claimed lies before everything still active.
Frontier(cv) == \A r, q \in Req :
  LET i == cv.item[r]  j == cv.item[q] IN
  i.state # "absent" =>
    /\ 0 < i.chain /\ i.chain <= i.seq
    /\ cv.chain # 0 => i.chain <= cv.chain
    /\ j.state # "absent" /\ i.seq < j.seq =>
         /\ i.chain <= j.chain
         /\ j.claim.run # NoRun => ~Active(i)

\* The records are loadable and in order wherever they are kept, and a process
\* that has not failed has published exactly what the disk holds.
RecordsInv ==
  /\ NeverPoisoned
  /\ failed = "no" => mem = disk
  /\ \A rec \in {mem, disk} : Decodes(rec) /\ \A c \in Conv : Frontier(rec.conv[c])

\* The harness is handed the prompts of a conversation in enqueue order, none
\* twice, and none before the one handed over earlier is settled, whatever
\* crashes and failed writes lie between the two grants.
OneAtATimeInOrder == \A c \in Conv : \A k \in 2..Len(granted[c]) :
  LET item == disk.conv[c].item IN
  /\ item[granted[c][k - 1]].seq < item[granted[c][k]].seq
  /\ item[granted[c][k - 1]].state = "settled"

\* What reached the harness is never forgotten: the durable claim says so, it is
\* neither removed nor archived as not submitted, and a restart cannot undo it.
GrantIsDurable == \A c \in Conv : \A k \in 1..Len(granted[c]) :
  \A rec \in {mem, disk} :
    LET i == rec.conv[c].item[granted[c][k]] IN
    /\ i.claim.possibleNative /\ i.claim.submission \notin {"none", "not-submitted"}
    /\ i.state # "removed" /\ i.history # "not-submitted"

\* A claim is never replayed by a later process: the native boundary opens only
\* for a run the present process claimed itself, in a conversation that holds no
\* uncertain claim, and never during the startup classification.
GrantOnlyByClaimant ==
  [][\A c \in Conv : granted'[c] # granted[c] =>
       LET r == granted'[c][Len(granted'[c])] IN
       /\ mem.conv[c].item[r].claim.run \in mine
       /\ \A q \in Req : ~(Unresolved(mem.conv[c].item[q]) /\ mem.conv[c].item[q].claim.uncertain)
       /\ ~recoveryRequired]_vars

\* "No outcome or unhide silently clears a pause" (store.ts:275): a durable pause
\* ends only with a resume request the records keep, restarts included.
OnlyResumeClearsPause ==
  [][\A c \in Conv : mem.conv[c].pause # NoPause /\ mem'.conv[c].pause = NoPause =>
       \E o \in Req : mem.conv[c].op[o].kind = "none" /\ mem'.conv[c].op[o].kind = "resume"]_vars

\* A conversation that looks different has a greater revision, so a browser or a
\* scheduler that compares revisions never mistakes a changed queue for the one
\* it read, even after a write that failed and was found on disk by a restart.
RevisionWitnessesChange ==
  [][\A c \in Conv : mem'.conv[c] # mem.conv[c] =>
       mem'.conv[c].revision > mem.conv[c].revision]_vars

\* An acknowledged item is never lost nor renumbered, a removed or settled one
\* never changes again, and delivery evidence is never reversed.
HistoryIsFinal ==
  [][\A c \in Conv, r \in Req :
       LET i == mem.conv[c].item[r]  j == mem'.conv[c].item[r] IN
       /\ i.state # "absent" => j.state # "absent" /\ j.seq = i.seq /\ j.chain = i.chain
       /\ i.state \in {"removed", "settled"} => j = i
       /\ i.claim # NoClaim => j.claim.run = i.claim.run /\ NoReversal(i.claim, j.claim.submission, j.claim.acceptance)]_vars
=============================================================================
