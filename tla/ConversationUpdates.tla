------------------------- MODULE ConversationUpdates -------------------------
(***************************************************************************)
(* The feed of conversation updates: ConversationUpdates                   *)
(* (conversation-updates.ts), the store behind it                          *)
(* (conversation-update-store.ts), and how a start of the bridge replays   *)
(* the run logs into it (bridge.ts), all under packages/sane-app/src.      *)
(*                                                                         *)
(* Every event that a run's log has accepted is queued for projection, in  *)
(* batches of which only the last one in the queue may still collect.  A   *)
(* batch commits its rows and its source's checkpoint in one write.  Old   *)
(* rows are pruned; a reader whose cursor is older must start again.  What *)
(* a crash loses, the next start replays from the log.                     *)
(*                                                                         *)
(* A source is a run that is eligible for the feed.  The projection of an  *)
(* event is abstracted to whether it shows as an update ("reply"), ends    *)
(* the run ("end") or neither ("quiet"); native producers, which bring     *)
(* batches of their own, are left out.                                     *)
(***************************************************************************)
EXTENDS Naturals, Sequences, FiniteSets

CONSTANTS
  Source,     \* the runs whose events are projected
  MaxBatch,   \* PRIMARY_BATCH_EVENTS
  MaxRows,    \* CONVERSATION_UPDATE_MAX_ROWS
  PageLimit,  \* CONVERSATION_UPDATE_MAX_PAGE
  Kind,       \* bound: the kinds of events that occur
  MaxSeq,     \* bound: events of one run
  MaxQueue,   \* bound: tasks a correlation may find before it
  MaxBoots,   \* bound: starts of the process
  MaxLosses   \* bound: ends that go unrecorded, logs cut, records set aside

ASSUME UpdatesAssumption ==
  /\ MaxBatch \in Nat \ {0} /\ MaxRows \in Nat \ {0} /\ PageLimit \in Nat \ {0}
  /\ Kind \subseteq {"quiet", "reply", "end"}
  /\ MaxSeq \in Nat \ {0} /\ MaxQueue \in Nat /\ MaxBoots \in Nat \ {0} /\ MaxLosses \in Nat

VARIABLES
  phase,     \* "down", "loading", "serving" or "closing"
  boots,     \* how often the process was started
  journal,   \* the events each run's log has accepted
  ended,     \* the runs that the metadata calls failed or interrupted
  cut,       \* history: the runs whose log a power loss has cut
  losses,    \* how many such there were
  disk,      \* conversation-updates.json
  record,    \* the store's committed record
  health,    \* the store's health: "ready" or "unavailable"
  problems,  \* producerProblems: the sources that are degraded
  queue,     \* the tasks that wait, the running one first
  replayed,  \* startup: the runs whose replay was asked for
  notes,     \* startup: log lengths to be recorded
  reader     \* a reader of the feed

world == <<journal, ended, cut, losses>>
store == <<disk, record, health>>
startup == <<replayed, notes>>
vars == <<phase, boots, world, store, problems, queue, startup, reader>>

\* The record: every row that was ever appended (the history of the feed), how many
\* of them were pruned (retainedAfter), and the checkpoints: how far a source's log
\* is projected, whether its end is indexed, and the log length noted for it.
Empty(epoch) == [epoch |-> epoch, log |-> <<>>, floor |-> 0,
                 through |-> [s \in Source |-> 0], indexed |-> {}, noted |-> [s \in Source |-> 0]]
Absent == Empty(0)
HeadOf(r) == Len(r.log)

NoReader == [epoch |-> 0, from |-> 0, after |-> 0, through |-> 0, got |-> {}]
NoNotes == [s \in Source |-> 0]

Up == phase # "down"
Ready == health = "ready"

----------------------------------------------------------------------------
(* The queue of tasks. *)

Batch(s, n, full) == [kind |-> "batch", source |-> s, first |-> n, last |-> n, ready |-> full]
Replay(s) == [kind |-> "replay", source |-> s]
Note == [kind |-> "note"]
Correlation(id) == [kind |-> "correlate", id |-> id]

Last(q) == q[Len(q)]
Size(batch) == batch.last - batch.first + 1

\* Only the last task can be a batch that still collects (primaryBatch).
Collecting == queue # <<>> /\ Last(queue).kind = "batch" /\ ~Last(queue).ready
Sealed == IF Collecting THEN [queue EXCEPT ![Len(queue)].ready = TRUE] ELSE queue

\* Mutant: a new task leaves the batch before it as it is.
QueuedUnsealed(task) == Append(queue, task)

\* enqueue: whatever comes next seals the batch before it.
Queued(task) == Append(Sealed, task)

\* The zero-delay timer of the batch that collects.
Seal == Collecting /\ queue' = Sealed /\ UNCHANGED <<phase, boots, world, store, problems, startup, reader>>

----------------------------------------------------------------------------
(* Events. *)

\* ingestCommitted: an event joins the batch of its run if that still collects and
\* has room; a batch is full by its events or, at any time, by its bytes.
Joins(s, n) ==
  Collecting /\ LET b == Last(queue) IN b.source = s /\ b.last + 1 = n /\ Size(b) < MaxBatch

Ingested(s, n, joined, full) ==
  IF joined
  THEN LET b == [Last(queue) EXCEPT !.last = n]
       IN [queue EXCEPT ![Len(queue)] = [b EXCEPT !.ready = full \/ Size(b) >= MaxBatch]]
  ELSE Queued(Batch(s, n, full \/ MaxBatch = 1))

\* An event is appended to a run's log, and only then told to the feed.  While the
\* bridge loads, only runs that were replayed have events.
Event(s) ==
  /\ Up /\ Len(journal[s]) < MaxSeq
  /\ s \in replayed /\ \A i \in 1 .. Len(queue) : queue[i] # Replay(s)
  /\ \E kind \in Kind :
       /\ journal' = [journal EXCEPT ![s] = Append(@, kind)]
       /\ ended' = IF kind = "end" THEN ended \cup {s} ELSE ended
       /\ UNCHANGED <<cut, losses>>
  /\ LET n == Len(journal[s]) + 1
     IN IF phase = "closing" THEN UNCHANGED queue
        ELSE \E joined, full \in BOOLEAN :
               /\ joined => Joins(s, n)
               /\ queue' = Ingested(s, n, joined, full)
  /\ UNCHANGED <<phase, boots, store, problems, startup, reader>>

\* A reply's correlation names the update it belongs to.
Correlate ==
  /\ phase = "serving" /\ Len(queue) < MaxQueue
  /\ \E i \in 1 .. HeadOf(record) :
       record.log[i].rev = 1 /\ queue' = Queued(Correlation(record.log[i].id))
  /\ UNCHANGED <<phase, boots, world, store, problems, startup, reader>>

----------------------------------------------------------------------------
(* The store. *)

\* The rows a reader can still be given, and the latest row of an occurrence.
Retained(r) == r.floor + 1 .. HeadOf(r)
Newest(r, id) == CHOOSE i \in Retained(r) :
  r.log[i].id = id /\ \A j \in Retained(r) : r.log[j].id = id => j <= i
Known(r, id) == \E i \in Retained(r) : r.log[i].id = id

\* Mutant: the limit is reached before rows are pruned, and one more is kept.
PrunedLate(r) == {[r EXCEPT !.floor = f] : f \in {g \in r.floor .. HeadOf(r) : HeadOf(r) - g <= MaxRows + 1}}

\* Mutant: pruning forgets the checkpoints as well.
PrunedWhole(r) ==
  {IF f = r.floor THEN r ELSE [r EXCEPT !.floor = f, !.through = Empty(0).through] :
     f \in {g \in r.floor .. HeadOf(r) : HeadOf(r) - g <= MaxRows}}

\* Rows are pruned, oldest first, until the record fits by rows and by bytes.
Pruned(r) == {[r EXCEPT !.floor = f] : f \in {g \in r.floor .. HeadOf(r) : HeadOf(r) - g <= MaxRows}}

\* One synchronous write: it succeeds, or fails before or after the new record is in
\* place, and then nothing is published until a restart.
Save(next) ==
  \/ record' = next /\ disk' = next /\ UNCHANGED health
  \/ health' = "unavailable" /\ disk' \in {disk, next} /\ UNCHANGED record

\* commitCandidates: nothing to do, or the pruned outcome is saved.
Commit(next) ==
  IF next = record THEN UNCHANGED store
  ELSE \E r \in Pruned(next) : Save(r)

\* The occurrences in the events of s from its checkpoint up to n: its replies, and its
\* end unless that is indexed.
Shows(s, r, n) ==
  \/ journal[s][n] = "reply"
  \/ journal[s][n] = "end" /\ s \notin r.indexed /\ \A m \in r.through[s] + 1 .. n - 1 : journal[s][m] # "end"
Id(s, n) == IF journal[s][n] = "end" THEN <<s, 0>> ELSE <<s, n>>

Row(r, k, id) == [id |-> id, occ |-> HeadOf(r) + k, rev |-> 1]
WithRows(r, ids) == [r EXCEPT !.log = @ \o [k \in 1 .. Len(ids) |-> Row(r, k, ids[k])]]

\* The members of a finite set of numbers, in order.
InOrder(P) == [k \in 1 .. Cardinality(P) |-> CHOOSE x \in P : Cardinality({y \in P : y <= x}) = k]

Fresh(s, r, upTo) ==
  LET positions == InOrder({n \in r.through[s] + 1 .. upTo : Shows(s, r, n)})
  IN [k \in 1 .. Len(positions) |-> Id(s, positions[k])]
Ends(s, r, upTo) == \E n \in r.through[s] + 1 .. upTo : journal[s][n] = "end"

\* The record once the events of s up to upTo are projected; a new checkpoint has no
\* noted length.
Projected(s, r, upTo) ==
  [WithRows(r, Fresh(s, r, upTo)) EXCEPT
     !.through[s] = upTo, !.noted[s] = 0,
     !.indexed = IF Ends(s, r, upTo) THEN @ \cup {s} ELSE @]

\* A replay also indexes an end that only the metadata records.
Terminated(s, r) ==
  IF s \in ended \ r.indexed
  THEN [WithRows(r, <<<<s, 0>>>>) EXCEPT !.indexed = @ \cup {s}, !.noted[s] = 0]
  ELSE r

\* A second revision of an occurrence that is still retained and not yet correlated.
Correlated(r, id) ==
  IF Known(r, id) /\ r.log[Newest(r, id)].rev = 1
  THEN [r EXCEPT !.log = Append(@, [r.log[Newest(r, id)] EXCEPT !.rev = 2])]
  ELSE r

----------------------------------------------------------------------------
(* The worker of the queue. *)

\* Mutant: a refused batch degrades nothing.
RefuseSilently(s) == UNCHANGED <<problems, store>>

\* A batch or a replay is refused, by its own check or by the store's bounds: nothing
\* is written, and the source is degraded.
Refuse(s) == problems' = problems \cup {s} /\ UNCHANGED store

\* projectPrimaryBatch: the events of a degraded source, and events at or below the
\* checkpoint, are skipped; a gap is refused.
Batched(b) ==
  LET s == b.source
      through == record.through[s]
  IN \/ (s \in problems \/ b.last <= through) /\ UNCHANGED <<store, problems>>
     \/ /\ s \notin problems /\ b.last > through
        /\ \/ b.first > through + 1 /\ Refuse(s)
           \/ b.first <= through + 1 /\ ~Ready /\ UNCHANGED <<store, problems>>
           \/ /\ b.first <= through + 1 /\ Ready
              /\ \/ Commit(Projected(s, record, b.last)) /\ UNCHANGED problems
                 \/ Refuse(s)

\* replayRun: the whole log, which must reach the checkpoint.  The bridge notes the
\* length of a log that was replayed.
Replayed(s) ==
  LET n == Len(journal[s]) IN
  \/ n >= record.through[s] /\ ~Ready /\ UNCHANGED <<store, problems, notes>>
  \/ /\ n >= record.through[s] /\ Ready
     /\ Commit(Terminated(s, Projected(s, record, n)))
     /\ problems' = IF health' = "ready" THEN problems \ {s} ELSE problems
     /\ notes' = IF health' = "ready" THEN [notes EXCEPT ![s] = n] ELSE notes
  \/ (n < record.through[s] \/ Ready) /\ Refuse(s) /\ UNCHANGED notes

\* A checkpoint is settled for n events: it has projected them, and the end if there is one.
Settled(s, r, n) == n > 0 /\ r.through[s] = n /\ (s \in ended => s \in r.indexed)

\* noteJournalBytes: lengths are noted for checkpoints that are still settled for them.
\* A start that cannot note them fails.
Noted(r) == [r EXCEPT !.noted = [s \in Source |-> IF Settled(s, r, notes[s]) THEN notes[s] ELSE @[s]]]
NoteWritten ==
  /\ Ready
  /\ IF Noted(record) = record THEN UNCHANGED store ELSE Save(Noted(record))
  /\ health' = "ready"

\* correlate: a refused correlation has no source to degrade and leaves no trace.
Related(id) == (Ready /\ Commit(Correlated(record, id))) \/ UNCHANGED store

Work ==
  /\ queue # <<>>
  /\ LET task == queue[1] IN
     \/ task.kind = "batch" /\ task.ready /\ Batched(task) /\ UNCHANGED <<phase, startup>>
     \/ task.kind = "replay" /\ Replayed(task.source) /\ UNCHANGED <<phase, replayed>>
     \/ task.kind = "correlate" /\ Related(task.id) /\ UNCHANGED <<phase, problems, startup>>
     \/ /\ task.kind = "note" /\ NoteWritten
        /\ phase' = "serving" /\ UNCHANGED <<problems, startup>>
  /\ queue' = Tail(queue)
  /\ UNCHANGED <<boots, world, reader>>

----------------------------------------------------------------------------
(* Start and stop. *)

\* load: the record that is there, a new one where there is none, or, when that cannot
\* be read or written, no feed; the process runs without it.
Load ==
  \/ disk # Absent /\ record' = disk /\ health' = "ready" /\ UNCHANGED disk
  \/ /\ disk = Absent
     /\ record' = Empty(boots') /\ disk' = Empty(boots') /\ health' = "ready"
  \/ /\ record' = Absent /\ health' = "unavailable"
     /\ disk' \in {disk, IF disk = Absent THEN Empty(boots') ELSE disk}

Start ==
  /\ phase = "down" /\ boots < MaxBoots
  /\ phase' = "loading" /\ boots' = boots + 1
  /\ Load
  /\ problems' = {} /\ queue' = <<>> /\ notes' = NoNotes
  /\ replayed' = {s \in Source : journal[s] = <<>>}  \* runs that start later
  /\ UNCHANGED <<world, reader>>

Awaited == {"replay", "note"}
Waits == \E i \in 1 .. Len(queue) : queue[i].kind \in Awaited

\* A run of the metadata: covered by its noted length, settled by its last sequence
\* number, or read and replayed.
Recover(s) ==
  /\ phase = "loading" /\ s \notin replayed /\ ~Waits
  /\ replayed' = replayed \cup {s}
  /\ LET n == Len(journal[s]) IN
     IF record.noted[s] = n /\ Settled(s, record, record.through[s])
     THEN UNCHANGED <<queue, notes>>
     ELSE IF Settled(s, record, n)
     THEN notes' = [notes EXCEPT ![s] = n] /\ UNCHANGED queue
     ELSE queue' = Queued(Replay(s)) /\ UNCHANGED notes
  /\ UNCHANGED <<phase, boots, world, store, problems, reader>>

\* Every run is recovered: the lengths are noted, if there are any.
Recovered ==
  /\ phase = "loading" /\ replayed = Source /\ ~Waits
  /\ IF notes = NoNotes THEN phase' = "serving" /\ UNCHANGED queue
                        ELSE queue' = Queued(Note) /\ UNCHANGED phase
  /\ UNCHANGED <<boots, world, store, problems, startup, reader>>

\* close: new work is refused, what is queued is finished.
Close ==
  /\ phase = "serving" /\ phase' = "closing" /\ queue' = Sealed
  /\ UNCHANGED <<boots, world, store, problems, startup, reader>>

Down == phase' = "down" /\ record' = Absent /\ health' = "unavailable" /\ problems' = {} /\ queue' = <<>>
        /\ replayed' = {} /\ notes' = NoNotes

Closed ==
  /\ phase = "closing" /\ queue = <<>> /\ Down
  /\ UNCHANGED <<boots, world, disk, reader>>

Crash ==
  /\ Up /\ Down
  /\ UNCHANGED <<boots, world, disk, reader>>

\* A start that could not note the lengths gives up.
StartFails ==
  /\ queue # <<>> /\ queue[1].kind = "note" /\ Down
  /\ IF Ready THEN disk' \in {disk, Noted(record)} ELSE UNCHANGED disk
  /\ UNCHANGED <<boots, world, reader>>

\* Recovery may end a run in the metadata alone.
EndsUnrecorded(s) ==
  /\ phase = "down" /\ losses < MaxLosses /\ losses' = losses + 1
  /\ journal[s] # <<>> /\ s \notin ended /\ ended' = ended \cup {s}
  /\ UNCHANGED <<phase, boots, journal, cut, store, problems, queue, startup, reader>>

\* A power loss takes the unsynced end of a log; the feed's record is synced.  (With a log
\* that lost all of its records the bridge does not start.)
PowerLost(s) ==
  /\ phase = "down" /\ losses < MaxLosses /\ losses' = losses + 1 /\ cut' = cut \cup {s}
  /\ \E n \in 1 .. Len(journal[s]) - 1 : journal' = [journal EXCEPT ![s] = SubSeq(@, 1, n)]
  /\ UNCHANGED <<phase, boots, ended, store, problems, queue, startup, reader>>

\* A record that cannot be used is left to the operator, who sets it aside.
SetAside ==
  /\ phase = "down" /\ losses < MaxLosses /\ losses' = losses + 1
  /\ disk # Absent /\ disk' = Absent
  /\ UNCHANGED <<phase, boots, journal, ended, cut, record, health, problems, queue, startup, reader>>

----------------------------------------------------------------------------
(* The reader.  A page waits for what is queued at the time, which only delays *)
(* it, and is answered in one step.                                          *)

Deliverable(after, through) == {i \in Retained(record) : after < i /\ i <= through}

\* One page: as many rows as its limits let through, at least one if there are any.
Page(from, after, through, got) ==
  /\ phase = "serving" /\ Ready
  /\ LET rows == Deliverable(after, through) IN
     \E page \in SUBSET rows :
       /\ \A i \in page, j \in rows : j < i => j \in page
       /\ Cardinality(page) <= PageLimit /\ (rows # {} => page # {})
       /\ reader' = [epoch |-> record.epoch, from |-> from, through |-> through, got |-> got \cup page,
                     after |-> IF page = rows THEN through ELSE CHOOSE i \in page : \A j \in page : j <= i]
  /\ UNCHANGED <<phase, boots, world, store, problems, queue, startup>>

\* Mutant: a cursor never expires within its epoch.
ExpiredByEpoch(r) == r.epoch # record.epoch

\* A cursor is good for the epoch it is from, down to the retained rows.
Expired(r) == r.epoch # record.epoch \/ r.after < record.floor

\* A page without a cursor: all that is retained, up to the head of now.  A reader takes
\* it first, and again when its cursor has expired.
Bootstrap == (reader = NoReader \/ Expired(reader))
             /\ Page(record.floor, record.floor, HeadOf(record), {})

\* The next page of a traversal, and the first page of the next one.
More == reader.epoch > 0 /\ reader.after < reader.through /\ ~Expired(reader)
        /\ Page(reader.from, reader.after, reader.through, reader.got)
Poll == reader.epoch > 0 /\ reader.after = reader.through /\ ~Expired(reader) /\ reader.after < HeadOf(record)
        /\ Page(reader.from, reader.after, HeadOf(record), reader.got)

----------------------------------------------------------------------------
Init ==
  /\ phase = "down" /\ boots = 0
  /\ journal = [s \in Source |-> <<>>] /\ ended = {} /\ cut = {} /\ losses = 0
  /\ disk = Absent /\ record = Absent /\ health = "unavailable"
  /\ problems = {} /\ queue = <<>> /\ replayed = {} /\ notes = NoNotes
  /\ reader = NoReader

Next ==
  \/ Seal \/ Correlate \/ Work
  \/ Start \/ Recovered \/ Close \/ Closed \/ Crash \/ StartFails \/ SetAside
  \/ Bootstrap \/ More \/ Poll
  \/ \E s \in Source : Event(s) \/ Recover(s) \/ EndsUnrecorded(s) \/ PowerLost(s)

Spec == Init /\ [][Next]_vars

----------------------------------------------------------------------------
(* Properties. *)

Task ==
  [kind : {"batch"}, source : Source, first : 1 .. MaxSeq, last : 1 .. MaxSeq, ready : BOOLEAN]
    \cup [kind : {"replay"}, source : Source] \cup [kind : {"note"}]
    \cup [kind : {"correlate"}, id : Source \X (0 .. MaxSeq)]

TypeOfRecord(r) ==
  /\ DOMAIN r = {"epoch", "log", "floor", "through", "indexed", "noted"}
  /\ r.epoch \in 0 .. MaxBoots /\ r.floor \in 0 .. HeadOf(r)
  /\ r.log \in Seq([id : Source \X (0 .. MaxSeq), occ : 1 .. HeadOf(r), rev : {1, 2}])
  /\ r.through \in [Source -> 0 .. MaxSeq] /\ r.noted \in [Source -> 0 .. MaxSeq]
  /\ r.indexed \subseteq Source
  /\ \A s \in Source : r.noted[s] \in {0, r.through[s]}

\* The variables have their types; batches and the feed keep their bounds.
TypeOK ==
  /\ phase \in {"down", "loading", "serving", "closing"} /\ boots \in 0 .. MaxBoots
  /\ journal \in [Source -> Seq(Kind)] /\ \A s \in Source : Len(journal[s]) <= MaxSeq
  /\ ended \subseteq Source /\ cut \subseteq Source /\ losses \in 0 .. MaxLosses
  /\ TypeOfRecord(disk) /\ TypeOfRecord(record)
  /\ health \in {"ready", "unavailable"} /\ problems \subseteq Source
  /\ queue \in Seq(Task) /\ replayed \subseteq Source /\ notes \in [Source -> 0 .. MaxSeq]
  /\ \A i \in 1 .. Len(queue) : queue[i].kind = "batch" => Size(queue[i]) <= MaxBatch
  /\ Cardinality(Retained(disk)) <= MaxRows

\* The rows in which the feed of a record showed the occurrences of s.
Shown(s, r) == {i \in 1 .. HeadOf(r) : r.log[i].id[1] = s /\ r.log[i].rev = 1}

\* What the events of s up to the checkpoint are to show: every reply once, in order, and
\* the run's end once.  An end that only the metadata recorded may stand anywhere.
FollowsJournal(s, r) ==
  /\ {r.log[i].id[2] : i \in Shown(s, r)} =
       {n \in 1 .. r.through[s] : journal[s][n] = "reply"} \cup {n \in {0} : s \in r.indexed}
  /\ \A i, j \in Shown(s, r) : i < j =>
       LET m == r.log[i].id[2]  n == r.log[j].id[2] IN m # n /\ (m > 0 /\ n > 0 => m < n)
  /\ (\E n \in 1 .. r.through[s] : journal[s][n] = "end") => s \in r.indexed

\* Over crashes, failed writes, pruning and replays, the feed has shown of each run whose
\* log was not cut exactly what that log holds up to the checkpoint: each reply once, in
\* order, and its end once.
\* A revision never shows an occurrence anew: it keeps the place of the first.
FeedFollowsJournal ==
  /\ \A s \in Source \ cut : FollowsJournal(s, disk)
  /\ \A i \in 1 .. HeadOf(disk) : LET row == disk.log[i] IN
       /\ row.rev = 1 => row.occ = i
       /\ row.rev = 2 => row.occ < i /\ disk.log[row.occ].id = row.id

\* A reader that pages through a feed that grows and is pruned meanwhile has every row
\* between where it started and its cursor, and never a row that is not on disk.
GaplessReading ==
  reader.epoch # 0 /\ reader.epoch = disk.epoch =>
    /\ reader.got = reader.from + 1 .. reader.after
    /\ reader.through <= HeadOf(disk)

\* A run that the feed has fallen behind, or whose log was cut below the checkpoint, is
\* never silent: once nothing is queued, the checkpoint is the end of the log, or the
\* source is reported degraded, or the feed is unavailable.
LagIsTold ==
  phase = "serving" /\ queue = <<>> /\ Ready =>
    \A s \in Source : record.through[s] = Len(journal[s]) \/ s \in problems

\* No batch is left waiting for a timer that no longer seals it, which would stop the
\* feed for good: only the last task can be a batch that is not sealed.
OnlyLastCollects ==
  \A i \in 1 .. Len(queue) - 1 : queue[i].kind = "batch" => queue[i].ready
=============================================================================
