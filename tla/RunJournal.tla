----------------------------- MODULE RunJournal -----------------------------
(***************************************************************************)
(* The App's run logs: RunJournalWriter (run-journal.ts), the queue of     *)
(* commits behind it and the startup that reads the logs back (bridge.ts   *)
(* enqueue, reserveJournalEvent, emit and the loading of journals;         *)
(* history.ts decodeLog), all under packages/sane-app/src.                 *)
(*                                                                         *)
(* An event is reserved in memory, with its sequence number and its bytes, *)
(* and appended later: by its commit in the bridge's serial queue, or      *)
(* earlier by a fence, which drains all that precedes it and syncs the     *)
(* file.  Any error latches the writer of every log.                       *)
(*                                                                         *)
(* A record is the boot that reserved it and its sequence number, so that  *)
(* a record that is lost and one that later takes its place differ.        *)
(***************************************************************************)
EXTENDS Naturals, Sequences, FiniteSets, SequencesExt

CONSTANTS
  Run,       \* the runs, each with a log of its own
  MaxSeq,    \* bound: records of one log
  MaxBoots   \* bound: starts of the process

ASSUME JournalAssumption == MaxSeq \in Nat \ {0} /\ MaxBoots \in Nat \ {0}

VARIABLES
  up,         \* the process runs
  boot,       \* how often it was started
  failed,     \* the writer's latch, and the bridge's storageFailed
  list,       \* events: the records of a run in memory, reserved ones included
  loaded,     \* the runs that have such a list
  state,      \* states: what the writer knows of the file
  queue,      \* the serial queue: commits that have not run
  excluded,   \* the journals given to original recovery
  told,       \* the sequence numbers the committed callbacks were told, in order
  file,       \* the log on disk; it is torn if it does not end with a newline: half a
              \* record follows, or its last one is complete but for the newline
  kept,       \* how many of its records a power loss cannot take
  flushed,    \* history: the records a fence has reported durable
  rewritten   \* history: logs that startup rewrote in place and no fence synced since

memory == <<list, loaded, state, queue, excluded, told>>
disk == <<file, kept, rewritten>>
vars == <<up, boot, failed, memory, disk, flushed>>

NoState == [held |-> FALSE, made |-> FALSE, appended |-> 0]
NoFile == [there |-> FALSE, log |-> <<>>, torn |-> FALSE]
Works == up /\ ~failed
Reserved(r) == Len(list[r])
Pending(r) == state[r].appended < Reserved(r)
Queued(r) == \E i \in 1 .. Len(queue) : queue[i][1] = r

Alien == <<0, 0>>  \* what a file that is not the writer's holds

\* A live reservation: a record of this boot.
Live(r, n) == state[r].held /\ r \notin excluded /\ n <= Reserved(r) /\ list[r][n][1] = boot

\* The first n records of a log.
First(log, n) == SubSeq(log, 1, n)

----------------------------------------------------------------------------
(* Startup. *)

Boot ==
  /\ ~up /\ boot < MaxBoots
  /\ up' = TRUE /\ boot' = boot + 1 /\ failed' = FALSE
  /\ list' = [r \in Run |-> <<>>] /\ loaded' = {} /\ state' = [r \in Run |-> NoState]
  /\ queue' = <<>> /\ excluded' = {} /\ told' = [r \in Run |-> <<>>]
  /\ UNCHANGED <<disk, flushed>>

\* decodeLog: a log of this run, with at least one complete record.
Readable(r) == file[r].log # <<>> /\ file[r].log[1] # Alien

\* A log without one complete record is refused.  Half a record is cut off, and a
\* missing newline added, by writing the file anew, in place and without a sync.
Repaired(r) ==
  /\ file' = [file EXCEPT ![r].torn = FALSE]
  /\ IF file[r].torn THEN kept' = [kept EXCEPT ![r] = 0] /\ rewritten' = rewritten \cup {r}
                     ELSE UNCHANGED <<kept, rewritten>>

\* At startup, or for a settled run when it is first asked for (materializeDeferred).
Load(r) ==
  /\ Works /\ r \notin loaded \cup excluded /\ Readable(r) /\ ~state[r].held
  /\ Repaired(r)
  /\ list' = [list EXCEPT ![r] = file[r].log] /\ loaded' = loaded \cup {r}
  /\ UNCHANGED <<up, boot, failed, state, queue, excluded, told, flushed>>

\* The process ends while it writes the repaired file.
RepairCut(r) ==
  /\ Works /\ r \notin loaded \cup excluded /\ Readable(r) /\ file[r].torn /\ ~state[r].held
  /\ up' = FALSE
  /\ \E n \in 0 .. Len(file[r].log), torn \in BOOLEAN :
       /\ file' = [file EXCEPT ![r].log = First(@, n), ![r].torn = torn]
  /\ kept' = [kept EXCEPT ![r] = 0] /\ rewritten' = rewritten \cup {r}
  /\ UNCHANGED <<boot, failed, memory, flushed>>

\* excludeOriginal: one journal goes to original recovery, for good.
Exclude(r) ==
  /\ Works /\ r \notin excluded
  /\ IF state[r].held /\ (Pending(r) \/ Queued(r))
       THEN failed' = TRUE /\ UNCHANGED memory
       ELSE /\ state' = [state EXCEPT ![r] = NoState] /\ excluded' = excluded \cup {r}
            /\ UNCHANGED <<failed, list, loaded, queue, told>>
  /\ UNCHANGED <<up, boot, disk, flushed>>

----------------------------------------------------------------------------
(* The writer. *)

\* claimNew: an absent file is remembered as absent; its first drain must create it.
ClaimNew(r) ==
  /\ Works /\ r \notin loaded \cup excluded /\ ~state[r].held /\ ~file[r].there
  /\ state' = [state EXCEPT ![r] = [NoState EXCEPT !.held = TRUE]] /\ loaded' = loaded \cup {r}
  /\ UNCHANGED <<up, boot, failed, list, queue, excluded, told, disk, flushed>>

\* capture of an existing file: it must hold exactly the records in memory.
Exact(r) == file[r].there /\ ~file[r].torn /\ file[r].log = list[r]
Captured(r) ==
  IF state[r].held THEN state[r]
  ELSE [held |-> TRUE, made |-> TRUE, appended |-> Reserved(r)]

\* reserve, and the commit that emit puts in the queue.
Reserve(r) ==
  /\ Works /\ r \in loaded /\ Reserved(r) < MaxSeq
  /\ IF r \in excluded \/ (~state[r].held /\ ~Exact(r))
       THEN failed' = TRUE /\ UNCHANGED memory
       ELSE /\ list' = [list EXCEPT ![r] = Append(@, <<boot, Reserved(r) + 1>>)]
            /\ state' = [state EXCEPT ![r] = Captured(r)]
            /\ queue' = Append(queue, <<r, Reserved(r) + 1>>)
            /\ UNCHANGED <<failed, loaded, excluded, told>>
  /\ UNCHANGED <<up, boot, disk, flushed>>

\* adoptExisting: a journal is read back whole, with nothing pending.
Adopt(r) ==
  /\ Works /\ r \in loaded \ excluded
  /\ IF Exact(r) /\ ~Queued(r) /\ (state[r].held => state[r].made)
       THEN state' = [state EXCEPT ![r] = Captured(r)] /\ UNCHANGED failed
       ELSE failed' = TRUE /\ UNCHANGED state
  /\ UNCHANGED <<up, boot, list, loaded, queue, excluded, told, disk, flushed>>

\* What a drain for record n writes: all that is pending up to it.
Due(r, n) == IF n > state[r].appended THEN SubSeq(list[r], state[r].appended + 1, n) ELSE <<>>

\* Mutant: a file that appeared meanwhile is taken for the claimed one.
OpensAny(r) == state[r].held

\* The first drain creates the file (O_EXCL).
Opens(r) == state[r].made \/ ~file[r].there

\* Mutant: what is drained ahead of its commit is told by that commit, or never.
TellsLast(r, n) == IF n > state[r].appended THEN Append(told[r], n) ELSE told[r]

\* The committed callbacks, after the writes: each record once, in order.
Tells(r, n) == told[r] \o [i \in 1 .. Len(Due(r, n)) |-> state[r].appended + i]

\* An error on the way: what was written stays, nothing is told, and nobody writes
\* again.  A file that is not the writer's is not touched.
DrainFails(r, n) ==
  /\ failed' = TRUE /\ UNCHANGED <<state, told>>
  /\ IF ~Opens(r) THEN UNCHANGED file
     ELSE \E k \in 0 .. Len(Due(r, n)), torn \in BOOLEAN :
            /\ torn => Due(r, n) # <<>>
            /\ file' = [file EXCEPT ![r] =
                 [there |-> TRUE, log |-> @.log \o First(Due(r, n), k), torn |-> torn]]

Drains(r, n) ==
  /\ Opens(r)
  /\ file' = [file EXCEPT ![r].there = TRUE, ![r].log = @ \o Due(r, n)]
  /\ state' = [state EXCEPT ![r].made = TRUE, ![r].appended = @ + Len(Due(r, n))]
  /\ told' = [told EXCEPT ![r] = Tells(r, n)]
  /\ UNCHANGED failed

\* Mutant: a commit that was queued before the writer failed runs as before.
CommitAnyway ==
  /\ up /\ queue # <<>> /\ queue' = Tail(queue)
  /\ LET r == Head(queue)[1]  n == Head(queue)[2] IN Drains(r, n) \/ DrainFails(r, n)
  /\ UNCHANGED <<up, boot, list, loaded, excluded, kept, rewritten, flushed>>

\* The next commit of the queue, which writes nothing once storage has failed.
Commit ==
  /\ up /\ queue # <<>> /\ queue' = Tail(queue)
  /\ LET r == Head(queue)[1]  n == Head(queue)[2] IN
     IF failed THEN UNCHANGED <<failed, state, file, told>> ELSE Drains(r, n) \/ DrainFails(r, n)
  /\ UNCHANGED <<up, boot, list, loaded, excluded, kept, rewritten, flushed>>

\* Mutant: a fence that finds nothing to write does not sync.
FlushWritten(r, n) ==
  /\ Works /\ r \in loaded /\ Live(r, n)
  /\ \/ /\ Drains(r, n)
        /\ IF Due(r, n) = <<>> THEN UNCHANGED kept ELSE kept' = [kept EXCEPT ![r] = Len(file'[r].log)]
        /\ rewritten' = rewritten \ {r} /\ flushed' = [flushed EXCEPT ![r] = file'[r].log]
     \/ DrainFails(r, n) /\ UNCHANGED <<kept, rewritten, flushed>>
  /\ UNCHANGED <<up, boot, list, loaded, queue, excluded>>

\* flushThrough: drain, read the file back, sync it and its directory.
Flush(r, n) ==
  /\ Works /\ r \in loaded /\ Live(r, n)
  /\ \/ /\ Drains(r, n)
        /\ kept' = [kept EXCEPT ![r] = Len(file'[r].log)]
        /\ rewritten' = rewritten \ {r} /\ flushed' = [flushed EXCEPT ![r] = file'[r].log]
     \/ DrainFails(r, n) /\ UNCHANGED <<kept, rewritten, flushed>>
  /\ UNCHANGED <<up, boot, list, loaded, queue, excluded>>

----------------------------------------------------------------------------
(* The environment. *)

\* A file the writer did not create appears under a claimed name.
Intrudes(r) ==
  /\ Works /\ state[r].held /\ ~state[r].made /\ ~file[r].there
  /\ file' = [file EXCEPT ![r] = [there |-> TRUE, log |-> <<Alien>>, torn |-> FALSE]]
  /\ UNCHANGED <<up, boot, failed, memory, kept, rewritten, flushed>>

\* Storage ownership is lost, the directory or a file changes: the next guard fails.
Fails ==
  /\ Works /\ failed' = TRUE
  /\ UNCHANGED <<up, boot, memory, disk, flushed>>

\* The process is killed or the power goes, perhaps in the middle of a drain: what
\* is left of a log is a prefix of what was to be written, with at least what was
\* synced; it may be torn if anything of it was not.
Remains(r) ==
  LET writing == ~failed /\ state[r].held /\ Opens(r)
      whole == IF writing THEN list[r] ELSE file[r].log IN
  {[there |-> there, log |-> First(whole, n), torn |-> torn] :
     there \in {file[r].there, writing \/ file[r].there}, n \in kept[r] .. Len(whole),
     torn \in {torn \in BOOLEAN : torn => file[r].torn \/ kept[r] < Len(whole)}}

Crash ==
  /\ up /\ up' = FALSE
  /\ file' \in [Run -> UNION {Remains(r) : r \in Run}]
  /\ \A r \in Run :
       /\ file'[r] \in Remains(r)
       /\ file'[r].log # <<>> \/ file'[r].torn => file'[r].there
  /\ UNCHANGED <<boot, failed, memory, kept, rewritten, flushed>>

----------------------------------------------------------------------------
(* The specification. *)

Init ==
  /\ up = FALSE /\ boot = 0 /\ failed = FALSE
  /\ list = [r \in Run |-> <<>>] /\ loaded = {} /\ state = [r \in Run |-> NoState]
  /\ queue = <<>> /\ excluded = {} /\ told = [r \in Run |-> <<>>]
  /\ file = [r \in Run |-> NoFile] /\ kept = [r \in Run |-> 0] /\ rewritten = {}
  /\ flushed = [r \in Run |-> <<>>]

Next ==
  \/ Boot \/ Commit \/ Fails \/ Crash
  \/ \E r \in Run :
       \/ Load(r) \/ RepairCut(r) \/ Exclude(r) \/ ClaimNew(r) \/ Reserve(r) \/ Adopt(r)
       \/ Intrudes(r) \/ \E n \in 1 .. MaxSeq : Flush(r, n)

Spec == Init /\ [][Next]_vars

----------------------------------------------------------------------------
(* Properties. *)

Record == (0 .. MaxBoots) \X (0 .. MaxSeq)

\* The writer, its queue and the logs keep their shape and their bound.
TypeOK ==
  /\ up \in BOOLEAN /\ failed \in BOOLEAN /\ boot \in 0 .. MaxBoots
  /\ \A r \in Run :
       /\ list[r] \in Seq(Record) /\ Len(list[r]) <= MaxSeq
       /\ state[r] \in [held : BOOLEAN, made : BOOLEAN, appended : 0 .. MaxSeq]
       /\ told[r] \in Seq(1 .. MaxSeq) /\ flushed[r] \in Seq(Record)
       /\ file[r].there \in BOOLEAN /\ file[r].torn \in BOOLEAN /\ file[r].log \in Seq(Record)
       /\ kept[r] \in 0 .. Len(file[r].log)
  /\ queue \in Seq(Run \X (1 .. MaxSeq))
  /\ loaded \subseteq Run /\ excluded \subseteq Run /\ rewritten \subseteq Run

\* While the writer works, the file of a run it writes is the beginning of the run's
\* events as everybody in the process sees them, whole and in order, whichever of
\* the commits and the fences came first.
FileFollowsMemory ==
  Works => \A r \in Run : state[r].made =>
    file[r].there /\ ~file[r].torn /\ file[r].log = First(list[r], state[r].appended)

\* The callbacks are told every appended record of this boot exactly once, in order,
\* and a record that is not in the file is told to nobody.
ToldInOrder ==
  Works => \A r \in Run : state[r].held =>
    LET old == Cardinality({i \in 1 .. Reserved(r) : list[r][i][1] # boot}) IN
      told[r] = [i \in 1 .. state[r].appended - old |-> old + i]

\* What a fence has reported durable is there after any crash and any restart, and
\* nothing is written before or among it; the one exception is a log that startup
\* rewrote in place and that no fence has synced since.
FlushedSurvives ==
  \A r \in Run \ rewritten : IsPrefix(flushed[r], file[r].log)

\* Startup accepts no log that lost records a fence had reported durable: only a
\* torn last record may go, complete ones are "never silently discarded"
\* (history.ts:199).
FlushedLoaded == \A r \in loaded : IsPrefix(flushed[r], list[r])

\* A failed writer leaves every log alone, and so does original recovery's journal
\* and a file that is not the writer's; else a log in use only grows.
OnlyAppends ==
  [][\A r \in Run :
       /\ up' /\ (failed \/ r \in excluded) => file'[r] = file[r]
       /\ up' => IsPrefix(file[r].log, file'[r].log)
       /\ up' /\ file[r].log # <<>> /\ file[r].log[1] = Alien => file'[r].log = file[r].log]_vars

=============================================================================
