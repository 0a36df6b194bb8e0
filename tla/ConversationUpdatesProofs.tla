------------------------ MODULE ConversationUpdatesProofs ------------------------
(* The safety of ConversationUpdates for any runs, any lengths of their logs,  *)
(* any limits of the feed and any number of starts and losses.  The variables  *)
(* have their types and the queue and the retained rows their bounds; only     *)
(* the last batch of the queue collects; a run that the feed has fallen behind *)
(* is queued, degraded or still to be replayed; a reader is told every row of  *)
(* its range; and the file shows of each log that was not cut what the log     *)
(* holds up to the checkpoint.                                                 *)
(*                                                                             *)
(* First what the operators of the model return (InOrder, the queue's, the     *)
(* record's), then the invariants: Base, on which all others rest (Outcome and *)
(* Moves say what a step can do to the file); Begun and LagInv; Reading; Feed. *)
EXTENDS ConversationUpdates, SequenceTheorems, FiniteSetTheorems, TLAPS

----------------------------------------------------------------------------
(* Sets of numbers, in order. *)

\* How many of the numbers of P are up to x.
UpTo(P, x) == {y \in P : y <= x}
Rank(P, x) == Cardinality(UpTo(P, x))

\* A number's rank is a place, and grows with the number.
LEMMA Ranks ==
  ASSUME NEW P \in SUBSET Nat, IsFiniteSet(P)
  PROVE  /\ Cardinality(P) \in Nat
         /\ \A x \in P : Rank(P, x) \in 1 .. Cardinality(P)
         /\ \A x, y \in P : x < y => Rank(P, x) < Rank(P, y)
<1>1. Cardinality(P) \in Nat
  BY FS_CardinalityType
<1>2. ASSUME NEW x \in P PROVE Rank(P, x) \in 1 .. Cardinality(P) /\ IsFiniteSet(UpTo(P, x))
  <2> DEFINE B == UpTo(P, x)
  <2>1. B \in SUBSET P /\ x \in B
    BY <1>2 DEF UpTo
  <2> HIDE DEF B
  <2>2. IsFiniteSet(B) /\ Cardinality(B) <= Cardinality(P)
    BY <2>1, FS_Subset
  <2>3. Cardinality(B) \in Nat /\ Cardinality(B) # 0
    BY <2>1, <2>2, FS_CardinalityType, FS_EmptySet
  <2> QED
    BY <1>1, <2>2, <2>3 DEF Rank, B
<1>3. ASSUME NEW x \in P, NEW y \in P, x < y PROVE Rank(P, x) < Rank(P, y)
  <2> DEFINE A == UpTo(P, x)
             B == UpTo(P, y)
  <2>0. P \subseteq Nat /\ x \in Nat /\ y \in Nat
    OBVIOUS
  <2>1. A \in SUBSET B /\ y \in B /\ y \notin A
    <3>1. ASSUME NEW z \in A PROVE z \in B
      <4>1. z \in P /\ z <= x /\ z \in Nat
        BY <3>1 DEF UpTo
      <4>2. z <= y
        BY <4>1, <2>0, <1>3
      <4> QED
        BY <4>1, <4>2 DEF UpTo
    <3>2. y <= y /\ ~(y <= x)
      BY <2>0, <1>3
    <3> QED
      BY <3>1, <3>2 DEF UpTo
  <2>2. IsFiniteSet(B) /\ Rank(P, x) \in Nat /\ Rank(P, y) \in Nat
    BY <1>1, <1>2
  <2>3. Rank(P, x) = Cardinality(A) /\ Rank(P, y) = Cardinality(B)
    BY DEF Rank
  <2> HIDE DEF A, B
  <2>4. Cardinality(A) <= Cardinality(B) /\ (Cardinality(B) = Cardinality(A) => B = A)
    BY <2>1, <2>2, FS_Subset
  <2>5. A # B
    BY <2>1
  <2> QED
    BY <2>2, <2>3, <2>4, <2>5
<1> QED
  BY <1>1, <1>2, <1>3

\* Every place is the rank of one number only.
LEMMA RankOf ==
  ASSUME NEW P \in SUBSET Nat, IsFiniteSet(P), NEW k \in 1 .. Cardinality(P)
  PROVE  \E x \in P : Rank(P, x) = k
<1> DEFINE N == Cardinality(P)
           f == [x \in P |-> Rank(P, x)]
<1>1. N \in Nat /\ \A x \in P : Rank(P, x) \in 1 .. N
  BY Ranks
<1>2. \A x, y \in P : x < y => Rank(P, x) < Rank(P, y)
  BY Ranks
<1>3. f \in [P -> 1 .. N]
  BY <1>1
<1>4. ASSUME NEW x \in P, NEW y \in P, f[x] = f[y] PROVE x = y
  <2>1. x \in Nat /\ y \in Nat /\ Rank(P, x) = Rank(P, y) /\ Rank(P, x) \in Int
    BY <1>1, <1>4
  <2>2. ~(x < y) /\ ~(y < x)
    BY <2>1, <1>2
  <2> QED
    BY <2>1, <2>2
<1>5. f \in Injection(P, 1 .. N)
  BY <1>3, <1>4 DEF Injection, IsInjective
<1>6. IsFiniteSet(1 .. N) /\ Cardinality(1 .. N) = N
  <2>1. 1 \in Int /\ N \in Int
    BY <1>1
  <2> HIDE DEF N
  <2>2. IsFiniteSet(1 .. N) /\ Cardinality(1 .. N) = IF 1 > N THEN 0 ELSE N - 1 + 1
    BY <2>1, FS_Interval
  <2> QED
    BY <2>2, <1>1
<1> HIDE DEF f
<1>7. f \in Surjection(P, 1 .. N)
  BY <1>5, <1>6, FS_Injection
<1>8. PICK x \in P : f[x] = k
  BY <1>7 DEF Surjection
<1> QED
  BY <1>8 DEF f

\* The numbers of a finite set, one after the other.
LEMMA InOrderIs ==
  ASSUME NEW P \in SUBSET Nat, IsFiniteSet(P)
  PROVE  /\ InOrder(P) \in Seq(P) /\ Len(InOrder(P)) = Cardinality(P) /\ Cardinality(P) \in Nat
         /\ \A i, j \in 1 .. Cardinality(P) : i < j => InOrder(P)[i] < InOrder(P)[j]
         /\ \A x \in P : \E i \in 1 .. Cardinality(P) : InOrder(P)[i] = x
<1> DEFINE N == Cardinality(P)
           s == InOrder(P)
<1>1. N \in Nat /\ \A x \in P : Rank(P, x) \in 1 .. N
  BY Ranks
<1>2. \A x, y \in P : x < y => Rank(P, x) < Rank(P, y)
  BY Ranks
<1>3. s = [k \in 1 .. N |-> CHOOSE x \in P : Rank(P, x) = k]
  BY DEF InOrder, Rank, UpTo
<1>4. \A k \in 1 .. N : s[k] \in P /\ Rank(P, s[k]) = k
  <2> SUFFICES ASSUME NEW k \in 1 .. N PROVE s[k] \in P /\ Rank(P, s[k]) = k
    OBVIOUS
  <2>1. \E x \in P : Rank(P, x) = k
    BY RankOf
  <2>2. s[k] = CHOOSE x \in P : Rank(P, x) = k
    BY <1>3
  <2> HIDE DEF s
  <2> QED
    BY <2>1, <2>2
<1> HIDE DEF s
<1>5. s \in [1 .. N -> P]
  BY <1>3, <1>4
<1>6. s \in Seq(P) /\ Len(s) = N
  BY <1>1, <1>5, IsASeq, LenProperties
<1>7. ASSUME NEW i \in 1 .. N, NEW j \in 1 .. N, i < j PROVE s[i] < s[j]
  <2>1. s[i] \in Nat /\ s[j] \in Nat /\ Rank(P, s[i]) = i /\ Rank(P, s[j]) = j
    BY <1>4
  <2>2. ~(s[j] < s[i]) /\ s[j] # s[i]
    BY <2>1, <1>2, <1>4, <1>7
  <2> QED
    BY <2>1, <2>2
<1>8. ASSUME NEW x \in P PROVE \E i \in 1 .. N : s[i] = x
  <2> DEFINE i == Rank(P, x)
  <2>1. i \in 1 .. N /\ s[i] \in P /\ Rank(P, s[i]) = i
    BY <1>1, <1>4
  <2>2. Rank(P, s[i]) = Rank(P, x) /\ Rank(P, x) \in Nat
    BY <2>1, <1>1
  <2> DEFINE z == s[i]
  <2>3. z \in P /\ Rank(P, z) = Rank(P, x) /\ z \in Nat /\ x \in Nat
    BY <2>1, <2>2
  <2> HIDE DEF i, z
  <2>4. ~(z < x) /\ ~(x < z)
    BY <2>2, <2>3, <1>2
  <2>5. z = x
    BY <2>3, <2>4
  <2> QED
    BY <2>1, <2>5 DEF z
<1> QED
  BY <1>1, <1>6, <1>7, <1>8 DEF s

\* A nonempty set of numbers that is bounded has a least and a greatest member.
LEMMA Extremes ==
  ASSUME NEW P \in SUBSET Nat, IsFiniteSet(P), P # {}
  PROVE  /\ \E x \in P : \A y \in P : x <= y
         /\ \E x \in P : \A y \in P : y <= x
<1> DEFINE N == Cardinality(P)
           s == InOrder(P)
<1>1. N \in Nat /\ s \in Seq(P) /\ Len(s) = N
      /\ (\A i, j \in 1 .. N : i < j => s[i] < s[j])
      /\ (\A x \in P : \E i \in 1 .. N : s[i] = x)
  BY InOrderIs
<1> HIDE DEF s, N
<1>2. N >= 1
  <2>1. PICK x \in P : TRUE
    OBVIOUS
  <2>2. \E i \in 1 .. N : s[i] = x
    BY <1>1
  <2> QED
    BY <1>1, <2>2
<1>3. \A i \in 1 .. N : s[i] \in P
  BY <1>1, ElementOfSeq
<1>4. ASSUME NEW y \in P PROVE s[1] <= y /\ y <= s[N]
  <2>1. PICK i \in 1 .. N : s[i] = y
    BY <1>1
  <2>2. 1 \in 1 .. N /\ N \in 1 .. N
    BY <1>1, <1>2
  <2>6. s[1] \in P /\ s[N] \in P /\ P \subseteq Nat
    BY <2>2, <1>3
  <2>7. s[1] \in Nat /\ s[N] \in Nat /\ y \in Nat
    BY <2>6
  <2>3. 1 < i => s[1] < y
    BY <2>1, <2>2, <2>7, <1>1
  <2>4. i < N => y < s[N]
    BY <2>1, <2>2, <2>7, <1>1
  <2>5. (i = 1 \/ 1 < i) /\ (i = N \/ i < N)
    BY <1>1
  <2> QED
    BY <2>1, <2>7, <2>3, <2>4, <2>5
<1>5. s[1] \in P /\ s[N] \in P
  BY <1>1, <1>2, <1>3
<1> QED
  BY <1>4, <1>5

----------------------------------------------------------------------------
(* The queue. *)

\* The same task, but for whether a batch still collects.
Alike(a, b) ==
  /\ a.kind = b.kind
  /\ IF b.kind = "batch" THEN a.source = b.source /\ a.first = b.first /\ a.last = b.last ELSE a = b

\* A queue keeps its tasks; at most its last batch is sealed.
LEMMA SealedIs ==
  ASSUME queue \in Seq(Task)
  PROVE  /\ Sealed \in Seq(Task) /\ Len(Sealed) = Len(queue) /\ Len(queue) \in Nat
         /\ \A i \in 1 .. Len(queue) : Alike(Sealed[i], queue[i])
         /\ \A i \in 1 .. Len(queue) : i < Len(queue) => Sealed[i] = queue[i]
         /\ queue # <<>> /\ Sealed[Len(queue)].kind = "batch" => Sealed[Len(queue)].ready
<1> DEFINE n == Len(queue)
<1>1. n \in Nat /\ \A i \in 1 .. n : queue[i] \in Task
  BY LenProperties, ElementOfSeq
<1>2. queue # <<>> => n \in 1 .. n
  BY <1>1, EmptySeq
<1>3. CASE ~Collecting
  <2>1. Sealed = queue
    BY <1>3 DEF Sealed
  <2>2. queue # <<>> /\ queue[n].kind = "batch" => queue[n].ready
    BY <1>3 DEF Collecting, Last
  <2>3. \A i \in 1 .. n : Alike(queue[i], queue[i])
    BY DEF Alike
  <2> QED
    BY <1>1, <2>1, <2>2, <2>3
<1>4. CASE Collecting
  <2> DEFINE b == queue[n]
             c == [b EXCEPT !.ready = TRUE]
  <2>1. n \in 1 .. n /\ b \in Task /\ b.kind = "batch"
    BY <1>1, <1>2, <1>4 DEF Collecting, Last
  <2>2. b \in [kind : {"batch"}, source : Source, first : 1 .. MaxSeq, last : 1 .. MaxSeq, ready : BOOLEAN]
    BY <2>1 DEF Task
  <2> HIDE DEF b
  <2>3. /\ c \in [kind : {"batch"}, source : Source, first : 1 .. MaxSeq, last : 1 .. MaxSeq, ready : BOOLEAN]
        /\ c.kind = "batch" /\ c.source = b.source /\ c.first = b.first /\ c.last = b.last /\ c.ready
    BY <2>2
  <2>4. c \in Task /\ Alike(c, b)
    BY <2>1, <2>3 DEF Task, Alike
  <2>5. Sealed = [queue EXCEPT ![n] = c]
    BY <1>4 DEF Sealed, b
  <2> HIDE DEF c
  <2>6. queue \in [1 .. n -> Task]
    BY LenProperties
  <2> HIDE DEF n
  <2>7. Sealed \in [1 .. n -> Task] /\ Sealed[n] = c /\ \A i \in 1 .. n : i # n => Sealed[i] = queue[i]
    BY <2>1, <2>4, <2>5, <2>6
  <2>8. Sealed \in Seq(Task) /\ Len(Sealed) = n
    BY <1>1, <2>7, IsASeq, LenProperties
  <2>9. \A i \in 1 .. n : Alike(queue[i], queue[i])
    BY DEF Alike
  <2>10. Alike(Sealed[n], queue[n])
    BY <2>4, <2>7 DEF b
  <2>11. \A i \in 1 .. n : i < n => i # n
    BY <1>1
  <2> QED
    BY <1>1, <2>3, <2>7, <2>8, <2>9, <2>10, <2>11 DEF n
<1> QED
  BY <1>3, <1>4

\* A new task is the last one, and seals what was last before it.
LEMMA QueuedIs ==
  ASSUME queue \in Seq(Task), NEW task \in Task
  PROVE  /\ Queued(task) \in Seq(Task) /\ Len(Queued(task)) = Len(queue) + 1 /\ Len(queue) \in Nat
         /\ Queued(task)[Len(queue) + 1] = task
         /\ \A i \in 1 .. Len(queue) : Alike(Queued(task)[i], queue[i])
         /\ \A i \in 1 .. Len(queue) : i < Len(queue) => Queued(task)[i] = queue[i]
         /\ queue # <<>> /\ Queued(task)[Len(queue)].kind = "batch" => Queued(task)[Len(queue)].ready
<1> DEFINE n == Len(queue)
           q == Sealed
<1>1. /\ q \in Seq(Task) /\ Len(q) = n /\ n \in Nat
      /\ \A i \in 1 .. n : Alike(q[i], queue[i])
      /\ \A i \in 1 .. n : i < n => q[i] = queue[i]
      /\ queue # <<>> /\ q[n].kind = "batch" => q[n].ready
  BY SealedIs
<1>2. queue # <<>> => n \in 1 .. n
  BY <1>1, EmptySeq
<1> HIDE DEF q
<1>3. Append(q, task) \in Seq(Task) /\ Len(Append(q, task)) = n + 1
      /\ (\A i \in 1 .. n : Append(q, task)[i] = q[i]) /\ Append(q, task)[n + 1] = task
  BY <1>1, AppendProperties
<1>4. Queued(task) = Append(q, task)
  BY DEF Queued, q
<1> QED
  BY <1>1, <1>2, <1>3, <1>4

\* An event joins the last batch, or is a batch of its own behind a sealed queue.
LEMMA IngestedIs ==
  ASSUME queue \in Seq(Task), NEW s \in Source, NEW n \in 1 .. MaxSeq,
         NEW joined \in BOOLEAN, NEW full \in BOOLEAN, joined => Joins(s, n)
  PROVE  LET q == Ingested(s, n, joined, full)
             m == Len(queue)
         IN /\ q \in Seq(Task) /\ m \in Nat
            /\ \/ /\ joined /\ m > 0 /\ Len(q) = m
                  /\ \A i \in 1 .. m : i < m => q[i] = queue[i]
                  /\ q[m].kind = "batch" /\ queue[m].kind = "batch"
                  /\ q[m].source = s /\ queue[m].source = s
                  /\ q[m].first = queue[m].first /\ queue[m].last + 1 = n /\ q[m].last = n
                  /\ Size(queue[m]) < MaxBatch
               \/ ~joined /\ q = Queued(Batch(s, n, full \/ MaxBatch = 1))
<1> DEFINE m == Len(queue)
           q == Ingested(s, n, joined, full)
<1>1. m \in Nat /\ \A i \in 1 .. m : queue[i] \in Task
  BY LenProperties, ElementOfSeq
<1>2. Batch(s, n, full \/ MaxBatch = 1) \in Task
  BY DEF Batch, Task
<1>3. CASE ~joined
  <2>1. q = Queued(Batch(s, n, full \/ MaxBatch = 1))
    BY <1>3 DEF Ingested
  <2> QED
    BY <1>1, <1>2, <1>3, <2>1, QueuedIs
<1>4. CASE joined
  <2> DEFINE b == queue[m]
             c == [b EXCEPT !.last = n]
             d == [c EXCEPT !.ready = full \/ Size(c) >= MaxBatch]
             Batches == [kind : {"batch"}, source : Source, first : 1 .. MaxSeq, last : 1 .. MaxSeq, ready : BOOLEAN]
  <2>1. queue # <<>> /\ b.kind = "batch" /\ b.source = s /\ b.last + 1 = n /\ Size(b) < MaxBatch
    BY <1>4 DEF Joins, Collecting, Last
  <2>2. m > 0 /\ m \in 1 .. m
    BY <1>1, <2>1, EmptySeq
  <2>3. b \in Batches
    BY <1>1, <2>1, <2>2 DEF Task
  <2>4. q = [queue EXCEPT ![m] = d]
    BY <1>4 DEF Ingested, Last
  <2> HIDE DEF b
  <2>5. c \in Batches /\ c.kind = "batch" /\ c.source = b.source /\ c.first = b.first /\ c.last = n
    BY <2>3
  <2> HIDE DEF c
  <2>6. d \in Batches /\ d.kind = "batch" /\ d.source = c.source /\ d.first = c.first /\ d.last = n
    <3>1. (full \/ Size(c) >= MaxBatch) \in BOOLEAN
      OBVIOUS
    <3> QED
      BY <2>5, <3>1
  <2> HIDE DEF d
  <2>7. d \in Task
    BY <2>6 DEF Task
  <2>8. queue \in [1 .. m -> Task]
    BY LenProperties
  <2> HIDE DEF m, q
  <2>9. q \in [1 .. m -> Task] /\ q[m] = d /\ \A i \in 1 .. m : i # m => q[i] = queue[i]
    BY <2>2, <2>4, <2>7, <2>8
  <2>10. q \in Seq(Task) /\ Len(q) = m
    BY <1>1, <2>9, IsASeq, LenProperties
  <2>11. \A i \in 1 .. m : i < m => i # m
    BY <1>1
  <2> QED
    BY <1>1, <1>4, <2>1, <2>2, <2>5, <2>6, <2>9, <2>10, <2>11 DEF m, q, b
<1> QED
  BY <1>3, <1>4

----------------------------------------------------------------------------
(* Records. *)

Fields == {"epoch", "log", "floor", "through", "indexed", "noted"}
RowRec == [id : Source \X (0 .. MaxSeq), occ : Nat, rev : {1, 2}]

\* A sequence of what is in a smaller set.
LEMMA SeqNarrows ==
  ASSUME NEW S, NEW T, NEW q \in Seq(S), \A i \in 1 .. Len(q) : q[i] \in T
  PROVE  q \in Seq(T)
<1>1. Len(q) \in Nat /\ q \in [1 .. Len(q) -> S]
  BY LenProperties
<1> DEFINE n == Len(q)
<1> HIDE DEF n
<1>2. q \in [1 .. n -> T]
  BY <1>1 DEF n
<1> QED
  BY <1>1, <1>2, IsASeq DEF n

\* What the type of a record says, with rows whose type does not depend on the record.
RecordType(r) ==
  /\ DOMAIN r = Fields
  /\ r.epoch \in 0 .. MaxBoots /\ r.floor \in 0 .. Len(r.log)
  /\ r.log \in Seq(RowRec) /\ \A i \in 1 .. Len(r.log) : r.log[i].occ \in 1 .. Len(r.log)
  /\ r.through \in [Source -> 0 .. MaxSeq] /\ r.noted \in [Source -> 0 .. MaxSeq]
  /\ r.indexed \subseteq Source
  /\ \A s \in Source : r.noted[s] \in {0, r.through[s]}

\* The two ways to state the type of a record agree.
LEMMA TypeIsType ==
  ASSUME NEW r PROVE TypeOfRecord(r) <=> RecordType(r)
<1> DEFINE n == HeadOf(r)
           R == [id : Source \X (0 .. MaxSeq), occ : 1 .. n, rev : {1, 2}]
<1>1. n = Len(r.log)
  BY DEF HeadOf
<1>2. ASSUME r.log \in Seq(R)
      PROVE  r.log \in Seq(RowRec) /\ \A i \in 1 .. n : r.log[i].occ \in 1 .. n
  <2>1. \A i \in 1 .. Len(r.log) : r.log[i] \in R
    BY <1>2, ElementOfSeq
  <2> HIDE DEF n
  <2>2. \A i \in 1 .. Len(r.log) : r.log[i] \in RowRec /\ r.log[i].occ \in 1 .. n
    BY <2>1 DEF RowRec
  <2> HIDE DEF R
  <2> QED
    BY <1>1, <1>2, <2>2, SeqNarrows
<1>3. ASSUME r.log \in Seq(RowRec), \A i \in 1 .. n : r.log[i].occ \in 1 .. n
      PROVE  r.log \in Seq(R)
  <2>1. \A i \in 1 .. Len(r.log) : r.log[i] \in RowRec /\ r.log[i].occ \in 1 .. n
    BY <1>1, <1>3, ElementOfSeq
  <2> HIDE DEF n
  <2>2. \A i \in 1 .. Len(r.log) : r.log[i] \in R
    BY <2>1 DEF RowRec
  <2> HIDE DEF R
  <2> QED
    BY <1>3, <2>2, SeqNarrows
<1> QED
  BY <1>1, <1>2, <1>3 DEF TypeOfRecord, RecordType, Fields

\* A new record and the absent one are records.
LEMMA EmptyIs ==
  ASSUME NEW e \in 0 .. MaxBoots
  PROVE  /\ RecordType(Empty(e)) /\ Empty(e).epoch = e /\ Empty(e).log = <<>> /\ Len(Empty(e).log) = 0
         /\ Empty(e).floor = 0 /\ Empty(e).through = [s \in Source |-> 0] /\ Empty(e).indexed = {}
<1> DEFINE r == Empty(e)
<1>1. /\ r.epoch = e /\ r.log = <<>> /\ r.floor = 0 /\ r.through = [s \in Source |-> 0]
      /\ r.noted = [s \in Source |-> 0] /\ r.indexed = {} /\ DOMAIN r = Fields
  BY DEF Empty, Fields
<1>2. <<>> \in Seq(RowRec) /\ Len(<<>>) = 0
  BY EmptySeq
<1>3. MaxSeq \in Nat
  BY UpdatesAssumption
<1>4. [s \in Source |-> 0] \in [Source -> 0 .. MaxSeq]
  BY <1>3
<1> HIDE DEF r
<1>5. RecordType(r)
  BY <1>1, <1>2, <1>4 DEF RecordType
<1> QED
  BY <1>1, <1>2, <1>5 DEF r

\* w is r with rows appended.
Grows(r, w) ==
  /\ DOMAIN w = Fields /\ w.epoch = r.epoch /\ w.floor = r.floor
  /\ w.log \in Seq(RowRec) /\ Len(w.log) >= Len(r.log)
  /\ \A i \in 1 .. Len(r.log) : w.log[i] = r.log[i]
  /\ \A i \in Len(r.log) + 1 .. Len(w.log) : w.log[i].occ \in 1 .. i

\* Rows for occurrences, one by one.
LEMMA WithRowsIs ==
  ASSUME NEW r, DOMAIN r = Fields, r.log \in Seq(RowRec), NEW ids \in Seq(Source \X (0 .. MaxSeq))
  PROVE  LET w == WithRows(r, ids) IN
         /\ Grows(r, w) /\ w.through = r.through /\ w.indexed = r.indexed /\ w.noted = r.noted
         /\ Len(w.log) = Len(r.log) + Len(ids) /\ Len(ids) \in Nat /\ Len(r.log) \in Nat
         /\ \A k \in 1 .. Len(ids) :
              w.log[Len(r.log) + k] = [id |-> ids[k], occ |-> Len(r.log) + k, rev |-> 1]
<1> DEFINE n == Len(r.log)
           m == Len(ids)
           rows == [k \in 1 .. m |-> Row(r, k, ids[k])]
           w == WithRows(r, ids)
           all == r.log \o rows
<1>1. n \in Nat /\ m \in Nat
  BY LenProperties
<1>2. \A k \in 1 .. m : ids[k] \in Source \X (0 .. MaxSeq)
  BY ElementOfSeq
<1>3. \A k \in 1 .. m : Row(r, k, ids[k]) = [id |-> ids[k], occ |-> n + k, rev |-> 1]
  BY DEF Row, HeadOf
<1>4. \A k \in 1 .. m : Row(r, k, ids[k]) \in RowRec
  <2> SUFFICES ASSUME NEW k \in 1 .. m PROVE Row(r, k, ids[k]) \in RowRec
    OBVIOUS
  <2> HIDE DEF n, m
  <2> DEFINE x == n + k
             id == ids[k]
  <2>1. x \in Nat /\ id \in Source \X (0 .. MaxSeq)
    BY <1>1, <1>2
  <2>2. Row(r, k, ids[k]) = [id |-> id, occ |-> x, rev |-> 1]
    BY <1>3
  <2> HIDE DEF x, id
  <2>3. [id |-> id, occ |-> x, rev |-> 1] \in RowRec
    BY <2>1 DEF RowRec
  <2> QED
    BY <2>2, <2>3
<1>5. rows \in Seq(RowRec) /\ Len(rows) = m /\ \A k \in 1 .. m : rows[k] = [id |-> ids[k], occ |-> n + k, rev |-> 1]
  <2>1. rows \in [1 .. m -> RowRec]
    BY <1>4
  <2>2. \A k \in 1 .. m : rows[k] = Row(r, k, ids[k])
    <3> HIDE DEF m
    <3> QED
      OBVIOUS
  <2> HIDE DEF rows, m, n
  <2>3. rows \in Seq(RowRec)
    BY <1>1, <2>1, IsASeq
  <2>4. Len(rows) = m
    BY <1>1, <2>1, <2>3, LenProperties
  <2>5. \A k \in 1 .. m : rows[k] = [id |-> ids[k], occ |-> n + k, rev |-> 1]
    BY <1>3, <2>2
  <2> QED
    BY <2>3, <2>4, <2>5
<1>6. w = [r EXCEPT !.log = all]
  BY DEF WithRows
<1> HIDE DEF rows
<1>7. /\ all \in Seq(RowRec) /\ Len(all) = n + m
      /\ \A i \in 1 .. n + m : all[i] = IF i <= n THEN r.log[i] ELSE rows[i - n]
  <2> HIDE DEF m
  <2>1. r.log \in Seq(RowRec) /\ rows \in Seq(RowRec)
    BY <1>5
  <2>2. /\ all \in Seq(RowRec) /\ Len(all) = Len(r.log) + Len(rows)
        /\ \A i \in 1 .. Len(r.log) + Len(rows) : all[i] = IF i <= Len(r.log) THEN r.log[i] ELSE rows[i - Len(r.log)]
    BY <2>1, ConcatProperties
  <2> QED
    BY <1>5, <2>2
<1> HIDE DEF all, w
<1>8. /\ DOMAIN w = Fields /\ w.log = all /\ w.epoch = r.epoch /\ w.floor = r.floor
      /\ w.through = r.through /\ w.indexed = r.indexed /\ w.noted = r.noted
  BY <1>6 DEF Fields
<1> HIDE DEF n, m
<1>9. ASSUME NEW k \in 1 .. m PROVE all[n + k] = [id |-> ids[k], occ |-> n + k, rev |-> 1]
  <2>1. n + k \in 1 .. n + m /\ ~(n + k <= n) /\ (n + k) - n = k
    BY <1>1
  <2> QED
    BY <2>1, <1>5, <1>7
<1>10. ASSUME NEW i \in n + 1 .. n + m PROVE all[i].occ = i
  <2> DEFINE k == i - n
  <2>1. k \in 1 .. m /\ n + k = i
    BY <1>1
  <2> HIDE DEF k
  <2>2. all[n + k] = [id |-> ids[k], occ |-> n + k, rev |-> 1]
    BY <2>1, <1>9
  <2>3. [id |-> ids[k], occ |-> n + k, rev |-> 1].occ = n + k
    OBVIOUS
  <2>4. all[n + k].occ = n + k
    BY <2>2, <2>3
  <2> QED
    BY <2>1, <2>4
<1>11. \A i \in 1 .. n : all[i] = r.log[i]
  BY <1>1, <1>7
<1>12. n + m >= n /\ \A i \in n + 1 .. n + m : i \in 1 .. i
  BY <1>1
<1> QED
  BY <1>1, <1>7, <1>8, <1>9, <1>10, <1>11, <1>12 DEF Grows, n, m, w

\* A record that grew and whose checkpoints are in order is a record.
LEMMA GrowsIs ==
  ASSUME NEW r, RecordType(r), NEW w, Grows(r, w),
         w.through \in [Source -> 0 .. MaxSeq], w.noted \in [Source -> 0 .. MaxSeq],
         w.indexed \subseteq Source, \A s \in Source : w.noted[s] \in {0, w.through[s]}
  PROVE  RecordType(w) /\ Len(r.log) \in Nat /\ Len(w.log) \in Nat
<1> DEFINE n == Len(r.log)
           m == Len(w.log)
<1>1. n \in Nat /\ m \in Nat /\ m >= n
  BY LenProperties DEF RecordType, Grows
<1>2. ASSUME NEW i \in 1 .. m PROVE w.log[i].occ \in 1 .. m
  <2>1. CASE i \in 1 .. n
    <3>1. w.log[i] = r.log[i] /\ r.log[i].occ \in 1 .. n
      BY <2>1 DEF RecordType, Grows
    <3> QED
      BY <1>1, <3>1
  <2>2. CASE i \in n + 1 .. m
    <3>1. w.log[i].occ \in 1 .. i
      BY <2>2 DEF Grows
    <3> QED
      BY <1>1, <3>1
  <2> QED
    BY <1>1, <2>1, <2>2
<1>3. r.epoch \in 0 .. MaxBoots /\ r.floor \in 0 .. n /\ w.epoch = r.epoch /\ w.floor = r.floor
  BY DEF RecordType, Grows
<1>4. w.floor \in 0 .. m
  BY <1>1, <1>3
<1> QED
  BY <1>1, <1>2, <1>3, <1>4 DEF RecordType, Grows

\* The numbers of the events from the checkpoint up to n that show.
Showing(s, r, n) == {m \in r.through[s] + 1 .. n : Shows(s, r, m)}

\* The occurrences of a projection, one for each event that shows, in their order.
LEMMA FreshIs ==
  ASSUME NEW r, RecordType(r), NEW s \in Source, NEW n \in 0 .. MaxSeq
  PROVE  LET P == Showing(s, r, n)
             F == Fresh(s, r, n)
         IN /\ P \in SUBSET Nat /\ IsFiniteSet(P) /\ Cardinality(P) \in Nat
            /\ F \in Seq(Source \X (0 .. MaxSeq)) /\ Len(F) = Cardinality(P)
            /\ \A k \in 1 .. Len(F) : InOrder(P)[k] \in P /\ F[k] = Id(s, InOrder(P)[k])
            /\ \A i, j \in 1 .. Len(F) : i < j => InOrder(P)[i] < InOrder(P)[j]
            /\ \A x \in P : \E i \in 1 .. Len(F) : InOrder(P)[i] = x
<1> DEFINE P == Showing(s, r, n)
           F == Fresh(s, r, n)
           pos == InOrder(P)
           c == Cardinality(P)
           t == r.through[s]
<1>1. t \in Nat /\ MaxSeq \in Nat /\ n \in Nat
  BY UpdatesAssumption DEF RecordType
<1>2. P \subseteq t + 1 .. n
  BY DEF Showing
<1>3. IsFiniteSet(t + 1 .. n) /\ t + 1 .. n \subseteq 1 .. MaxSeq
  <2>1. t + 1 \in Int /\ n \in Int
    BY <1>1
  <2>2. IsFiniteSet(t + 1 .. n)
    <3> DEFINE a == t + 1
    <3>1. a \in Int /\ n \in Int
      BY <2>1
    <3> HIDE DEF a
    <3>2. IsFiniteSet(a .. n)
      BY <3>1, FS_Interval
    <3> QED
      BY <3>2 DEF a
  <2> HIDE DEF t
  <2>3. t + 1 .. n \subseteq 1 .. MaxSeq
    BY <1>1
  <2> QED
    BY <2>2, <2>3
<1> HIDE DEF P, t
<1>4. P \in SUBSET Nat /\ IsFiniteSet(P) /\ P \subseteq 1 .. MaxSeq
  <2>1. P \in SUBSET (t + 1 .. n)
    BY <1>2
  <2>2. IsFiniteSet(P)
    BY <1>3, <2>1, FS_Subset
  <2> QED
    BY <2>1, <2>2, <1>3, <1>1
<1>5. /\ pos \in Seq(P) /\ Len(pos) = c /\ c \in Nat
      /\ (\A i, j \in 1 .. c : i < j => pos[i] < pos[j])
      /\ (\A x \in P : \E i \in 1 .. c : pos[i] = x)
  BY <1>4, InOrderIs
<1> HIDE DEF pos, c
<1>6. \A k \in 1 .. c : pos[k] \in P
  BY <1>5, ElementOfSeq
<1>7. ASSUME NEW m \in 1 .. MaxSeq PROVE Id(s, m) \in Source \X (0 .. MaxSeq)
  BY <1>1 DEF Id
<1>8. F = [k \in 1 .. Len(pos) |-> Id(s, pos[k])]
  BY DEF Fresh, P, pos, Showing
<1> HIDE DEF F
<1>9. F = [k \in 1 .. c |-> Id(s, pos[k])]
  BY <1>5, <1>8
<1>10. F \in [1 .. c -> Source \X (0 .. MaxSeq)] /\ \A k \in 1 .. c : F[k] = Id(s, pos[k])
  BY <1>4, <1>6, <1>7, <1>9
<1>11. F \in Seq(Source \X (0 .. MaxSeq)) /\ Len(F) = c
  BY <1>5, <1>10, IsASeq, LenProperties
<1> QED
  BY <1>4, <1>5, <1>6, <1>10, <1>11 DEF P, pos, c, F

\* The checkpoints with that of s at n.
Advanced(through, s, n) == [through EXCEPT ![s] = n]

\* Where a projection leaves a record.
LEMMA ProjectedIs ==
  ASSUME NEW r, RecordType(r), NEW s \in Source, NEW n \in 0 .. MaxSeq
  PROVE  LET w == Projected(s, r, n)
             F == Fresh(s, r, n)
         IN /\ RecordType(w) /\ Grows(r, w)
            /\ w.through = Advanced(r.through, s, n)
            /\ w.indexed = IF Ends(s, r, n) THEN r.indexed \cup {s} ELSE r.indexed
            /\ Len(w.log) = Len(r.log) + Len(F) /\ Len(F) \in Nat /\ Len(r.log) \in Nat
            /\ \A k \in 1 .. Len(F) : w.log[Len(r.log) + k] = [id |-> F[k], occ |-> Len(r.log) + k, rev |-> 1]
<1> DEFINE F == Fresh(s, r, n)
           v == WithRows(r, F)
           w == Projected(s, r, n)
           ind == IF Ends(s, r, n) THEN r.indexed \cup {s} ELSE r.indexed
<1>1. F \in Seq(Source \X (0 .. MaxSeq))
  BY FreshIs
<1>2. DOMAIN r = Fields /\ r.log \in Seq(RowRec)
  BY DEF RecordType
<1> HIDE DEF F
<1>3. /\ Grows(r, v) /\ v.through = r.through /\ v.indexed = r.indexed /\ v.noted = r.noted
      /\ Len(v.log) = Len(r.log) + Len(F) /\ Len(F) \in Nat /\ Len(r.log) \in Nat
      /\ \A k \in 1 .. Len(F) : v.log[Len(r.log) + k] = [id |-> F[k], occ |-> Len(r.log) + k, rev |-> 1]
  BY <1>1, <1>2, WithRowsIs
<1>4. w = [v EXCEPT !.through[s] = n, !.noted[s] = 0,
                    !.indexed = IF Ends(s, r, n) THEN @ \cup {s} ELSE @]
  BY DEF Projected, F
<1>5. r.through \in [Source -> 0 .. MaxSeq] /\ r.noted \in [Source -> 0 .. MaxSeq] /\ r.indexed \subseteq Source
      /\ (\A t \in Source : r.noted[t] \in {0, r.through[t]}) /\ MaxSeq \in Nat
  BY UpdatesAssumption DEF RecordType
<1>6. DOMAIN v = Fields
  BY <1>3 DEF Grows
<1> HIDE DEF v, w
<1>7. /\ DOMAIN w = Fields /\ w.epoch = v.epoch /\ w.log = v.log /\ w.floor = v.floor
      /\ w.through = [v.through EXCEPT ![s] = n] /\ w.noted = [v.noted EXCEPT ![s] = 0]
      /\ w.indexed = IF Ends(s, r, n) THEN v.indexed \cup {s} ELSE v.indexed
  BY <1>4, <1>6 DEF Fields
<1>8. Grows(r, w)
  BY <1>3, <1>7 DEF Grows
<1>9. w.through = [r.through EXCEPT ![s] = n] /\ w.noted = [r.noted EXCEPT ![s] = 0] /\ w.indexed = ind
  BY <1>3, <1>7
<1>10. /\ w.through \in [Source -> 0 .. MaxSeq] /\ w.noted \in [Source -> 0 .. MaxSeq] /\ w.indexed \subseteq Source
       /\ \A t \in Source : w.noted[t] \in {0, w.through[t]}
  BY <1>5, <1>9
<1>11. RecordType(w)
  BY <1>8, <1>10, GrowsIs
<1> QED
  BY <1>3, <1>7, <1>8, <1>9, <1>11 DEF F, w, Advanced

\* An end that only the metadata records is one more row, once.
LEMMA TerminatedIs ==
  ASSUME NEW r, RecordType(r), NEW s \in Source
  PROVE  LET w == Terminated(s, r) IN
         /\ RecordType(w) /\ Grows(r, w) /\ w.through = r.through
         /\ \/ w = r
            \/ /\ s \in ended /\ s \notin r.indexed /\ w.indexed = r.indexed \cup {s}
               /\ Len(w.log) = Len(r.log) + 1 /\ Len(r.log) \in Nat
               /\ w.log[Len(r.log) + 1] = [id |-> <<s, 0>>, occ |-> Len(r.log) + 1, rev |-> 1]
<1> DEFINE ids == <<<<s, 0>>>>
           v == WithRows(r, ids)
           w == Terminated(s, r)
<1>1. DOMAIN r = Fields /\ r.log \in Seq(RowRec)
  BY DEF RecordType
<1>2. CASE s \notin ended \ r.indexed
  <2>1. w = r
    BY <1>2 DEF Terminated
  <2>2. Len(r.log) \in Nat
    BY <1>1, LenProperties
  <2>3. Grows(r, r)
    BY <1>1, <2>2 DEF Grows
  <2> QED
    BY <2>1, <2>3
<1>3. CASE s \in ended \ r.indexed
  <2>1. MaxSeq \in Nat
    BY UpdatesAssumption
  <2>2. ids \in Seq(Source \X (0 .. MaxSeq)) /\ Len(ids) = 1 /\ ids[1] = <<s, 0>>
    BY <2>1
  <2>3. w = [v EXCEPT !.indexed = @ \cup {s}, !.noted[s] = 0]
    BY <1>3 DEF Terminated
  <2> HIDE DEF ids
  <2>4. /\ Grows(r, v) /\ v.through = r.through /\ v.indexed = r.indexed /\ v.noted = r.noted
        /\ Len(v.log) = Len(r.log) + Len(ids) /\ Len(r.log) \in Nat
        /\ \A k \in 1 .. Len(ids) : v.log[Len(r.log) + k] = [id |-> ids[k], occ |-> Len(r.log) + k, rev |-> 1]
    BY <1>1, <2>2, WithRowsIs
  <2>5. DOMAIN v = Fields
    BY <2>4 DEF Grows
  <2> HIDE DEF v, w
  <2>6. /\ DOMAIN w = Fields /\ w.epoch = v.epoch /\ w.log = v.log /\ w.floor = v.floor
        /\ w.through = v.through /\ w.noted = [v.noted EXCEPT ![s] = 0] /\ w.indexed = v.indexed \cup {s}
    BY <2>3, <2>5 DEF Fields
  <2>7. Grows(r, w)
    BY <2>4, <2>6 DEF Grows
  <2>8. r.through \in [Source -> 0 .. MaxSeq] /\ r.noted \in [Source -> 0 .. MaxSeq] /\ r.indexed \subseteq Source
        /\ (\A t \in Source : r.noted[t] \in {0, r.through[t]})
    BY DEF RecordType
  <2>9. /\ w.through \in [Source -> 0 .. MaxSeq] /\ w.noted \in [Source -> 0 .. MaxSeq] /\ w.indexed \subseteq Source
        /\ \A t \in Source : w.noted[t] \in {0, w.through[t]}
    BY <2>1, <2>4, <2>6, <2>8
  <2>10. RecordType(w)
    BY <2>7, <2>9, GrowsIs
  <2>11. w.log[Len(r.log) + 1] = [id |-> <<s, 0>>, occ |-> Len(r.log) + 1, rev |-> 1]
    BY <2>2, <2>4, <2>6
  <2> QED
    BY <1>3, <2>2, <2>4, <2>6, <2>7, <2>10, <2>11 DEF w
<1> QED
  BY <1>2, <1>3

\* The newest retained row of a known occurrence is a row of that occurrence.
LEMMA NewestIs ==
  ASSUME NEW r, RecordType(r), NEW id, Known(r, id)
  PROVE  Newest(r, id) \in 1 .. Len(r.log) /\ r.log[Newest(r, id)].id = id
<1> DEFINE P == {i \in Retained(r) : r.log[i].id = id}
           n == Len(r.log)
<1>1. n \in Nat /\ r.floor \in Nat
  BY LenProperties DEF RecordType
<1>2. Retained(r) = r.floor + 1 .. n
  BY DEF Retained, HeadOf
<1> HIDE DEF n
<1>3. Retained(r) \subseteq 1 .. n /\ IsFiniteSet(1 .. n)
  <2>1. 1 \in Int /\ n \in Int
    BY <1>1
  <2>2. IsFiniteSet(1 .. n)
    BY <2>1, FS_Interval
  <2>3. Retained(r) \subseteq 1 .. n
    BY <1>1, <1>2
  <2> QED
    BY <2>2, <2>3
<1>4. P \in SUBSET (1 .. n) /\ P \in SUBSET Nat /\ P # {}
  BY <1>1, <1>3 DEF Known
<1> HIDE DEF P
<1>5. IsFiniteSet(P)
  BY <1>3, <1>4, FS_Subset
<1>6. \E x \in P : \A y \in P : y <= x
  BY <1>4, <1>5, Extremes
<1>7. \E i \in Retained(r) : r.log[i].id = id /\ \A j \in Retained(r) : r.log[j].id = id => j <= i
  BY <1>6 DEF P
<1>8. Newest(r, id) \in Retained(r) /\ r.log[Newest(r, id)].id = id
  BY <1>7 DEF Newest
<1> QED
  BY <1>3, <1>8 DEF n

\* A correlation leaves the record, or appends the second revision of a row.
LEMMA CorrelatedIs ==
  ASSUME NEW r, RecordType(r), NEW id
  PROVE  LET w == Correlated(r, id) IN
         /\ RecordType(w) /\ Grows(r, w) /\ w.through = r.through /\ w.indexed = r.indexed
         /\ \/ w = r
            \/ /\ Len(w.log) = Len(r.log) + 1 /\ Len(r.log) \in Nat
               /\ \E i \in 1 .. Len(r.log) :
                    r.log[i].rev = 1 /\ w.log[Len(r.log) + 1] = [r.log[i] EXCEPT !.rev = 2]
<1> DEFINE w == Correlated(r, id)
           n == Len(r.log)
<1>1. DOMAIN r = Fields /\ r.log \in Seq(RowRec) /\ n \in Nat
      /\ \A i \in 1 .. n : r.log[i].occ \in 1 .. n /\ r.log[i] \in RowRec
  BY LenProperties, ElementOfSeq DEF RecordType
<1>2. CASE ~(Known(r, id) /\ r.log[Newest(r, id)].rev = 1)
  <2>1. w = r
    BY <1>2 DEF Correlated
  <2>2. Grows(r, r)
    BY <1>1 DEF Grows
  <2> QED
    BY <2>1, <2>2
<1>3. CASE Known(r, id) /\ r.log[Newest(r, id)].rev = 1
  <2> DEFINE i == Newest(r, id)
             row == [r.log[i] EXCEPT !.rev = 2]
             all == Append(r.log, row)
  <2>1. i \in 1 .. n
    BY <1>3, NewestIs
  <2>2. w = [r EXCEPT !.log = all] /\ r.log[i].rev = 1
    BY <1>3 DEF Correlated
  <2> HIDE DEF i, w
  <2>3. r.log[i] \in RowRec /\ r.log[i].occ \in 1 .. n
    BY <1>1, <2>1
  <2>4. row \in RowRec /\ row.occ \in 1 .. n
    BY <2>3 DEF RowRec
  <2> HIDE DEF row
  <2>5. all \in Seq(RowRec) /\ Len(all) = n + 1 /\ (\A j \in 1 .. n : all[j] = r.log[j]) /\ all[n + 1] = row
    BY <1>1, <2>4, AppendProperties
  <2> HIDE DEF all
  <2>6. /\ DOMAIN w = Fields /\ w.log = all /\ w.epoch = r.epoch /\ w.floor = r.floor
        /\ w.through = r.through /\ w.indexed = r.indexed /\ w.noted = r.noted
    BY <1>1, <2>2 DEF Fields
  <2>7. Grows(r, w)
    <3> HIDE DEF n
    <3>1. \A j \in n + 1 .. n + 1 : all[j].occ \in 1 .. j
      BY <1>1, <2>4, <2>5
    <3>2. Len(all) >= n
      BY <1>1, <2>5
    <3> QED
      BY <2>5, <2>6, <3>1, <3>2 DEF Grows, n
  <2>8. RecordType(w)
    BY <2>6, <2>7, GrowsIs DEF RecordType
  <2> QED
    BY <1>1, <2>1, <2>2, <2>5, <2>6, <2>7, <2>8 DEF w, row
<1> QED
  BY <1>2, <1>3

\* Noting lengths changes nothing else.
LEMMA NotedIs ==
  ASSUME NEW r, RecordType(r), notes \in [Source -> 0 .. MaxSeq]
  PROVE  LET w == Noted(r) IN
         /\ RecordType(w) /\ Grows(r, w) /\ w.log = r.log /\ w.through = r.through /\ w.indexed = r.indexed
<1> DEFINE w == Noted(r)
           new == [s \in Source |-> IF Settled(s, r, notes[s]) THEN notes[s] ELSE r.noted[s]]
<1>1. w = [r EXCEPT !.noted = new]
  BY DEF Noted
<1>2. /\ r.through \in [Source -> 0 .. MaxSeq] /\ r.noted \in [Source -> 0 .. MaxSeq]
      /\ \A s \in Source : r.noted[s] \in {0, r.through[s]}
  BY DEF RecordType
<1>3. new \in [Source -> 0 .. MaxSeq] /\ \A s \in Source : new[s] \in {0, r.through[s]}
  BY <1>2 DEF Settled
<1> HIDE DEF new, w
<1>4. DOMAIN r = Fields
  BY DEF RecordType
<1>5. /\ DOMAIN w = Fields /\ w.log = r.log /\ w.epoch = r.epoch /\ w.floor = r.floor
      /\ w.through = r.through /\ w.indexed = r.indexed /\ w.noted = new
  BY <1>1, <1>4 DEF Fields
<1>6. Len(r.log) \in Nat
  BY LenProperties DEF RecordType
<1>7. Grows(r, w)
  <2> DEFINE n == Len(r.log)
  <2> HIDE DEF n
  <2>1. n + 1 .. n = {} /\ n >= n
    BY <1>6 DEF n
  <2> QED
    BY <1>5, <2>1 DEF Grows, RecordType, n
<1>8. RecordType(w)
  BY <1>3, <1>5 DEF RecordType
<1> QED
  BY <1>5, <1>7, <1>8 DEF w

\* Pruning only raises the floor, until few enough rows are retained.
LEMMA PrunedIs ==
  ASSUME NEW r, RecordType(r), NEW w \in Pruned(r)
  PROVE  /\ RecordType(w) /\ w.epoch = r.epoch /\ w.log = r.log /\ w.through = r.through /\ w.indexed = r.indexed
         /\ r.floor \in Nat /\ w.floor \in Nat /\ r.floor <= w.floor
         /\ Cardinality(Retained(w)) <= MaxRows
<1>1. PICK f \in r.floor .. HeadOf(r) : HeadOf(r) - f <= MaxRows /\ w = [r EXCEPT !.floor = f]
  BY DEF Pruned
<1>2. Len(r.log) \in Nat /\ r.floor \in 0 .. Len(r.log) /\ DOMAIN r = Fields
  BY LenProperties DEF RecordType
<1>3. f \in 0 .. Len(r.log) /\ r.floor <= f
  BY <1>1, <1>2 DEF HeadOf
<1>4. /\ DOMAIN w = Fields /\ w.log = r.log /\ w.epoch = r.epoch /\ w.floor = f
      /\ w.through = r.through /\ w.indexed = r.indexed /\ w.noted = r.noted
  BY <1>1, <1>2 DEF Fields
<1>5. RecordType(w)
  BY <1>3, <1>4 DEF RecordType
<1>6. Cardinality(Retained(w)) <= MaxRows
  <2> DEFINE n == Len(r.log)
             a == f + 1
  <2>1. Retained(w) = a .. n
    BY <1>4 DEF Retained, HeadOf
  <2>2. a \in Int /\ n \in Int /\ n - f <= MaxRows /\ MaxRows \in Nat
    BY <1>1, <1>2, <1>3, UpdatesAssumption DEF HeadOf
  <2> HIDE DEF a, n
  <2>3. Cardinality(a .. n) = IF a > n THEN 0 ELSE n - a + 1
    BY <2>2, FS_Interval
  <2>4. n - a + 1 <= MaxRows
    BY <2>2, <1>3 DEF a
  <2> QED
    BY <2>1, <2>2, <2>3, <2>4
<1> QED
  BY <1>2, <1>3, <1>4, <1>5, <1>6

----------------------------------------------------------------------------
(* Invariants. *)

\* The store serves only while the process runs, and then the committed record is the file.
Published == Ready => Up /\ record = disk

\* The events of a queued batch are in the log of its source; lengths are noted last, once.
Places == 1 .. Len(queue)
Logged(task) == task.kind = "batch" => task.first <= task.last /\ task.last <= Len(journal[task.source])
Tasks ==
  /\ ~Up => queue = <<>>
  /\ \A i \in Places : Logged(queue[i])
  /\ \A i \in Places : queue[i].kind = "note" =>
       /\ phase = "loading" /\ replayed = Source
       /\ \A j \in Places : queue[j].kind = "note" => j = i

Base == TypeOK /\ Published /\ Tasks

\* What a task of the worker may make of the record.
Outcome(r, w) ==
  \/ \E s \in Source : \E n \in 0 .. MaxSeq :
       /\ r.through[s] <= n /\ n <= Len(journal[s])
       /\ w \in Pruned(Projected(s, r, n)) \/ w \in Pruned(Terminated(s, Projected(s, r, n)))
  \/ \E id : w \in Pruned(Correlated(r, id))
  \/ w = Noted(r)

\* The steps of the file.
Moves ==
  \/ disk' = disk
  \/ ~Up /\ disk' = Absent /\ UNCHANGED <<boots, journal, cut, reader>>
  \/ ~Up /\ disk = Absent /\ boots' = boots + 1 /\ disk' = Empty(boots') /\ UNCHANGED <<journal, cut, reader>>
  \/ Ready /\ UNCHANGED <<boots, world, reader>> /\ Outcome(disk, disk')

\* The steps of the committed record.
Follows == (record' = record \/ record' = disk' \/ record' = Absent) /\ (Ready' => Up' /\ record' = disk')

\* One write of the store.
LEMMA SaveIs ==
  ASSUME Published, Ready, NEW w, Save(w)
  PROVE  /\ disk' = disk \/ disk' = w
         /\ record' = record \/ record' = disk'
         /\ Ready' => record' = disk' /\ disk' = w
BY DEF Published, Ready, Save

\* One commit of the store.
LEMMA CommitIs ==
  ASSUME Published, Ready, NEW next, Commit(next)
  PROVE  /\ disk' = disk \/ disk' \in Pruned(next)
         /\ record' = record \/ record' = disk'
         /\ Ready' => record' = disk' /\ (record' = next \/ record' \in Pruned(next))
<1>1. CASE next = record
  <2>1. UNCHANGED store
    BY <1>1 DEF Commit
  <2> QED
    BY <1>1, <2>1 DEF store, Published, Ready
<1>2. CASE next # record
  <2>1. PICK w \in Pruned(next) : Save(w)
    BY <1>2 DEF Commit
  <2> QED
    BY <2>1, SaveIs
<1> QED
  BY <1>1, <1>2

\* What TypeOK says of the first task.
LEMMA FirstTask ==
  ASSUME TypeOK, Tasks, queue # <<>>
  PROVE  LET task == queue[1] IN
         /\ Len(queue) \in Nat /\ 1 \in 1 .. Len(queue) /\ task \in Task /\ Logged(task)
         /\ task.kind = "batch" => task.source \in Source /\ task.first \in 1 .. MaxSeq /\ task.last \in 1 .. MaxSeq
         /\ task.kind = "replay" => task.source \in Source
<1>1. queue \in Seq(Task) /\ Len(queue) \in Nat /\ \A i \in 1 .. Len(queue) : queue[i] \in Task
  BY LenProperties, ElementOfSeq DEF TypeOK
<1>2. 1 \in 1 .. Len(queue)
  BY <1>1, EmptySeq
<1>3. queue[1] \in Task
  BY <1>1, <1>2
<1> QED
  BY <1>1, <1>2, <1>3 DEF Tasks, Places, Task

\* What the logs are.
LEMMA LogsAre ==
  ASSUME TypeOK
  PROVE  journal \in [Source -> Seq(Kind)]
         /\ \A s \in Source : journal[s] \in Seq(Kind) /\ Len(journal[s]) \in 0 .. MaxSeq
BY LenProperties, UpdatesAssumption DEF TypeOK

\* A step of the worker that takes a batch.
LEMMA BatchMoves ==
  ASSUME Base, queue # <<>>, queue[1].kind = "batch", Batched(queue[1]), UNCHANGED <<boots, world, reader, phase>>
  PROVE  Moves /\ Follows
<1> DEFINE b == queue[1]
           s == b.source
<1>1. s \in Source /\ b.last \in 1 .. MaxSeq /\ b.last <= Len(journal[s])
  BY FirstTask DEF Base, Logged
<1>2. CASE UNCHANGED store
  BY <1>2 DEF Base, Published, Moves, Follows, store, Ready, Up
<1>3. CASE Ready /\ b.last > record.through[s] /\ Commit(Projected(s, record, b.last))
  <2>1. record = disk /\ Up
    BY <1>3 DEF Base, Published
  <2>2. /\ disk' = disk \/ disk' \in Pruned(Projected(s, disk, b.last))
        /\ record' = record \/ record' = disk'
        /\ Ready' => record' = disk'
    BY <1>3, <2>1, CommitIs DEF Base
  <2>3. RecordType(disk)
    BY TypeIsType DEF Base, TypeOK
  <2>4. disk.through[s] \in Nat /\ b.last \in 0 .. MaxSeq /\ disk.through[s] <= b.last
    BY <1>1, <1>3, <2>1, <2>3, UpdatesAssumption DEF RecordType
  <2>5. disk' = disk \/ Outcome(disk, disk')
    BY <1>1, <2>2, <2>4 DEF Outcome
  <2> QED
    BY <1>3, <2>1, <2>2, <2>5 DEF Moves, Follows, Up
<1> QED
  BY <1>2, <1>3 DEF Batched, Refuse

\* A step of the worker that replays a log.
LEMMA ReplayMoves ==
  ASSUME Base, NEW s \in Source, Replayed(s), UNCHANGED <<boots, world, reader, phase>>
  PROVE  Moves /\ Follows
<1> DEFINE n == Len(journal[s])
<1>1. n \in 0 .. MaxSeq
  BY LogsAre DEF Base
<1>2. CASE UNCHANGED store
  BY <1>2 DEF Base, Published, Moves, Follows, store, Ready, Up
<1>3. CASE n >= record.through[s] /\ Ready /\ Commit(Terminated(s, Projected(s, record, n)))
  <2>1. record = disk /\ Up
    BY <1>3 DEF Base, Published
  <2>2. /\ disk' = disk \/ disk' \in Pruned(Terminated(s, Projected(s, disk, n)))
        /\ record' = record \/ record' = disk'
        /\ Ready' => record' = disk'
    BY <1>3, <2>1, CommitIs DEF Base
  <2>3. RecordType(disk)
    BY TypeIsType DEF Base, TypeOK
  <2>4. disk.through[s] \in Nat /\ disk.through[s] <= n /\ n <= Len(journal[s])
    BY <1>1, <1>3, <2>1, <2>3, UpdatesAssumption DEF RecordType
  <2>5. disk' = disk \/ Outcome(disk, disk')
    BY <1>1, <2>2, <2>4 DEF Outcome
  <2> QED
    BY <1>3, <2>1, <2>2, <2>5 DEF Moves, Follows, Up
<1> QED
  BY <1>2, <1>3 DEF Replayed, Refuse

\* Every step moves the file and the record in these ways only.
LEMMA StoreMoves ==
  ASSUME Base, [Next]_vars
  PROVE  Moves /\ Follows
<1>1. CASE UNCHANGED <<store, phase>>
  BY <1>1 DEF Base, Published, Moves, Follows, store, Ready, Up
<1>2. CASE Work
  <2> DEFINE task == queue[1]
  <2>0. queue # <<>> /\ UNCHANGED <<boots, world, reader>>
    BY <1>2 DEF Work
  <2>1. CASE task.kind = "batch" /\ Batched(task) /\ UNCHANGED phase
    BY <2>0, <2>1, BatchMoves
  <2>2. CASE task.kind = "replay" /\ Replayed(task.source) /\ UNCHANGED phase
    <3>1. task.source \in Source
      BY <2>0, <2>2, FirstTask DEF Base
    <3> QED
      BY <2>0, <2>2, <3>1, ReplayMoves
  <2>3. CASE UNCHANGED phase /\ Related(task.id)
    <3>1. CASE UNCHANGED store
      BY <2>0, <2>3, <3>1 DEF Base, Published, Moves, Follows, store, Ready, Up
    <3>2. CASE Ready /\ Commit(Correlated(record, task.id))
      <4>1. record = disk /\ Up
        BY <3>2 DEF Base, Published
      <4>2. /\ disk' = disk \/ disk' \in Pruned(Correlated(disk, task.id))
            /\ record' = record \/ record' = disk'
            /\ Ready' => record' = disk'
        BY <2>3, <3>2, <4>1, CommitIs DEF Base
      <4>3. disk' = disk \/ Outcome(disk, disk')
        BY <4>2 DEF Outcome
      <4> QED
        BY <2>0, <2>3, <3>2, <4>1, <4>2, <4>3 DEF Moves, Follows, Up
    <3> QED
      BY <2>3, <3>1, <3>2 DEF Related
  <2>4. CASE NoteWritten /\ phase' = "serving"
    <3>1. Ready /\ record = disk /\ Ready' /\ Up'
      BY <2>4 DEF NoteWritten, Base, Published, Ready, Up
    <3>2. CASE UNCHANGED store
      BY <3>1, <3>2 DEF Moves, Follows, store
    <3>3. CASE Save(Noted(record))
      <4>1. (disk' = disk \/ disk' = Noted(disk)) /\ (record' = record \/ record' = disk') /\ record' = disk'
        BY <3>1, <3>3, SaveIs DEF Base
      <4> QED
        BY <2>0, <3>1, <4>1 DEF Moves, Follows, Outcome
    <3> QED
      BY <2>4, <3>2, <3>3 DEF NoteWritten
  <2> QED
    BY <1>2, <2>1, <2>2, <2>3, <2>4 DEF Work
<1>3. CASE Start
  <2>1. /\ ~Up /\ Up' /\ boots' = boots + 1 /\ UNCHANGED <<journal, cut, reader>>
        /\ Load
    BY <1>3 DEF Start, Up, world
  <2>2. CASE disk # Absent /\ record' = disk /\ health' = "ready" /\ UNCHANGED disk
    BY <2>1, <2>2 DEF Moves, Follows
  <2>3. CASE disk = Absent /\ record' = Empty(boots') /\ disk' = Empty(boots') /\ health' = "ready"
    BY <2>1, <2>3 DEF Moves, Follows
  <2>4. CASE /\ record' = Absent /\ health' = "unavailable"
             /\ disk' \in {disk, IF disk = Absent THEN Empty(boots') ELSE disk}
    BY <2>1, <2>4 DEF Moves, Follows, Ready
  <2> QED
    BY <2>1, <2>2, <2>3, <2>4 DEF Load
<1>4. CASE Recovered \/ Close
  <2>1. UNCHANGED store /\ (Up => Up')
    BY <1>4 DEF Recovered, Close, Up
  <2> QED
    BY <2>1 DEF Base, Published, Moves, Follows, store, Ready
<1>5. CASE (Closed \/ Crash) /\ UNCHANGED disk
  BY <1>5 DEF Closed, Crash, Down, Moves, Follows, Ready
<1>6. CASE StartFails
  <2>1. /\ record' = Absent /\ health' = "unavailable" /\ UNCHANGED <<boots, world, reader>>
        /\ IF Ready THEN disk' \in {disk, Noted(record)} ELSE UNCHANGED disk
    BY <1>6 DEF StartFails, Down
  <2> QED
    BY <2>1 DEF Base, Published, Moves, Follows, Ready, Outcome
<1>7. CASE SetAside
  BY <1>7 DEF SetAside, Base, Published, Moves, Follows, Ready, Up
<1> QED
  BY <1>1, <1>2, <1>3, <1>4, <1>5, <1>6, <1>7
  DEF Next, vars, store, Seal, Correlate, Closed, Crash, Bootstrap, More, Poll, Page, Event, Recover,
      EndsUnrecorded, PowerLost

\* The rows of r stand in w, in the same feed.
Carries(r, w) ==
  /\ w.epoch = r.epoch /\ Len(r.log) \in Nat /\ Len(w.log) \in Nat /\ Len(w.log) >= Len(r.log)
  /\ \A i \in 1 .. Len(r.log) : w.log[i] = r.log[i]

\* What a step of the worker makes of a record is a record that carries its rows.
LEMMA OutcomeIs ==
  ASSUME TypeOK, NEW r, RecordType(r), NEW w, Outcome(r, w), Cardinality(Retained(r)) <= MaxRows
  PROVE  RecordType(w) /\ Carries(r, w) /\ Cardinality(Retained(w)) <= MaxRows
<1> DEFINE Fine(v) == RecordType(v) /\ Carries(r, v)
<1>1. notes \in [Source -> 0 .. MaxSeq]
  BY DEF TypeOK
<1>2. ASSUME NEW v, RecordType(v), Grows(r, v) PROVE Fine(v)
  BY <1>2, LenProperties DEF Carries, Grows, RecordType
<1>3. ASSUME NEW v, Fine(v), w \in Pruned(v) PROVE Fine(w) /\ Cardinality(Retained(w)) <= MaxRows
  BY <1>3, PrunedIs DEF Carries
<1>4. ASSUME NEW s \in Source, NEW n \in 0 .. MaxSeq,
             w \in Pruned(Projected(s, r, n)) \/ w \in Pruned(Terminated(s, Projected(s, r, n)))
      PROVE  Fine(w) /\ Cardinality(Retained(w)) <= MaxRows
  <2> DEFINE p == Projected(s, r, n)
             t == Terminated(s, p)
  <2>1. RecordType(p) /\ Grows(r, p)
    BY ProjectedIs
  <2> HIDE DEF p
  <2>2. RecordType(t) /\ Grows(p, t)
    BY <2>1, TerminatedIs
  <2> HIDE DEF t
  <2>3. Fine(p) /\ Len(t.log) \in Nat
    BY <2>1, <2>2, <1>2, LenProperties DEF RecordType
  <2>4. Fine(t)
    BY <2>2, <2>3 DEF Carries, Grows
  <2> HIDE DEF Fine
  <2> QED
    BY <1>3, <1>4, <2>3, <2>4 DEF t, p
<1>5. ASSUME NEW id, w \in Pruned(Correlated(r, id)) PROVE Fine(w) /\ Cardinality(Retained(w)) <= MaxRows
  <2> DEFINE c == Correlated(r, id)
  <2>1. RecordType(c) /\ Grows(r, c)
    BY CorrelatedIs
  <2> HIDE DEF c, Fine
  <2> QED
    BY <2>1, <1>2, <1>3, <1>5 DEF c
<1>6. ASSUME w = Noted(r) PROVE Fine(w) /\ Cardinality(Retained(w)) <= MaxRows
  <2>1. RecordType(w) /\ Grows(r, w) /\ w.log = r.log
    BY <1>1, <1>6, NotedIs
  <2>2. Retained(w) = Retained(r)
    BY <2>1 DEF Retained, HeadOf, Grows
  <2> QED
    BY <2>1, <2>2, <1>2
<1> QED
  BY <1>4, <1>5, <1>6 DEF Outcome

\* The file and the committed record stay records, and the file keeps its bound.
LEMMA RecordsStay ==
  ASSUME Base, [Next]_vars, boots' \in 0 .. MaxBoots
  PROVE  RecordType(disk') /\ RecordType(record') /\ Cardinality(Retained(disk')) <= MaxRows
<1>1. Moves /\ Follows
  BY StoreMoves
<1>2. RecordType(disk) /\ RecordType(record) /\ Cardinality(Retained(disk)) <= MaxRows
  BY TypeIsType DEF Base, TypeOK
<1>3. ASSUME NEW e \in 0 .. MaxBoots PROVE RecordType(Empty(e)) /\ Cardinality(Retained(Empty(e))) <= MaxRows
  <2>1. RecordType(Empty(e)) /\ Empty(e).floor = 0 /\ Len(Empty(e).log) = 0
    BY EmptyIs
  <2>2. Retained(Empty(e)) = {}
    BY <2>1 DEF Retained, HeadOf
  <2>3. MaxRows \in Nat
    BY UpdatesAssumption
  <2> QED
    BY <2>1, <2>2, <2>3, FS_EmptySet
<1>4. RecordType(Absent) /\ Cardinality(Retained(Absent)) <= MaxRows
  <2>1. 0 \in 0 .. MaxBoots
    BY UpdatesAssumption
  <2> QED
    BY <1>3, <2>1 DEF Absent
<1>5. RecordType(disk') /\ Cardinality(Retained(disk')) <= MaxRows
  <2>1. CASE disk' = disk
    BY <1>2, <2>1
  <2>2. CASE disk' = Absent
    BY <1>4, <2>2
  <2>3. CASE disk' = Empty(boots')
    BY <1>3, <2>3
  <2>4. CASE Outcome(disk, disk')
    BY <1>2, <2>4, OutcomeIs DEF Base
  <2> QED
    BY <1>1, <2>1, <2>2, <2>3, <2>4 DEF Moves
<1>6. RecordType(record')
  BY <1>1, <1>2, <1>4, <1>5 DEF Follows
<1> QED
  BY <1>5, <1>6

\* The other variables, apart from the queue.
Plain ==
  /\ phase \in {"down", "loading", "serving", "closing"} /\ boots \in 0 .. MaxBoots
  /\ journal \in [Source -> Seq(Kind)] /\ \A s \in Source : Len(journal[s]) <= MaxSeq
  /\ ended \subseteq Source /\ cut \subseteq Source /\ losses \in 0 .. MaxLosses
  /\ health \in {"ready", "unavailable"} /\ problems \subseteq Source
  /\ replayed \subseteq Source /\ notes \in [Source -> 0 .. MaxSeq]

\* The store's health has two values.
LEMMA HealthStays ==
  ASSUME health \in {"ready", "unavailable"}, NEW next, Commit(next) PROVE health' \in {"ready", "unavailable"}
BY DEF Commit, Save, store

\* Logs only change by an event or a loss of power.
LEMMA LogsStay ==
  ASSUME TypeOK, [Next]_vars
  PROVE  journal' \in [Source -> Seq(Kind)] /\ \A s \in Source : Len(journal'[s]) <= MaxSeq
<1>1. journal \in [Source -> Seq(Kind)]
      /\ \A s \in Source : journal[s] \in Seq(Kind) /\ Len(journal[s]) \in 0 .. MaxSeq
  BY LogsAre
<1>2. CASE UNCHANGED journal
  BY <1>1, <1>2
<1>3. ASSUME NEW s \in Source, Event(s)
      PROVE  journal' \in [Source -> Seq(Kind)] /\ \A t \in Source : Len(journal'[t]) <= MaxSeq
  <2>1. PICK kind \in Kind : journal' = [journal EXCEPT ![s] = Append(@, kind)]
    BY <1>3 DEF Event
  <2>2. Len(journal[s]) < MaxSeq
    BY <1>3 DEF Event
  <2>3. Append(journal[s], kind) \in Seq(Kind) /\ Len(Append(journal[s], kind)) = Len(journal[s]) + 1
    BY <1>1, AppendProperties
  <2>4. MaxSeq \in Nat
    BY UpdatesAssumption
  <2> DEFINE a == Append(journal[s], kind)
  <2>5. a \in Seq(Kind) /\ Len(a) <= MaxSeq
    BY <1>1, <2>2, <2>3, <2>4
  <2> HIDE DEF a
  <2>6. journal' = [journal EXCEPT ![s] = a]
    BY <2>1 DEF a
  <2>7. \A t \in Source : journal'[t] = journal[t] \/ journal'[t] = a
    BY <1>1, <2>6
  <2> QED
    BY <1>1, <2>5, <2>6, <2>7
<1>4. ASSUME NEW s \in Source, PowerLost(s)
      PROVE  journal' \in [Source -> Seq(Kind)] /\ \A t \in Source : Len(journal'[t]) <= MaxSeq
  <2>1. PICK n \in 1 .. Len(journal[s]) - 1 : journal' = [journal EXCEPT ![s] = SubSeq(@, 1, n)]
    BY <1>4 DEF PowerLost
  <2> DEFINE a == SubSeq(journal[s], 1, n)
             l == journal[s]
  <2>2. l \in Seq(Kind) /\ Len(l) \in 0 .. MaxSeq /\ n \in Nat /\ n <= Len(l) /\ n >= 1 /\ MaxSeq \in Nat
    BY <1>1, <2>1, UpdatesAssumption
  <2>3. a \in Seq(Kind) /\ Len(a) = n
    <3> HIDE DEF l
    <3>1. \A i \in 1 .. n : l[i] \in Kind
      BY <2>2, ElementOfSeq
    <3>2. 1 \in Int /\ n \in Int
      BY <2>2
    <3>3. SubSeq(l, 1, n) \in Seq(Kind) /\ Len(SubSeq(l, 1, n)) = IF 1 <= n THEN n - 1 + 1 ELSE 0
      BY <3>1, <3>2, <2>2, SubSeqProperties
    <3>4. SubSeq(l, 1, n) = a
      BY DEF l
    <3> QED
      BY <3>3, <3>4, <2>2
  <2>4. Len(a) <= MaxSeq
    BY <2>2, <2>3
  <2> HIDE DEF a
  <2>5. journal' = [journal EXCEPT ![s] = a]
    BY <2>1 DEF a
  <2>6. \A t \in Source : journal'[t] = journal[t] \/ journal'[t] = a
    BY <1>1, <2>5
  <2> QED
    BY <1>1, <2>3, <2>4, <2>5, <2>6
<1> QED
  BY <1>2, <1>3, <1>4
  DEF Next, vars, world, Seal, Correlate, Work, Start, Recovered, Close, Closed, Crash, StartFails, SetAside,
      Bootstrap, More, Poll, Page, Recover, EndsUnrecorded, Down

\* The other variables keep their types.
LEMMA PlainStays ==
  ASSUME TypeOK, Tasks, [Next]_vars PROVE Plain'
<1>1. journal' \in [Source -> Seq(Kind)] /\ \A s \in Source : Len(journal'[s]) <= MaxSeq
  BY LogsStay
<1>2. boots \in 0 .. MaxBoots /\ losses \in 0 .. MaxLosses /\ MaxBoots \in Nat /\ MaxLosses \in Nat
      /\ ended \subseteq Source /\ cut \subseteq Source
      /\ health \in {"ready", "unavailable"} /\ problems \subseteq Source
      /\ replayed \subseteq Source /\ notes \in [Source -> 0 .. MaxSeq]
      /\ phase \in {"down", "loading", "serving", "closing"}
  BY UpdatesAssumption DEF TypeOK
<1>3. phase' \in {"down", "loading", "serving", "closing"}
  BY <1>2 DEF Next, vars, Seal, Correlate, Work, Start, Recovered, Close, Closed, Crash, StartFails, SetAside,
              Bootstrap, More, Poll, Page, Event, Recover, EndsUnrecorded, PowerLost, Down
<1>4. boots' \in 0 .. MaxBoots
  <2>1. boots' = boots \/ (boots < MaxBoots /\ boots' = boots + 1)
    BY DEF Next, vars, Seal, Correlate, Work, Start, Recovered, Close, Closed, Crash, StartFails, SetAside,
           Bootstrap, More, Poll, Page, Event, Recover, EndsUnrecorded, PowerLost
  <2> QED
    BY <1>2, <2>1
<1>5. losses' \in 0 .. MaxLosses
  <2>1. losses' = losses \/ (losses < MaxLosses /\ losses' = losses + 1)
    BY DEF Next, vars, world, Seal, Correlate, Work, Start, Recovered, Close, Closed, Crash, StartFails, SetAside,
           Bootstrap, More, Poll, Page, Event, Recover, EndsUnrecorded, PowerLost
  <2> QED
    BY <1>2, <2>1
<1>6. ended' \subseteq Source /\ cut' \subseteq Source
  BY <1>2 DEF Next, vars, world, Seal, Correlate, Work, Start, Recovered, Close, Closed, Crash, StartFails, SetAside,
           Bootstrap, More, Poll, Page, Event, Recover, EndsUnrecorded, PowerLost
<1>7. CASE Work
  <2> DEFINE task == queue[1]
  <2>1. queue # <<>> /\ (task.kind \in {"batch", "replay"} => task.source \in Source) /\ (task.kind = "batch" => task \in Task)
    BY <1>7, FirstTask DEF Work
  <2>2. CASE task.kind = "batch" /\ Batched(task) /\ UNCHANGED startup
    <3>1. health' \in {"ready", "unavailable"} /\ problems' \subseteq Source
      BY <1>2, <2>1, <2>2, HealthStays DEF Batched, Refuse, store
    <3> QED
      BY <1>1, <1>2, <1>3, <1>4, <1>5, <1>6, <2>2, <3>1 DEF Plain, startup
  <2>3. CASE task.kind = "replay" /\ Replayed(task.source) /\ UNCHANGED replayed
    <3> DEFINE s == task.source
    <3>1. health' \in {"ready", "unavailable"} /\ problems' \subseteq Source
      BY <1>2, <2>1, <2>3, HealthStays DEF Replayed, Refuse, store
    <3>2. Len(journal[s]) \in 0 .. MaxSeq
      BY <2>1, <2>3, LogsAre
    <3>3. notes' = notes \/ notes' = [notes EXCEPT ![s] = Len(journal[s])]
      BY <2>3 DEF Replayed
    <3>4. notes' \in [Source -> 0 .. MaxSeq]
      <4> DEFINE n == Len(journal[s])
      <4> HIDE DEF n
      <4>1. n \in 0 .. MaxSeq /\ (notes' = notes \/ notes' = [notes EXCEPT ![s] = n])
        BY <3>2, <3>3 DEF n
      <4> QED
        BY <1>2, <4>1
    <3> QED
      BY <1>1, <1>2, <1>3, <1>4, <1>5, <1>6, <2>3, <3>1, <3>4 DEF Plain
  <2>4. CASE UNCHANGED <<problems, startup>> /\ Related(task.id)
    <3>1. health' \in {"ready", "unavailable"}
      BY <1>2, <2>4, HealthStays DEF store, Related
    <3> QED
      BY <1>1, <1>2, <1>3, <1>4, <1>5, <1>6, <2>4, <3>1 DEF Plain, startup
  <2>5. CASE NoteWritten /\ UNCHANGED <<problems, startup>>
    BY <1>1, <1>2, <1>3, <1>4, <1>5, <1>6, <2>5 DEF Plain, startup, NoteWritten
  <2> QED
    BY <1>7, <2>2, <2>3, <2>4, <2>5 DEF Work
<1>8. CASE Start
  <2>1. health' \in {"ready", "unavailable"} /\ problems' = {} /\ notes' = NoNotes /\ replayed' \subseteq Source
    BY <1>8 DEF Start, Load
  <2>2. NoNotes \in [Source -> 0 .. MaxSeq]
    BY UpdatesAssumption DEF NoNotes
  <2> QED
    BY <1>1, <1>3, <1>4, <1>5, <1>6, <2>1, <2>2 DEF Plain
<1>9. CASE Closed \/ Crash \/ StartFails
  <2>1. health' = "unavailable" /\ problems' = {} /\ notes' = NoNotes /\ replayed' = {}
    BY <1>9 DEF Closed, Crash, StartFails, Down
  <2>2. NoNotes \in [Source -> 0 .. MaxSeq]
    BY UpdatesAssumption DEF NoNotes
  <2> QED
    BY <1>1, <1>3, <1>4, <1>5, <1>6, <2>1, <2>2 DEF Plain
<1>10. ASSUME NEW s \in Source, Recover(s) PROVE Plain'
  <2>1. replayed' \subseteq Source /\ UNCHANGED <<health, problems>>
    BY <1>2, <1>10 DEF Recover, store
  <2>2. notes' = notes \/ notes' = [notes EXCEPT ![s] = Len(journal[s])]
    BY <1>10 DEF Recover
  <2>3. Len(journal[s]) \in 0 .. MaxSeq
    BY LogsAre
  <2>4. notes' \in [Source -> 0 .. MaxSeq]
    <3> DEFINE n == Len(journal[s])
    <3> HIDE DEF n
    <3>1. n \in 0 .. MaxSeq /\ (notes' = notes \/ notes' = [notes EXCEPT ![s] = n])
      BY <2>2, <2>3 DEF n
    <3> QED
      BY <1>2, <3>1
  <2> QED
    BY <1>1, <1>2, <1>3, <1>4, <1>5, <1>6, <2>1, <2>4 DEF Plain
<1>11. CASE UNCHANGED <<health, problems, startup>>
  BY <1>1, <1>2, <1>3, <1>4, <1>5, <1>6, <1>11 DEF Plain, startup
<1> QED
  BY <1>7, <1>8, <1>9, <1>10, <1>11
  DEF Next, vars, store, startup, Seal, Correlate, Recovered, Close, SetAside,
      Bootstrap, More, Poll, Page, Event, EndsUnrecorded, PowerLost

\* q has the tasks of the queue from the one after the first d on.
From(q, d) ==
  q \in Seq(Task) /\ \A i \in 1 .. Len(q) : i + d \in Places /\ Alike(q[i], queue[i + d])

\* Nobody asks for lengths to be noted before all is recovered, or twice.
NoNote == \A i \in Places : queue[i].kind # "note"

\* The steps of the queue: tasks leave it or stay, one is added, or an event is ingested.
Stays ==
  /\ \/ queue' \in {queue, Sealed, <<>>} /\ From(queue', 0)
     \/ queue # <<>> /\ From(queue', 1) /\ queue' = Tail(queue)
  /\ queue' = <<>> \/ \A s \in Source : Len(journal[s]) <= Len(journal'[s])
  /\ \/ NoNote \/ queue' = <<>>
     \/ UNCHANGED <<phase, replayed>>
     \/ /\ queue # <<>> /\ queue[1].kind = "note"
        /\ From(queue', 1) /\ queue' = Tail(queue)
Adds(task) ==
  /\ task \in Task /\ task.kind # "batch" /\ queue' = Queued(task) /\ UNCHANGED <<journal, phase>> /\ Up
  /\ task.kind = "note" => phase = "loading" /\ replayed = Source /\ NoNote /\ UNCHANGED replayed
  /\ NoNote \/ UNCHANGED replayed
Takes(s) ==
  /\ \E kind \in Kind : journal' = [journal EXCEPT ![s] = Append(@, kind)]
  /\ UNCHANGED <<phase, replayed>> /\ Up /\ Len(journal[s]) + 1 \in 1 .. MaxSeq
  /\ \E joined, full \in BOOLEAN :
       (joined => Joins(s, Len(journal[s]) + 1)) /\ queue' = Ingested(s, Len(journal[s]) + 1, joined, full)

\* Every step moves the queue in these ways only.
LEMMA QueueMoves ==
  ASSUME Base, [Next]_vars
  PROVE  Stays \/ (\E task \in Task : Adds(task)) \/ (\E s \in Source : Takes(s))
<1>1. queue \in Seq(Task) /\ Len(queue) \in Nat
  BY LenProperties DEF Base, TypeOK
<1>2. From(queue, 0)
  <2>1. \A i \in 1 .. Len(queue) : i + 0 = i
    BY <1>1
  <2> QED
    BY <1>1, <2>1 DEF From, Places, Alike
<1>3. From(<<>>, 0)
  BY EmptySeq DEF From
<1>4. From(Sealed, 0)
  <2>1. Sealed \in Seq(Task) /\ Len(Sealed) = Len(queue) /\ \A i \in 1 .. Len(queue) : Alike(Sealed[i], queue[i])
    BY <1>1, SealedIs
  <2>2. \A i \in 1 .. Len(queue) : i + 0 = i
    BY <1>1
  <2> QED
    BY <2>1, <2>2 DEF From, Places
<1>5. \A s \in Source : Len(journal[s]) \in Nat
  BY LogsAre, UpdatesAssumption DEF Base
<1>6. ~Waits => NoNote
  BY DEF Waits, Awaited, NoNote, Places
<1>7. ASSUME UNCHANGED journal PROVE \A s \in Source : Len(journal[s]) <= Len(journal'[s])
  BY <1>5, <1>7
<1>8. CASE UNCHANGED <<queue, journal, phase, replayed>>
  BY <1>2, <1>7, <1>8 DEF Stays
<1>9. CASE queue' = Sealed /\ UNCHANGED <<journal, phase, replayed>>
  BY <1>4, <1>7, <1>9 DEF Stays
<1>10. CASE queue' = <<>>
  BY <1>3, <1>10 DEF Stays
<1>11. CASE Correlate
  <2>1. PICK i \in 1 .. HeadOf(record) : queue' = Queued(Correlation(record.log[i].id))
    BY <1>11 DEF Correlate
  <2>2. RecordType(record)
    BY TypeIsType DEF Base, TypeOK
  <2>3. record.log[i] \in RowRec
    BY <2>1, <2>2, ElementOfSeq DEF RecordType, HeadOf
  <2>4. record.log[i].id \in Source \X (0 .. MaxSeq)
    BY <2>3 DEF RowRec
  <2> DEFINE task == Correlation(record.log[i].id)
  <2>5. task \in Task /\ task.kind = "correlate"
    BY <2>4 DEF Correlation, Task
  <2>6. UNCHANGED <<journal, phase, replayed>> /\ Up
    BY <1>11 DEF Correlate, world, startup, Up
  <2> HIDE DEF task
  <2>7. queue' = Queued(task)
    BY <2>1 DEF task
  <2> QED
    BY <2>5, <2>6, <2>7 DEF Adds
<1>12. ASSUME NEW s \in Source, Recover(s)
       PROVE  Stays \/ \E task \in Task : Adds(task)
  <2>1. /\ phase = "loading" /\ UNCHANGED <<phase, journal>> /\ NoNote
        /\ queue' = queue \/ queue' = Queued(Replay(s))
    BY <1>12, <1>6 DEF Recover, world
  <2>2. CASE queue' = queue
    BY <2>1, <2>2, <1>2, <1>7 DEF Stays
  <2>3. CASE queue' = Queued(Replay(s))
    <3>1. Replay(s) \in Task /\ Replay(s).kind = "replay"
      BY DEF Replay, Task
    <3> QED
      BY <2>1, <2>3, <3>1 DEF Adds, Up
  <2> QED
    BY <2>1, <2>2, <2>3
<1>13. CASE Recovered
  <2>1. /\ phase = "loading" /\ replayed = Source /\ UNCHANGED <<journal, replayed>> /\ NoNote
        /\ queue' = queue \/ (queue' = Queued(Note) /\ UNCHANGED phase)
    BY <1>13, <1>6 DEF Recovered, world, startup
  <2>2. CASE queue' = queue
    BY <2>1, <2>2, <1>2, <1>7 DEF Stays
  <2>3. CASE queue' = Queued(Note) /\ UNCHANGED phase
    <3>1. Note \in Task /\ Note.kind = "note"
      BY DEF Note, Task
    <3> QED
      BY <2>1, <2>3, <3>1 DEF Adds, Up
  <2> QED
    BY <2>1, <2>2, <2>3
<1>14. CASE Close
  <2>1. phase = "serving" /\ queue' = Sealed /\ UNCHANGED <<journal, replayed>>
    BY <1>14 DEF Close, world, startup
  <2>2. NoNote
    BY <2>1 DEF Base, Tasks, NoNote
  <2> QED
    BY <2>1, <2>2, <1>4, <1>7 DEF Stays
<1>15. CASE Work
  <2>1. queue # <<>> /\ queue' = Tail(queue) /\ UNCHANGED journal
        /\ (UNCHANGED <<phase, replayed>> \/ queue[1].kind = "note")
    BY <1>15 DEF Work, world, startup
  <2>2. /\ Tail(queue) \in Seq(Task) /\ Len(Tail(queue)) = Len(queue) - 1
        /\ \A i \in 1 .. Len(Tail(queue)) : Tail(queue)[i] = queue[i + 1]
    BY <1>1, <2>1, HeadTailProperties
  <2>3. \A i \in 1 .. Len(Tail(queue)) : i + 1 \in 1 .. Len(queue)
    BY <1>1, <2>2
  <2>4. From(Tail(queue), 1)
    BY <2>2, <2>3 DEF From, Places, Alike
  <2> QED
    BY <2>1, <2>4, <1>7 DEF Stays
<1>16. ASSUME NEW s \in Source, Event(s) PROVE Stays \/ Takes(s)
  <2>1. PICK kind \in Kind : journal' = [journal EXCEPT ![s] = Append(@, kind)]
    BY <1>16 DEF Event
  <2>2. Up /\ Len(journal[s]) < MaxSeq /\ UNCHANGED <<phase, replayed>>
    BY <1>16 DEF Event, startup
  <2>3. CASE queue' = queue
    <3>1. journal \in [Source -> Seq(Kind)] /\ journal[s] \in Seq(Kind)
      BY LogsAre DEF Base
    <3>2. Len(Append(journal[s], kind)) = Len(journal[s]) + 1
      BY <3>1, AppendProperties
    <3> DEFINE a == Append(journal[s], kind)
    <3>3. Len(a) >= Len(journal[s])
      BY <3>2, <1>5
    <3> HIDE DEF a
    <3>4. journal' = [journal EXCEPT ![s] = a]
      BY <2>1 DEF a
    <3>5. \A t \in Source : Len(journal[t]) <= Len(journal'[t])
      BY <3>1, <3>3, <3>4, <1>5
    <3> QED
      BY <2>2, <2>3, <3>5, <1>2 DEF Stays
  <2>4. CASE \E joined, full \in BOOLEAN :
               /\ joined => Joins(s, Len(journal[s]) + 1)
               /\ queue' = Ingested(s, Len(journal[s]) + 1, joined, full)
    <3>1. Len(journal[s]) + 1 \in 1 .. MaxSeq
      <4>1. Len(journal[s]) \in Nat /\ MaxSeq \in Nat
        BY <1>5, UpdatesAssumption
      <4> DEFINE n == Len(journal[s])
      <4> HIDE DEF n
      <4>2. n + 1 \in 1 .. MaxSeq
        BY <2>2, <4>1 DEF n
      <4> QED
        BY <4>2 DEF n
    <3> QED
      BY <2>1, <2>2, <2>4, <3>1 DEF Takes
  <2> QED
    BY <1>16, <2>3, <2>4 DEF Event
<1>17. ASSUME NEW s \in Source, PowerLost(s) PROVE queue' = <<>>
  BY <1>17 DEF PowerLost, Base, Tasks, Up
<1> QED
  BY <1>8, <1>9, <1>10, <1>11, <1>12, <1>13, <1>14, <1>15, <1>16, <1>17
  DEF Next, vars, world, startup, Seal, Start, Closed, Crash, StartFails, SetAside,
      Bootstrap, More, Poll, Page, EndsUnrecorded, Down

\* A batch keeps its bound, and its events are in the log.
Fits(task, logs) ==
  task.kind = "batch" => Size(task) <= MaxBatch /\ task.first <= task.last /\ task.last <= Len(logs[task.source])

\* A task that stays fits logs that grow.
LEMMA AlikeFits ==
  ASSUME NEW a, NEW b \in Task, Alike(a, b), NEW l, NEW m, Fits(b, l),
         \A s \in Source : Len(l[s]) \in Nat /\ Len(m[s]) \in Nat /\ Len(l[s]) <= Len(m[s])
  PROVE  Fits(a, m)
<1>1. CASE b.kind # "batch"
  BY <1>1 DEF Alike, Fits
<1>2. CASE b.kind = "batch"
  <2>1. b.source \in Source /\ b.first \in 1 .. MaxSeq /\ b.last \in 1 .. MaxSeq
    BY <1>2 DEF Task
  <2>2. a.source = b.source /\ a.first = b.first /\ a.last = b.last
    BY <1>2 DEF Alike
  <2>3. Size(a) <= MaxBatch /\ a.first <= a.last /\ b.last <= Len(l[b.source])
    BY <1>2, <2>2 DEF Fits, Size
  <2> DEFINE x == Len(l[b.source])
             y == Len(m[b.source])
  <2>4. x \in Nat /\ y \in Nat /\ x <= y /\ b.last <= x /\ b.last \in Nat
    BY <2>1, <2>3
  <2> HIDE DEF x, y
  <2>5. b.last <= y
    BY <2>4
  <2>6. a.last <= Len(m[a.source])
    BY <2>2, <2>5 DEF y
  <2> QED
    BY <2>3, <2>6 DEF Fits
<1> QED
  BY <1>1, <1>2

\* An appended event lengthens one log by one.
LEMMA Lengthens ==
  ASSUME TypeOK, NEW s \in Source, NEW kind \in Kind, journal' = [journal EXCEPT ![s] = Append(@, kind)]
  PROVE  /\ journal'[s] = Append(journal[s], kind)
         /\ Len(journal'[s]) = Len(journal[s]) + 1
         /\ \A i \in 1 .. Len(journal[s]) : journal'[s][i] = journal[s][i]
         /\ \A t \in Source : t # s => journal'[t] = journal[t]
         /\ \A t \in Source : Len(journal[t]) \in Nat /\ Len(journal'[t]) \in Nat /\ Len(journal[t]) <= Len(journal'[t])
<1>1. journal \in [Source -> Seq(Kind)] /\ journal[s] \in Seq(Kind) /\ \A t \in Source : Len(journal[t]) \in Nat
  BY LogsAre, UpdatesAssumption
<1> DEFINE a == Append(journal[s], kind)
<1>2. Len(a) = Len(journal[s]) + 1 /\ \A i \in 1 .. Len(journal[s]) : a[i] = journal[s][i]
  BY <1>1, AppendProperties
<1>3. journal' = [journal EXCEPT ![s] = a]
  OBVIOUS
<1> HIDE DEF a
<1>4. journal'[s] = a /\ \A t \in Source : t # s => journal'[t] = journal[t]
  BY <1>1, <1>3
<1>5. \A t \in Source : Len(journal'[t]) \in Nat /\ Len(journal[t]) <= Len(journal'[t])
  BY <1>1, <1>2, <1>4
<1> QED
  BY <1>1, <1>2, <1>4, <1>5 DEF a

\* The queue keeps its type, and its batches fit.
LEMMA QueueStays ==
  ASSUME Base, [Next]_vars
  PROVE  queue' \in Seq(Task) /\ \A i \in 1 .. Len(queue') : Fits(queue'[i], journal')
<1>1. queue \in Seq(Task) /\ Len(queue) \in Nat /\ \A i \in 1 .. Len(queue) : queue[i] \in Task
  BY LenProperties, ElementOfSeq DEF Base, TypeOK
<1>2. \A i \in 1 .. Len(queue) : Fits(queue[i], journal)
  BY DEF Base, TypeOK, Tasks, Places, Logged, Fits
<1>3. \A s \in Source : Len(journal[s]) \in Nat /\ Len(journal'[s]) \in Nat
  <2>1. journal' \in [Source -> Seq(Kind)]
    BY LogsStay DEF Base
  <2> QED
    BY <2>1, LogsAre, LenProperties, UpdatesAssumption DEF Base
<1>4. CASE Stays
  <2>1. queue' \in Seq(Task)
    BY <1>4 DEF Stays, From
  <2>2. CASE queue' = <<>>
    BY <2>1, <2>2, EmptySeq
  <2>3. CASE \A s \in Source : Len(journal[s]) <= Len(journal'[s])
    <3> SUFFICES ASSUME NEW i \in 1 .. Len(queue') PROVE Fits(queue'[i], journal')
      BY <2>1
    <3>1. PICK j \in Places : Alike(queue'[i], queue[j])
      BY <1>4 DEF Stays, From
    <3>2. queue[j] \in Task /\ Fits(queue[j], journal)
      BY <1>1, <1>2 DEF Places
    <3> QED
      BY <3>1, <3>2, <2>3, <1>3, AlikeFits
  <2> QED
    BY <1>4, <2>2, <2>3 DEF Stays
<1>5. ASSUME NEW task \in Task, task.kind = "batch" => Fits(task, journal'), queue' = Queued(task),
             \A s \in Source : Len(journal[s]) <= Len(journal'[s])
      PROVE  queue' \in Seq(Task) /\ \A i \in 1 .. Len(queue') : Fits(queue'[i], journal')
  <2>1. /\ queue' \in Seq(Task) /\ Len(queue') = Len(queue) + 1 /\ queue'[Len(queue) + 1] = task
        /\ \A i \in 1 .. Len(queue) : Alike(queue'[i], queue[i])
    BY <1>1, <1>5, QueuedIs
  <2> SUFFICES ASSUME NEW i \in 1 .. Len(queue') PROVE Fits(queue'[i], journal')
    BY <2>1
  <2>2. i = Len(queue) + 1 \/ i \in 1 .. Len(queue)
    BY <1>1, <2>1
  <2>3. CASE i = Len(queue) + 1
    BY <2>1, <2>3, <1>5 DEF Fits
  <2>4. CASE i \in 1 .. Len(queue)
    <3>1. Alike(queue'[i], queue[i]) /\ queue[i] \in Task /\ Fits(queue[i], journal)
      BY <2>1, <2>4, <1>1, <1>2
    <3> QED
      BY <3>1, <1>3, <1>5, AlikeFits
  <2> QED
    BY <2>2, <2>3, <2>4
<1>6. ASSUME NEW task \in Task, Adds(task)
      PROVE  queue' \in Seq(Task) /\ \A i \in 1 .. Len(queue') : Fits(queue'[i], journal')
  <2>1. task.kind # "batch" /\ queue' = Queued(task) /\ \A s \in Source : Len(journal[s]) <= Len(journal'[s])
    BY <1>3, <1>6 DEF Adds
  <2> QED
    BY <2>1, <1>5
<1>7. ASSUME NEW s \in Source, Takes(s)
      PROVE  queue' \in Seq(Task) /\ \A i \in 1 .. Len(queue') : Fits(queue'[i], journal')
  <2> DEFINE n == Len(journal[s]) + 1
             m == Len(queue)
  <2>1. /\ n \in 1 .. MaxSeq /\ Len(journal'[s]) = n
        /\ \A t \in Source : Len(journal[t]) <= Len(journal'[t])
    BY <1>7, Lengthens DEF Takes, Base
  <2>2. PICK joined, full \in BOOLEAN : (joined => Joins(s, n)) /\ queue' = Ingested(s, n, joined, full)
    BY <1>7 DEF Takes
  <2>3. /\ queue' \in Seq(Task)
        /\ \/ /\ m > 0 /\ Len(queue') = m
              /\ \A i \in 1 .. m : i < m => queue'[i] = queue[i]
              /\ queue'[m].kind = "batch" /\ queue[m].kind = "batch"
              /\ queue'[m].source = s /\ queue[m].source = s
              /\ queue'[m].first = queue[m].first /\ queue[m].last + 1 = n /\ queue'[m].last = n
              /\ Size(queue[m]) < MaxBatch
           \/ queue' = Queued(Batch(s, n, full \/ MaxBatch = 1))
    BY <1>1, <2>1, <2>2, IngestedIs
  <2>4. MaxBatch \in Nat \ {0} /\ MaxSeq \in Nat
    BY UpdatesAssumption
  <2>5. CASE queue' = Queued(Batch(s, n, full \/ MaxBatch = 1))
    <3> DEFINE task == Batch(s, n, full \/ MaxBatch = 1)
    <3>1. task \in Task /\ task.kind = "batch" /\ task.source = s /\ task.first = n /\ task.last = n
      BY <2>1 DEF Batch, Task
    <3> HIDE DEF task
    <3>2. n - n + 1 <= MaxBatch /\ n <= n
      <4> HIDE DEF n
      <4> QED
        BY <2>1, <2>4
    <3>3. Fits(task, journal')
      BY <2>1, <3>1, <3>2 DEF Fits, Size
    <3>4. queue' = Queued(task)
      BY <2>5 DEF task
    <3> QED
      BY <1>5, <2>1, <3>1, <3>3, <3>4
  <2>6. CASE /\ m > 0 /\ Len(queue') = m
             /\ \A i \in 1 .. m : i < m => queue'[i] = queue[i]
             /\ queue'[m].kind = "batch" /\ queue[m].kind = "batch"
             /\ queue'[m].source = s /\ queue[m].source = s
             /\ queue'[m].first = queue[m].first /\ queue[m].last + 1 = n /\ queue'[m].last = n
             /\ Size(queue[m]) < MaxBatch
    <3>1. m \in 1 .. m /\ queue[m] \in Task /\ Fits(queue[m], journal)
      BY <1>1, <1>2, <2>6
    <3>2. queue[m].first \in 1 .. MaxSeq /\ queue[m].last \in 1 .. MaxSeq /\ queue[m].first <= queue[m].last
      BY <3>1, <2>6 DEF Task, Fits
    <3>3. Fits(queue'[m], journal')
      <4> DEFINE a == queue[m].first
                 b == queue[m].last
      <4>1. a \in Nat /\ b \in Nat /\ a <= b /\ b + 1 = n /\ b - a + 1 < MaxBatch
        BY <2>4, <2>6, <3>2 DEF Size
      <4> HIDE DEF a, b, n
      <4>2. n - a + 1 <= MaxBatch /\ a <= n /\ n <= n
        BY <4>1, <2>4
      <4> QED
        BY <4>2, <2>1, <2>6 DEF Fits, Size, a
    <3>4. ASSUME NEW i \in 1 .. m, i < m PROVE Fits(queue'[i], journal')
      <4>1. queue'[i] = queue[i] /\ queue[i] \in Task /\ Fits(queue[i], journal) /\ Alike(queue[i], queue[i])
        BY <1>1, <1>2, <2>6, <3>4 DEF Alike
      <4> QED
        BY <4>1, <1>3, <2>1, AlikeFits
    <3>5. \A i \in 1 .. m : i = m \/ i < m
      BY <1>1
    <3> QED
      BY <2>3, <2>6, <3>3, <3>4, <3>5
  <2> QED
    BY <2>3, <2>5, <2>6
<1> QED
  BY <1>4, <1>6, <1>7, QueueMoves

\* A note is alone, and only asked for once all is recovered.
LEMMA NotesStay ==
  ASSUME Base, [Next]_vars
  PROVE  \A i \in 1 .. Len(queue') : queue'[i].kind = "note" =>
           /\ phase' = "loading" /\ replayed' = Source
           /\ \A j \in 1 .. Len(queue') : queue'[j].kind = "note" => j = i
<1>1. queue \in Seq(Task) /\ Len(queue) \in Nat /\ (queue # <<>> => 1 \in 1 .. Len(queue))
  BY LenProperties, EmptySeq DEF Base, TypeOK
<1>2. \A i \in Places : queue[i].kind = "note" =>
        /\ phase = "loading" /\ replayed = Source
        /\ \A j \in Places : queue[j].kind = "note" => j = i
  BY DEF Base, Tasks
<1>3. CASE Stays
  <2>1. PICK d \in {0, 1} : From(queue', d) /\ (queue # <<>> \/ d = 0)
    BY <1>3 DEF Stays
  <2>2. \A i \in 1 .. Len(queue') : i + d \in Places /\ queue'[i].kind = queue[i + d].kind
    BY <2>1 DEF From, Alike
  <2>3. ASSUME NEW i \in 1 .. Len(queue'), queue'[i].kind = "note"
        PROVE  phase' = "loading" /\ replayed' = Source
    <3>1. i + d \in Places /\ queue[i + d].kind = "note"
      BY <2>2, <2>3
    <3>2. phase = "loading" /\ replayed = Source /\ ~NoNote
      BY <1>2, <3>1 DEF NoNote
    <3>3. queue' # <<>>
      BY <2>3
    <3>4. ASSUME queue # <<>>, queue[1].kind = "note", From(queue', 1) PROVE FALSE
      <4>1. i + 1 \in Places /\ queue[i + 1].kind = "note"
        BY <2>3, <3>4 DEF From, Alike
      <4>2. i + 1 = 1
        BY <1>1, <1>2, <3>4, <4>1 DEF Places
      <4> QED
        BY <4>2
    <3> QED
      BY <1>3, <3>2, <3>3, <3>4 DEF Stays
  <2>4. ASSUME NEW i \in 1 .. Len(queue'), queue'[i].kind = "note", NEW j \in 1 .. Len(queue'), queue'[j].kind = "note"
        PROVE  j = i
    <3>1. i + d \in Places /\ queue[i + d].kind = "note" /\ j + d \in Places /\ queue[j + d].kind = "note"
      BY <2>2, <2>4
    <3>2. j + d = i + d
      BY <1>2, <3>1
    <3> QED
      BY <3>2
  <2> QED
    BY <2>3, <2>4
<1>4. ASSUME NEW task \in Task, Adds(task)
      PROVE  \A i \in 1 .. Len(queue') : queue'[i].kind = "note" =>
               /\ phase' = "loading" /\ replayed' = Source
               /\ \A j \in 1 .. Len(queue') : queue'[j].kind = "note" => j = i
  <2>1. /\ Len(queue') = Len(queue) + 1 /\ queue'[Len(queue) + 1] = task
        /\ \A i \in 1 .. Len(queue) : queue'[i].kind = queue[i].kind
    BY <1>1, <1>4, QueuedIs DEF Adds, Alike
  <2>2. \A i \in 1 .. Len(queue') : i = Len(queue) + 1 \/ i \in Places
    BY <1>1, <2>1 DEF Places
  <2>3. CASE task.kind = "note"
    <3>1. NoNote /\ phase' = "loading" /\ replayed' = Source
      BY <1>4, <2>3 DEF Adds
    <3>2. \A i \in 1 .. Len(queue') : queue'[i].kind = "note" => i = Len(queue) + 1
      BY <2>1, <2>2, <3>1 DEF NoNote, Places
    <3> QED
      BY <3>1, <3>2
  <2>4. CASE task.kind # "note"
    <3>1. \A i \in 1 .. Len(queue') : queue'[i].kind = "note" => i \in Places /\ queue[i].kind = "note"
      BY <2>1, <2>2, <2>4 DEF Places
    <3>2. ~NoNote => UNCHANGED <<phase, replayed>>
      BY <1>4 DEF Adds
    <3>3. \A i \in 1 .. Len(queue') : queue'[i].kind = "note" => ~NoNote
      BY <3>1 DEF NoNote
    <3> QED
      BY <1>2, <3>1, <3>2, <3>3
  <2> QED
    BY <2>3, <2>4
<1>5. ASSUME NEW s \in Source, Takes(s)
      PROVE  \A i \in 1 .. Len(queue') : queue'[i].kind = "note" => i \in Places /\ queue[i].kind = "note"
  <2> DEFINE n == Len(journal[s]) + 1
             m == Len(queue)
  <2>1. n \in 1 .. MaxSeq
    BY <1>5 DEF Takes
  <2>2. PICK joined, full \in BOOLEAN : (joined => Joins(s, n)) /\ queue' = Ingested(s, n, joined, full)
    BY <1>5 DEF Takes
  <2>3. \/ /\ m > 0 /\ Len(queue') = m
           /\ \A i \in 1 .. m : i < m => queue'[i] = queue[i]
           /\ queue'[m].kind = "batch"
        \/ queue' = Queued(Batch(s, n, full \/ MaxBatch = 1))
    BY <1>1, <2>1, <2>2, IngestedIs
  <2>4. CASE queue' = Queued(Batch(s, n, full \/ MaxBatch = 1))
    <3> DEFINE task == Batch(s, n, full \/ MaxBatch = 1)
    <3>1. task \in Task /\ task.kind = "batch"
      BY <2>1 DEF Batch, Task
    <3> HIDE DEF task
    <3>2. queue' = Queued(task)
      BY <2>4 DEF task
    <3>3. /\ Len(queue') = m + 1 /\ queue'[m + 1] = task
          /\ \A i \in 1 .. m : queue'[i].kind = queue[i].kind
      BY <1>1, <3>1, <3>2, QueuedIs DEF Alike
    <3>4. \A i \in 1 .. Len(queue') : i = m + 1 \/ i \in 1 .. m
      BY <1>1, <3>3
    <3> QED
      BY <3>1, <3>3, <3>4 DEF Places
  <2>5. CASE /\ m > 0 /\ Len(queue') = m
             /\ \A i \in 1 .. m : i < m => queue'[i] = queue[i]
             /\ queue'[m].kind = "batch"
    <3>1. \A i \in 1 .. m : i = m \/ i < m
      BY <1>1
    <3> QED
      BY <2>5, <3>1 DEF Places
  <2> QED
    BY <2>3, <2>4, <2>5
<1>6. ASSUME NEW s \in Source, Takes(s)
      PROVE  \A i \in 1 .. Len(queue') : queue'[i].kind = "note" =>
               /\ phase' = "loading" /\ replayed' = Source
               /\ \A j \in 1 .. Len(queue') : queue'[j].kind = "note" => j = i
  BY <1>2, <1>5, <1>6 DEF Takes
<1> QED
  BY <1>3, <1>4, <1>6, QueueMoves

\* Nothing is queued while the process is down.
LEMMA IdleStays ==
  ASSUME Base, [Next]_vars PROVE ~Up' => queue' = <<>>
<1>1. ~Up => queue = <<>>
  BY DEF Base, Tasks
<1>2. CASE UNCHANGED <<phase, queue>>
  BY <1>1, <1>2 DEF Up
<1>3. CASE queue' = <<>>
  BY <1>3
<1>4. CASE Up'
  BY <1>4
<1>5. CASE Work
  <2>1. queue # <<>> /\ (UNCHANGED phase \/ phase' = "serving")
    BY <1>5 DEF Work
  <2> QED
    BY <2>1, <1>1 DEF Up
<1>6. CASE Seal
  BY <1>1, <1>6 DEF Seal, Collecting, Up
<1>7. ASSUME NEW s \in Source, Recover(s) PROVE Up'
  BY <1>7 DEF Recover, Up
<1>8. CASE Recovered
  BY <1>8 DEF Recovered, Up
<1> QED
  BY <1>2, <1>3, <1>4, <1>5, <1>6, <1>7, <1>8
  DEF Next, vars, Correlate, Start, Close, Closed, Crash, StartFails, SetAside,
      Bootstrap, More, Poll, Page, Event, EndsUnrecorded, PowerLost, Down, Up

\* Types, the published record and the tasks of the queue are an inductive invariant.
LEMMA BaseStays ==
  ASSUME Base, [Next]_vars PROVE Base'
<1>1. Plain'
  BY PlainStays DEF Base
<1>2. boots' \in 0 .. MaxBoots
  BY <1>1 DEF Plain
<1>3. TypeOfRecord(disk') /\ TypeOfRecord(record') /\ Cardinality(Retained(disk')) <= MaxRows
  BY <1>2, RecordsStay, TypeIsType
<1>4. queue' \in Seq(Task) /\ \A i \in 1 .. Len(queue') : Fits(queue'[i], journal')
  BY QueueStays
<1>5. Published'
  BY StoreMoves DEF Follows, Published
<1>6. ~Up' => queue' = <<>>
  BY IdleStays
<1>7. \A i \in 1 .. Len(queue') : queue'[i].kind = "note" =>
        /\ phase' = "loading" /\ replayed' = Source
        /\ \A j \in 1 .. Len(queue') : queue'[j].kind = "note" => j = i
  BY NotesStay
<1>8. Tasks'
  BY <1>4, <1>6, <1>7 DEF Tasks, Places, Logged, Fits
<1>9. TypeOK'
  BY <1>1, <1>3, <1>4 DEF TypeOK, Plain, Fits
<1> QED
  BY <1>5, <1>8, <1>9 DEF Base

\* The system starts with nothing.
LEMMA BaseInit == Init => Base
<1> SUFFICES ASSUME Init PROVE Base
  OBVIOUS
<1>1. 0 \in 0 .. MaxBoots /\ 0 \in 0 .. MaxLosses /\ 0 \in 0 .. MaxSeq /\ MaxRows \in Nat
  BY UpdatesAssumption
<1>2. RecordType(Absent) /\ Cardinality(Retained(Absent)) <= MaxRows
  <2>1. RecordType(Absent) /\ Absent.floor = 0 /\ Len(Absent.log) = 0
    BY <1>1, EmptyIs DEF Absent
  <2>2. Retained(Absent) = {}
    BY <2>1 DEF Retained, HeadOf
  <2> QED
    BY <1>1, <2>1, <2>2, FS_EmptySet
<1>3. TypeOfRecord(disk) /\ TypeOfRecord(record) /\ Cardinality(Retained(disk)) <= MaxRows
  BY <1>2, TypeIsType DEF Init
<1>4. <<>> \in Seq(Task) /\ <<>> \in Seq(Kind) /\ Len(<<>>) = 0
  BY EmptySeq
<1>5. NoNotes \in [Source -> 0 .. MaxSeq]
  BY <1>1 DEF NoNotes
<1>6. journal \in [Source -> Seq(Kind)] /\ \A s \in Source : Len(journal[s]) <= MaxSeq
  BY <1>1, <1>4 DEF Init
<1>7. queue \in Seq(Task) /\ 1 .. Len(queue) = {}
  BY <1>4 DEF Init
<1>8. TypeOK
  BY <1>1, <1>3, <1>5, <1>6, <1>7 DEF TypeOK, Init
<1>9. Published /\ Tasks
  BY <1>7 DEF Init, Published, Ready, Tasks, Places, Up
<1> QED
  BY <1>8, <1>9 DEF Base

\* The base invariant holds always.
LEMMA BaseHolds == Spec => []Base
BY BaseInit, BaseStays, PTL DEF Spec

\* The variables always have their types, batches and the retained rows their bounds.
THEOREM TypeCorrect == Spec => []TypeOK
<1>1. Base => TypeOK
  BY DEF Base
<1> QED
  BY <1>1, BaseHolds, PTL

----------------------------------------------------------------------------
(* The bound and the timer of the queue. *)

\* A step leaves every batch sealed but the last task.
LEMMA LastCollects ==
  ASSUME Base, OnlyLastCollects, [Next]_vars PROVE OnlyLastCollects'
<1>1. queue \in Seq(Task) /\ Len(queue) \in Nat
  BY LenProperties DEF Base, TypeOK
<1>2. \A i \in 1 .. Len(queue) - 1 : queue[i].kind = "batch" => queue[i].ready
  BY DEF OnlyLastCollects
<1>3. CASE Stays
  <2>1. CASE queue' = queue
    BY <1>2, <2>1 DEF OnlyLastCollects
  <2>2. CASE queue' = <<>>
    <3>1. Len(queue') - 1 = 0 - 1
      BY <2>2, EmptySeq
    <3> QED
      BY <3>1 DEF OnlyLastCollects
  <2>3. CASE queue' = Sealed
    <3>1. Len(queue') = Len(queue) /\ \A i \in 1 .. Len(queue) : i < Len(queue) => queue'[i] = queue[i]
      BY <1>1, <2>3, SealedIs
    <3>2. \A i \in 1 .. Len(queue) - 1 : i \in 1 .. Len(queue) /\ i < Len(queue)
      BY <1>1
    <3> QED
      BY <1>2, <3>1, <3>2 DEF OnlyLastCollects
  <2>4. CASE queue # <<>> /\ queue' = Tail(queue)
    <3>1. /\ Len(queue') = Len(queue) - 1
          /\ \A i \in 1 .. Len(queue') : queue'[i] = queue[i + 1]
      BY <1>1, <2>4, HeadTailProperties
    <3>2. \A i \in 1 .. Len(queue') - 1 : i \in 1 .. Len(queue') /\ i + 1 \in 1 .. Len(queue) - 1
      BY <1>1, <3>1
    <3> QED
      BY <1>2, <3>1, <3>2 DEF OnlyLastCollects
  <2> QED
    BY <1>3, <2>1, <2>2, <2>3, <2>4 DEF Stays
<1>4. ASSUME NEW task \in Task, queue' = Queued(task) PROVE OnlyLastCollects'
  <2>1. /\ Len(queue') = Len(queue) + 1
        /\ \A i \in 1 .. Len(queue) : i < Len(queue) => queue'[i] = queue[i]
        /\ queue # <<>> /\ queue'[Len(queue)].kind = "batch" => queue'[Len(queue)].ready
    BY <1>1, <1>4, QueuedIs
  <2> SUFFICES ASSUME NEW i \in 1 .. Len(queue') - 1, queue'[i].kind = "batch" PROVE queue'[i].ready
    BY DEF OnlyLastCollects
  <2>2. i \in 1 .. Len(queue) /\ (i = Len(queue) \/ (i < Len(queue) /\ i \in 1 .. Len(queue) - 1))
    BY <1>1, <2>1
  <2>3. CASE i = Len(queue)
    <3>1. queue # <<>>
      BY <1>1, <2>2, EmptySeq
    <3> QED
      BY <2>1, <2>3, <3>1
  <2>4. CASE i < Len(queue) /\ i \in 1 .. Len(queue) - 1
    BY <1>2, <2>1, <2>2, <2>4
  <2> QED
    BY <2>2, <2>3, <2>4
<1>5. ASSUME NEW s \in Source, Takes(s) PROVE OnlyLastCollects'
  <2> DEFINE n == Len(journal[s]) + 1
             m == Len(queue)
  <2>1. n \in 1 .. MaxSeq
    BY <1>5 DEF Takes
  <2>2. PICK joined, full \in BOOLEAN : (joined => Joins(s, n)) /\ queue' = Ingested(s, n, joined, full)
    BY <1>5 DEF Takes
  <2>3. \/ Len(queue') = m /\ \A i \in 1 .. m : i < m => queue'[i] = queue[i]
        \/ queue' = Queued(Batch(s, n, full \/ MaxBatch = 1))
    BY <1>1, <2>1, <2>2, IngestedIs
  <2>4. CASE queue' = Queued(Batch(s, n, full \/ MaxBatch = 1))
    <3>1. Batch(s, n, full \/ MaxBatch = 1) \in Task
      BY <2>1 DEF Batch, Task
    <3> QED
      BY <1>4, <2>4, <3>1
  <2>5. CASE Len(queue') = m /\ \A i \in 1 .. m : i < m => queue'[i] = queue[i]
    <3>1. \A i \in 1 .. m - 1 : i \in 1 .. m /\ i < m
      BY <1>1
    <3> QED
      BY <1>2, <2>5, <3>1 DEF OnlyLastCollects
  <2> QED
    BY <2>3, <2>4, <2>5
<1>6. ASSUME NEW task \in Task, Adds(task) PROVE OnlyLastCollects'
  BY <1>4, <1>6 DEF Adds
<1> QED
  BY <1>3, <1>5, <1>6, QueueMoves

\* No batch waits for a timer that no longer seals it.
THEOREM NoBatchIsStuck == Spec => []OnlyLastCollects
<1>1. Init => OnlyLastCollects
  <2>1. Len(<<>>) - 1 = 0 - 1
    BY EmptySeq
  <2> QED
    BY <2>1 DEF Init, OnlyLastCollects
<1> QED
  BY <1>1, BaseHolds, LastCollects, PTL DEF Spec

----------------------------------------------------------------------------
(* What lags is told. *)

\* A run with a checkpoint, or one whose replay is still to be asked for, has events.
Begun ==
  \A s \in Source :
    /\ disk.through[s] > 0 => Len(journal[s]) > 0
    /\ phase = "loading" /\ s \notin replayed => Len(journal[s]) > 0

\* A source that is degraded, or is to be replayed.
Pending(s) ==
  \/ s \in problems
  \/ phase = "loading" /\ s \notin replayed
  \/ \E i \in Places : queue[i] = Replay(s)

\* A batch up to the end of the log.
Covers(task, s) == task.kind = "batch" /\ task.source = s /\ task.last = Len(journal[s])

\* Whatever the feed still lacks of a log is queued or told, and so is a cut below the checkpoint.
Kept(s) == Pending(s) \/ record.through[s] = Len(journal[s]) \/ \E i \in Places : Covers(queue[i], s)
Within(s) == Pending(s) \/ record.through[s] <= Len(journal[s])
Working == phase \in {"loading", "serving"} /\ Ready
LagInv == Working => \A s \in Source : Kept(s) /\ Within(s)

\* What a task of the worker does to checkpoints.
LEMMA Checkpoints ==
  ASSUME TypeOK, NEW r, RecordType(r), NEW w, Outcome(r, w), NEW t \in Source
  PROVE  /\ w.through[t] \in Nat /\ r.through[t] \in Nat
         /\ w.through[t] = r.through[t] \/ (r.through[t] <= w.through[t] /\ w.through[t] <= Len(journal[t]))
<1>1. r.through \in [Source -> 0 .. MaxSeq] /\ MaxSeq \in Nat /\ notes \in [Source -> 0 .. MaxSeq]
  BY UpdatesAssumption DEF RecordType, TypeOK
<1>2. ASSUME NEW s \in Source, NEW n \in 0 .. MaxSeq, r.through[s] <= n, n <= Len(journal[s]),
             w.through = Advanced(r.through, s, n)
      PROVE  /\ w.through[t] \in Nat /\ r.through[t] \in Nat
             /\ w.through[t] = r.through[t] \/ (r.through[t] <= w.through[t] /\ w.through[t] <= Len(journal[t]))
  BY <1>1, <1>2 DEF Advanced
<1>3. ASSUME NEW s \in Source, NEW n \in 0 .. MaxSeq,
             w \in Pruned(Projected(s, r, n)) \/ w \in Pruned(Terminated(s, Projected(s, r, n)))
      PROVE  w.through = Advanced(r.through, s, n)
  <2> DEFINE p == Projected(s, r, n)
  <2>1. RecordType(p) /\ p.through = Advanced(r.through, s, n)
    BY ProjectedIs
  <2> HIDE DEF p
  <2> DEFINE e == Terminated(s, p)
  <2>2. RecordType(e) /\ e.through = p.through
    BY <2>1, TerminatedIs
  <2> HIDE DEF e
  <2>3. w \in Pruned(p) \/ w \in Pruned(e)
    BY <1>3 DEF p, e
  <2>4. w.through = p.through
    BY <2>1, <2>2, <2>3, PrunedIs
  <2> QED
    BY <2>1, <2>4
<1>4. ASSUME NEW id, w \in Pruned(Correlated(r, id)) PROVE w.through = r.through
  <2> DEFINE c == Correlated(r, id)
  <2>1. RecordType(c) /\ c.through = r.through
    BY CorrelatedIs
  <2> HIDE DEF c
  <2> QED
    BY <2>1, <1>4, PrunedIs DEF c
<1>5. ASSUME w = Noted(r) PROVE w.through = r.through
  BY <1>1, <1>5, NotedIs
<1>6. ASSUME w.through = r.through
      PROVE  /\ w.through[t] \in Nat /\ r.through[t] \in Nat
             /\ w.through[t] = r.through[t] \/ (r.through[t] <= w.through[t] /\ w.through[t] <= Len(journal[t]))
  BY <1>1, <1>6
<1> QED
  BY <1>2, <1>3, <1>4, <1>5, <1>6 DEF Outcome

\* A log that has events keeps some.
LEMMA LogsRemain ==
  ASSUME TypeOK, [Next]_vars, NEW s \in Source, Len(journal[s]) > 0
  PROVE  Len(journal'[s]) > 0
<1>1. CASE UNCHANGED journal
  BY <1>1
<1>2. ASSUME NEW t \in Source, Event(t) PROVE Len(journal'[s]) > 0
  <2>1. PICK kind \in Kind : journal' = [journal EXCEPT ![t] = Append(@, kind)]
    BY <1>2 DEF Event
  <2>2. Len(journal[s]) \in Nat /\ Len(journal'[s]) \in Nat /\ Len(journal[s]) <= Len(journal'[s])
    BY <2>1, Lengthens
  <2> QED
    BY <2>2
<1>3. ASSUME NEW t \in Source, PowerLost(t) PROVE Len(journal'[s]) > 0
  <2>1. PICK n \in 1 .. Len(journal[t]) - 1 : journal' = [journal EXCEPT ![t] = SubSeq(@, 1, n)]
    BY <1>3 DEF PowerLost
  <2> DEFINE a == SubSeq(journal[t], 1, n)
             l == journal[t]
  <2>2. l \in Seq(Kind) /\ Len(l) \in Nat /\ n \in Nat /\ n <= Len(l) /\ n >= 1
        /\ journal \in [Source -> Seq(Kind)]
    BY <2>1, LogsAre, UpdatesAssumption
  <2>3. Len(a) = n
    <3> HIDE DEF l
    <3>1. \A i \in 1 .. n : l[i] \in Kind
      BY <2>2, ElementOfSeq
    <3>2. 1 \in Int /\ n \in Int
      BY <2>2
    <3>3. Len(SubSeq(l, 1, n)) = IF 1 <= n THEN n - 1 + 1 ELSE 0
      BY <3>1, <3>2, <2>2, SubSeqProperties
    <3>4. SubSeq(l, 1, n) = a
      BY DEF l
    <3> QED
      BY <3>3, <3>4, <2>2
  <2> HIDE DEF a
  <2>4. journal' = [journal EXCEPT ![t] = a]
    BY <2>1 DEF a
  <2>5. journal'[s] = journal[s] \/ journal'[s] = a
    BY <2>2, <2>4
  <2> QED
    BY <2>2, <2>3, <2>5
<1> QED
  BY <1>1, <1>2, <1>3
  DEF Next, vars, world, Seal, Correlate, Work, Start, Recovered, Close, Closed, Crash, StartFails, SetAside,
      Bootstrap, More, Poll, Page, Recover, EndsUnrecorded, Down

\* Checkpoints and replays to come are for runs with events.
LEMMA BegunStays ==
  ASSUME Base, Begun, [Next]_vars PROVE Begun'
<1> SUFFICES ASSUME NEW s \in Source
             PROVE  /\ disk'.through[s] > 0 => Len(journal'[s]) > 0
                    /\ phase' = "loading" /\ s \notin replayed' => Len(journal'[s]) > 0
  BY DEF Begun
<1>1. RecordType(disk)
  BY TypeIsType DEF Base, TypeOK
<1>2. Len(journal[s]) \in Nat /\ (Len(journal[s]) > 0 => Len(journal'[s]) > 0)
  BY LogsRemain, LogsAre, UpdatesAssumption DEF Base
<1>3. ASSUME disk'.through[s] > 0 PROVE Len(journal[s]) > 0
  <2>1. ASSUME NEW e, disk' = Empty(e) PROVE FALSE
    <3>1. disk'.through = [t \in Source |-> 0]
      BY <2>1 DEF Empty
    <3> QED
      BY <3>1, <1>3
  <2>2. CASE disk' = disk
    BY <2>2, <1>3 DEF Begun
  <2>3. CASE Outcome(disk, disk')
    <3>1. /\ disk'.through[s] \in Nat /\ disk.through[s] \in Nat
          /\ disk'.through[s] = disk.through[s] \/ disk'.through[s] <= Len(journal[s])
      BY <1>1, <2>3, Checkpoints DEF Base
    <3> QED
      BY <1>2, <1>3, <3>1 DEF Begun
  <2> QED
    BY <2>1, <2>2, <2>3, StoreMoves DEF Moves, Absent
<1>4. ASSUME phase' = "loading", s \notin replayed' PROVE Len(journal[s]) > 0
  <2>1. CASE Start
    <3>1. journal[s] # <<>>
      BY <1>4, <2>1 DEF Start
    <3> QED
      BY <1>2, <3>1, EmptySeq, LogsAre DEF Base
  <2>2. CASE phase = "loading" /\ s \notin replayed
    BY <2>2 DEF Begun
  <2>3. (phase = "loading" /\ (s \in replayed => s \in replayed')) \/ Start
    BY <1>4 DEF Next, vars, startup, Seal, Correlate, Work, Recovered, Close, Closed, Crash, StartFails, SetAside,
       Bootstrap, More, Poll, Page, Event, Recover, EndsUnrecorded, PowerLost, Down
  <2> QED
    BY <1>4, <2>1, <2>2, <2>3
<1> QED
  BY <1>2, <1>3, <1>4

\* A source that a step leaves alone is told or queued as it was.
LEMMA StillKept ==
  ASSUME NEW t \in Source, Kept(t), Within(t),
         journal'[t] = journal[t], record'.through[t] = record.through[t],
         t \in problems => t \in problems',
         phase = "loading" /\ t \notin replayed => phase' = "loading" /\ t \notin replayed',
         \A i \in Places : queue[i] = Replay(t) \/ Covers(queue[i], t)
           => \E j \in 1 .. Len(queue') : Alike(queue'[j], queue[i])
  PROVE  Kept(t)' /\ Within(t)'
<1>1. ASSUME NEW i \in Places, queue[i] = Replay(t) PROVE \E j \in 1 .. Len(queue') : queue'[j] = Replay(t)
  <2>1. PICK j \in 1 .. Len(queue') : Alike(queue'[j], queue[i])
    BY <1>1
  <2>2. queue[i].kind # "batch"
    BY <1>1 DEF Replay
  <2>3. queue'[j] = queue[i]
    BY <2>1, <2>2 DEF Alike
  <2> QED
    BY <1>1, <2>3
<1>2. ASSUME NEW i \in Places, Covers(queue[i], t)
      PROVE  \E j \in 1 .. Len(queue') : queue'[j].kind = "batch" /\ queue'[j].source = t /\ queue'[j].last = Len(journal'[t])
  <2>1. PICK j \in 1 .. Len(queue') : Alike(queue'[j], queue[i])
    BY <1>2
  <2> QED
    BY <1>2, <2>1 DEF Alike, Covers
<1>3. Pending(t) => Pending(t)'
  BY <1>1 DEF Pending, Places
<1>4. Kept(t)'
  BY <1>2, <1>3 DEF Kept, Covers, Places
<1>5. Within(t)'
  BY <1>3 DEF Within
<1> QED
  BY <1>4, <1>5

\* A checkpoint at the end of the log leaves nothing to tell.
LEMMA AtTheEnd ==
  ASSUME NEW t \in Source, record'.through[t] = Len(journal'[t]), Len(journal'[t]) \in Nat
  PROVE  Kept(t)' /\ Within(t)'
<1>1. Len(journal'[t]) <= Len(journal'[t])
  OBVIOUS
<1> QED
  BY <1>1 DEF Kept, Within

\* A degraded source is told.
LEMMA Degraded ==
  ASSUME NEW t \in Source, t \in problems' PROVE Kept(t)' /\ Within(t)'
BY DEF Kept, Within, Pending

\* What is behind the first task stays in the queue.
LEMMA TailKeeps ==
  ASSUME queue \in Seq(Task), queue # <<>>, queue' = Tail(queue), NEW i \in Places, i # 1
  PROVE  \E j \in 1 .. Len(queue') : Alike(queue'[j], queue[i])
<1>1. Len(queue) \in Nat /\ Len(queue') = Len(queue) - 1 /\ \A j \in 1 .. Len(queue') : queue'[j] = queue[j + 1]
  BY HeadTailProperties, LenProperties
<1> DEFINE j == i - 1
<1>2. j \in 1 .. Len(queue') /\ j + 1 = i
  BY <1>1 DEF Places
<1> HIDE DEF j
<1>3. queue'[j] = queue[i]
  BY <1>1, <1>2
<1> QED
  BY <1>2, <1>3 DEF Alike

\* The worker leaves no source behind in silence.
LEMMA WorkKeeps ==
  ASSUME Base, LagInv, Work, Working', NEW t \in Source
  PROVE  Kept(t)' /\ Within(t)'
<1> DEFINE task == queue[1]
<1>1. queue # <<>> /\ queue' = Tail(queue) /\ UNCHANGED journal /\ UNCHANGED replayed
  BY DEF Work, world, startup
<1>2. queue \in Seq(Task) /\ RecordType(record) /\ RecordType(disk)
  BY TypeIsType DEF Base, TypeOK
<1>3. /\ Len(queue) \in Nat /\ 1 \in Places /\ task \in Task /\ Logged(task)
      /\ task.kind = "batch" => task.source \in Source /\ task.first \in 1 .. MaxSeq /\ task.last \in 1 .. MaxSeq
      /\ task.kind = "replay" => task.source \in Source
  BY <1>1, FirstTask DEF Base, Places
<1>4. \A s \in Source : Len(journal[s]) \in Nat /\ record.through[s] \in Nat
  BY <1>2, LogsAre, UpdatesAssumption DEF Base, RecordType
<1>5. ASSUME task # Replay(t), ~Covers(task, t)
      PROVE  \A i \in Places : queue[i] = Replay(t) \/ Covers(queue[i], t)
               => \E j \in 1 .. Len(queue') : Alike(queue'[j], queue[i])
  BY <1>1, <1>2, <1>5, TailKeeps
<1>6. CASE task.kind = "batch" /\ Batched(task) /\ UNCHANGED phase
  <2> DEFINE s == task.source
  <2>1. Working /\ Kept(t) /\ Within(t) /\ Ready'
    <3>1. Ready
      BY <1>6 DEF Working, Batched, Refuse, Commit, Save, store, Ready
    <3> QED
      BY <1>6, <3>1 DEF Working, LagInv
  <2>2. s \in Source /\ task.last \in Nat /\ task.last <= Len(journal[s]) /\ record = disk
    BY <1>3, <1>6, <2>1, UpdatesAssumption DEF Logged, Base, Published, Working
  <2>3. task # Replay(t)
    BY <1>6 DEF Replay
  <2>4. CASE UNCHANGED <<store, problems>> /\ (s \in problems \/ task.last <= record.through[s])
    <3>1. record' = record /\ problems' = problems
      BY <2>4 DEF store
    <3>2. CASE ~Covers(task, t)
      BY <1>1, <1>5, <1>6, <2>1, <2>3, <3>1, <3>2, StillKept
    <3>3. CASE Covers(task, t)
      <4>1. t = s /\ task.last = Len(journal[t])
        BY <3>3 DEF Covers
      <4>2. CASE s \in problems
        BY <3>1, <4>1, <4>2, Degraded
      <4>3. CASE s \notin problems
        <5>1. Len(journal[t]) <= record.through[t]
          BY <2>4, <4>1, <4>3
        <5>2. CASE record.through[t] <= Len(journal[t])
          <6>1. record.through[t] = Len(journal[t])
            BY <1>4, <5>1, <5>2
          <6>2. record'.through[t] = Len(journal'[t]) /\ Len(journal'[t]) \in Nat
            BY <1>1, <1>4, <3>1, <6>1
          <6> QED
            BY <6>2, AtTheEnd
        <5>3. CASE Pending(t)
          <6>1. (phase = "loading" /\ t \notin replayed) \/ \E i \in Places : queue[i] = Replay(t)
            BY <4>1, <4>3, <5>3 DEF Pending
          <6>2. CASE phase = "loading" /\ t \notin replayed
            <7>1. phase' = "loading" /\ t \notin replayed'
              BY <1>1, <1>6, <6>2
            <7> QED
              BY <7>1 DEF Kept, Within, Pending
          <6>3. CASE \E i \in Places : queue[i] = Replay(t)
            <7>1. PICK i \in Places : queue[i] = Replay(t)
              BY <6>3
            <7>2. i # 1
              BY <2>3, <7>1
            <7>3. PICK j \in 1 .. Len(queue') : Alike(queue'[j], queue[i])
              BY <1>1, <1>2, <7>2, TailKeeps
            <7>4. queue'[j] = Replay(t)
              BY <7>1, <7>3 DEF Alike, Replay
            <7> QED
              BY <7>4 DEF Kept, Within, Pending, Places
          <6> QED
            BY <6>1, <6>2, <6>3
        <5> QED
          BY <2>1, <5>2, <5>3 DEF Within
      <4> QED
        BY <4>2, <4>3
    <3> QED
      BY <3>2, <3>3
  <2>5. CASE Refuse(s)
    <3>1. problems' = problems \cup {s} /\ record' = record
      BY <2>5 DEF Refuse, store
    <3>2. CASE t = s
      BY <3>1, <3>2, Degraded
    <3>3. CASE t # s
      <4>1. ~Covers(task, t)
        BY <3>3 DEF Covers
      <4> QED
        BY <1>1, <1>5, <1>6, <2>1, <2>3, <3>1, <4>1, StillKept
    <3> QED
      BY <3>2, <3>3
  <2>6. CASE Commit(Projected(s, record, task.last)) /\ UNCHANGED problems /\ task.last > record.through[s]
    <3> DEFINE p == Projected(s, record, task.last)
    <3>1. RecordType(p) /\ p.through = Advanced(record.through, s, task.last)
      <4>1. task.last \in 0 .. MaxSeq
        BY <1>3, <1>6
      <4> QED
        BY <1>2, <2>2, <4>1, ProjectedIs
    <3>2. record' = p \/ record' \in Pruned(p)
      BY <2>1, <2>6, CommitIs DEF Base, Working
    <3> HIDE DEF p
    <3>3. record'.through = Advanced(record.through, s, task.last)
      BY <3>1, <3>2, PrunedIs
    <3>4. record.through \in [Source -> 0 .. MaxSeq]
      BY <1>2 DEF RecordType
    <3>5. record'.through[s] = task.last /\ \A u \in Source : u # s => record'.through[u] = record.through[u]
      BY <2>2, <3>3, <3>4 DEF Advanced
    <3>6. CASE t # s
      <4>1. ~Covers(task, t)
        BY <3>6 DEF Covers
      <4> QED
        BY <1>1, <1>5, <1>6, <2>1, <2>3, <2>6, <3>5, <3>6, <4>1, StillKept
    <3>7. CASE t = s /\ task.last = Len(journal[s])
      <4>1. record'.through[t] = Len(journal'[t]) /\ Len(journal'[t]) \in Nat
        BY <1>1, <1>4, <3>5, <3>7
      <4> QED
        BY <4>1, AtTheEnd
    <3>8. CASE t = s /\ task.last # Len(journal[s])
      <4>1. ~Covers(task, t)
        BY <3>8 DEF Covers
      <4>2. record'.through[t] <= Len(journal'[t])
        BY <1>1, <2>2, <3>5, <3>8
      <4>3. record.through[t] # Len(journal[t])
        BY <1>4, <2>2, <2>6, <3>8
      <4>4. Pending(t) \/ \E i \in Places : Covers(queue[i], t)
        BY <2>1, <4>3 DEF Kept
      <4>5. ASSUME NEW i \in Places, Covers(queue[i], t) PROVE Kept(t)'
        <5>1. PICK j \in 1 .. Len(queue') : Alike(queue'[j], queue[i])
          BY <1>5, <2>3, <4>1, <4>5
        <5>2. queue'[j].kind = "batch" /\ queue'[j].source = t /\ queue'[j].last = Len(journal'[t])
          BY <1>1, <4>5, <5>1 DEF Covers, Alike
        <5> QED
          BY <5>2 DEF Kept, Covers, Places
      <4>6. ASSUME Pending(t) PROVE Pending(t)'
        <5>1. ASSUME NEW i \in Places, queue[i] = Replay(t) PROVE \E j \in 1 .. Len(queue') : queue'[j] = Replay(t)
          <6>1. PICK j \in 1 .. Len(queue') : Alike(queue'[j], queue[i])
            BY <1>5, <2>3, <4>1, <5>1
          <6>2. queue'[j] = Replay(t)
            BY <5>1, <6>1 DEF Alike, Replay
          <6> QED
            BY <6>2
        <5> QED
          BY <1>1, <1>6, <2>6, <4>6, <5>1 DEF Pending, Places
      <4> QED
        BY <4>2, <4>4, <4>5, <4>6 DEF Kept, Within
    <3> QED
      BY <3>6, <3>7, <3>8
  <2> QED
    BY <1>6, <2>1, <2>4, <2>5, <2>6 DEF Batched, Working
<1>7. CASE task.kind = "replay" /\ Replayed(task.source) /\ UNCHANGED phase
  <2> DEFINE s == task.source
             n == Len(journal[s])
  <2>1. Working /\ Kept(t) /\ Within(t) /\ Ready'
    <3>1. Ready
      BY <1>7 DEF Working, Replayed, Refuse, Commit, Save, store, Ready
    <3> QED
      BY <1>7, <3>1 DEF Working, LagInv
  <2>2. s \in Source /\ record = disk /\ ~Covers(task, t) /\ (t # s => task # Replay(t))
    BY <1>3, <1>7, <2>1 DEF Base, Published, Working, Covers, Replay
  <2>3. CASE Refuse(s)
    <3>1. problems' = problems \cup {s} /\ record' = record
      BY <2>3 DEF Refuse, store
    <3>2. CASE t = s
      BY <3>1, <3>2, Degraded
    <3>3. CASE t # s
      BY <1>1, <1>5, <1>7, <2>1, <2>2, <3>1, <3>3, StillKept
    <3> QED
      BY <3>2, <3>3
  <2>4. CASE /\ Commit(Terminated(s, Projected(s, record, n)))
             /\ problems' = IF health' = "ready" THEN problems \ {s} ELSE problems
    <3> DEFINE p == Projected(s, record, n)
               e == Terminated(s, p)
    <3>1. RecordType(p) /\ p.through = Advanced(record.through, s, n)
      <4>1. n \in 0 .. MaxSeq
        BY <2>2, LogsAre DEF Base
      <4> QED
        BY <1>2, <2>2, <4>1, ProjectedIs
    <3>2. record' = e \/ record' \in Pruned(e)
      BY <2>1, <2>4, CommitIs DEF Base, Working
    <3> HIDE DEF p
    <3>3. RecordType(e) /\ e.through = p.through
      BY <2>2, <3>1, TerminatedIs
    <3> HIDE DEF e
    <3>4. record'.through = Advanced(record.through, s, n)
      BY <3>1, <3>2, <3>3, PrunedIs
    <3>5. record.through \in [Source -> 0 .. MaxSeq]
      BY <1>2 DEF RecordType
    <3>6. record'.through[s] = n /\ \A u \in Source : u # s => record'.through[u] = record.through[u]
      <4> HIDE DEF n
      <4> QED
        BY <2>2, <3>4, <3>5 DEF Advanced
    <3>7. CASE t # s
      <4>1. t \in problems => t \in problems'
        BY <2>4, <3>7
      <4> QED
        BY <1>1, <1>5, <1>7, <2>1, <2>2, <3>6, <3>7, <4>1, StillKept
    <3>8. CASE t = s
      <4>1. record'.through[t] = Len(journal'[t]) /\ Len(journal'[t]) \in Nat
        BY <1>1, <1>4, <3>6, <3>8
      <4> QED
        BY <4>1, AtTheEnd
    <3> QED
      BY <3>7, <3>8
  <2> QED
    BY <1>7, <2>1, <2>3, <2>4 DEF Replayed, Working
<1>8. CASE task.kind = "correlate" /\ UNCHANGED <<phase, problems>> /\ Related(task.id)
  <2>1. Working /\ Kept(t) /\ Within(t) /\ Ready'
    <3>1. Ready
      BY <1>8 DEF Working, store, Ready, Related
    <3> QED
      BY <1>8, <3>1 DEF Working, LagInv
  <2>2. task # Replay(t) /\ ~Covers(task, t)
    BY <1>8 DEF Replay, Covers
  <2> DEFINE c == Correlated(record, task.id)
  <2>3. RecordType(c) /\ c.through = record.through
    BY <1>2, CorrelatedIs
  <2>4. record' = record \/ record' = c \/ record' \in Pruned(c)
    BY <1>8, <2>1, CommitIs DEF Base, Working, Related, store
  <2> HIDE DEF c
  <2>5. record'.through = record.through
    BY <2>3, <2>4, PrunedIs
  <2> QED
    BY <1>1, <1>5, <1>8, <2>1, <2>2, <2>5, StillKept
<1>9. CASE task.kind = "note" /\ NoteWritten /\ phase' = "serving" /\ UNCHANGED problems
  <2>1. Ready /\ phase = "loading" /\ replayed = Source
    BY <1>3, <1>9 DEF NoteWritten, Base, Tasks
  <2>2. Kept(t) /\ Within(t)
    BY <2>1 DEF LagInv, Working
  <2>3. task # Replay(t) /\ ~Covers(task, t)
    BY <1>9 DEF Replay, Covers
  <2>4. notes \in [Source -> 0 .. MaxSeq]
    BY DEF Base, TypeOK
  <2>5. record' = record \/ record' = Noted(record)
    BY <1>9 DEF NoteWritten, Save, store
  <2>6. record'.through = record.through
    BY <1>2, <2>4, <2>5, NotedIs
  <2>7. ~(phase = "loading" /\ t \notin replayed)
    BY <2>1
  <2> QED
    BY <1>1, <1>5, <1>9, <2>2, <2>3, <2>6, <2>7, StillKept
<1> QED
  BY <1>6, <1>7, <1>8, <1>9 DEF Work

\* A start asks for the replay of every run that has events.
LEMMA StartKeeps ==
  ASSUME Base, Begun, Start, Ready', NEW t \in Source
  PROVE  Kept(t)' /\ Within(t)'
<1>1. /\ phase' = "loading" /\ UNCHANGED journal /\ replayed' = {s \in Source : journal[s] = <<>>}
      /\ boots' = boots + 1
  BY DEF Start, world
<1>2. record' = disk \/ record' = Empty(boots')
  BY DEF Start, Load, Ready
<1>3. CASE journal[t] # <<>>
  <2>1. phase' = "loading" /\ t \notin replayed'
    BY <1>1, <1>3
  <2> QED
    BY <2>1 DEF Kept, Within, Pending
<1>4. CASE journal[t] = <<>>
  <2>1. Len(journal[t]) = 0
    BY <1>4, EmptySeq
  <2>2. record'.through[t] = 0
    <3>1. CASE record' = disk
      <4>1. RecordType(disk)
        BY TypeIsType DEF Base, TypeOK
      <4>2. disk.through[t] \in Nat /\ ~(disk.through[t] > 0)
        BY <2>1, <4>1, UpdatesAssumption DEF Begun, RecordType
      <4> QED
        BY <3>1, <4>2
    <3>2. CASE record' = Empty(boots')
      <4> DEFINE e == boots'
      <4>1. record'.through = [s \in Source |-> 0]
        BY <3>2 DEF Empty
      <4> QED
        BY <4>1
    <3> QED
      BY <1>2, <3>1, <3>2
  <2>3. record'.through[t] = Len(journal'[t]) /\ Len(journal'[t]) \in Nat
    BY <1>1, <2>1, <2>2
  <2> QED
    BY <2>3, AtTheEnd
<1> QED
  BY <1>3, <1>4

\* An event leaves its batch in the queue.
LEMMA EventKeeps ==
  ASSUME Base, NEW s \in Source, Event(s), Working, NEW t \in Source, Kept(t), Within(t)
  PROVE  Kept(t)' /\ Within(t)'
<1> DEFINE n == Len(journal[s]) + 1
           m == Len(queue)
<1>1. UNCHANGED <<phase, replayed, record, problems>> /\ phase # "closing" /\ Len(journal[s]) < MaxSeq
  BY DEF Event, store, startup, Working
<1>2. PICK kind \in Kind : journal' = [journal EXCEPT ![s] = Append(@, kind)]
  BY DEF Event
<1>3. /\ Len(journal'[s]) = n
      /\ \A u \in Source : u # s => journal'[u] = journal[u]
      /\ \A u \in Source : Len(journal[u]) \in Nat /\ Len(journal'[u]) \in Nat /\ Len(journal[u]) <= Len(journal'[u])
  BY <1>2, Lengthens DEF Base
<1>4. n \in 1 .. MaxSeq
  <2> DEFINE k == Len(journal[s])
  <2>1. k \in Nat /\ k < MaxSeq /\ MaxSeq \in Nat
    BY <1>1, <1>3, UpdatesAssumption
  <2> HIDE DEF k
  <2>2. k + 1 \in 1 .. MaxSeq
    BY <2>1
  <2> QED
    BY <2>2 DEF k
<1>5. PICK joined, full \in BOOLEAN : (joined => Joins(s, n)) /\ queue' = Ingested(s, n, joined, full)
  BY <1>1 DEF Event
<1>6. queue \in Seq(Task) /\ m \in Nat
  BY LenProperties DEF Base, TypeOK
<1>7. \/ /\ m > 0 /\ Len(queue') = m
         /\ \A i \in 1 .. m : i < m => queue'[i] = queue[i]
         /\ queue'[m].kind = "batch" /\ queue[m].kind = "batch"
         /\ queue'[m].source = s /\ queue[m].source = s
         /\ queue'[m].first = queue[m].first /\ queue[m].last + 1 = n /\ queue'[m].last = n
         /\ Size(queue[m]) < MaxBatch
      \/ queue' = Queued(Batch(s, n, full \/ MaxBatch = 1))
  BY <1>4, <1>5, <1>6, IngestedIs
<1>8. /\ \A i \in Places : ~(queue[i].kind = "batch" /\ queue[i].source = s)
           => \E j \in 1 .. Len(queue') : Alike(queue'[j], queue[i])
      /\ \E j \in 1 .. Len(queue') : queue'[j].kind = "batch" /\ queue'[j].source = s /\ queue'[j].last = n
  <2>1. CASE queue' = Queued(Batch(s, n, full \/ MaxBatch = 1))
    <3> DEFINE task == Batch(s, n, full \/ MaxBatch = 1)
    <3>1. task \in Task /\ task.kind = "batch" /\ task.source = s /\ task.last = n
      BY <1>4 DEF Batch, Task
    <3> HIDE DEF task
    <3>2. queue' = Queued(task)
      BY <2>1 DEF task
    <3>3. /\ Len(queue') = m + 1 /\ queue'[m + 1] = task
          /\ \A i \in 1 .. m : Alike(queue'[i], queue[i])
      BY <1>6, <3>1, <3>2, QueuedIs
    <3>4. m + 1 \in 1 .. m + 1 /\ \A i \in 1 .. m : i \in 1 .. m + 1
      BY <1>6
    <3> QED
      BY <3>1, <3>3, <3>4 DEF Places
  <2>2. CASE /\ m > 0 /\ Len(queue') = m
             /\ \A i \in 1 .. m : i < m => queue'[i] = queue[i]
             /\ queue'[m].kind = "batch" /\ queue[m].kind = "batch"
             /\ queue'[m].source = s /\ queue[m].source = s /\ queue'[m].last = n
    <3>1. m \in 1 .. m /\ \A i \in 1 .. m : i = m \/ i < m
      BY <1>6, <2>2
    <3> QED
      BY <2>2, <3>1 DEF Places, Alike
  <2> QED
    BY <1>7, <2>1, <2>2
<1>9. CASE t = s
  <2>1. Kept(t)'
    BY <1>3, <1>8, <1>9 DEF Kept, Covers, Places
  <2>2. record.through[t] \in Nat
    <3>1. RecordType(record)
      BY TypeIsType DEF Base, TypeOK
    <3> QED
      BY <3>1, UpdatesAssumption DEF RecordType
  <2>3. Within(t)'
    <3>1. CASE record.through[t] <= Len(journal[t])
      <4>1. record'.through[t] <= Len(journal'[t])
        BY <1>1, <1>3, <2>2, <3>1
      <4> QED
        BY <4>1 DEF Within
    <3>2. CASE Pending(t)
      <4>1. ASSUME NEW i \in Places, queue[i] = Replay(t) PROVE \E j \in 1 .. Len(queue') : queue'[j] = Replay(t)
        <5>1. queue[i].kind # "batch"
          BY <4>1 DEF Replay
        <5>2. PICK j \in 1 .. Len(queue') : Alike(queue'[j], queue[i])
          BY <1>8, <5>1
        <5>3. queue'[j] = queue[i]
          BY <5>1, <5>2 DEF Alike
        <5> QED
          BY <4>1, <5>3
      <4>2. Pending(t)'
        BY <1>1, <3>2, <4>1 DEF Pending, Places
      <4> QED
        BY <4>2 DEF Within
    <3> QED
      BY <3>1, <3>2 DEF Within
  <2> QED
    BY <2>1, <2>3
<1>10. CASE t # s
  <2>1. \A i \in Places : queue[i] = Replay(t) \/ Covers(queue[i], t) => ~(queue[i].kind = "batch" /\ queue[i].source = s)
    BY <1>10 DEF Covers, Replay
  <2> QED
    BY <1>1, <1>3, <1>8, <1>10, <2>1, StillKept
<1> QED
  BY <1>9, <1>10

\* While the process works, a step that neither starts nor stops it leaves it working.
LEMMA StillWorking ==
  ASSUME Base, [Next]_vars, Working', ~Start PROVE Working
<1>1. Ready' => Ready
  <2>1. CASE Work
    BY <2>1 DEF Work, Batched, Refuse, Replayed, Related, NoteWritten, Commit, Save, store, Ready
  <2>2. CASE health' = health \/ health' = "unavailable"
    BY <2>2 DEF Ready
  <2> QED
    BY <2>1, <2>2 DEF Next, vars, store, Seal, Correlate, Recovered, Close, Closed, Crash, StartFails, SetAside,
       Bootstrap, More, Poll, Page, Event, Recover, EndsUnrecorded, PowerLost, Down
<1>2. CASE Work
  <2>1. UNCHANGED phase \/ queue[1].kind = "note"
    BY <1>2 DEF Work
  <2>2. queue[1].kind = "note" => phase = "loading"
    BY <1>2, FirstTask DEF Work, Base, Tasks, Places
  <2> QED
    BY <1>1, <2>1, <2>2 DEF Working
<1>3. CASE ~Work
  BY <1>1, <1>3 DEF Working, Next, vars, Seal, Correlate, Recovered, Close, Closed, Crash, StartFails, SetAside,
     Bootstrap, More, Poll, Page, Event, Recover, EndsUnrecorded, PowerLost, Down
<1> QED
  BY <1>2, <1>3

\* No step leaves a source behind in silence.
LEMMA LagStays ==
  ASSUME Base, Begun, LagInv, [Next]_vars PROVE LagInv'
<1> SUFFICES ASSUME Working', NEW t \in Source PROVE Kept(t)' /\ Within(t)'
  BY DEF LagInv
<1>1. CASE Start
  BY <1>1, StartKeeps DEF Working
<1>2. CASE Work
  BY <1>2, WorkKeeps
<1>3. CASE ~Start /\ ~Work
  <2>1. Working /\ Kept(t) /\ Within(t) /\ Up /\ (phase = "loading" \/ phase = "serving")
    BY <1>3, StillWorking DEF LagInv, Working, Up
  <2>2. queue \in Seq(Task) /\ Len(queue) \in Nat
    BY LenProperties DEF Base, TypeOK
  <2>3. ASSUME UNCHANGED <<journal, record, problems>>,
               phase = "loading" /\ t \notin replayed => phase' = "loading" /\ t \notin replayed',
               queue' = queue \/ queue' = Sealed \/ \E task \in Task : queue' = Queued(task)
        PROVE  Kept(t)' /\ Within(t)'
    <3>1. \A i \in Places : \E j \in 1 .. Len(queue') : Alike(queue'[j], queue[i])
      <4>1. CASE queue' = queue
        BY <4>1 DEF Places, Alike
      <4>2. CASE queue' = Sealed
        BY <2>2, <4>2, SealedIs DEF Places
      <4>3. ASSUME NEW task \in Task, queue' = Queued(task)
            PROVE  \A i \in Places : \E j \in 1 .. Len(queue') : Alike(queue'[j], queue[i])
        <5>1. Len(queue') = Len(queue) + 1 /\ \A i \in 1 .. Len(queue) : Alike(queue'[i], queue[i])
          BY <2>2, <4>3, QueuedIs
        <5>2. \A i \in 1 .. Len(queue) : i \in 1 .. Len(queue')
          BY <2>2, <5>1
        <5> QED
          BY <5>1, <5>2 DEF Places
      <4> QED
        BY <2>3, <4>1, <4>2, <4>3
    <3> QED
      BY <2>1, <2>3, <3>1, StillKept
  <2>4. ASSUME NEW s \in Source, Event(s) PROVE Kept(t)' /\ Within(t)'
    BY <2>1, <2>4, EventKeeps
  <2>5. ASSUME NEW s \in Source, Recover(s) PROVE Kept(t)' /\ Within(t)'
    <3> DEFINE n == Len(journal[s])
    <3>1. /\ phase = "loading" /\ s \notin replayed /\ replayed' = replayed \cup {s}
          /\ UNCHANGED <<phase, journal, record, problems>>
      BY <2>5 DEF Recover, world, store
    <3>2. Replay(s) \in Task
      BY DEF Replay, Task
    <3>3. queue' = queue \/ queue' = Queued(Replay(s))
      BY <2>5 DEF Recover
    <3>4. CASE t # s
      <4>1. phase = "loading" /\ t \notin replayed => phase' = "loading" /\ t \notin replayed'
        BY <3>1, <3>4
      <4> QED
        BY <2>3, <3>1, <3>2, <3>3, <4>1
    <3>5. CASE t = s /\ queue' = Queued(Replay(s))
      <4>1. Len(queue') = Len(queue) + 1 /\ queue'[Len(queue) + 1] = Replay(t)
        BY <2>2, <3>2, <3>5, QueuedIs
      <4>2. Len(queue) + 1 \in 1 .. Len(queue')
        BY <2>2, <4>1
      <4> QED
        BY <4>1, <4>2 DEF Kept, Within, Pending, Places
    <3>6. CASE t = s /\ ~(queue' = Queued(Replay(s)))
      <4>1. Settled(s, record, n) \/ (record.noted[s] = n /\ Settled(s, record, record.through[s]))
        BY <2>5, <3>6 DEF Recover
      <4>2. RecordType(record) /\ Len(journal[s]) \in Nat /\ Len(journal[s]) > 0
        BY <3>1, TypeIsType, LogsAre, UpdatesAssumption DEF Base, TypeOK, Begun
      <4>3. record.noted[s] \in {0, record.through[s]}
        BY <4>2 DEF RecordType
      <4>4. record.through[s] = n
        BY <4>1, <4>2, <4>3 DEF Settled
      <4>5. record'.through[t] = Len(journal'[t]) /\ Len(journal'[t]) \in Nat
        BY <3>1, <3>6, <4>2, <4>4
      <4> QED
        BY <4>5, AtTheEnd
    <3> QED
      BY <3>4, <3>5, <3>6
  <2>6. CASE Recovered
    <3>1. /\ replayed = Source /\ UNCHANGED <<journal, record, problems, replayed>>
          /\ queue' = queue \/ queue' = Queued(Note)
      BY <2>6 DEF Recovered, world, store, startup
    <3>2. Note \in Task
      BY DEF Note, Task
    <3> QED
      BY <2>3, <3>1, <3>2
  <2>7. CASE Correlate
    <3>1. UNCHANGED <<phase, journal, record, problems, replayed>>
      BY <2>7 DEF Correlate, world, store, startup
    <3>2. \E task \in Task : queue' = Queued(task)
      <4>1. PICK i \in 1 .. HeadOf(record) : queue' = Queued(Correlation(record.log[i].id))
        BY <2>7 DEF Correlate
      <4>2. RecordType(record)
        BY TypeIsType DEF Base, TypeOK
      <4>3. record.log[i] \in RowRec
        BY <4>1, <4>2, ElementOfSeq DEF RecordType, HeadOf
      <4>4. Correlation(record.log[i].id) \in Task
        BY <4>3 DEF RowRec, Correlation, Task
      <4> QED
        BY <4>1, <4>4
    <3> QED
      BY <2>3, <3>1, <3>2
  <2>8. CASE Seal
    <3>1. UNCHANGED <<phase, journal, record, problems, replayed>> /\ queue' = Sealed
      BY <2>8 DEF Seal, world, store, startup
    <3> QED
      BY <2>3, <3>1
  <2>9. CASE Close \/ Closed \/ Crash \/ StartFails
    BY <2>9 DEF Working, Close, Closed, Crash, StartFails, Down
  <2>10. CASE UNCHANGED <<phase, journal, record, problems, replayed, queue>>
    BY <2>3, <2>10
  <2>11. ~SetAside /\ \A s \in Source : ~EndsUnrecorded(s) /\ ~PowerLost(s)
    BY <2>1 DEF SetAside, EndsUnrecorded, PowerLost, Up
  <2> QED
    BY <1>3, <2>4, <2>5, <2>6, <2>7, <2>8, <2>9, <2>10, <2>11
    DEF Next, vars, world, store, startup, Bootstrap, More, Poll, Page
<1> QED
  BY <1>1, <1>2, <1>3

\* A run that the feed has fallen behind is queued, or said to be degraded.
THEOREM LagIsNeverSilent == Spec => []LagIsTold
<1>1. Init => Begun /\ LagInv
  <2> SUFFICES ASSUME Init PROVE Begun /\ LagInv
    OBVIOUS
  <2>1. ~Working /\ phase # "loading"
    BY DEF Init, Working, Ready
  <2>2. disk.through = [s \in Source |-> 0]
    BY DEF Init, Absent, Empty
  <2>3. \A s \in Source : ~(disk.through[s] > 0)
    BY <2>2
  <2> QED
    BY <2>1, <2>3 DEF Begun, LagInv
<1>2. Base /\ LagInv => LagIsTold
  <2> SUFFICES ASSUME Base, LagInv, phase = "serving", queue = <<>>, Ready, NEW s \in Source
               PROVE  record.through[s] = Len(journal[s]) \/ s \in problems
    BY DEF LagIsTold
  <2>1. Places = {}
    BY EmptySeq DEF Places
  <2>2. Kept(s)
    BY DEF LagInv, Working
  <2> QED
    BY <2>1, <2>2 DEF Kept, Pending
<1>3. Base /\ Begun /\ LagInv /\ [Next]_vars => Begun' /\ LagInv'
  BY BegunStays, LagStays
<1> QED
  BY <1>1, <1>2, <1>3, BaseHolds, PTL DEF Spec

----------------------------------------------------------------------------
(* The reader. *)

\* A reader holds every row from where it started to its cursor; epochs are never reused.
Reading ==
  /\ reader.epoch \in Nat /\ reader.from \in Nat /\ reader.after \in Nat /\ reader.through \in Nat
  /\ reader.epoch <= boots /\ disk.epoch <= boots
  /\ reader.from <= reader.after /\ reader.after <= reader.through
  /\ reader.epoch # 0 => reader.got = reader.from + 1 .. reader.after
  /\ reader.epoch # 0 /\ reader.epoch = disk.epoch => reader.through <= HeadOf(disk)

\* A page that ends early is what follows the cursor, up to its last row.
LEMMA PageEnds ==
  ASSUME NEW a \in Nat, NEW b \in Nat, NEW page \in SUBSET (a + 1 .. b),
         \A i \in page, j \in a + 1 .. b : j < i => j \in page, page # {}
  PROVE  LET m == CHOOSE i \in page : \A j \in page : j <= i
         IN m \in Nat /\ a <= m /\ m <= b /\ page = a + 1 .. m
<1> DEFINE m == CHOOSE i \in page : \A j \in page : j <= i
           R == a + 1 .. b
<1>1. IsFiniteSet(R)
  <2> DEFINE c == a + 1
  <2>1. c \in Int /\ b \in Int
    OBVIOUS
  <2> HIDE DEF c
  <2>2. IsFiniteSet(c .. b)
    BY <2>1, FS_Interval
  <2> QED
    BY <2>2 DEF c
<1>2. page \in SUBSET R /\ page \in SUBSET Nat
  OBVIOUS
<1>3. IsFiniteSet(page)
  <2> HIDE DEF R
  <2> QED
    BY <1>1, <1>2, FS_Subset
<1>4. \E i \in page : \A j \in page : j <= i
  BY <1>2, <1>3, Extremes
<1>5. m \in page /\ \A j \in page : j <= m
  BY <1>4
<1> HIDE DEF m
<1>6. m \in Nat /\ m \in a + 1 .. b
  BY <1>2, <1>5
<1>7. page = a + 1 .. m
  <2>1. ASSUME NEW x \in page PROVE x \in a + 1 .. m
    BY <1>5, <1>6, <2>1
  <2>2. ASSUME NEW x \in a + 1 .. m PROVE x \in page
    <3>1. x \in a + 1 .. b /\ (x < m \/ x = m)
      BY <1>6, <2>2
    <3> QED
      BY <1>5, <3>1
  <2> QED
    BY <2>1, <2>2
<1>8. a <= m /\ m <= b
  BY <1>6
<1> QED
  BY <1>6, <1>7, <1>8 DEF m

\* A page continues what a reader has.
LEMMA PageIs ==
  ASSUME RecordType(record), NEW from \in Nat, NEW after \in Nat, NEW through \in Nat, NEW got,
         from <= after, after <= through, through <= HeadOf(record), record.floor <= after,
         got = from + 1 .. after, Page(from, after, through, got)
  PROVE  /\ reader'.epoch = record.epoch /\ reader'.from = from /\ reader'.through = through
         /\ reader'.after \in Nat /\ from <= reader'.after /\ reader'.after <= through
         /\ reader'.got = from + 1 .. reader'.after
<1> DEFINE rows == Deliverable(after, through)
<1>1. HeadOf(record) \in Nat /\ record.floor \in Nat
  BY LenProperties DEF RecordType, HeadOf
<1>2. rows = after + 1 .. through
  <2> DEFINE h == HeadOf(record)
             f == record.floor
  <2>1. rows = {i \in f + 1 .. h : after < i /\ i <= through}
    BY DEF Deliverable, Retained
  <2>2. h \in Nat /\ f \in Nat /\ f <= after /\ through <= h
    BY <1>1
  <2> HIDE DEF h, f, rows
  <2>3. \A i : i \in {j \in f + 1 .. h : after < j /\ j <= through} <=> i \in after + 1 .. through
    BY <2>2
  <2> QED
    BY <2>1, <2>3
<1>3. PICK page \in SUBSET rows :
        /\ \A i \in page, j \in rows : j < i => j \in page
        /\ (rows # {} => page # {})
        /\ reader' = [epoch |-> record.epoch, from |-> from, through |-> through, got |-> got \cup page,
                      after |-> IF page = rows THEN through ELSE CHOOSE i \in page : \A j \in page : j <= i]
  BY DEF Page
<1> DEFINE a == IF page = rows THEN through ELSE CHOOSE i \in page : \A j \in page : j <= i
           g == got \cup page
<1> HIDE DEF rows
<1>4. a \in Nat /\ after <= a /\ a <= through /\ page = after + 1 .. a
  <2>1. CASE page = rows
    BY <1>2, <2>1
  <2>2. CASE page # rows
    <3>1. page # {} /\ page \in SUBSET (after + 1 .. through)
      BY <1>2, <1>3, <2>2
    <3>2. \A i \in page, j \in after + 1 .. through : j < i => j \in page
      BY <1>2, <1>3
    <3>3. a = CHOOSE i \in page : \A j \in page : j <= i
      BY <2>2
    <3> HIDE DEF a
    <3> QED
      BY <3>1, <3>2, <3>3, PageEnds
  <2> QED
    BY <2>1, <2>2
<1>5. reader' = [epoch |-> record.epoch, from |-> from, through |-> through, got |-> g, after |-> a]
  BY <1>3
<1> HIDE DEF a
<1>6. g = from + 1 .. a
  BY <1>4
<1> HIDE DEF g
<1>7. from <= a
  BY <1>4
<1> QED
  BY <1>4, <1>5, <1>6, <1>7

\* A step of the reader goes on from what it has.
LEMMA ReaderReads ==
  ASSUME Base, Reading, Bootstrap \/ More \/ Poll PROVE Reading'
<1>1. Ready /\ UNCHANGED <<boots, disk>>
  BY DEF Bootstrap, More, Poll, Page, store
<1>2. record = disk /\ RecordType(record)
  BY <1>1, TypeIsType DEF Base, Published, TypeOK
<1>3. HeadOf(record) \in Nat /\ record.floor \in Nat /\ record.floor <= HeadOf(record) /\ record.epoch \in Nat
  BY <1>2, LenProperties DEF RecordType, HeadOf
<1>4. ASSUME NEW from \in Nat, NEW after \in Nat, NEW through \in Nat, NEW got,
             from <= after, after <= through, through <= HeadOf(record), record.floor <= after,
             got = from + 1 .. after, Page(from, after, through, got)
      PROVE  Reading'
  <2>1. /\ reader'.epoch = record.epoch /\ reader'.from = from /\ reader'.through = through
        /\ reader'.after \in Nat /\ from <= reader'.after /\ reader'.after <= through
        /\ reader'.got = from + 1 .. reader'.after
    BY <1>2, <1>4, PageIs
  <2>2. record.epoch <= boots
    BY <1>2 DEF Reading
  <2> QED
    BY <1>1, <1>2, <1>3, <1>4, <2>1, <2>2 DEF Reading
<1>5. CASE Bootstrap
  <2> DEFINE f == record.floor
  <2>1. Page(f, f, HeadOf(record), {})
    BY <1>5 DEF Bootstrap
  <2>2. f \in Nat /\ f <= f /\ {} = f + 1 .. f /\ HeadOf(record) <= HeadOf(record)
    <3>1. f \in Nat
      BY <1>3
    <3> HIDE DEF f
    <3> QED
      BY <1>3, <3>1
  <2> HIDE DEF f
  <2>3. f <= HeadOf(record) /\ record.floor <= f
    BY <1>3, <2>2 DEF f
  <2> QED
    BY <1>3, <1>4, <2>1, <2>2, <2>3
<1>6. CASE More
  <2>1. /\ reader.epoch # 0 /\ reader.epoch = record.epoch /\ ~(reader.after < record.floor)
        /\ Page(reader.from, reader.after, reader.through, reader.got)
    BY <1>3, <1>6 DEF More, Expired, Reading
  <2>2. /\ reader.from \in Nat /\ reader.after \in Nat /\ reader.through \in Nat
        /\ reader.from <= reader.after /\ reader.after <= reader.through
        /\ reader.got = reader.from + 1 .. reader.after /\ reader.through <= HeadOf(record)
    BY <1>2, <2>1 DEF Reading
  <2>3. record.floor <= reader.after
    BY <1>3, <2>1, <2>2
  <2> QED
    BY <1>4, <2>1, <2>2, <2>3
<1>7. CASE Poll
  <2>1. /\ reader.epoch # 0 /\ reader.epoch = record.epoch /\ ~(reader.after < record.floor)
        /\ reader.after < HeadOf(record)
        /\ Page(reader.from, reader.after, HeadOf(record), reader.got)
    BY <1>3, <1>7 DEF Poll, Expired, Reading
  <2>2. /\ reader.from \in Nat /\ reader.after \in Nat
        /\ reader.from <= reader.after
        /\ reader.got = reader.from + 1 .. reader.after
    BY <1>2, <2>1 DEF Reading
  <2>3. record.floor <= reader.after /\ reader.after <= HeadOf(record) /\ HeadOf(record) <= HeadOf(record)
    BY <1>3, <2>1, <2>2
  <2> QED
    BY <1>3, <1>4, <2>1, <2>2, <2>3
<1> QED
  BY <1>5, <1>6, <1>7

\* Whatever else happens, a reader has read without a gap.
LEMMA ReadingStays ==
  ASSUME Base, Reading, [Next]_vars PROVE Reading'
<1>1. CASE Bootstrap \/ More \/ Poll
  BY <1>1, ReaderReads
<1>2. CASE UNCHANGED reader
  <2>1. boots \in Nat /\ (boots' = boots \/ boots' = boots + 1)
    <3>1. boots \in Nat
      BY UpdatesAssumption DEF Base, TypeOK
    <3>2. boots' = boots \/ boots' = boots + 1
      BY DEF Next, vars, Seal, Correlate, Work, Start, Recovered, Close, Closed, Crash, StartFails, SetAside,
         Bootstrap, More, Poll, Page, Event, Recover, EndsUnrecorded, PowerLost
    <3> QED
      BY <3>1, <3>2
  <2>2. RecordType(disk) /\ Cardinality(Retained(disk)) <= MaxRows
    BY TypeIsType DEF Base, TypeOK
  <2>3. disk.epoch \in Nat
    BY <2>2, UpdatesAssumption DEF RecordType
  <2>4. /\ disk'.epoch <= boots'
        /\ reader.epoch # 0 /\ reader.epoch = disk'.epoch => reader.through <= HeadOf(disk')
    <3>1. CASE disk' = disk
      BY <2>1, <2>3, <3>1 DEF Reading
    <3>2. CASE disk' = Absent
      <4>1. disk'.epoch = 0
        BY <3>2 DEF Absent, Empty
      <4> QED
        BY <2>1, <4>1
    <3>3. CASE boots' = boots + 1 /\ disk' = Empty(boots')
      <4> DEFINE e == boots'
      <4>1. disk' = Empty(e)
        BY <3>3
      <4> HIDE DEF e
      <4>2. disk'.epoch = e
        BY <4>1 DEF Empty
      <4>3. disk'.epoch = boots + 1
        BY <3>3, <4>2 DEF e
      <4>4. reader.epoch # boots + 1
        BY <2>1 DEF Reading
      <4> QED
        BY <2>1, <3>3, <4>3, <4>4
    <3>4. CASE Outcome(disk, disk') /\ UNCHANGED boots
      <4>1. Carries(disk, disk')
        BY <2>2, <3>4, OutcomeIs DEF Base
      <4>2. disk'.epoch = disk.epoch /\ HeadOf(disk) \in Nat /\ HeadOf(disk') \in Nat /\ HeadOf(disk) <= HeadOf(disk')
        BY <4>1 DEF Carries, HeadOf
      <4> QED
        BY <2>1, <3>4, <4>2 DEF Reading
    <3> QED
      BY <3>1, <3>2, <3>3, <3>4, StoreMoves DEF Moves
  <2> QED
    BY <1>2, <2>1, <2>4 DEF Reading
<1> QED
  BY <1>1, <1>2 DEF Next, vars, Seal, Correlate, Work, Start, Recovered, Close, Closed, Crash, StartFails, SetAside,
     Event, Recover, EndsUnrecorded, PowerLost

\* A reader has every row between where it started and its cursor, and only rows of the file.
THEOREM ReadingHasNoGaps == Spec => []GaplessReading
<1>1. Init => Reading
  <2> SUFFICES ASSUME Init PROVE Reading
    OBVIOUS
  <2>1. reader.epoch = 0 /\ reader.from = 0 /\ reader.after = 0 /\ reader.through = 0
    BY DEF Init, NoReader
  <2>2. disk.epoch = 0 /\ boots = 0
    BY DEF Init, Absent, Empty
  <2> QED
    BY <2>1, <2>2 DEF Reading
<1>2. Reading => GaplessReading
  BY DEF Reading, GaplessReading
<1> QED
  BY <1>1, <1>2, BaseHolds, ReadingStays, PTL DEF Spec

----------------------------------------------------------------------------
(* What the feed shows. *)

\* A first revision is its own occurrence; a second one names the first.
Faithful(r) ==
  \A i \in 1 .. Len(r.log) :
    /\ r.log[i].rev = 1 => r.log[i].occ = i
    /\ r.log[i].rev = 2 => r.log[i].occ < i /\ r.log[r.log[i].occ].id = r.log[i].id

\* The number under which the feed shows an event.
Number(s, m) == IF journal[s][m] = "end" THEN 0 ELSE m

\* The end that shows is the first, and only that.
LEMMA EndShows ==
  ASSUME NEW r, RecordType(r), NEW s \in Source, NEW n \in 0 .. MaxSeq
  PROVE  /\ (\E m \in Showing(s, r, n) : journal[s][m] = "end") <=> s \notin r.indexed /\ Ends(s, r, n)
         /\ \A x, y \in Showing(s, r, n) : journal[s][x] = "end" /\ journal[s][y] = "end" => x = y
<1> DEFINE t == r.through[s]
           P == {m \in t + 1 .. n : journal[s][m] = "end"}
<1>1. t \in Nat /\ n \in Nat
  BY UpdatesAssumption DEF RecordType
<1>2. \A m : m \in Showing(s, r, n) <=>
        m \in t + 1 .. n /\ (journal[s][m] = "reply"
                             \/ (journal[s][m] = "end" /\ s \notin r.indexed
                                 /\ \A k \in t + 1 .. m - 1 : journal[s][k] # "end"))
  BY DEF Showing, Shows
<1>3. Ends(s, r, n) <=> P # {}
  BY DEF Ends
<1> HIDE DEF t
<1>4. ASSUME s \notin r.indexed, P # {} PROVE \E m \in Showing(s, r, n) : journal[s][m] = "end"
  <2>1. P \in SUBSET (t + 1 .. n) /\ P \in SUBSET Nat
    BY <1>1
  <2>2. IsFiniteSet(t + 1 .. n)
    <3> DEFINE a == t + 1
    <3>1. a \in Int /\ n \in Int
      BY <1>1
    <3> HIDE DEF a
    <3>2. IsFiniteSet(a .. n)
      BY <3>1, FS_Interval
    <3> QED
      BY <3>2 DEF a
  <2> HIDE DEF P
  <2>3. IsFiniteSet(P)
    BY <2>1, <2>2, FS_Subset
  <2>4. PICK m \in P : \A y \in P : m <= y
    BY <1>4, <2>1, <2>3, Extremes
  <2>5. m \in t + 1 .. n /\ journal[s][m] = "end"
    BY <2>4 DEF P
  <2>6. ASSUME NEW k \in t + 1 .. m - 1, journal[s][k] = "end" PROVE FALSE
    <3>1. k \in t + 1 .. n /\ ~(m <= k)
      BY <1>1, <2>5, <2>6
    <3>2. k \in P
      BY <2>6, <3>1 DEF P
    <3> QED
      BY <2>4, <3>1, <3>2
  <2> QED
    BY <1>2, <1>4, <2>5, <2>6
<1>5. ASSUME NEW m \in Showing(s, r, n), journal[s][m] = "end" PROVE s \notin r.indexed /\ P # {}
  <2>1. m \in P /\ s \notin r.indexed
    BY <1>2, <1>5
  <2> QED
    BY <2>1
<1>6. ASSUME NEW x \in Showing(s, r, n), NEW y \in Showing(s, r, n), journal[s][x] = "end", journal[s][y] = "end"
      PROVE  x = y
  <2>1. /\ x \in t + 1 .. n /\ y \in t + 1 .. n
        /\ \A k \in t + 1 .. x - 1 : journal[s][k] # "end"
        /\ \A k \in t + 1 .. y - 1 : journal[s][k] # "end"
    BY <1>2, <1>6
  <2>2. ~(y \in t + 1 .. x - 1) /\ ~(x \in t + 1 .. y - 1)
    BY <1>6, <2>1
  <2> QED
    BY <1>1, <2>1, <2>2
<1> QED
  BY <1>3, <1>4, <1>5, <1>6

\* A record that shows nothing new of a source follows its log as before.
LEMMA FollowsStill ==
  ASSUME NEW t \in Source, NEW r, RecordType(r), NEW w, FollowsJournal(t, r),
         Len(w.log) \in Nat, Len(w.log) >= Len(r.log), \A i \in 1 .. Len(r.log) : w.log[i] = r.log[i],
         \A i \in Len(r.log) + 1 .. Len(w.log) : ~(w.log[i].id[1] = t /\ w.log[i].rev = 1),
         w.through[t] = r.through[t], t \in w.indexed <=> t \in r.indexed
  PROVE  FollowsJournal(t, w)
<1>1. Len(r.log) \in Nat
  BY LenProperties DEF RecordType
<1>2. Shown(t, w) = Shown(t, r)
  <2> DEFINE n == Len(r.log)
             m == Len(w.log)
  <2>1. n \in Nat /\ m \in Nat /\ m >= n
    BY <1>1
  <2>2. Shown(t, r) = {i \in 1 .. n : r.log[i].id[1] = t /\ r.log[i].rev = 1}
        /\ Shown(t, w) = {i \in 1 .. m : w.log[i].id[1] = t /\ w.log[i].rev = 1}
    BY DEF Shown, HeadOf
  <2>3. \A i \in 1 .. n : w.log[i] = r.log[i]
    OBVIOUS
  <2>4. \A i \in n + 1 .. m : ~(w.log[i].id[1] = t /\ w.log[i].rev = 1)
    OBVIOUS
  <2> HIDE DEF n, m
  <2>5. \A i \in 1 .. m : i \in 1 .. n \/ i \in n + 1 .. m
    BY <2>1
  <2>6. \A i \in 1 .. n : i \in 1 .. m
    BY <2>1
  <2> QED
    BY <2>2, <2>3, <2>4, <2>5, <2>6
<1>3. \A i \in Shown(t, r) : w.log[i] = r.log[i]
  BY DEF Shown, HeadOf
<1>4. {w.log[i].id[2] : i \in Shown(t, w)} = {r.log[i].id[2] : i \in Shown(t, r)}
  BY <1>2, <1>3
<1>5. \A i, j \in Shown(t, w) : i < j =>
        LET m == w.log[i].id[2]  n == w.log[j].id[2] IN m # n /\ (m > 0 /\ n > 0 => m < n)
  BY <1>2, <1>3 DEF FollowsJournal
<1>6. {n \in {0} : t \in w.indexed} = {n \in {0} : t \in r.indexed}
  OBVIOUS
<1>7. /\ {r.log[i].id[2] : i \in Shown(t, r)} =
           {n \in 1 .. r.through[t] : journal[t][n] = "reply"} \cup {n \in {0} : t \in r.indexed}
      /\ (\E n \in 1 .. r.through[t] : journal[t][n] = "end") => t \in r.indexed
  BY DEF FollowsJournal
<1>8. /\ {w.log[i].id[2] : i \in Shown(t, w)} =
           {n \in 1 .. w.through[t] : journal[t][n] = "reply"} \cup {n \in {0} : t \in w.indexed}
      /\ (\E n \in 1 .. w.through[t] : journal[t][n] = "end") => t \in w.indexed
  BY <1>4, <1>6, <1>7
<1> QED
  BY <1>5, <1>8 DEF FollowsJournal

\* Rows of a projection show the run of the projection, each event under its number.
LEMMA NewRows ==
  ASSUME NEW r, RecordType(r), NEW s \in Source, NEW n \in 0 .. MaxSeq
  PROVE  LET w == Projected(s, r, n)
             P == Showing(s, r, n)
             h == Len(r.log)
         IN /\ h \in Nat /\ Len(w.log) \in Nat /\ Len(w.log) >= h
            /\ \A i \in 1 .. h : w.log[i] = r.log[i]
            /\ \A i \in h + 1 .. Len(w.log) :
                 /\ w.log[i].id[1] = s /\ w.log[i].rev = 1 /\ w.log[i].occ = i
                 /\ \E m \in P : w.log[i].id[2] = Number(s, m)
            /\ \A m \in P : \E i \in h + 1 .. Len(w.log) : w.log[i].id[2] = Number(s, m)
            /\ \A i, j \in h + 1 .. Len(w.log) : i < j =>
                 \E x, y \in P : x < y /\ w.log[i].id[2] = Number(s, x) /\ w.log[j].id[2] = Number(s, y)
<1> DEFINE w == Projected(s, r, n)
           P == Showing(s, r, n)
           F == Fresh(s, r, n)
           pos == InOrder(P)
           h == Len(r.log)
           c == Len(F)
<1>1. /\ Grows(r, w) /\ Len(w.log) = h + c /\ c \in Nat /\ h \in Nat
      /\ \A k \in 1 .. c : w.log[h + k] = [id |-> F[k], occ |-> h + k, rev |-> 1]
  BY ProjectedIs
<1>2. /\ \A k \in 1 .. c : pos[k] \in P /\ F[k] = Id(s, pos[k])
      /\ \A i, j \in 1 .. c : i < j => pos[i] < pos[j]
      /\ \A x \in P : \E i \in 1 .. c : pos[i] = x
  BY FreshIs
<1>3. \A m : Id(s, m) = <<s, Number(s, m)>>
  BY DEF Id, Number
<1> HIDE DEF w, P, F, pos, h, c
<1>4. \A k \in 1 .. c : w.log[h + k].id = <<s, Number(s, pos[k])>> /\ w.log[h + k].rev = 1 /\ w.log[h + k].occ = h + k
  <2> SUFFICES ASSUME NEW k \in 1 .. c
               PROVE  w.log[h + k].id = <<s, Number(s, pos[k])>> /\ w.log[h + k].rev = 1 /\ w.log[h + k].occ = h + k
    OBVIOUS
  <2>1. w.log[h + k] = [id |-> F[k], occ |-> h + k, rev |-> 1] /\ F[k] = <<s, Number(s, pos[k])>>
    BY <1>1, <1>2, <1>3
  <2> QED
    BY <2>1
<1>5. \A k \in 1 .. c : w.log[h + k].id[1] = s /\ w.log[h + k].id[2] = Number(s, pos[k])
  BY <1>4
<1>6. \A i \in h + 1 .. h + c : i - h \in 1 .. c /\ h + (i - h) = i
  BY <1>1
<1>7. \A k \in 1 .. c : h + k \in h + 1 .. h + c
  BY <1>1
<1>8. ASSUME NEW i \in h + 1 .. h + c
      PROVE  /\ w.log[i].id[1] = s /\ w.log[i].rev = 1 /\ w.log[i].occ = i
             /\ \E m \in P : w.log[i].id[2] = Number(s, m)
  <2> DEFINE k == i - h
  <2>1. k \in 1 .. c /\ h + k = i
    BY <1>6
  <2> HIDE DEF k
  <2> QED
    BY <2>1, <1>2, <1>4, <1>5
<1>9. ASSUME NEW m \in P PROVE \E i \in h + 1 .. h + c : w.log[i].id[2] = Number(s, m)
  <2>1. PICK k \in 1 .. c : pos[k] = m
    BY <1>2
  <2> QED
    BY <2>1, <1>5, <1>7
<1>10. ASSUME NEW i \in h + 1 .. h + c, NEW j \in h + 1 .. h + c, i < j
       PROVE  \E x, y \in P : x < y /\ w.log[i].id[2] = Number(s, x) /\ w.log[j].id[2] = Number(s, y)
  <2> DEFINE k == i - h
             l == j - h
  <2>1. k \in 1 .. c /\ h + k = i /\ l \in 1 .. c /\ h + l = j /\ k < l
    BY <1>1, <1>6, <1>10
  <2> HIDE DEF k, l
  <2> QED
    BY <2>1, <1>2, <1>5
<1>11. Len(w.log) \in Nat /\ Len(w.log) >= h
  BY <1>1
<1>12. \A i \in 1 .. h : w.log[i] = r.log[i]
  BY <1>1 DEF Grows, h
<1> QED
  BY <1>1, <1>8, <1>9, <1>10, <1>11, <1>12 DEF w, P, h

\* A projection shows what is new of its run, and nothing twice.
LEMMA ProjectedFollows ==
  ASSUME NEW r, RecordType(r), NEW s \in Source, NEW n \in 0 .. MaxSeq, r.through[s] <= n, FollowsJournal(s, r)
  PROVE  FollowsJournal(s, Projected(s, r, n))
<1> DEFINE w == Projected(s, r, n)
           P == Showing(s, r, n)
           h == Len(r.log)
           g == Len(w.log)
           t == r.through[s]
           Old == Shown(s, r)
           No(i) == w.log[i].id[2]
<1>1. /\ h \in Nat /\ g \in Nat /\ g >= h
      /\ \A i \in 1 .. h : w.log[i] = r.log[i]
      /\ \A i \in h + 1 .. g :
           /\ w.log[i].id[1] = s /\ w.log[i].rev = 1 /\ w.log[i].occ = i
           /\ \E m \in P : No(i) = Number(s, m)
      /\ \A m \in P : \E i \in h + 1 .. g : No(i) = Number(s, m)
      /\ \A i, j \in h + 1 .. g : i < j =>
           \E x, y \in P : x < y /\ No(i) = Number(s, x) /\ No(j) = Number(s, y)
  BY NewRows
<1>2. t \in Nat /\ n \in Nat /\ t <= n /\ r.through \in [Source -> 0 .. MaxSeq]
  BY UpdatesAssumption DEF RecordType
<1>3. /\ w.through = Advanced(r.through, s, n)
      /\ w.indexed = IF Ends(s, r, n) THEN r.indexed \cup {s} ELSE r.indexed
  BY ProjectedIs
<1>4. w.through[s] = n
  BY <1>2, <1>3 DEF Advanced
<1>5. /\ (\E m \in P : journal[s][m] = "end") <=> s \notin r.indexed /\ Ends(s, r, n)
      /\ \A x, y \in P : journal[s][x] = "end" /\ journal[s][y] = "end" => x = y
  BY EndShows
<1>6. /\ P \subseteq t + 1 .. n
      /\ \A m \in t + 1 .. n : journal[s][m] = "reply" => m \in P
      /\ \A m \in P : journal[s][m] \in {"reply", "end"}
  BY DEF Showing, Shows
<1>7. Ends(s, r, n) <=> \E m \in t + 1 .. n : journal[s][m] = "end"
  BY DEF Ends
<1>8. /\ {r.log[i].id[2] : i \in Old} = {m \in 1 .. t : journal[s][m] = "reply"} \cup {m \in {0} : s \in r.indexed}
      /\ \A i, j \in Old : i < j =>
           LET x == r.log[i].id[2]  y == r.log[j].id[2] IN x # y /\ (x > 0 /\ y > 0 => x < y)
      /\ (\E m \in 1 .. t : journal[s][m] = "end") => s \in r.indexed
  BY DEF FollowsJournal
<1>9. /\ Old = {i \in 1 .. h : r.log[i].id[1] = s /\ r.log[i].rev = 1}
      /\ Shown(s, w) = {i \in 1 .. g : w.log[i].id[1] = s /\ w.log[i].rev = 1}
  BY DEF Shown, HeadOf
<1>10. s \in w.indexed <=> s \in r.indexed \/ Ends(s, r, n)
  BY <1>3
<1> HIDE DEF P, h, g, t, Old
<1>11. Shown(s, w) = Old \cup (h + 1 .. g) /\ Old \subseteq 1 .. h
  <2> HIDE DEF w
  <2>1. Old \subseteq 1 .. h
    BY <1>9
  <2>2. ASSUME NEW i \in 1 .. g PROVE i \in Shown(s, w) <=> i \in Old \/ i \in h + 1 .. g
    <3>1. i \in 1 .. h \/ i \in h + 1 .. g
      BY <1>1
    <3>2. CASE i \in 1 .. h
      <4>1. w.log[i] = r.log[i] /\ i \notin h + 1 .. g
        BY <1>1, <3>2
      <4> QED
        BY <1>9, <3>2, <4>1
    <3>3. CASE i \in h + 1 .. g
      BY <1>1, <1>9, <3>3
    <3> QED
      BY <3>1, <3>2, <3>3
  <2>3. \A i \in 1 .. h : i \in 1 .. g
    BY <1>1
  <2>4. \A i \in h + 1 .. g : i \in 1 .. g
    BY <1>1
  <2> QED
    BY <1>9, <2>1, <2>2, <2>3, <2>4
<1>12. \A i \in Old : w.log[i] = r.log[i] /\ No(i) = r.log[i].id[2]
  BY <1>1, <1>11
<1> HIDE DEF w, No
<1>13. \A m \in P : m \in Nat /\ m > t /\ m <= n /\ m >= 1
  BY <1>2, <1>6
<1>14. \A m \in P : Number(s, m) = 0 \/ (Number(s, m) = m /\ journal[s][m] = "reply")
  BY <1>6 DEF Number
<1>15. \A m \in P : Number(s, m) = 0 <=> journal[s][m] = "end"
  BY <1>6, <1>13 DEF Number
<1>16. ASSUME NEW i \in Old PROVE No(i) \in Nat /\ No(i) <= t /\ (No(i) = 0 => s \in r.indexed)
  <2>1. r.log[i].id[2] \in {m \in 1 .. t : journal[s][m] = "reply"} \cup {m \in {0} : s \in r.indexed}
    BY <1>8
  <2>2. No(i) \in {m \in 1 .. t : journal[s][m] = "reply"} \cup {m \in {0} : s \in r.indexed}
    BY <1>12, <2>1
  <2> QED
    BY <1>2, <2>2
<1>17. {No(i) : i \in Shown(s, w)} = {m \in 1 .. n : journal[s][m] = "reply"} \cup {m \in {0} : s \in w.indexed}
  <2>1. ASSUME NEW i \in Shown(s, w)
        PROVE  No(i) \in {m \in 1 .. n : journal[s][m] = "reply"} \cup {m \in {0} : s \in w.indexed}
    <3>1. CASE i \in Old
      <4>1. No(i) \in {m \in 1 .. t : journal[s][m] = "reply"} \cup {m \in {0} : s \in r.indexed}
        BY <1>8, <1>12, <3>1
      <4> QED
        BY <4>1, <1>2, <1>10
    <3>2. CASE i \in h + 1 .. g
      <4>1. PICK m \in P : No(i) = Number(s, m)
        BY <1>1, <3>2
      <4>2. CASE Number(s, m) = 0
        <5>1. Ends(s, r, n)
          BY <1>5, <1>15, <4>2
        <5> QED
          BY <1>10, <4>1, <4>2, <5>1
      <4>3. CASE Number(s, m) = m /\ journal[s][m] = "reply"
        BY <1>2, <1>13, <4>1, <4>3
      <4> QED
        BY <1>14, <4>2, <4>3
    <3> QED
      BY <1>11, <3>1, <3>2
  <2>2. ASSUME NEW m \in 1 .. n, journal[s][m] = "reply" PROVE \E i \in Shown(s, w) : No(i) = m
    <3>1. CASE m \in 1 .. t
      <4>1. m \in {r.log[i].id[2] : i \in Old}
        BY <1>8, <2>2, <3>1
      <4>2. PICK i \in Old : r.log[i].id[2] = m
        BY <4>1
      <4> QED
        BY <1>11, <1>12, <4>2
    <3>2. CASE m \in t + 1 .. n
      <4>1. m \in P /\ Number(s, m) = m
        BY <1>6, <2>2, <3>2 DEF Number
      <4>2. PICK i \in h + 1 .. g : No(i) = Number(s, m)
        BY <1>1, <4>1
      <4> QED
        BY <1>11, <4>1, <4>2
    <3>3. m \in 1 .. t \/ m \in t + 1 .. n
      BY <1>2, <2>2
    <3> QED
      BY <3>1, <3>2, <3>3
  <2>3. ASSUME s \in w.indexed PROVE \E i \in Shown(s, w) : No(i) = 0
    <3>1. CASE s \in r.indexed
      <4>1. 0 \in {r.log[i].id[2] : i \in Old}
        BY <1>8, <3>1
      <4>2. PICK i \in Old : r.log[i].id[2] = 0
        BY <4>1
      <4> QED
        BY <1>11, <1>12, <4>2
    <3>2. CASE s \notin r.indexed
      <4>1. PICK m \in P : journal[s][m] = "end"
        BY <1>5, <1>10, <2>3, <3>2
      <4>2. PICK i \in h + 1 .. g : No(i) = Number(s, m)
        BY <1>1
      <4>3. No(i) = 0
        BY <1>15, <4>1, <4>2
      <4> QED
        BY <1>11, <4>2, <4>3
    <3> QED
      BY <3>1, <3>2
  <2> QED
    BY <2>1, <2>2, <2>3
<1>18. ASSUME NEW i \in Shown(s, w), NEW j \in Shown(s, w), i < j
       PROVE  No(i) # No(j) /\ (No(i) > 0 /\ No(j) > 0 => No(i) < No(j))
  <2>1. CASE i \in Old /\ j \in Old
    BY <1>8, <1>12, <1>18, <2>1
  <2>2. CASE i \in Old /\ j \in h + 1 .. g
    <3>1. PICK m \in P : No(j) = Number(s, m)
      BY <1>1, <2>2
    <3>2. No(i) \in Nat /\ No(i) <= t /\ (No(i) = 0 => s \in r.indexed)
      BY <1>16, <2>2
    <3>3. CASE Number(s, m) = 0
      <4>1. s \notin r.indexed
        BY <1>5, <1>15, <3>3
      <4> QED
        BY <3>1, <3>2, <3>3, <4>1
    <3>4. CASE Number(s, m) = m
      <4>1. m \in Nat /\ m > t
        BY <1>13
      <4> QED
        BY <1>2, <3>1, <3>2, <3>4, <4>1
    <3> QED
      BY <1>14, <3>3, <3>4
  <2>3. CASE i \in h + 1 .. g /\ j \in h + 1 .. g
    <3>1. PICK x \in P, y \in P : x < y /\ No(i) = Number(s, x) /\ No(j) = Number(s, y)
      BY <1>1, <1>18, <2>3
    <3>2. x \in Nat /\ y \in Nat /\ x >= 1 /\ y >= 1
      BY <1>13
    <3>3. ~(Number(s, x) = 0 /\ Number(s, y) = 0)
      <4>1. ASSUME Number(s, x) = 0, Number(s, y) = 0 PROVE FALSE
        <5>1. x = y
          BY <1>5, <1>15, <4>1
        <5> QED
          BY <3>1, <3>2, <5>1
      <4> QED
        BY <4>1
    <3>4. (Number(s, x) = 0 \/ Number(s, x) = x) /\ (Number(s, y) = 0 \/ Number(s, y) = y)
      BY <1>14
    <3> QED
      BY <3>1, <3>2, <3>3, <3>4
  <2>4. CASE i \in h + 1 .. g /\ j \in Old
    BY <1>1, <1>11, <1>18, <2>4
  <2> QED
    BY <1>11, <2>1, <2>2, <2>3, <2>4
<1>19. (\E m \in 1 .. n : journal[s][m] = "end") => s \in w.indexed
  <2> SUFFICES ASSUME NEW m \in 1 .. n, journal[s][m] = "end" PROVE s \in w.indexed
    OBVIOUS
  <2>1. m \in 1 .. t \/ m \in t + 1 .. n
    BY <1>2
  <2> QED
    BY <1>7, <1>8, <1>10, <2>1
<1>20. \A i, j \in Shown(s, w) : i < j =>
         LET x == w.log[i].id[2]  y == w.log[j].id[2] IN x # y /\ (x > 0 /\ y > 0 => x < y)
  BY <1>18 DEF No
<1>21. {w.log[i].id[2] : i \in Shown(s, w)} =
         {m \in 1 .. w.through[s] : journal[s][m] = "reply"} \cup {m \in {0} : s \in w.indexed}
  BY <1>4, <1>17 DEF No
<1>22. FollowsJournal(s, w)
  BY <1>4, <1>19, <1>20, <1>21 DEF FollowsJournal
<1> QED
  BY <1>22 DEF w

\* An end that only the metadata records shows once.
LEMMA TerminatedFollows ==
  ASSUME NEW r, RecordType(r), NEW s \in Source, FollowsJournal(s, r)
  PROVE  FollowsJournal(s, Terminated(s, r))
<1> DEFINE w == Terminated(s, r)
           h == Len(r.log)
           Old == Shown(s, r)
<1>1. CASE w = r
  BY <1>1
<1>2. CASE w # r
  <2>1. /\ Grows(r, w) /\ w.through = r.through /\ s \notin r.indexed /\ w.indexed = r.indexed \cup {s}
        /\ Len(w.log) = h + 1 /\ h \in Nat
        /\ w.log[h + 1] = [id |-> <<s, 0>>, occ |-> h + 1, rev |-> 1]
    BY <1>2, TerminatedIs
  <2>2. \A i \in 1 .. h : w.log[i] = r.log[i]
    BY <2>1 DEF Grows
  <2>3. w.log[h + 1].id[1] = s /\ w.log[h + 1].id[2] = 0 /\ w.log[h + 1].rev = 1
    BY <2>1
  <2>4. /\ Old = {i \in 1 .. h : r.log[i].id[1] = s /\ r.log[i].rev = 1}
        /\ Shown(s, w) = {i \in 1 .. Len(w.log) : w.log[i].id[1] = s /\ w.log[i].rev = 1}
    BY DEF Shown, HeadOf
  <2>5. /\ {r.log[i].id[2] : i \in Old} =
             {m \in 1 .. r.through[s] : journal[s][m] = "reply"} \cup {m \in {0} : s \in r.indexed}
        /\ \A i, j \in Old : i < j =>
             LET x == r.log[i].id[2]  y == r.log[j].id[2] IN x # y /\ (x > 0 /\ y > 0 => x < y)
    BY DEF FollowsJournal
  <2> HIDE DEF w, h, Old
  <2>6. Shown(s, w) = Old \cup {h + 1} /\ Old \subseteq 1 .. h
    <3>1. Old \subseteq 1 .. h
      BY <2>4
    <3>2. \A i \in 1 .. h + 1 : i \in 1 .. h \/ i = h + 1
      BY <2>1
    <3>3. (\A i \in 1 .. h : i \in 1 .. h + 1) /\ h + 1 \in 1 .. h + 1
      BY <2>1
    <3>4. \A i \in 1 .. h : i \in Shown(s, w) <=> i \in Old
      BY <2>1, <2>2, <2>4, <3>3
    <3>5. h + 1 \in Shown(s, w)
      BY <2>1, <2>3, <2>4, <3>3
    <3>6. Shown(s, w) \subseteq 1 .. h + 1
      BY <2>1, <2>4
    <3> QED
      BY <3>1, <3>2, <3>4, <3>5, <3>6
  <2>7. \A i \in Old : w.log[i] = r.log[i] /\ i < h + 1 /\ ~(h + 1 < i)
    BY <2>1, <2>2, <2>6
  <2>8. r.through[s] \in Nat
    BY UpdatesAssumption DEF RecordType
  <2>9. \A i \in Old : w.log[i].id[2] > 0
    <3> SUFFICES ASSUME NEW i \in Old PROVE w.log[i].id[2] > 0
      OBVIOUS
    <3>1. r.log[i].id[2] \in {m \in 1 .. r.through[s] : journal[s][m] = "reply"}
      BY <2>1, <2>5
    <3> QED
      BY <2>7, <3>1
  <2>10. {w.log[i].id[2] : i \in Shown(s, w)} =
           {m \in 1 .. w.through[s] : journal[s][m] = "reply"} \cup {m \in {0} : s \in w.indexed}
    <3>1. {w.log[i].id[2] : i \in Shown(s, w)} = {r.log[i].id[2] : i \in Old} \cup {0}
      BY <2>3, <2>6, <2>7
    <3>2. {m \in {0} : s \in w.indexed} = {0} /\ {m \in {0} : s \in r.indexed} = {}
      BY <2>1
    <3> QED
      BY <2>1, <2>5, <3>1, <3>2
  <2>11. \A i, j \in Shown(s, w) : i < j =>
           LET x == w.log[i].id[2]  y == w.log[j].id[2] IN x # y /\ (x > 0 /\ y > 0 => x < y)
    <3> SUFFICES ASSUME NEW i \in Shown(s, w), NEW j \in Shown(s, w), i < j
                 PROVE  w.log[i].id[2] # w.log[j].id[2]
                        /\ (w.log[i].id[2] > 0 /\ w.log[j].id[2] > 0 => w.log[i].id[2] < w.log[j].id[2])
      OBVIOUS
    <3>1. CASE i \in Old /\ j \in Old
      <4>1. w.log[i] = r.log[i] /\ w.log[j] = r.log[j]
        BY <2>7, <3>1
      <4> QED
        BY <2>5, <3>1, <4>1
    <3>2. CASE i \in Old /\ j = h + 1
      <4>1. w.log[j].id[2] = 0 /\ w.log[i].id[2] > 0
        BY <2>3, <2>9, <3>2
      <4> QED
        BY <4>1
    <3>3. CASE i = h + 1
      <4>1. j \in Old \/ j = h + 1
        BY <2>6
      <4> QED
        BY <2>1, <2>7, <3>3, <4>1
    <3> QED
      BY <2>6, <3>1, <3>2, <3>3
  <2>12. s \in w.indexed
    BY <2>1
  <2>13. FollowsJournal(s, w)
    BY <2>10, <2>11, <2>12 DEF FollowsJournal
  <2> QED
    BY <2>13 DEF w
<1> QED
  BY <1>1, <1>2

\* Rows that show themselves keep a record faithful.
LEMMA FaithfulGrows ==
  ASSUME NEW r, RecordType(r), Faithful(r), NEW w, Grows(r, w),
         \A i \in Len(r.log) + 1 .. Len(w.log) :
           \/ w.log[i].rev = 1 /\ w.log[i].occ = i
           \/ /\ w.log[i].rev = 2
              /\ w.log[i].occ \in 1 .. Len(r.log) /\ r.log[w.log[i].occ].id = w.log[i].id
  PROVE  Faithful(w)
<1> DEFINE h == Len(r.log)
           g == Len(w.log)
<1>1. h \in Nat /\ g \in Nat /\ g >= h /\ \A i \in 1 .. h : w.log[i] = r.log[i] /\ r.log[i].occ \in 1 .. h
  BY LenProperties DEF RecordType, Grows
<1> SUFFICES ASSUME NEW i \in 1 .. g
             PROVE  /\ w.log[i].rev = 1 => w.log[i].occ = i
                    /\ w.log[i].rev = 2 => w.log[i].occ < i /\ w.log[w.log[i].occ].id = w.log[i].id
  BY DEF Faithful
<1>2. i \in 1 .. h \/ i \in h + 1 .. g
  BY <1>1
<1>3. CASE i \in 1 .. h
  <2> DEFINE o == r.log[i].occ
  <2>1. w.log[i] = r.log[i] /\ o \in 1 .. h /\ w.log[o] = r.log[o]
    BY <1>1, <1>3
  <2>2. /\ r.log[i].rev = 1 => r.log[i].occ = i
        /\ r.log[i].rev = 2 => r.log[i].occ < i /\ r.log[o].id = r.log[i].id
    BY <1>3 DEF Faithful
  <2> QED
    BY <2>1, <2>2
<1>4. CASE i \in h + 1 .. g
  <2>1. CASE w.log[i].rev = 1 /\ w.log[i].occ = i
    BY <2>1
  <2>2. CASE w.log[i].rev = 2 /\ w.log[i].occ \in 1 .. h /\ r.log[w.log[i].occ].id = w.log[i].id
    <3> DEFINE o == w.log[i].occ
    <3>1. o \in 1 .. h /\ w.log[o] = r.log[o] /\ o < i
      BY <1>1, <1>4, <2>2
    <3> QED
      BY <2>2, <3>1
  <2> QED
    BY <1>4, <2>1, <2>2
<1> QED
  BY <1>2, <1>3, <1>4

\* Pruning shows nothing else.
LEMMA PrunedFollows ==
  ASSUME NEW t \in Source, NEW r, RecordType(r), NEW w \in Pruned(r)
  PROVE  (Faithful(r) => Faithful(w)) /\ (FollowsJournal(t, r) => FollowsJournal(t, w))
<1>1. RecordType(w) /\ w.log = r.log /\ w.through = r.through /\ w.indexed = r.indexed
  BY PrunedIs
<1>2. Faithful(r) => Faithful(w)
  BY <1>1 DEF Faithful
<1>3. Shown(t, w) = Shown(t, r)
  BY <1>1 DEF Shown, HeadOf
<1>4. FollowsJournal(t, r) => FollowsJournal(t, w)
  BY <1>1, <1>3 DEF FollowsJournal
<1> QED
  BY <1>2, <1>4

\* What a task of the worker makes of a record follows the logs that it followed.
LEMMA OutcomeFollows ==
  ASSUME TypeOK, NEW r, RecordType(r), Faithful(r), NEW w, Outcome(r, w), NEW t \in Source
  PROVE  Faithful(w) /\ (FollowsJournal(t, r) => FollowsJournal(t, w))
<1> DEFINE h == Len(r.log)
<1>1. notes \in [Source -> 0 .. MaxSeq] /\ r.through \in [Source -> 0 .. MaxSeq] /\ h \in Nat
      /\ r.log \in Seq(RowRec) /\ \A i \in 1 .. h : r.log[i] \in RowRec
  BY LenProperties, ElementOfSeq DEF TypeOK, RecordType
<1>2. ASSUME NEW s \in Source, NEW n \in 0 .. MaxSeq, r.through[s] <= n,
             w \in Pruned(Projected(s, r, n)) \/ w \in Pruned(Terminated(s, Projected(s, r, n)))
      PROVE  Faithful(w) /\ (FollowsJournal(t, r) => FollowsJournal(t, w))
  <2> DEFINE p == Projected(s, r, n)
             e == Terminated(s, p)
  <2>1. RecordType(p) /\ Grows(r, p)
    BY ProjectedIs
  <2>2. p.through = Advanced(r.through, s, n) /\ p.indexed = IF Ends(s, r, n) THEN r.indexed \cup {s} ELSE r.indexed
    BY ProjectedIs
  <2>3. /\ Len(p.log) \in Nat /\ Len(p.log) >= h
        /\ \A i \in 1 .. h : p.log[i] = r.log[i]
        /\ \A i \in h + 1 .. Len(p.log) : p.log[i].id[1] = s /\ p.log[i].rev = 1 /\ p.log[i].occ = i
    BY NewRows
  <2>4. FollowsJournal(s, r) => FollowsJournal(s, p)
    BY <1>2, ProjectedFollows
  <2> HIDE DEF p
  <2>5. Faithful(p)
    BY <2>1, <2>3, FaithfulGrows
  <2>6. FollowsJournal(t, r) => FollowsJournal(t, p)
    <3>1. CASE t = s
      BY <2>4, <3>1
    <3>2. CASE t # s
      <4>1. p.through[t] = r.through[t] /\ (t \in p.indexed <=> t \in r.indexed)
        BY <1>1, <2>2, <3>2 DEF Advanced
      <4>2. \A i \in h + 1 .. Len(p.log) : ~(p.log[i].id[1] = t /\ p.log[i].rev = 1)
        BY <2>3, <3>2
      <4> QED
        BY <2>3, <4>1, <4>2, FollowsStill
    <3> QED
      BY <3>1, <3>2
  <2>7. RecordType(e) /\ Grows(p, e) /\ e.through = p.through
        /\ \/ e = p
           \/ /\ e.indexed = p.indexed \cup {s}
              /\ Len(e.log) = Len(p.log) + 1 /\ Len(p.log) \in Nat
              /\ e.log[Len(p.log) + 1] = [id |-> <<s, 0>>, occ |-> Len(p.log) + 1, rev |-> 1]
    BY <2>1, TerminatedIs
  <2>8. FollowsJournal(s, p) => FollowsJournal(s, e)
    BY <2>1, TerminatedFollows
  <2> HIDE DEF e
  <2>9. Faithful(e) /\ (FollowsJournal(t, p) => FollowsJournal(t, e))
    <3>1. CASE e = p
      BY <2>5, <3>1
    <3>2. CASE e # p
      <4> DEFINE k == Len(p.log)
      <4>1. /\ e.indexed = p.indexed \cup {s} /\ Len(e.log) = k + 1 /\ k \in Nat
            /\ e.log[k + 1] = [id |-> <<s, 0>>, occ |-> k + 1, rev |-> 1]
        BY <2>7, <3>2
      <4> HIDE DEF k
      <4>2. e.log[k + 1].id[1] = s /\ e.log[k + 1].rev = 1 /\ e.log[k + 1].occ = k + 1
        BY <4>1
      <4>3. \A i \in k + 1 .. Len(e.log) : i = k + 1
        BY <4>1
      <4>4. \A i \in k + 1 .. Len(e.log) : e.log[i].id[1] = s /\ e.log[i].rev = 1 /\ e.log[i].occ = i
        BY <4>2, <4>3
      <4>5. Len(e.log) \in Nat /\ Len(e.log) >= k
        BY <4>1
      <4>6. Faithful(e)
        BY <2>1, <2>5, <2>7, <4>4, FaithfulGrows DEF k
      <4>7. CASE t = s
        BY <2>8, <4>6, <4>7
      <4>8. CASE t # s
        <5>1. e.through[t] = p.through[t] /\ (t \in e.indexed <=> t \in p.indexed)
          BY <2>7, <4>1, <4>8
        <5>2. \A i \in k + 1 .. Len(e.log) : ~(e.log[i].id[1] = t /\ e.log[i].rev = 1)
          BY <4>4, <4>8
        <5>3. \A i \in 1 .. k : e.log[i] = p.log[i]
          BY <2>7 DEF Grows, k
        <5> QED
          BY <2>1, <4>5, <4>6, <5>1, <5>2, <5>3, FollowsStill DEF k
      <4> QED
        BY <4>7, <4>8
    <3> QED
      BY <3>1, <3>2
  <2>10. w \in Pruned(p) \/ w \in Pruned(e)
    BY <1>2 DEF p, e
  <2> QED
    BY <2>1, <2>5, <2>6, <2>7, <2>9, <2>10, PrunedFollows
<1>3. ASSUME NEW id, w \in Pruned(Correlated(r, id))
      PROVE  Faithful(w) /\ (FollowsJournal(t, r) => FollowsJournal(t, w))
  <2> DEFINE c == Correlated(r, id)
  <2>1. /\ RecordType(c) /\ Grows(r, c) /\ c.through = r.through /\ c.indexed = r.indexed
        /\ \/ c = r
           \/ /\ Len(c.log) = h + 1
              /\ \E i \in 1 .. h : r.log[i].rev = 1 /\ c.log[h + 1] = [r.log[i] EXCEPT !.rev = 2]
    BY CorrelatedIs
  <2> HIDE DEF c, h
  <2>2. Faithful(c) /\ (FollowsJournal(t, r) => FollowsJournal(t, c))
    <3>1. CASE c = r
      BY <3>1
    <3>2. CASE c # r
      <4>1. PICK i \in 1 .. h : r.log[i].rev = 1 /\ c.log[h + 1] = [r.log[i] EXCEPT !.rev = 2]
        BY <2>1, <3>2
      <4>2. r.log[i] \in RowRec /\ r.log[i].occ = i
        BY <1>1, <4>1 DEF Faithful, h
      <4>3. c.log[h + 1].rev = 2 /\ c.log[h + 1].occ = i /\ c.log[h + 1].id = r.log[i].id
        BY <4>1, <4>2 DEF RowRec
      <4>4. Len(c.log) = h + 1 /\ \A j \in h + 1 .. Len(c.log) : j = h + 1
        BY <1>1, <2>1, <3>2
      <4>5. \A j \in h + 1 .. Len(c.log) :
              c.log[j].rev = 2 /\ c.log[j].occ \in 1 .. h /\ r.log[c.log[j].occ].id = c.log[j].id
        BY <4>1, <4>3, <4>4
      <4>6. Faithful(c)
        BY <2>1, <4>5, FaithfulGrows DEF h
      <4>7. Len(c.log) \in Nat /\ Len(c.log) >= h
        BY <1>1, <4>4
      <4>8. \A j \in h + 1 .. Len(c.log) : ~(c.log[j].id[1] = t /\ c.log[j].rev = 1)
        BY <4>5
      <4>9. \A j \in 1 .. h : c.log[j] = r.log[j]
        BY <2>1 DEF Grows, h
      <4> QED
        BY <2>1, <4>6, <4>7, <4>8, <4>9, FollowsStill DEF h
    <3> QED
      BY <3>1, <3>2
  <2> QED
    BY <1>3, <2>1, <2>2, PrunedFollows DEF c
<1>4. ASSUME w = Noted(r) PROVE Faithful(w) /\ (FollowsJournal(t, r) => FollowsJournal(t, w))
  <2>1. w.log = r.log /\ w.through = r.through /\ w.indexed = r.indexed
    BY <1>1, <1>4, NotedIs
  <2>2. Shown(t, w) = Shown(t, r)
    BY <2>1 DEF Shown, HeadOf
  <2> QED
    BY <2>1, <2>2 DEF Faithful, FollowsJournal
<1> QED
  BY <1>2, <1>3, <1>4 DEF Outcome

\* Of every log that was not cut the file shows what is projected of it, and the checkpoint is in the log.
Feed ==
  /\ Faithful(disk)
  /\ \A s \in Source \ cut : FollowsJournal(s, disk) /\ disk.through[s] <= Len(journal[s])

\* A new record shows nothing, and is to show nothing.
LEMMA EmptyFollows ==
  ASSUME NEW e \in 0 .. MaxBoots, NEW s \in Source
  PROVE  Faithful(Empty(e)) /\ FollowsJournal(s, Empty(e)) /\ Empty(e).through[s] = 0
<1> DEFINE r == Empty(e)
<1>1. r.log = <<>> /\ Len(r.log) = 0 /\ r.through = [t \in Source |-> 0] /\ r.indexed = {}
  BY EmptyIs
<1> HIDE DEF r
<1>2. r.through[s] = 0
  BY <1>1
<1>3. 1 .. Len(r.log) = {} /\ 1 .. r.through[s] = {}
  BY <1>1, <1>2
<1>4. Shown(s, r) = {}
  BY <1>3 DEF Shown, HeadOf
<1>5. Faithful(r)
  BY <1>3 DEF Faithful
<1>6. FollowsJournal(s, r)
  BY <1>1, <1>3, <1>4 DEF FollowsJournal
<1> QED
  BY <1>2, <1>5, <1>6 DEF r

\* Each step leaves the log of a run alone, lengthens it, or cuts it and records that.
LEMMA LogsKeep ==
  ASSUME TypeOK, [Next]_vars
  PROVE  /\ cut \subseteq cut'
         /\ \A s \in Source \ cut' :
              /\ Len(journal[s]) \in Nat /\ Len(journal'[s]) \in Nat /\ Len(journal[s]) <= Len(journal'[s])
              /\ \A i \in 1 .. Len(journal[s]) : journal'[s][i] = journal[s][i]
<1>1. journal \in [Source -> Seq(Kind)] /\ \A s \in Source : Len(journal[s]) \in Nat
  BY LogsAre, UpdatesAssumption
<1>2. CASE UNCHANGED <<journal, cut>>
  BY <1>1, <1>2
<1>3. ASSUME NEW t \in Source, Event(t) PROVE cut' = cut /\ \A s \in Source :
              /\ Len(journal[s]) \in Nat /\ Len(journal'[s]) \in Nat /\ Len(journal[s]) <= Len(journal'[s])
              /\ \A i \in 1 .. Len(journal[s]) : journal'[s][i] = journal[s][i]
  <2>1. PICK kind \in Kind : journal' = [journal EXCEPT ![t] = Append(@, kind)] /\ cut' = cut
    BY <1>3 DEF Event
  <2>2. /\ \A i \in 1 .. Len(journal[t]) : journal'[t][i] = journal[t][i]
        /\ \A s \in Source : s # t => journal'[s] = journal[s]
        /\ \A s \in Source : Len(journal[s]) \in Nat /\ Len(journal'[s]) \in Nat /\ Len(journal[s]) <= Len(journal'[s])
    BY <2>1, Lengthens
  <2> QED
    BY <2>1, <2>2
<1>4. ASSUME NEW t \in Source, PowerLost(t)
      PROVE  cut' = cut \cup {t} /\ \A s \in Source : s # t => journal'[s] = journal[s]
  <2>1. cut' = cut \cup {t}
    BY <1>4 DEF PowerLost
  <2>2. PICK n \in 1 .. Len(journal[t]) - 1 : journal' = [journal EXCEPT ![t] = SubSeq(@, 1, n)]
    BY <1>4 DEF PowerLost
  <2> QED
    BY <1>1, <2>1, <2>2
<1>5. \/ UNCHANGED <<journal, cut>> \/ \E t \in Source : Event(t) \/ PowerLost(t)
  BY DEF Next, vars, world, Seal, Correlate, Work, Start, Recovered, Close, Closed, Crash, StartFails, SetAside,
         Bootstrap, More, Poll, Page, Recover, EndsUnrecorded
<1>6. CASE \E t \in Source : Event(t)
  BY <1>3, <1>6
<1>7. CASE \E t \in Source : PowerLost(t)
  BY <1>1, <1>4, <1>7
<1> QED
  BY <1>2, <1>5, <1>6, <1>7

\* A record follows a log that agrees with the old one up to the checkpoint.
LEMMA FollowsLonger ==
  ASSUME NEW s \in Source, TypeOK, disk' = disk, FollowsJournal(s, disk), disk.through[s] <= Len(journal[s]),
         Len(journal[s]) \in Nat, \A i \in 1 .. Len(journal[s]) : journal'[s][i] = journal[s][i]
  PROVE  FollowsJournal(s, disk)'
<1>1. disk.through[s] \in Nat
  BY TypeIsType, UpdatesAssumption DEF TypeOK, RecordType
<1>2. \A i \in 1 .. disk.through[s] : journal'[s][i] = journal[s][i]
  BY <1>1
<1>3. Shown(s, disk)' = Shown(s, disk)
  BY DEF Shown, HeadOf
<1>4. {n \in 1 .. disk.through[s] : journal'[s][n] = "reply"} = {n \in 1 .. disk.through[s] : journal[s][n] = "reply"}
  BY <1>2
<1>5. (\E n \in 1 .. disk.through[s] : journal'[s][n] = "end") => (\E n \in 1 .. disk.through[s] : journal[s][n] = "end")
  BY <1>2
<1> QED
  BY <1>3, <1>4, <1>5 DEF FollowsJournal

\* Every step keeps what the file shows.
LEMMA FeedStays ==
  ASSUME Base, Feed, [Next]_vars
  PROVE  Feed'
<1>1. Moves /\ TypeOK /\ RecordType(disk) /\ boots \in 0 .. MaxBoots
  BY StoreMoves, TypeIsType DEF Base, TypeOK
<1>2. boots' \in 0 .. MaxBoots
  BY BaseStays DEF Base, TypeOK
<1>3. CASE disk' = disk
  <2>1. Faithful(disk')
    BY <1>3 DEF Feed
  <2>2. ASSUME NEW s \in Source \ cut'
        PROVE  FollowsJournal(s, disk)' /\ disk'.through[s] <= Len(journal'[s])
    <3>1. /\ s \in Source \ cut
          /\ Len(journal[s]) \in Nat /\ Len(journal'[s]) \in Nat /\ Len(journal[s]) <= Len(journal'[s])
          /\ \A i \in 1 .. Len(journal[s]) : journal'[s][i] = journal[s][i]
      BY <1>1, LogsKeep
    <3>2. FollowsJournal(s, disk) /\ disk.through[s] <= Len(journal[s]) /\ disk.through[s] \in Nat
      BY <1>1, <3>1, UpdatesAssumption DEF Feed, RecordType
    <3>3. FollowsJournal(s, disk)'
      BY <1>1, <1>3, <3>1, <3>2, FollowsLonger
    <3> DEFINE a == disk.through[s]
               b == Len(journal[s])
               c == Len(journal'[s])
    <3> HIDE DEF a, b, c
    <3>4. a <= c
      BY <3>1, <3>2 DEF a, b, c
    <3> QED
      BY <1>3, <3>3, <3>4 DEF a, c
  <2> QED
    BY <2>1, <2>2 DEF Feed, Faithful
<1>4. ASSUME NEW e \in 0 .. MaxBoots, disk' = Empty(e), UNCHANGED <<journal, cut>>
      PROVE  Feed'
  <2>1. ASSUME NEW s \in Source
        PROVE  Faithful(Empty(e)) /\ FollowsJournal(s, Empty(e)) /\ Empty(e).through[s] = 0
    BY EmptyFollows
  <2>2. Faithful(Empty(e))
    BY EmptyIs DEF Faithful
  <2>3. ASSUME NEW s \in Source \ cut'
        PROVE  FollowsJournal(s, disk)' /\ disk'.through[s] <= Len(journal'[s])
    <3>1. FollowsJournal(s, disk)' <=> FollowsJournal(s, Empty(e))
      BY <1>4 DEF FollowsJournal, Shown, HeadOf
    <3>2. Len(journal[s]) \in Nat
      BY <1>1, LogsAre, UpdatesAssumption
    <3> QED
      BY <1>4, <2>1, <3>1, <3>2
  <2>4. Faithful(disk)' <=> Faithful(Empty(e))
    BY <1>4 DEF Faithful
  <2> QED
    BY <2>2, <2>3, <2>4 DEF Feed
<1>5. CASE UNCHANGED world /\ Outcome(disk, disk')
  <2> DEFINE w == disk'
  <2>1. journal' = journal /\ cut' = cut
    BY <1>5 DEF world
  <2>2. ASSUME NEW s \in Source PROVE Faithful(w) /\ (FollowsJournal(s, disk) => FollowsJournal(s, w))
    BY <1>1, <1>5, OutcomeFollows DEF Feed
  <2>3. ASSUME NEW s \in Source
        PROVE  /\ w.through[s] \in Nat /\ disk.through[s] \in Nat
               /\ w.through[s] = disk.through[s] \/ (disk.through[s] <= w.through[s] /\ w.through[s] <= Len(journal[s]))
    BY <1>1, <1>5, Checkpoints
  <2>4. Faithful(disk)'
    <3>1. CASE Source = {}
      <4>1. RecordType(w)
        BY <1>2, RecordsStay
      <4>2. Len(w.log) \in Nat /\ \A i \in 1 .. Len(w.log) : w.log[i] \in RowRec
        BY <4>1, LenProperties, ElementOfSeq DEF RecordType
      <4>3. \A i \in 1 .. Len(w.log) : FALSE
        BY <3>1, <4>2 DEF RowRec
      <4> QED
        BY <4>3 DEF Faithful
    <3>2. CASE Source # {}
      <4>1. Faithful(w)
        BY <2>2, <3>2
      <4> QED
        BY <4>1 DEF Faithful
    <3> QED
      BY <3>1, <3>2
  <2>5. ASSUME NEW s \in Source \ cut'
        PROVE  FollowsJournal(s, disk)' /\ disk'.through[s] <= Len(journal'[s])
    <3>1. FollowsJournal(s, disk) /\ disk.through[s] <= Len(journal[s])
      BY <2>1 DEF Feed
    <3>2. FollowsJournal(s, w)
      BY <2>2, <3>1
    <3>3. FollowsJournal(s, disk)' <=> FollowsJournal(s, w)
      BY <2>1 DEF FollowsJournal, Shown, HeadOf
    <3>4. w.through[s] <= Len(journal[s])
      BY <2>3, <3>1
    <3> QED
      BY <2>1, <3>2, <3>3, <3>4
  <2> QED
    BY <2>4, <2>5 DEF Feed
<1>6. CASE disk' = Absent /\ UNCHANGED <<journal, cut>>
  BY <1>4, <1>6, UpdatesAssumption DEF Absent
<1>7. CASE disk' = Empty(boots') /\ UNCHANGED <<journal, cut>>
  BY <1>2, <1>4, <1>7
<1> QED
  BY <1>1, <1>3, <1>5, <1>6, <1>7 DEF Moves

\* Through crashes, failed writes, pruning and replays, the feed shows of each log that was not cut
\* exactly what it holds up to the checkpoint.
THEOREM FeedIsFaithful == Spec => []FeedFollowsJournal
<1>1. Init => Feed
  <2> SUFFICES ASSUME Init PROVE Feed
    OBVIOUS
  <2>1. disk = Empty(0) /\ 0 \in 0 .. MaxBoots /\ \A s \in Source : journal[s] = <<>>
    BY UpdatesAssumption DEF Init, Absent
  <2>2. Faithful(disk)
    BY <2>1, EmptyIs DEF Faithful
  <2>3. ASSUME NEW s \in Source PROVE FollowsJournal(s, disk) /\ disk.through[s] <= Len(journal[s])
    BY <2>1, EmptyFollows, EmptySeq
  <2> QED
    BY <2>2, <2>3 DEF Feed
<1>2. Feed => FeedFollowsJournal
  BY DEF Feed, Faithful, FeedFollowsJournal, HeadOf
<1>3. Base /\ Feed /\ [Next]_vars => Feed'
  BY FeedStays
<1> QED
  BY <1>1, <1>2, <1>3, BaseHolds, PTL DEF Spec
===============================================================================
