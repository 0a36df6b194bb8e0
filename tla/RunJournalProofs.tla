--------------------------- MODULE RunJournalProofs ---------------------------
(* The safety of RunJournal for any runs, any lengths of their logs and any  *)
(* number of starts.  While the writer works, a log that is open is the      *)
(* beginning of the run's events in memory; an absent log is empty; and what *)
(* a fence has synced is a beginning that neither a drain nor the loss of    *)
(* the power takes.  The records of earlier boots come first in a log, and   *)
(* what the callbacks are told is what follows them.                         *)
EXTENDS RunJournal, SequenceTheorems, FiniteSetTheorems, TLAPS

StateRec == [held : BOOLEAN, made : BOOLEAN, appended : 0 .. MaxSeq]
FileRec == [there : BOOLEAN, log : Seq(Record), torn : BOOLEAN]

\* The variables are functions of the runs, and logs keep their bound.
Shape ==
  /\ up \in BOOLEAN /\ failed \in BOOLEAN /\ boot \in 0 .. MaxBoots /\ (up => boot > 0)
  /\ list \in [Run -> Seq(Record)] /\ state \in [Run -> StateRec]
  /\ told \in [Run -> Seq(1 .. MaxSeq)] /\ flushed \in [Run -> Seq(Record)]
  /\ file \in [Run -> FileRec] /\ kept \in [Run -> Nat]
  /\ queue \in Seq(Run \X (1 .. MaxSeq))
  /\ loaded \subseteq Run /\ excluded \subseteq Run /\ rewritten \subseteq Run
  /\ \A r \in Run : Len(list[r]) <= MaxSeq /\ Len(file[r].log) <= MaxSeq /\ kept[r] <= Len(file[r].log)

\* What the writer remembers of a file fits the records in memory.
Writer ==
  \A r \in Run :
    /\ state[r].made => state[r].held
    /\ ~state[r].made => state[r].appended = 0
    /\ state[r].appended <= Len(list[r])
    /\ Works /\ r \in excluded => ~state[r].held

\* A commit waits for a record of a log the writer holds.
Commits ==
  Works => \A i \in 1 .. Len(queue) :
    state[queue[i][1]].held /\ queue[i][2] <= Len(list[queue[i][1]])

\* An absent file has nothing; what is not the writer's is alone in its file.
Clean(log) == \A n \in 1 .. Len(log) : log[n] # Alien
Files ==
  \A r \in Run :
    /\ ~file[r].there => file[r].log = <<>> /\ ~file[r].torn
    /\ Clean(list[r])
    /\ file[r].log = <<Alien>> \/ Clean(file[r].log)

\* What was synced is the beginning of the file that cannot be lost.
Durable ==
  \A r \in Run \ rewritten : Len(flushed[r]) <= kept[r] /\ IsPrefix(flushed[r], file[r].log)

Facts == Writer /\ Commits /\ FileFollowsMemory /\ Files /\ Durable

IInv == Shape /\ Facts

----------------------------------------------------------------------------
(* Logs. *)

\* The first n records of a log, one by one.
LEMMA FirstIs ==
  ASSUME NEW S, NEW log \in Seq(S), NEW n \in 0 .. Len(log)
  PROVE  /\ First(log, n) \in Seq(S) /\ Len(First(log, n)) = n
         /\ \A i \in 1 .. n : First(log, n)[i] = log[i]
<1>1. Len(log) \in Nat /\ \A i \in 1 .. n : log[i] \in S
  BY LenProperties, ElementOfSeq
<1>2. /\ SubSeq(log, 1, n) \in Seq(S)
      /\ Len(SubSeq(log, 1, n)) = IF 1 <= n THEN n - 1 + 1 ELSE 0
      /\ \A i \in 1 .. n - 1 + 1 : SubSeq(log, 1, n)[i] = log[1 + i - 1]
  BY <1>1, SubSeqProperties
<1> QED
  BY <1>1, <1>2 DEF First

\* A prefix, record by record.
LEMMA PrefixIs ==
  ASSUME NEW S, NEW s \in Seq(S), NEW t \in Seq(S)
  PROVE  IsPrefix(s, t) <=> Len(s) <= Len(t) /\ \A i \in 1 .. Len(s) : s[i] = t[i]
<1>1. Len(s) \in Nat /\ Len(t) \in Nat
  BY LenProperties
<1>2. First(s, Len(s)) \in Seq(S) /\ Len(First(s, Len(s))) = Len(s)
      /\ \A i \in 1 .. Len(s) : First(s, Len(s))[i] = s[i]
  BY <1>1, FirstIs
<1>3. ASSUME Len(s) <= Len(t)
      PROVE  /\ First(t, Len(s)) \in Seq(S) /\ Len(First(t, Len(s))) = Len(s)
             /\ \A i \in 1 .. Len(s) : First(t, Len(s))[i] = t[i]
  <2>1. Len(s) \in 0 .. Len(t)
    BY <1>1, <1>3
  <2> QED
    BY <2>1, FirstIs
<1>4. ASSUME Len(s) <= Len(t), \A i \in 1 .. Len(s) : s[i] = t[i]
      PROVE  First(s, Len(s)) = First(t, Len(s))
  BY <1>2, <1>3, <1>4, SeqEqual
<1>5. IsPrefix(s, t) <=> Len(s) <= Len(t) /\ First(s, Len(s)) = First(t, Len(s))
  BY DEF IsPrefix, First
<1> QED
  BY <1>2, <1>3, <1>4, <1>5

\* A later stretch of a log continues what precedes it.
LEMMA StretchIs ==
  ASSUME NEW S, NEW log \in Seq(S), NEW a \in 0 .. Len(log), NEW n \in 0 .. Len(log), a < n
  PROVE  /\ SubSeq(log, a + 1, n) \in Seq(S) /\ Len(SubSeq(log, a + 1, n)) = n - a
         /\ \A i \in 1 .. n - a : SubSeq(log, a + 1, n)[i] = log[a + i]
<1>1. Len(log) \in Nat /\ a \in Int /\ n \in Int /\ a + 1 \in Int /\ a + 1 <= n /\ a >= 0 /\ n <= Len(log)
  BY LenProperties
<1>2. \A i \in a + 1 .. n : log[i] \in S
  BY <1>1, ElementOfSeq
<1>3. /\ SubSeq(log, a + 1, n) \in Seq(S)
      /\ Len(SubSeq(log, a + 1, n)) = IF a + 1 <= n THEN n - (a + 1) + 1 ELSE 0
      /\ \A i \in 1 .. n - (a + 1) + 1 : SubSeq(log, a + 1, n)[i] = log[(a + 1) + i - 1]
  <2> DEFINE m == a + 1
  <2>1. m \in Int /\ n \in Int /\ \A i \in m .. n : log[i] \in S
    BY <1>1, <1>2
  <2> HIDE DEF m
  <2>2. /\ SubSeq(log, m, n) \in Seq(S)
        /\ Len(SubSeq(log, m, n)) = IF m <= n THEN n - m + 1 ELSE 0
        /\ \A i \in 1 .. n - m + 1 : SubSeq(log, m, n)[i] = log[m + i - 1]
    BY <2>1, SubSeqProperties
  <2> QED
    BY <2>2 DEF m
<1>4. n - (a + 1) + 1 = n - a /\ \A i \in 1 .. n - a : (a + 1) + i - 1 = a + i
  BY <1>1
<1> QED
  BY <1>1, <1>3, <1>4

\* The beginning of a log, and the beginning of what follows it, are one beginning.
LEMMA FirstExtends ==
  ASSUME NEW S, NEW log \in Seq(S), NEW a \in 0 .. Len(log), NEW n \in 0 .. Len(log), a < n,
         NEW k \in 0 .. n - a
  PROVE  First(log, a) \o First(SubSeq(log, a + 1, n), k) = First(log, a + k)
<1> DEFINE head == First(log, a)
           more == First(SubSeq(log, a + 1, n), k)
           all == First(log, a + k)
<1>1. Len(log) \in Nat /\ a \in Nat /\ n \in Nat /\ k \in Nat /\ a + k \in 0 .. Len(log)
  BY LenProperties
<1>2. head \in Seq(S) /\ Len(head) = a /\ \A i \in 1 .. a : head[i] = log[i]
  BY FirstIs
<1>3. all \in Seq(S) /\ Len(all) = a + k /\ \A i \in 1 .. a + k : all[i] = log[i]
  BY <1>1, FirstIs
<1>4. more \in Seq(S) /\ Len(more) = k /\ \A i \in 1 .. k : more[i] = log[a + i]
  <2>1. /\ SubSeq(log, a + 1, n) \in Seq(S) /\ Len(SubSeq(log, a + 1, n)) = n - a
        /\ \A i \in 1 .. n - a : SubSeq(log, a + 1, n)[i] = log[a + i]
    BY StretchIs
  <2>2. k \in 0 .. Len(SubSeq(log, a + 1, n))
    BY <2>1
  <2>3. more \in Seq(S) /\ Len(more) = k /\ \A i \in 1 .. k : more[i] = SubSeq(log, a + 1, n)[i]
    BY <2>1, <2>2, FirstIs
  <2> QED
    BY <1>1, <2>1, <2>3
<1> HIDE DEF head, more, all
<1>5. /\ head \o more \in Seq(S) /\ Len(head \o more) = a + k
      /\ \A i \in 1 .. Len(head) + Len(more) : (head \o more)[i] = IF i <= Len(head) THEN head[i] ELSE more[i - Len(head)]
  <2>1. /\ head \o more \in Seq(S) /\ Len(head \o more) = Len(head) + Len(more)
        /\ \A i \in 1 .. Len(head) + Len(more) :
             (head \o more)[i] = IF i <= Len(head) THEN head[i] ELSE more[i - Len(head)]
    BY <1>2, <1>4, ConcatProperties
  <2> QED
    BY <1>2, <1>4, <2>1
<1>6. \A i \in 1 .. a + k : (head \o more)[i] = all[i]
  <2> TAKE i \in 1 .. a + k
  <2>1. CASE i <= a
    BY <1>1, <1>2, <1>3, <1>4, <1>5, <2>1
  <2>2. CASE i > a
    <3>1. i - a \in 1 .. k /\ a + (i - a) = i /\ ~(i <= a) /\ i \in 1 .. Len(head) + Len(more)
      BY <1>1, <1>2, <1>4, <2>2
    <3>2. (head \o more)[i] = more[i - a]
      BY <1>2, <1>5, <3>1
    <3>3. more[i - a] = log[a + (i - a)]
      BY <1>4, <3>1
    <3> QED
      BY <1>3, <3>1, <3>2, <3>3
  <2>3. i <= a \/ i > a
    BY <1>1
  <2> QED
    BY <2>1, <2>2, <2>3
<1>7. head \o more = all
  BY <1>3, <1>5, <1>6, SeqEqual
<1> QED
  BY <1>7 DEF head, more, all

\* An open log holds the records that were appended to it.
LEMMA OpenLog ==
  ASSUME IInv, Works, NEW r \in Run, Opens(r), state[r].held
  PROVE  /\ file[r].log = First(list[r], state[r].appended) /\ ~file[r].torn
         /\ list[r] \in Seq(Record) /\ Len(list[r]) \in Nat /\ state[r].appended \in 0 .. Len(list[r])
<1>1. list[r] \in Seq(Record) /\ Len(list[r]) \in Nat /\ state[r].appended \in 0 .. Len(list[r])
  BY LenProperties DEF IInv, Shape, StateRec, Facts, Writer
<1>2. CASE state[r].made
  BY <1>1, <1>2 DEF IInv, Facts, FileFollowsMemory
<1>3. CASE ~state[r].made
  <2>1. file[r].log = <<>> /\ ~file[r].torn /\ state[r].appended = 0
    BY <1>3 DEF Opens, IInv, Facts, Files, Writer
  <2>2. First(list[r], 0) = <<>>
    BY SubSeqEmpty, 0 \in Int, 1 \in Int, 0 < 1 DEF First
  <2> QED
    BY <1>1, <2>1, <2>2
<1> QED
  BY <1>2, <1>3

\* What a drain appends to an open log.
LEMMA DueExtends ==
  ASSUME IInv, Works, NEW r \in Run, Opens(r), state[r].held, NEW n \in 1 .. Len(list[r])
  PROVE  /\ Due(r, n) \in Seq(Record)
         /\ Len(Due(r, n)) = IF n > state[r].appended THEN n - state[r].appended ELSE 0
         /\ \A k \in 0 .. Len(Due(r, n)) :
              /\ file[r].log \o First(Due(r, n), k) = First(list[r], state[r].appended + k)
              /\ state[r].appended + k \in 0 .. Len(list[r])
<1> DEFINE a == state[r].appended
           log == list[r]
<1>1. log \in Seq(Record) /\ Len(log) \in Nat /\ a \in 0 .. Len(log) /\ n \in 0 .. Len(log)
  BY OpenLog
<1>2. file[r].log = First(log, a)
  BY OpenLog
<1>3. Due(r, n) = IF n > a THEN SubSeq(log, a + 1, n) ELSE <<>>
  BY DEF Due
<1> HIDE DEF a, log
<1>4. CASE ~(n > a)
  <2>1. Due(r, n) = <<>> /\ <<>> \in Seq(Record) /\ Len(<<>>) = 0
    BY <1>3, <1>4, EmptySeq
  <2>2. First(<<>>, 0) = <<>>
    BY SubSeqEmpty, 0 \in Int, 1 \in Int, 0 < 1 DEF First
  <2>3. First(log, a) \o <<>> = First(log, a)
    BY <1>1, FirstIs, ConcatEmptySeq
  <2>4. ASSUME NEW k \in 0 .. Len(Due(r, n))
        PROVE  file[r].log \o First(Due(r, n), k) = First(log, a + k) /\ a + k \in 0 .. Len(log)
    <3>1. k = 0 /\ a + k = a
      BY <1>1, <2>1
    <3> QED
      BY <1>1, <1>2, <2>1, <2>2, <2>3, <3>1
  <2>5. Due(r, n) \in Seq(Record) /\ Len(Due(r, n)) = IF n > a THEN n - a ELSE 0
    BY <1>4, <2>1
  <2> QED
    BY <2>4, <2>5 DEF a, log
<1>5. CASE n > a
  <2>1. Due(r, n) = SubSeq(log, a + 1, n) /\ a < n
    BY <1>1, <1>3, <1>5
  <2>2. Due(r, n) \in Seq(Record) /\ Len(Due(r, n)) = n - a
    BY <1>1, <2>1, StretchIs
  <2>3. ASSUME NEW k \in 0 .. n - a
        PROVE  file[r].log \o First(Due(r, n), k) = First(log, a + k) /\ a + k \in 0 .. Len(log)
    <3>1. First(log, a) \o First(SubSeq(log, a + 1, n), k) = First(log, a + k)
      BY <1>1, <2>1, FirstExtends
    <3>2. a + k \in 0 .. Len(log)
      BY <1>1, <2>1
    <3> QED
      BY <1>2, <2>1, <3>1, <3>2
  <2> QED
    BY <1>5, <2>2, <2>3 DEF a, log
<1> QED
  BY <1>4, <1>5

\* A drain leaves a longer beginning of the records, whole or cut short by an error.
Wrote(r, m, torn) ==
  /\ file' \in [Run -> FileRec] /\ \A q \in Run \ {r} : file'[q] = file[q]
  /\ file'[r].there /\ file'[r].log = First(list[r], m) /\ file'[r].torn = torn

\* A drain writes the beginning of the run's events up to some record, and nothing else.
LEMMA Drained ==
  ASSUME IInv, Works, NEW r \in Run, state[r].held, NEW n \in 1 .. Len(list[r]), Drains(r, n)
  PROVE  \E m \in state[r].appended .. Len(list[r]) :
           /\ Wrote(r, m, FALSE)
           /\ state' \in [Run -> StateRec] /\ \A q \in Run \ {r} : state'[q] = state[q]
           /\ state'[r].held /\ state'[r].made /\ state'[r].appended = m
           /\ told' \in [Run -> Seq(1 .. MaxSeq)]
<1> DEFINE m == state[r].appended + Len(Due(r, n))
<1>1. /\ file[r].log = First(list[r], state[r].appended) /\ ~file[r].torn
      /\ list[r] \in Seq(Record) /\ Len(list[r]) \in Nat /\ state[r].appended \in 0 .. Len(list[r])
  BY OpenLog DEF Drains
<1>2. /\ Due(r, n) \in Seq(Record)
      /\ Len(Due(r, n)) = IF n > state[r].appended THEN n - state[r].appended ELSE 0
      /\ \A k \in 0 .. Len(Due(r, n)) :
           /\ file[r].log \o First(Due(r, n), k) = First(list[r], state[r].appended + k)
           /\ state[r].appended + k \in 0 .. Len(list[r])
  BY DueExtends DEF Drains
<1>3. /\ Len(Due(r, n)) \in Nat /\ Len(Due(r, n)) \in 0 .. Len(Due(r, n))
      /\ First(Due(r, n), Len(Due(r, n))) = Due(r, n)
  BY <1>2, LenProperties, SubSeqFull DEF First
<1>4. file[r].log \o Due(r, n) = First(list[r], m) /\ m \in 0 .. Len(list[r])
  <2>1. file[r].log \o First(Due(r, n), Len(Due(r, n))) = First(list[r], m) /\ m \in 0 .. Len(list[r])
    BY <1>2, <1>3
  <2> QED
    BY <1>3, <2>1
<1>5. Wrote(r, m, FALSE)
  <2>1. First(list[r], m) \in Seq(Record)
    BY <1>1, <1>4, FirstIs
  <2>2. file' = [file EXCEPT ![r].there = TRUE, ![r].log = @ \o Due(r, n)] /\ file \in [Run -> FileRec]
    BY DEF Drains, IInv, Shape
  <2> QED
    BY <1>1, <1>4, <2>1, <2>2 DEF Wrote, FileRec
<1>6. /\ state' \in [Run -> StateRec] /\ \A q \in Run \ {r} : state'[q] = state[q]
      /\ state'[r].held /\ state'[r].made /\ state'[r].appended = m
  <2>1. m \in 0 .. MaxSeq /\ state \in [Run -> StateRec]
    BY <1>1, <1>4, JournalAssumption DEF IInv, Shape
  <2> QED
    BY <2>1 DEF Drains, StateRec
<1>7. told' \in [Run -> Seq(1 .. MaxSeq)]
  <2> DEFINE new == [i \in 1 .. Len(Due(r, n)) |-> state[r].appended + i]
  <2>1. MaxSeq \in Nat /\ Len(list[r]) <= MaxSeq
    BY JournalAssumption DEF IInv, Shape
  <2>2. \A i \in 1 .. Len(Due(r, n)) : state[r].appended + i \in 1 .. MaxSeq
    <3>1. \A a, d, l \in Nat : a + d <= l /\ l <= MaxSeq => \A i \in 1 .. d : a + i \in 1 .. MaxSeq
      BY <2>1
    <3>2. state[r].appended \in Nat /\ state[r].appended + Len(Due(r, n)) <= Len(list[r])
      BY <1>1, <1>4
    <3> QED
      BY <1>1, <1>3, <2>1, <3>1, <3>2
  <2>3. new \in Seq(1 .. MaxSeq)
    BY <1>3, <2>2
  <2>4. told[r] \o new \in Seq(1 .. MaxSeq)
    BY <2>3, ConcatProperties DEF IInv, Shape
  <2> QED
    BY <2>4 DEF Drains, Tells, IInv, Shape
<1>8. m \in state[r].appended .. Len(list[r])
  BY <1>1, <1>3, <1>4
<1> QED
  BY <1>5, <1>6, <1>7, <1>8

\* A drain that fails latches the writer and leaves a beginning of the run's events.
LEMMA DrainStopped ==
  ASSUME IInv, Works, NEW r \in Run, state[r].held, NEW n \in 1 .. Len(list[r]), DrainFails(r, n)
  PROVE  /\ failed' = TRUE /\ UNCHANGED <<state, told>>
         /\ \/ UNCHANGED file
            \/ /\ Opens(r)
               /\ \E m \in state[r].appended .. Len(list[r]), torn \in BOOLEAN : Wrote(r, m, torn)
<1>1. CASE ~Opens(r)
  BY <1>1 DEF DrainFails
<1>2. CASE Opens(r)
  <2>1. PICK k \in 0 .. Len(Due(r, n)), torn \in BOOLEAN :
          file' = [file EXCEPT ![r] = [there |-> TRUE, log |-> @.log \o First(Due(r, n), k), torn |-> torn]]
    BY <1>2 DEF DrainFails
  <2>2. /\ file[r].log \o First(Due(r, n), k) = First(list[r], state[r].appended + k)
        /\ state[r].appended + k \in 0 .. Len(list[r])
    BY <1>2, DueExtends
  <2>3. state[r].appended + k \in state[r].appended .. Len(list[r])
    BY <1>2, <2>2, OpenLog
  <2>4. Wrote(r, state[r].appended + k, torn)
    <3>1. First(list[r], state[r].appended + k) \in Seq(Record)
      BY <1>2, <2>2, OpenLog, FirstIs
    <3>2. file \in [Run -> FileRec]
      BY DEF IInv, Shape
    <3> QED
      BY <2>1, <2>2, <3>1, <3>2 DEF Wrote, FileRec
  <2> QED
    BY <1>2, <2>3, <2>4 DEF DrainFails
<1> QED
  BY <1>1, <1>2

\* What is left of a log after the process has stopped: at least what was synced.
LEMMA Remaining ==
  ASSUME IInv, up, NEW r \in Run, NEW f \in Remains(r), f.log # <<>> \/ f.torn => f.there
  PROVE  /\ f \in FileRec /\ Len(f.log) <= MaxSeq /\ kept[r] <= Len(f.log)
         /\ f.log = <<Alien>> \/ Clean(f.log)
         /\ \A i \in 1 .. kept[r] : f.log[i] = file[r].log[i]
         /\ ~f.there => f.log = <<>> /\ ~f.torn
<1> DEFINE writing == ~failed /\ state[r].held /\ Opens(r)
           whole == IF writing THEN list[r] ELSE file[r].log
<1>0. /\ file[r].log \in Seq(Record) /\ file[r].there \in BOOLEAN /\ Len(file[r].log) \in Nat /\ kept[r] \in Nat
      /\ kept[r] <= Len(file[r].log) /\ writing \in BOOLEAN
  BY LenProperties DEF IInv, Shape, FileRec
<1>1. /\ whole \in Seq(Record) /\ Len(whole) \in Nat /\ Len(whole) <= MaxSeq
      /\ kept[r] <= Len(whole) /\ \A i \in 1 .. kept[r] : whole[i] = file[r].log[i]
      /\ whole = <<Alien>> \/ Clean(whole)
  <2>1. CASE writing
    <3>1. /\ file[r].log = First(list[r], state[r].appended)
          /\ list[r] \in Seq(Record) /\ Len(list[r]) \in Nat /\ state[r].appended \in 0 .. Len(list[r])
      BY <2>1, OpenLog DEF Works
    <3>2. Len(file[r].log) = state[r].appended
          /\ \A i \in 1 .. state[r].appended : file[r].log[i] = list[r][i]
      BY <3>1, FirstIs
    <3>3. Len(list[r]) <= MaxSeq /\ Clean(list[r])
      BY DEF IInv, Shape, Facts, Files
    <3> QED
      BY <1>0, <2>1, <3>1, <3>2, <3>3
  <2>2. CASE ~writing
    BY <1>0, <2>2 DEF IInv, Shape, Facts, Files
  <2> QED
    BY <2>1, <2>2
<1>2. PICK there \in {file[r].there, writing \/ file[r].there}, n \in kept[r] .. Len(whole), torn \in BOOLEAN :
        f = [there |-> there, log |-> First(whole, n), torn |-> torn]
  BY DEF Remains
<1> HIDE DEF whole
<1>3. n \in 0 .. Len(whole) /\ kept[r] <= n
  BY <1>0, <1>1, <1>2
<1>4. First(whole, n) \in Seq(Record) /\ Len(First(whole, n)) = n /\ \A i \in 1 .. n : First(whole, n)[i] = whole[i]
  BY <1>1, <1>3, FirstIs
<1>5. f \in FileRec
  BY <1>0, <1>2, <1>4 DEF FileRec
<1>6. Len(f.log) <= MaxSeq /\ kept[r] <= Len(f.log)
  BY <1>1, <1>2, <1>3, <1>4, JournalAssumption
<1>7. \A i \in 1 .. kept[r] : f.log[i] = file[r].log[i]
  BY <1>0, <1>1, <1>2, <1>3, <1>4
<1>8. f.log = <<Alien>> \/ Clean(f.log)
  <2>1. CASE Clean(whole)
    BY <1>1, <1>2, <1>3, <1>4, <2>1 DEF Clean
  <2>2. CASE whole = <<Alien>>
    <3>1. Len(whole) = 1
      BY <2>2
    <3>2. CASE n = 0
      BY <1>2, <1>4, <3>2 DEF Clean
    <3>3. CASE n = 1
      <4>1. First(whole, n) = whole
        BY <1>1, <1>4, <3>1, <3>3, SeqEqual
      <4> QED
        BY <1>2, <2>2, <4>1
    <3> QED
      BY <1>3, <3>1, <3>2, <3>3
  <2> QED
    BY <1>1, <2>1, <2>2
<1>9. ~f.there => f.log = <<>> /\ ~f.torn
  BY <1>2
<1> QED
  BY <1>5, <1>6, <1>7, <1>8, <1>9

\* A record is appended to the records in memory.
LEMMA FirstOfAppend ==
  ASSUME NEW S, NEW log \in Seq(S), NEW x \in S, NEW n \in 0 .. Len(log)
  PROVE  First(Append(log, x), n) = First(log, n)
<1>1. /\ Append(log, x) \in Seq(S) /\ Len(Append(log, x)) = Len(log) + 1 /\ Len(log) \in Nat
      /\ \A i \in 1 .. Len(log) : Append(log, x)[i] = log[i]
  BY LenProperties
<1>2. n \in 0 .. Len(Append(log, x))
  BY <1>1
<1>3. /\ First(log, n) \in Seq(S) /\ Len(First(log, n)) = n /\ \A i \in 1 .. n : First(log, n)[i] = log[i]
  BY FirstIs
<1>4. /\ First(Append(log, x), n) \in Seq(S) /\ Len(First(Append(log, x), n)) = n
      /\ \A i \in 1 .. n : First(Append(log, x), n)[i] = Append(log, x)[i]
  BY <1>1, <1>2, FirstIs
<1>5. \A i \in 1 .. n : First(Append(log, x), n)[i] = First(log, n)[i]
  BY <1>1, <1>3, <1>4
<1> QED
  BY <1>3, <1>4, <1>5, SeqEqual

\* The first commit of the queue, and the queue without it.
LEMMA Commits1 ==
  ASSUME IInv, queue # <<>>
  PROVE  /\ Head(queue)[1] \in Run /\ Head(queue)[2] \in 1 .. MaxSeq
         /\ Works => /\ state[Head(queue)[1]].held
                     /\ Head(queue)[2] \in 1 .. Len(list[Head(queue)[1]])
         /\ Tail(queue) \in Seq(Run \X (1 .. MaxSeq))
         /\ Len(Tail(queue)) = Len(queue) - 1 /\ Len(queue) \in Nat
         /\ \A i \in 1 .. Len(queue) - 1 : Tail(queue)[i] = queue[i + 1]
<1>1. queue \in Seq(Run \X (1 .. MaxSeq)) /\ Len(queue) \in Nat /\ Len(queue) > 0
  BY EmptySeq, LenProperties DEF IInv, Shape
<1>2. Head(queue) = queue[1] /\ Head(queue) \in Run \X (1 .. MaxSeq)
  BY <1>1, HeadTailProperties
<1>3. /\ Tail(queue) \in Seq(Run \X (1 .. MaxSeq)) /\ Len(Tail(queue)) = Len(queue) - 1
      /\ \A i \in 1 .. Len(queue) - 1 : Tail(queue)[i] = queue[i + 1]
  BY <1>1, HeadTailProperties
<1>4. Works => state[queue[1][1]].held /\ queue[1][2] <= Len(list[queue[1][1]])
  BY <1>1 DEF IInv, Facts, Commits
<1>5. Head(queue)[1] \in Run /\ Head(queue)[2] \in 1 .. MaxSeq
  BY <1>2
<1>6. Len(list[Head(queue)[1]]) \in Nat
  BY <1>5, LenProperties DEF IInv, Shape
<1> QED
  BY <1>1, <1>2, <1>3, <1>4, <1>5, <1>6

\* A drain, by a commit or a fence, keeps what is true of every log but the durable
\* part, which it never shortens.
LEMMA DrainFacts ==
  ASSUME IInv, Works, NEW r \in Run, state[r].held, NEW n \in 1 .. Len(list[r]),
         Drains(r, n) \/ DrainFails(r, n), UNCHANGED <<up, boot, list, loaded, excluded>>
  PROVE  /\ failed' \in BOOLEAN /\ file' \in [Run -> FileRec] /\ state' \in [Run -> StateRec]
         /\ told' \in [Run -> Seq(1 .. MaxSeq)]
         /\ \A q \in Run : /\ Len(file'[q].log) <= MaxSeq /\ Len(file[q].log) <= Len(file'[q].log)
                           /\ IsPrefix(file[q].log, file'[q].log) /\ state'[q].held = state[q].held
         /\ Writer' /\ FileFollowsMemory' /\ Files'
         /\ \A q \in Run \ {r} : file'[q] = file[q]
         /\ ~Opens(r) => file' = file
<1> /\ file \in [Run -> FileRec] /\ state \in [Run -> StateRec] /\ told \in [Run -> Seq(1 .. MaxSeq)]
    /\ \A q \in Run : file[q].log \in Seq(Record) /\ Len(file[q].log) \in Nat /\ Len(file[q].log) <= MaxSeq
  BY LenProperties DEF IInv, Shape, FileRec
<1>1. \A q \in Run : IsPrefix(file[q].log, file[q].log)
  BY PrefixIs
<1>2. ASSUME NEW m \in state[r].appended .. Len(list[r]), NEW torn \in BOOLEAN, Wrote(r, m, torn), Opens(r)
      PROVE  /\ file'[r].log \in Seq(Record) /\ Len(file'[r].log) = m /\ m <= MaxSeq
             /\ IsPrefix(file[r].log, file'[r].log) /\ Len(file[r].log) <= Len(file'[r].log)
             /\ Clean(file'[r].log)
  <2>1. /\ file[r].log = First(list[r], state[r].appended)
        /\ list[r] \in Seq(Record) /\ Len(list[r]) \in Nat /\ state[r].appended \in 0 .. Len(list[r])
    BY <1>2, OpenLog
  <2>2. m \in 0 .. Len(list[r]) /\ state[r].appended <= m
    BY <2>1
  <2>3. Len(file[r].log) = state[r].appended
        /\ \A i \in 1 .. state[r].appended : file[r].log[i] = list[r][i]
    <3>1. LET log == First(list[r], state[r].appended) IN
            Len(log) = state[r].appended /\ \A i \in 1 .. state[r].appended : log[i] = list[r][i]
      <4>1. list[r] \in Seq(Record) /\ state[r].appended \in 0 .. Len(list[r])
        BY <2>1
      <4> QED
        BY <4>1, FirstIs
    <3> QED
      BY <2>1, <3>1
  <2>4. file'[r].log \in Seq(Record) /\ Len(file'[r].log) = m /\ \A i \in 1 .. m : file'[r].log[i] = list[r][i]
    <3>1. LET log == First(list[r], m) IN
            log \in Seq(Record) /\ Len(log) = m /\ \A i \in 1 .. m : log[i] = list[r][i]
      BY <2>1, <2>2, FirstIs
    <3> QED
      BY <1>2, <3>1 DEF Wrote
  <2>5. Clean(list[r]) /\ Len(list[r]) <= MaxSeq /\ MaxSeq \in Nat
    BY JournalAssumption DEF IInv, Shape, Facts, Files
  <2>6. IsPrefix(file[r].log, file'[r].log)
    <3>1. Len(file[r].log) <= Len(file'[r].log)
      BY <2>2, <2>3, <2>4
    <3>2. \A i \in 1 .. Len(file[r].log) : file[r].log[i] = file'[r].log[i]
      BY <2>1, <2>2, <2>3, <2>4
    <3> QED
      BY <2>4, <3>1, <3>2, PrefixIs
  <2>7. Clean(file'[r].log)
    <3>1. \A i \in 1 .. m : i \in 1 .. Len(list[r])
      BY <2>1, <2>2
    <3> QED
      BY <2>4, <2>5, <3>1 DEF Clean
  <2>8. m <= MaxSeq
    BY <2>1, <2>2, <2>5
  <2> QED
    BY <2>2, <2>3, <2>4, <2>6, <2>7, <2>8
<1>3. CASE UNCHANGED <<file, state, told>> /\ failed' = TRUE
  BY <1>1, <1>3 DEF IInv, Facts, Writer, FileFollowsMemory, Files, Works
<1>4. CASE Opens(r) /\ (\E m \in state[r].appended .. Len(list[r]), torn \in BOOLEAN : Wrote(r, m, torn))
           /\ failed' = TRUE /\ UNCHANGED <<state, told>>
  <2>1. PICK m \in state[r].appended .. Len(list[r]), torn \in BOOLEAN : Wrote(r, m, torn)
    BY <1>4
  <2>2. /\ Len(file'[r].log) <= MaxSeq
        /\ IsPrefix(file[r].log, file'[r].log) /\ Len(file[r].log) <= Len(file'[r].log) /\ Clean(file'[r].log)
    BY <1>2, <1>4, <2>1
  <2>3. Files'
    BY <2>1, <2>2 DEF Wrote, IInv, Facts, Files
  <2>4. Writer' /\ FileFollowsMemory'
    BY <1>4 DEF IInv, Facts, Writer, FileFollowsMemory, Works
  <2>5. \A q \in Run : /\ Len(file'[q].log) <= MaxSeq /\ Len(file[q].log) <= Len(file'[q].log)
                      /\ IsPrefix(file[q].log, file'[q].log)
    <3> TAKE q \in Run
    <3>1. CASE q = r
      BY <2>2, <3>1
    <3>2. CASE q # r
      <4>1. file'[q] = file[q]
        BY <2>1, <3>2 DEF Wrote
      <4> QED
        BY <1>1, <4>1
    <3> QED
      BY <3>1, <3>2
  <2>6. file' \in [Run -> FileRec] /\ \A q \in Run \ {r} : file'[q] = file[q]
    BY <2>1 DEF Wrote
  <2> QED
    BY <1>4, <2>3, <2>4, <2>5, <2>6
<1>5. CASE Drains(r, n)
  <2>1. PICK m \in state[r].appended .. Len(list[r]) :
          /\ Wrote(r, m, FALSE)
          /\ state' \in [Run -> StateRec] /\ \A q \in Run \ {r} : state'[q] = state[q]
          /\ state'[r].held /\ state'[r].made /\ state'[r].appended = m
          /\ told' \in [Run -> Seq(1 .. MaxSeq)]
    BY <1>5, Drained
  <2>2. /\ Len(file'[r].log) <= MaxSeq
        /\ IsPrefix(file[r].log, file'[r].log) /\ Len(file[r].log) <= Len(file'[r].log) /\ Clean(file'[r].log)
    <3>1. Opens(r) /\ FALSE \in BOOLEAN
      BY <1>5 DEF Drains
    <3> QED
      BY <1>2, <2>1, <3>1
  <2>3. Files'
    BY <2>1, <2>2 DEF Wrote, IInv, Facts, Files
  <2>4. m <= Len(list[r])
    BY <1>5, OpenLog DEF Drains
  <2>5. Writer'
    BY <2>1, <2>4, Zenon DEF IInv, Facts, Writer, Works, Drains
  <2>6. FileFollowsMemory'
    BY <2>1, Zenon DEF Wrote, IInv, Facts, FileFollowsMemory, Works, Drains
  <2>7. failed' = failed /\ failed \in BOOLEAN /\ \A q \in Run : state'[q].held = state[q].held
    <3>1. state'[r].held \in BOOLEAN /\ state[r].held \in BOOLEAN
      BY <2>1 DEF StateRec
    <3> QED
      BY <1>5, <2>1, <3>1 DEF Drains, IInv, Shape
  <2> QED
    BY <1>1, <1>5, <2>1, <2>2, <2>3, <2>5, <2>6, <2>7 DEF Wrote, Drains
<1> QED
  BY <1>3, <1>4, <1>5, DrainStopped

\* Every action keeps the shape of the state.
LEMMA ShapeStep ==
  ASSUME IInv, [Next]_vars
  PROVE  Shape'
<1> /\ up \in BOOLEAN /\ failed \in BOOLEAN /\ boot \in 0 .. MaxBoots /\ (up => boot > 0)
    /\ list \in [Run -> Seq(Record)] /\ state \in [Run -> StateRec]
    /\ told \in [Run -> Seq(1 .. MaxSeq)] /\ flushed \in [Run -> Seq(Record)]
    /\ file \in [Run -> FileRec] /\ kept \in [Run -> Nat]
    /\ queue \in Seq(Run \X (1 .. MaxSeq))
    /\ loaded \subseteq Run /\ excluded \subseteq Run /\ rewritten \subseteq Run
    /\ MaxSeq \in Nat \ {0} /\ MaxBoots \in Nat \ {0}
  BY JournalAssumption DEF IInv, Shape
<1> /\ \A r \in Run : Len(list[r]) <= MaxSeq /\ Len(file[r].log) <= MaxSeq /\ kept[r] <= Len(file[r].log)
    /\ \A r \in Run : file[r].log \in Seq(Record) /\ Len(file[r].log) \in Nat /\ Len(list[r]) \in Nat
    /\ NoState \in StateRec
  BY LenProperties, 0 \in 0 .. MaxSeq DEF IInv, Shape, FileRec, StateRec, NoState
<1>1. CASE Boot
  <2>1. <<>> \in Seq(Record) /\ Len(<<>>) = 0 /\ <<>> \in Seq(1 .. MaxSeq) /\ <<>> \in Seq(Run \X (1 .. MaxSeq))
    BY EmptySeq
  <2>2. /\ list' \in [Run -> Seq(Record)] /\ state' \in [Run -> StateRec] /\ told' \in [Run -> Seq(1 .. MaxSeq)]
        /\ \A r \in Run : Len(list'[r]) = 0
    BY <1>1, <2>1 DEF Boot
  <2>3. boot' \in 0 .. MaxBoots /\ boot' > 0
    <3>1. boot' = boot + 1 /\ boot < MaxBoots
      BY <1>1 DEF Boot
    <3> QED
      BY <3>1
  <2>4. up' \in BOOLEAN /\ failed' \in BOOLEAN
    BY <1>1 DEF Boot
  <2> QED
    BY <1>1, <2>1, <2>2, <2>3, <2>4 DEF Boot, Shape, disk
<1>2. CASE Commit
  <2> DEFINE r == Head(queue)[1]
             n == Head(queue)[2]
  <2>1. r \in Run /\ n \in 1 .. MaxSeq /\ queue' \in Seq(Run \X (1 .. MaxSeq))
    BY <1>2, Commits1 DEF Commit
  <2>2. CASE failed
    BY <1>2, <2>1, <2>2 DEF Commit, Shape
  <2>3. CASE ~failed
    <3>1. Works /\ state[r].held /\ n \in 1 .. Len(list[r])
      BY <1>2, <2>3, Commits1 DEF Commit, Works
    <3>2. (Drains(r, n) \/ DrainFails(r, n)) /\ UNCHANGED <<up, boot, list, loaded, excluded, kept, rewritten, flushed>>
      BY <1>2, <2>3 DEF Commit
    <3> HIDE DEF r, n
    <3>3. /\ failed' \in BOOLEAN /\ file' \in [Run -> FileRec] /\ state' \in [Run -> StateRec]
          /\ told' \in [Run -> Seq(1 .. MaxSeq)]
          /\ \A q \in Run : Len(file'[q].log) <= MaxSeq /\ Len(file[q].log) <= Len(file'[q].log)
      BY <2>1, <3>1, <3>2, DrainFacts
    <3>4. \A q \in Run : Len(file'[q].log) \in Nat
      BY <3>3, LenProperties DEF FileRec
    <3>5. \A q \in Run : kept[q] <= Len(file'[q].log)
      <4> TAKE q \in Run
      <4>1. kept[q] \in Nat /\ Len(file[q].log) \in Nat /\ Len(file'[q].log) \in Nat
        BY <3>4
      <4>2. kept[q] <= Len(file[q].log) /\ Len(file[q].log) <= Len(file'[q].log)
        BY <3>3
      <4> QED
        BY <4>1, <4>2
    <3> QED
      BY <2>1, <3>2, <3>3, <3>5 DEF Shape
  <2> QED
    BY <2>2, <2>3
<1>3. CASE Fails
  BY <1>3 DEF Fails, Shape, memory, disk
<1>4. CASE Crash
  <2>1. \A r \in Run : file'[r] \in FileRec /\ Len(file'[r].log) <= MaxSeq /\ kept[r] <= Len(file'[r].log)
    BY <1>4, Remaining DEF Crash
  <2>2. file' \in [Run -> FileRec]
    BY <1>4, <2>1 DEF Crash
  <2> QED
    BY <1>4, <2>1, <2>2 DEF Crash, Shape, memory
<1>5. ASSUME NEW r \in Run, Load(r) PROVE Shape'
  <2>1. /\ file' \in [Run -> FileRec] /\ \A q \in Run : file'[q].log = file[q].log
    BY <1>5 DEF Load, Repaired, FileRec
  <2>2. kept' \in [Run -> Nat] /\ rewritten' \subseteq Run /\ \A q \in Run : kept'[q] <= kept[q]
    <3>1. CASE file[r].torn
      <4>1. kept' = [kept EXCEPT ![r] = 0] /\ rewritten' = rewritten \cup {r} /\ kept \in [Run -> Nat]
        BY <1>5, <3>1 DEF Load, Repaired
      <4>2. \A q \in Run : kept'[q] = (IF q = r THEN 0 ELSE kept[q]) /\ kept[q] \in Nat
        BY <4>1
      <4> QED
        BY <4>1, <4>2
    <3>2. CASE ~file[r].torn
      BY <1>5, <3>2 DEF Load, Repaired
    <3> QED
      BY <3>1, <3>2
  <2>3. list' \in [Run -> Seq(Record)] /\ \A q \in Run : Len(list'[q]) <= MaxSeq
    BY <1>5 DEF Load
  <2>4. \A q \in Run : kept'[q] <= Len(file'[q].log)
    <3> TAKE q \in Run
    <3>1. kept'[q] \in Nat /\ kept[q] \in Nat /\ Len(file[q].log) \in Nat /\ file'[q].log = file[q].log
      BY <2>1, <2>2
    <3>2. kept'[q] <= kept[q] /\ kept[q] <= Len(file[q].log)
      BY <2>2
    <3> QED
      BY <3>1, <3>2
  <2>5. UNCHANGED <<up, boot, failed, state, queue, excluded, told, flushed>> /\ loaded' \subseteq Run
    BY <1>5 DEF Load
  <2> QED
    BY <2>1, <2>2, <2>3, <2>4, <2>5 DEF Shape
<1>6. ASSUME NEW r \in Run, RepairCut(r) PROVE Shape'
  <2>1. PICK n \in 0 .. Len(file[r].log), torn \in BOOLEAN :
          file' = [file EXCEPT ![r].log = First(@, n), ![r].torn = torn]
    BY <1>6 DEF RepairCut
  <2>2. First(file[r].log, n) \in Seq(Record) /\ Len(First(file[r].log, n)) = n
    BY FirstIs
  <2>3. file' \in [Run -> FileRec] /\ file'[r].log = First(file[r].log, n) /\ \A q \in Run \ {r} : file'[q] = file[q]
    BY <2>1, <2>2 DEF FileRec
  <2>4. kept' \in [Run -> Nat] /\ kept'[r] = 0 /\ \A q \in Run \ {r} : kept'[q] = kept[q]
    BY <1>6 DEF RepairCut
  <2>5. \A q \in Run : Len(file'[q].log) <= MaxSeq /\ kept'[q] <= Len(file'[q].log)
    <3> TAKE q \in Run
    <3>1. CASE q = r
      <4>1. n \in Nat /\ n <= Len(file[r].log) /\ Len(file[r].log) \in Nat /\ Len(file[r].log) <= MaxSeq /\ MaxSeq \in Nat
        OBVIOUS
      <4>2. Len(file'[q].log) = n /\ kept'[q] = 0
        BY <2>2, <2>3, <2>4, <3>1
      <4> QED
        BY <4>1, <4>2
    <3>2. CASE q # r
      <4>1. file'[q] = file[q] /\ kept'[q] = kept[q]
        BY <2>3, <2>4, <3>2
      <4> QED
        BY <4>1
    <3> QED
      BY <3>1, <3>2
  <2>6. UNCHANGED <<boot, failed, memory, flushed>> /\ up' = FALSE /\ rewritten' \subseteq Run
    BY <1>6 DEF RepairCut
  <2> QED
    BY <2>3, <2>4, <2>5, <2>6 DEF Shape, memory
<1>7. ASSUME NEW r \in Run, Exclude(r) PROVE Shape'
  BY <1>7 DEF Exclude, Shape, memory, disk
<1>8. ASSUME NEW r \in Run, ClaimNew(r) PROVE Shape'
  <2>1. [NoState EXCEPT !.held = TRUE] \in StateRec
    BY DEF NoState, StateRec
  <2> QED
    BY <1>8, <2>1 DEF ClaimNew, Shape, disk
<1>9. ASSUME NEW r \in Run, Reserve(r) PROVE Shape'
  <2>1. CASE failed' = TRUE /\ UNCHANGED memory
    BY <1>9, <2>1 DEF Reserve, Shape, memory, disk
  <2>2. CASE /\ list' = [list EXCEPT ![r] = Append(@, <<boot, Reserved(r) + 1>>)]
             /\ state' = [state EXCEPT ![r] = Captured(r)]
             /\ queue' = Append(queue, <<r, Reserved(r) + 1>>)
             /\ UNCHANGED <<failed, loaded, excluded, told>>
    <3>1. Reserved(r) + 1 \in 1 .. MaxSeq
      BY <1>9 DEF Reserve, Reserved
    <3>2. <<boot, Reserved(r) + 1>> \in Record
      BY <3>1 DEF Record
    <3>3. Append(list[r], <<boot, Reserved(r) + 1>>) \in Seq(Record)
          /\ Len(Append(list[r], <<boot, Reserved(r) + 1>>)) = Reserved(r) + 1
      BY <3>2 DEF Reserved
    <3>4. list' \in [Run -> Seq(Record)] /\ \A q \in Run : Len(list'[q]) <= MaxSeq
      BY <2>2, <3>1, <3>3
    <3>5. Captured(r) \in StateRec
      BY DEF Captured, StateRec, Reserved
    <3>6. queue' \in Seq(Run \X (1 .. MaxSeq))
      BY <2>2, <3>1
    <3> QED
      BY <1>9, <2>2, <3>4, <3>5, <3>6 DEF Reserve, Shape, disk
  <2> QED
    BY <1>9, <2>1, <2>2 DEF Reserve
<1>10. ASSUME NEW r \in Run, Adopt(r) PROVE Shape'
  <2>1. Captured(r) \in StateRec
    BY DEF Captured, StateRec, Reserved
  <2> QED
    BY <1>10, <2>1 DEF Adopt, Shape, disk
<1>11. ASSUME NEW r \in Run, Intrudes(r) PROVE Shape'
  <2>1. <<Alien>> \in Seq(Record) /\ Len(<<Alien>>) = 1
    BY DEF Alien, Record
  <2>2. file' \in [Run -> FileRec] /\ file'[r].log = <<Alien>> /\ \A q \in Run \ {r} : file'[q] = file[q]
    BY <1>11, <2>1 DEF Intrudes, FileRec
  <2>3. file[r].log = <<>>
    BY <1>11 DEF Intrudes, IInv, Facts, Files
  <2>4. \A q \in Run : Len(file'[q].log) <= MaxSeq /\ kept[q] <= Len(file'[q].log)
    <3> TAKE q \in Run
    <3>1. CASE q = r
      <4>1. Len(file'[q].log) = 1 /\ Len(file[q].log) = 0 /\ kept[q] <= 0 /\ kept[q] \in Nat
        BY <2>1, <2>2, <2>3, <3>1, EmptySeq
      <4> QED
        BY <4>1
    <3>2. CASE q # r
      <4>1. file'[q] = file[q]
        BY <2>2, <3>2
      <4> QED
        BY <4>1
    <3> QED
      BY <3>1, <3>2
  <2> QED
    BY <1>11, <2>2, <2>4 DEF Intrudes, Shape, memory
<1>12. ASSUME NEW r \in Run, NEW n \in 1 .. MaxSeq, Flush(r, n) PROVE Shape'
  <2>1. /\ Works /\ state[r].held /\ n \in 1 .. Len(list[r])
        /\ (Drains(r, n) \/ DrainFails(r, n)) /\ UNCHANGED <<up, boot, list, loaded, queue, excluded>>
    BY <1>12 DEF Flush, Live, Reserved
  <2>2. /\ failed' \in BOOLEAN /\ file' \in [Run -> FileRec] /\ state' \in [Run -> StateRec]
        /\ told' \in [Run -> Seq(1 .. MaxSeq)]
        /\ \A q \in Run : Len(file'[q].log) <= MaxSeq /\ Len(file[q].log) <= Len(file'[q].log)
    BY <2>1, DrainFacts
  <2>3. \A q \in Run : file'[q].log \in Seq(Record) /\ Len(file'[q].log) \in Nat
    BY <2>2, LenProperties DEF FileRec
  <2>6. \A q \in Run : kept[q] <= Len(file'[q].log)
    <3> TAKE q \in Run
    <3>1. kept[q] \in Nat /\ Len(file[q].log) \in Nat /\ Len(file'[q].log) \in Nat
      BY <2>3
    <3>2. kept[q] <= Len(file[q].log) /\ Len(file[q].log) <= Len(file'[q].log)
      BY <2>2
    <3> QED
      BY <3>1, <3>2
  <2>4. CASE UNCHANGED <<kept, rewritten, flushed>>
    BY <2>1, <2>2, <2>4, <2>6 DEF Shape
  <2>5. CASE /\ kept' = [kept EXCEPT ![r] = Len(file'[r].log)]
             /\ rewritten' = rewritten \ {r} /\ flushed' = [flushed EXCEPT ![r] = file'[r].log]
    <3>1. kept' \in [Run -> Nat] /\ flushed' \in [Run -> Seq(Record)] /\ rewritten' \subseteq Run
      BY <2>3, <2>5
    <3>2. \A q \in Run : kept'[q] <= Len(file'[q].log)
      <4> TAKE q \in Run
      <4>1. kept'[q] = IF q = r THEN Len(file'[r].log) ELSE kept[q]
        BY <2>5
      <4>2. Len(file'[r].log) \in Nat
        BY <2>3
      <4> QED
        BY <2>6, <4>1, <4>2
    <3> QED
      BY <2>1, <2>2, <3>1, <3>2 DEF Shape
  <2> QED
    BY <1>12, <2>4, <2>5 DEF Flush
<1>13. CASE UNCHANGED vars
  BY <1>13 DEF vars, Shape, memory, disk
<1> QED
  BY <1>1, <1>2, <1>3, <1>4, <1>5, <1>6, <1>7, <1>8, <1>9, <1>10, <1>11, <1>12, <1>13 DEF Next

\* A step that stops the writer and leaves the memory alone.
LEMMA Halts ==
  ASSUME IInv, UNCHANGED memory, ~Works'
  PROVE  Writer' /\ Commits' /\ FileFollowsMemory'
<1>1. UNCHANGED <<list, state>>
  BY DEF memory
<1> QED
  BY <1>1 DEF IInv, Facts, Writer, Commits, FileFollowsMemory

\* A step that leaves the logs alone.
LEMMA LeavesDisk ==
  ASSUME IInv, UNCHANGED <<list, disk, flushed>>
  PROVE  Files' /\ Durable'
<1>1. UNCHANGED <<list, file, kept, rewritten, flushed>>
  BY DEF disk
<1> QED
  BY <1>1 DEF IInv, Facts, Files, Durable

\* A log with a record of its own in front has no other kind.
LEMMA ReadableIsClean ==
  ASSUME IInv, NEW r \in Run, Readable(r)
  PROVE  Clean(file[r].log) /\ file[r].there
<1>1. <<Alien>>[1] = Alien
  OBVIOUS
<1> QED
  BY <1>1 DEF Readable, IInv, Facts, Files

\* A drain that a commit or a fence makes keeps what was synced.
LEMMA DrainDurable ==
  ASSUME IInv, UNCHANGED <<kept, rewritten, flushed>>,
         \A q \in Run : IsPrefix(file[q].log, file'[q].log) /\ file'[q].log \in Seq(Record)
  PROVE  Durable'
<1>1. ASSUME NEW q \in Run \ rewritten
      PROVE  Len(flushed[q]) <= kept[q] /\ IsPrefix(flushed[q], file'[q].log)
  <2>1. flushed[q] \in Seq(Record) /\ file[q].log \in Seq(Record) /\ file'[q].log \in Seq(Record)
    BY DEF IInv, Shape, FileRec
  <2>2. Len(flushed[q]) \in Nat /\ Len(file[q].log) \in Nat /\ Len(file'[q].log) \in Nat
    BY <2>1, LenProperties
  <2>3. /\ Len(flushed[q]) <= Len(file[q].log)
        /\ \A i \in 1 .. Len(flushed[q]) : flushed[q][i] = file[q].log[i]
    BY <2>1, PrefixIs DEF IInv, Facts, Durable
  <2>4. /\ Len(file[q].log) <= Len(file'[q].log)
        /\ \A i \in 1 .. Len(file[q].log) : file[q].log[i] = file'[q].log[i]
    BY <2>1, PrefixIs
  <2>5. Len(flushed[q]) <= Len(file'[q].log) /\ \A i \in 1 .. Len(flushed[q]) : flushed[q][i] = file'[q].log[i]
    <3>1. \A i \in 1 .. Len(flushed[q]) : i \in 1 .. Len(file[q].log)
      BY <2>2, <2>3
    <3> QED
      BY <2>2, <2>3, <2>4, <3>1
  <2>6. IsPrefix(flushed[q], file'[q].log)
    BY <2>1, <2>5, PrefixIs
  <2> QED
    BY <2>6 DEF IInv, Facts, Durable
<1> QED
  BY <1>1 DEF Durable

\* A commit or a fence.
LEMMA CommitFacts ==
  ASSUME IInv, Commit
  PROVE  Facts'
<1> DEFINE r == Head(queue)[1]
           n == Head(queue)[2]
<1>1. /\ r \in Run /\ (Works => state[r].held /\ n \in 1 .. Len(list[r]))
      /\ Tail(queue) \in Seq(Run \X (1 .. MaxSeq))
      /\ Len(Tail(queue)) = Len(queue) - 1 /\ Len(queue) \in Nat
      /\ \A i \in 1 .. Len(queue) - 1 : Tail(queue)[i] = queue[i + 1]
  BY Commits1 DEF Commit
<1>2. /\ up /\ queue' = Tail(queue) /\ UNCHANGED <<up, boot, list, loaded, excluded, kept, rewritten, flushed>>
      /\ IF failed THEN UNCHANGED <<failed, state, file, told>> ELSE Drains(r, n) \/ DrainFails(r, n)
  BY DEF Commit
<1> HIDE DEF r, n
<1>3. CASE failed
  <2>1. Writer' /\ Commits' /\ FileFollowsMemory'
    BY <1>2, <1>3 DEF IInv, Facts, Writer, Commits, FileFollowsMemory, Works
  <2>2. Files' /\ Durable'
    BY <1>2, <1>3, LeavesDisk DEF disk
  <2> QED
    BY <2>1, <2>2 DEF Facts
<1>4. CASE ~failed
  <2>1. Works /\ state[r].held /\ n \in 1 .. Len(list[r]) /\ (Drains(r, n) \/ DrainFails(r, n))
    BY <1>1, <1>2, <1>4 DEF Works
  <2>2. /\ file' \in [Run -> FileRec]
        /\ \A q \in Run : IsPrefix(file[q].log, file'[q].log) /\ state'[q].held = state[q].held
        /\ Writer' /\ FileFollowsMemory' /\ Files'
    BY <1>1, <1>2, <2>1, DrainFacts
  <2>3. Commits'
    <3>1. ASSUME NEW i \in 1 .. Len(queue')
          PROVE  state'[queue'[i][1]].held /\ queue'[i][2] <= Len(list'[queue'[i][1]])
      <4>1. i + 1 \in 1 .. Len(queue) /\ i \in 1 .. Len(queue) - 1
        BY <1>1, <1>2
      <4>2. queue'[i] = queue[i + 1]
        BY <1>1, <1>2, <4>1
      <4>3. queue[i + 1] \in Run \X (1 .. MaxSeq)
        BY <4>1, ElementOfSeq DEF IInv, Shape
      <4>4. state[queue[i + 1][1]].held /\ queue[i + 1][2] <= Len(list[queue[i + 1][1]])
        BY <2>1, <4>1 DEF IInv, Facts, Commits
      <4> QED
        BY <1>2, <2>2, <4>2, <4>3, <4>4
    <3> QED
      BY <3>1 DEF Commits
  <2>4. Durable'
    <3>1. \A q \in Run : file'[q].log \in Seq(Record)
      BY <2>2 DEF FileRec
    <3> QED
      BY <1>2, <2>2, <3>1, DrainDurable
  <2> QED
    BY <2>2, <2>3, <2>4 DEF Facts
<1> QED
  BY <1>3, <1>4

\* A fence keeps the facts: what it reports is what it has synced.
LEMMA FlushFacts ==
  ASSUME IInv, Shape', NEW r \in Run, NEW n \in 1 .. MaxSeq, Flush(r, n)
  PROVE  Facts'
<1>1. /\ Works /\ state[r].held /\ n \in 1 .. Len(list[r])
      /\ (Drains(r, n) \/ DrainFails(r, n)) /\ UNCHANGED <<up, boot, list, loaded, queue, excluded>>
  BY DEF Flush, Live, Reserved
<1>2. /\ file' \in [Run -> FileRec]
      /\ \A q \in Run : IsPrefix(file[q].log, file'[q].log) /\ state'[q].held = state[q].held
      /\ Writer' /\ FileFollowsMemory' /\ Files'
      /\ \A q \in Run \ {r} : file'[q] = file[q]
  BY <1>1, DrainFacts
<1>3. Commits'
  <2>1. ASSUME NEW i \in 1 .. Len(queue), Works'
        PROVE  state'[queue[i][1]].held /\ queue[i][2] <= Len(list[queue[i][1]])
    <3>1. queue[i] \in Run \X (1 .. MaxSeq)
      BY ElementOfSeq DEF IInv, Shape
    <3>2. state[queue[i][1]].held /\ queue[i][2] <= Len(list[queue[i][1]])
      BY <1>1 DEF IInv, Facts, Commits
    <3> QED
      BY <1>2, <3>1, <3>2
  <2> QED
    BY <1>1, <2>1 DEF Commits
<1>4. \A q \in Run : file'[q].log \in Seq(Record)
  BY <1>2 DEF FileRec
<1>5. Durable'
  <2>1. CASE UNCHANGED <<kept, rewritten, flushed>>
    BY <1>2, <1>4, <2>1, DrainDurable
  <2>2. CASE /\ kept' = [kept EXCEPT ![r] = Len(file'[r].log)]
             /\ rewritten' = rewritten \ {r} /\ flushed' = [flushed EXCEPT ![r] = file'[r].log]
    <3>1. IsPrefix(file'[r].log, file'[r].log) /\ Len(file'[r].log) \in Nat
      BY <1>4, PrefixIs, LenProperties
    <3>2. ASSUME NEW q \in Run \ rewritten'
          PROVE  Len(flushed'[q]) <= kept'[q] /\ IsPrefix(flushed'[q], file'[q].log)
      <4>1. CASE q = r
        <5>1. flushed'[q] = file'[r].log /\ kept'[q] = Len(file'[r].log)
          BY <2>2, <4>1 DEF IInv, Shape
        <5> QED
          BY <3>1, <4>1, <5>1
      <4>2. CASE q # r
        <5>1. flushed'[q] = flushed[q] /\ kept'[q] = kept[q] /\ file'[q] = file[q] /\ q \in Run \ rewritten
          BY <1>2, <2>2, <4>2 DEF IInv, Shape
        <5> QED
          BY <5>1 DEF IInv, Facts, Durable
      <4> QED
        BY <4>1, <4>2
    <3> QED
      BY <3>2 DEF Durable
  <2> QED
    BY <2>1, <2>2 DEF Flush
<1> QED
  BY <1>2, <1>3, <1>5 DEF Facts

\* What the loss of the power or the end of the process leaves.
LEMMA CrashFacts ==
  ASSUME IInv, Crash
  PROVE  Facts'
<1>1. UNCHANGED <<memory, kept, rewritten, flushed, list>> /\ ~Works' /\ up
  BY DEF Crash, Works, memory
<1>2. Writer' /\ Commits' /\ FileFollowsMemory'
  BY <1>1, Halts
<1>3. \A r \in Run :
        /\ file'[r] \in FileRec /\ kept[r] <= Len(file'[r].log)
        /\ file'[r].log = <<Alien>> \/ Clean(file'[r].log)
        /\ \A i \in 1 .. kept[r] : file'[r].log[i] = file[r].log[i]
        /\ ~file'[r].there => file'[r].log = <<>> /\ ~file'[r].torn
  BY <1>1, Remaining DEF Crash
<1>4. Files'
  BY <1>1, <1>3 DEF IInv, Facts, Files
<1>5. Durable'
  <2>1. ASSUME NEW q \in Run \ rewritten
        PROVE  Len(flushed[q]) <= kept[q] /\ IsPrefix(flushed[q], file'[q].log)
    <3>1. flushed[q] \in Seq(Record) /\ file[q].log \in Seq(Record) /\ file'[q].log \in Seq(Record) /\ kept[q] \in Nat
      BY <1>3 DEF IInv, Shape, FileRec
    <3>2. Len(flushed[q]) \in Nat /\ Len(file'[q].log) \in Nat
      BY <3>1, LenProperties
    <3>3. /\ Len(flushed[q]) <= kept[q]
          /\ \A i \in 1 .. Len(flushed[q]) : flushed[q][i] = file[q].log[i]
      BY <3>1, PrefixIs DEF IInv, Facts, Durable
    <3>4. Len(flushed[q]) <= Len(file'[q].log)
      <4>1. kept[q] <= Len(file'[q].log)
        BY <1>3
      <4> QED
        BY <3>1, <3>2, <3>3, <4>1
    <3>5. \A i \in 1 .. Len(flushed[q]) : flushed[q][i] = file'[q].log[i]
      <4>1. \A i \in 1 .. Len(flushed[q]) : i \in 1 .. kept[q]
        BY <3>1, <3>2, <3>3
      <4> QED
        BY <1>3, <3>3, <4>1
    <3> QED
      BY <3>1, <3>3, <3>4, <3>5, PrefixIs
  <2> QED
    BY <1>1, <2>1 DEF Durable
<1> QED
  BY <1>2, <1>4, <1>5 DEF Facts

\* Startup reads a log back, and rewrites one with a torn record.
LEMMA LoadFacts ==
  ASSUME IInv, NEW r \in Run, Load(r)
  PROVE  Facts'
<1>1. /\ Works /\ Works' /\ ~state[r].held /\ Repaired(r)
      /\ list' = [list EXCEPT ![r] = file[r].log]
      /\ UNCHANGED <<state, queue, excluded, flushed>>
  BY DEF Load, Works
<1>2. /\ list \in [Run -> Seq(Record)] /\ file \in [Run -> FileRec] /\ kept \in [Run -> Nat]
      /\ Len(file[r].log) \in Nat
  BY LenProperties DEF IInv, Shape, FileRec
<1>3. list'[r] = file[r].log /\ \A q \in Run \ {r} : list'[q] = list[q]
  BY <1>1, <1>2
<1>4. /\ file'[r].log = file[r].log /\ file'[r].there = file[r].there /\ file'[r].torn = FALSE
      /\ \A q \in Run \ {r} : file'[q] = file[q]
  BY <1>1, <1>2 DEF Repaired, FileRec
<1>5. ~state[r].made /\ state[r].appended = 0
  BY <1>1 DEF IInv, Facts, Writer
<1>6. Writer'
  <2>1. ASSUME NEW q \in Run PROVE state[q].appended <= Len(list'[q])
    <3>1. CASE q = r
      BY <1>2, <1>3, <1>5, <3>1
    <3>2. CASE q # r
      BY <1>3, <3>2 DEF IInv, Facts, Writer
    <3> QED
      BY <3>1, <3>2
  <2> QED
    BY <1>1, <2>1 DEF IInv, Facts, Writer
<1>7. Commits'
  <2>1. ASSUME NEW i \in 1 .. Len(queue)
        PROVE  state[queue[i][1]].held /\ queue[i][2] <= Len(list'[queue[i][1]])
    <3>1. queue[i] \in Run \X (1 .. MaxSeq)
      BY ElementOfSeq DEF IInv, Shape
    <3>2. state[queue[i][1]].held /\ queue[i][2] <= Len(list[queue[i][1]])
      BY <1>1 DEF IInv, Facts, Commits
    <3> QED
      BY <1>1, <1>3, <3>1, <3>2
  <2> QED
    BY <1>1, <2>1 DEF Commits
<1>8. FileFollowsMemory'
  <2>1. ASSUME NEW q \in Run, state[q].made
        PROVE  file'[q].there /\ ~file'[q].torn /\ file'[q].log = First(list'[q], state[q].appended)
    BY <1>1, <1>3, <1>4, <1>5, <2>1 DEF IInv, Facts, FileFollowsMemory
  <2> QED
    BY <1>1, <2>1 DEF FileFollowsMemory
<1>9. Files'
  <2>1. Clean(file[r].log) /\ file[r].there
    BY ReadableIsClean DEF Load
  <2> QED
    BY <1>3, <1>4, <2>1 DEF IInv, Facts, Files
<1>10. Durable'
  <2>1. ASSUME NEW q \in Run \ rewritten'
        PROVE  Len(flushed[q]) <= kept'[q] /\ IsPrefix(flushed[q], file'[q].log)
    <3>1. q \in Run \ rewritten /\ kept'[q] = kept[q] /\ file'[q].log = file[q].log
      <4>1. CASE file[r].torn
        BY <1>1, <1>2, <1>4, <2>1, <4>1 DEF Repaired
      <4>2. CASE ~file[r].torn
        BY <1>1, <1>4, <2>1, <4>2 DEF Repaired
      <4> QED
        BY <4>1, <4>2
    <3> QED
      BY <3>1 DEF IInv, Facts, Durable
  <2> QED
    BY <1>1, <2>1 DEF Durable
<1> QED
  BY <1>6, <1>7, <1>8, <1>9, <1>10 DEF Facts

\* A crash in the middle of a repair keeps the facts.
LEMMA RepairCutFacts ==
  ASSUME IInv, NEW r \in Run, RepairCut(r)
  PROVE  Facts'
<1>1. UNCHANGED <<memory, flushed, list>> /\ ~Works' /\ Readable(r)
  BY DEF RepairCut, Works, memory
<1>2. Writer' /\ Commits' /\ FileFollowsMemory'
  BY <1>1, Halts
<1>3. PICK n \in 0 .. Len(file[r].log), torn \in BOOLEAN :
        file' = [file EXCEPT ![r].log = First(@, n), ![r].torn = torn]
  BY DEF RepairCut
<1>4. /\ Clean(file[r].log) /\ file[r].there /\ file \in [Run -> FileRec] /\ file[r].log \in Seq(Record)
      /\ Len(file[r].log) \in Nat
  BY <1>1, ReadableIsClean, LenProperties DEF IInv, Shape, FileRec
<1>5. Len(First(file[r].log, n)) = n /\ \A i \in 1 .. n : First(file[r].log, n)[i] = file[r].log[i]
  <2>1. file[r].log \in Seq(Record) /\ n \in 0 .. Len(file[r].log)
    BY <1>4
  <2> QED
    BY <2>1, FirstIs
<1>6. Clean(First(file[r].log, n))
  BY <1>4, <1>5 DEF Clean
<1>7. /\ file'[r].there /\ file'[r].log = First(file[r].log, n) /\ \A q \in Run \ {r} : file'[q] = file[q]
  BY <1>3, <1>4 DEF FileRec
<1>8. Files'
  BY <1>1, <1>6, <1>7 DEF IInv, Facts, Files
<1>9. Durable'
  <2>1. \A q \in Run \ rewritten' : q # r /\ q \in Run \ rewritten /\ kept'[q] = kept[q]
    BY DEF RepairCut, IInv, Shape
  <2> QED
    BY <1>1, <1>7, <2>1 DEF IInv, Facts, Durable
<1> QED
  BY <1>2, <1>8, <1>9 DEF Facts

\* A reservation keeps the facts: it extends the list in memory alone.
LEMMA ReserveFacts ==
  ASSUME IInv, NEW r \in Run, Reserve(r)
  PROVE  Facts'
<1>1. Works /\ UNCHANGED <<up, boot, disk, flushed>>
  BY DEF Reserve
<1>2. CASE failed' = TRUE /\ UNCHANGED memory
  BY <1>1, <1>2, Halts, LeavesDisk DEF Works, memory, Facts
<1>3. CASE /\ ~(r \in excluded \/ (~state[r].held /\ ~Exact(r)))
           /\ list' = [list EXCEPT ![r] = Append(@, <<boot, Reserved(r) + 1>>)]
           /\ state' = [state EXCEPT ![r] = Captured(r)]
           /\ queue' = Append(queue, <<r, Reserved(r) + 1>>)
           /\ UNCHANGED <<failed, loaded, excluded, told>>
  <2> DEFINE log == list[r]
             record == <<boot, Reserved(r) + 1>>
             more == Append(log, record)
  <2>1. /\ log \in Seq(Record) /\ Len(log) \in Nat /\ Len(log) < MaxSeq /\ boot \in 1 .. MaxBoots
        /\ MaxSeq \in Nat /\ Reserved(r) = Len(log)
    BY <1>1, LenProperties, JournalAssumption DEF Reserve, Reserved, IInv, Shape, Works
  <2>2. record \in Record /\ record # Alien
    BY <2>1, JournalAssumption DEF Record, Alien
  <2>3. list'[r] = more /\ \A q \in Run \ {r} : list'[q] = list[q]
    BY <1>3 DEF IInv, Shape
  <2> HIDE DEF log, record
  <2>4. /\ more \in Seq(Record) /\ Len(more) = Len(log) + 1
        /\ \A i \in 1 .. Len(log) : more[i] = log[i]
        /\ more[Len(log) + 1] = record
    BY <2>1, <2>2, AppendProperties
  <2>5. \A n \in 0 .. Len(log) : First(more, n) = First(log, n)
    BY <2>1, <2>2, FirstOfAppend
  <2> HIDE DEF more
  <2>6. /\ state'[r] = Captured(r) /\ \A q \in Run \ {r} : state'[q] = state[q]
        /\ state[r] \in StateRec
    BY <1>3 DEF IInv, Shape
  <2>7. /\ state'[r].held /\ state'[r].appended <= Len(log) /\ state'[r].appended \in Nat
        /\ ~state'[r].made => state'[r].appended = 0
        /\ state'[r].made => /\ file[r].there /\ ~file[r].torn
                             /\ file[r].log = First(log, state'[r].appended)
    <3>1. CASE state[r].held
      <4>1. state'[r] = state[r]
        BY <2>6, <3>1 DEF Captured
      <4>2. state[r].appended <= Len(list[r]) /\ state[r].appended \in Nat
            /\ (~state[r].made => state[r].appended = 0)
        BY <2>6, JournalAssumption DEF IInv, Facts, Writer, StateRec
      <4>3. state[r].made => /\ file[r].there /\ ~file[r].torn
                             /\ file[r].log = First(list[r], state[r].appended)
        BY <1>1 DEF IInv, Facts, FileFollowsMemory
      <4> QED
        BY <3>1, <4>1, <4>2, <4>3 DEF log
    <3>2. CASE ~state[r].held
      <4>1. state'[r].held /\ state'[r].made /\ state'[r].appended = Len(log)
        BY <2>1, <2>6, <3>2 DEF Captured
      <4>2. file[r].there /\ ~file[r].torn /\ file[r].log = log
        BY <1>3, <3>2 DEF Exact, log
      <4>3. First(log, Len(log)) = log
        BY <2>1, SubSeqFull DEF First
      <4> QED
        BY <2>1, <4>1, <4>2, <4>3
    <3> QED
      BY <3>1, <3>2
  <2>8. Writer'
    <3>1. ASSUME NEW q \in Run
          PROVE  /\ state'[q].made => state'[q].held
                 /\ ~state'[q].made => state'[q].appended = 0
                 /\ state'[q].appended <= Len(list'[q])
                 /\ Works' /\ q \in excluded' => ~state'[q].held
      <4>1. CASE q = r
        <5>1. r \notin excluded'
          BY <1>3
        <5>2. state'[r].appended <= Len(list'[r])
          BY <2>1, <2>3, <2>4, <2>7
        <5> QED
          BY <2>7, <4>1, <5>1, <5>2
      <4>2. CASE q # r
        BY <1>1, <1>3, <2>3, <2>6, <4>2 DEF IInv, Facts, Writer, Works
      <4> QED
        BY <4>1, <4>2
    <3> QED
      BY <3>1 DEF Writer
  <2>9. Commits'
    <3>1. ASSUME NEW i \in 1 .. Len(queue')
          PROVE  state'[queue'[i][1]].held /\ queue'[i][2] <= Len(list'[queue'[i][1]])
      <4>1. /\ queue \in Seq(Run \X (1 .. MaxSeq)) /\ Len(queue) \in Nat
            /\ <<r, Reserved(r) + 1>> \in Run \X (1 .. MaxSeq)
        BY <2>1, LenProperties DEF IInv, Shape
      <4>2. /\ Len(queue') = Len(queue) + 1
            /\ \A j \in 1 .. Len(queue) : queue'[j] = queue[j]
            /\ queue'[Len(queue) + 1] = <<r, Reserved(r) + 1>>
        BY <1>3, <4>1, AppendProperties
      <4>3. CASE i = Len(queue) + 1
        BY <2>1, <2>3, <2>4, <2>7, <4>2, <4>3
      <4>4. CASE i \in 1 .. Len(queue)
        <5>1. queue'[i] = queue[i] /\ queue[i] \in Run \X (1 .. MaxSeq)
          BY <4>1, <4>2, <4>4, ElementOfSeq
        <5>2. state[queue[i][1]].held /\ queue[i][2] <= Len(list[queue[i][1]])
          BY <1>1, <4>4 DEF IInv, Facts, Commits
        <5>3. CASE queue[i][1] = r
          <6>1. queue[i][2] \in Nat /\ queue[i][2] <= Len(log)
            BY <2>1, <5>1, <5>2, <5>3 DEF log
          <6> QED
            BY <2>1, <2>3, <2>4, <2>7, <5>1, <5>3, <6>1
        <5>4. CASE queue[i][1] # r
          BY <2>3, <2>6, <5>1, <5>2, <5>4
        <5> QED
          BY <5>3, <5>4
      <4> QED
        BY <4>1, <4>2, <4>3, <4>4
    <3> QED
      BY <3>1 DEF Commits
  <2>10. FileFollowsMemory'
    <3>1. ASSUME NEW q \in Run, state'[q].made
          PROVE  file[q].there /\ ~file[q].torn /\ file[q].log = First(list'[q], state'[q].appended)
      <4>1. CASE q = r
        BY <2>1, <2>3, <2>5, <2>7, <3>1, <4>1
      <4>2. CASE q # r
        BY <1>1, <2>3, <2>6, <3>1, <4>2 DEF IInv, Facts, FileFollowsMemory
      <4> QED
        BY <4>1, <4>2
    <3> QED
      BY <1>1, <3>1 DEF FileFollowsMemory, disk
  <2>11. Files'
    <3>1. Clean(more)
      <4>1. Clean(log)
        BY DEF IInv, Facts, Files, log
      <4>2. ASSUME NEW i \in 1 .. Len(more) PROVE more[i] # Alien
        <5>1. i \in 1 .. Len(log) \/ i = Len(log) + 1
          BY <2>1, <2>4
        <5> QED
          BY <2>2, <2>4, <4>1, <5>1 DEF Clean
      <4> QED
        BY <4>2 DEF Clean
    <3> QED
      BY <1>1, <2>3, <3>1 DEF IInv, Facts, Files, disk
  <2>12. Durable'
    BY <1>1 DEF IInv, Facts, Durable, disk
  <2> QED
    BY <2>8, <2>9, <2>10, <2>11, <2>12 DEF Facts
<1> QED
  BY <1>2, <1>3 DEF Reserve

\* A start of the process keeps the facts.
LEMMA BootFacts ==
  ASSUME IInv, Boot
  PROVE  Facts'
<1>1. /\ state' = [r \in Run |-> NoState] /\ list' = [r \in Run |-> <<>>] /\ queue' = <<>> /\ excluded' = {}
      /\ UNCHANGED <<disk, flushed>>
  BY DEF Boot
<1>2. /\ \A r \in Run : ~state'[r].held /\ ~state'[r].made /\ state'[r].appended = 0 /\ Len(list'[r]) = 0
      /\ Len(queue') = 0
  BY <1>1, EmptySeq DEF NoState
<1>3. Writer' /\ Commits' /\ FileFollowsMemory'
  BY <1>1, <1>2 DEF Writer, Commits, FileFollowsMemory
<1>4. Files'
  <2>1. \A r \in Run : Clean(list'[r])
    BY <1>2 DEF Clean
  <2> QED
    BY <1>1, <2>1 DEF IInv, Facts, Files, disk
<1>5. Durable'
  BY <1>1 DEF IInv, Facts, Durable, disk
<1> QED
  BY <1>3, <1>4, <1>5 DEF Facts

\* A step of the writer that changes what it holds of one log, and no log.
LEMMA HoldsFacts ==
  ASSUME IInv, NEW r \in Run, state'[r] \in StateRec, \A q \in Run \ {r} : state'[q] = state[q],
         UNCHANGED <<up, failed, list, queue, disk, flushed>>,
         \/ excluded' = excluded /\ (Works => r \notin excluded)
         \/ excluded' = excluded \cup {r} /\ ~state'[r].held,
         Works /\ Queued(r) => state'[r].held,
         state'[r].made => state'[r].held, ~state'[r].made => state'[r].appended = 0,
         state'[r].appended <= Len(list[r]),
         Works /\ state'[r].made => file[r].there /\ ~file[r].torn /\ file[r].log = First(list[r], state'[r].appended)
  PROVE  Facts'
<1>1. Files' /\ Durable'
  BY LeavesDisk
<1>2. UNCHANGED file /\ Works' = Works
  BY DEF disk, Works
<1>3. Writer'
  <2>1. ASSUME NEW q \in Run
        PROVE  /\ state'[q].made => state'[q].held
               /\ ~state'[q].made => state'[q].appended = 0
               /\ state'[q].appended <= Len(list'[q])
               /\ Works' /\ q \in excluded' => ~state'[q].held
    <3>1. CASE q = r
      BY <1>2, <3>1
    <3>2. CASE q # r
      BY <1>2, <3>2 DEF IInv, Facts, Writer
    <3> QED
      BY <3>1, <3>2
  <2> QED
    BY <2>1 DEF Writer
<1>4. Commits'
  <2>1. ASSUME NEW i \in 1 .. Len(queue), Works
        PROVE  state'[queue[i][1]].held /\ queue[i][2] <= Len(list[queue[i][1]])
    <3>1. queue[i] \in Run \X (1 .. MaxSeq)
      BY ElementOfSeq DEF IInv, Shape
    <3>2. state[queue[i][1]].held /\ queue[i][2] <= Len(list[queue[i][1]])
      BY <2>1 DEF IInv, Facts, Commits
    <3>3. CASE queue[i][1] = r
      <4>1. Queued(r)
        BY <3>3 DEF Queued
      <4> QED
        BY <2>1, <3>2, <3>3, <4>1
    <3>4. CASE queue[i][1] # r
      BY <3>1, <3>2, <3>4
    <3> QED
      BY <3>3, <3>4
  <2> QED
    BY <1>2, <2>1 DEF Commits
<1>5. FileFollowsMemory'
  <2>1. ASSUME NEW q \in Run, state'[q].made, Works
        PROVE  file[q].there /\ ~file[q].torn /\ file[q].log = First(list[q], state'[q].appended)
    <3>1. CASE q = r
      BY <2>1, <3>1
    <3>2. CASE q # r
      BY <2>1, <3>2 DEF IInv, Facts, FileFollowsMemory
    <3> QED
      BY <3>1, <3>2
  <2> QED
    BY <1>2, <2>1 DEF FileFollowsMemory
<1> QED
  BY <1>1, <1>3, <1>4, <1>5 DEF Facts

\* Giving a journal to original recovery keeps the facts.
LEMMA ExcludeFacts ==
  ASSUME IInv, NEW r \in Run, Exclude(r)
  PROVE  Facts'
<1>1. Works /\ UNCHANGED <<up, boot, disk, flushed>>
  BY DEF Exclude
<1>2. CASE failed' = TRUE /\ UNCHANGED memory
  BY <1>1, <1>2, Halts, LeavesDisk DEF Works, memory, Facts
<1>3. CASE /\ ~(state[r].held /\ (Pending(r) \/ Queued(r)))
           /\ state' = [state EXCEPT ![r] = NoState] /\ excluded' = excluded \cup {r}
           /\ UNCHANGED <<failed, list, loaded, queue, told>>
  <2>1. /\ state'[r] = NoState /\ \A q \in Run \ {r} : state'[q] = state[q]
        /\ NoState \in StateRec /\ ~NoState.held /\ ~NoState.made /\ NoState.appended = 0
    BY <1>3, JournalAssumption DEF IInv, Shape, NoState, StateRec
  <2>2. ~Queued(r)
    <3>1. CASE state[r].held
      BY <1>3, <3>1
    <3>2. CASE ~state[r].held
      BY <1>1, <3>2 DEF Queued, IInv, Facts, Commits
    <3> QED
      BY <3>1, <3>2
  <2>3. Len(list[r]) \in Nat
    BY LenProperties DEF IInv, Shape
  <2>4. state'[r].appended <= Len(list[r])
    BY <2>1, <2>3
  <2> QED
    BY <1>1, <1>3, <2>1, <2>2, <2>4, HoldsFacts
<1> QED
  BY <1>2, <1>3 DEF Exclude

\* Claiming a log that is to be created keeps the facts.
LEMMA ClaimNewFacts ==
  ASSUME IInv, NEW r \in Run, ClaimNew(r)
  PROVE  Facts'
<1>1. /\ Works /\ r \notin excluded /\ state' = [state EXCEPT ![r] = [NoState EXCEPT !.held = TRUE]]
      /\ UNCHANGED <<up, failed, list, queue, excluded, disk, flushed>>
  BY DEF ClaimNew
<1>2. /\ \A q \in Run \ {r} : state'[q] = state[q]
      /\ state'[r] \in StateRec /\ state'[r].held /\ ~state'[r].made /\ state'[r].appended = 0
  <2>1. 0 \in 0 .. MaxSeq /\ state \in [Run -> StateRec]
    BY JournalAssumption DEF IInv, Shape
  <2>2. NoState \in StateRec /\ ~NoState.made /\ NoState.appended = 0
    BY <2>1 DEF NoState, StateRec
  <2>3. LET claimed == [NoState EXCEPT !.held = TRUE] IN
          claimed \in StateRec /\ claimed.held /\ ~claimed.made /\ claimed.appended = 0
    BY <2>2 DEF StateRec
  <2> QED
    BY <1>1, <2>1, <2>3
<1>3. Len(list[r]) \in Nat
  BY LenProperties DEF IInv, Shape
<1>4. state'[r].appended <= Len(list[r])
  BY <1>2, <1>3
<1> QED
  BY <1>1, <1>2, <1>4, HoldsFacts

\* Claiming a log that was loaded keeps the facts.
LEMMA AdoptFacts ==
  ASSUME IInv, NEW r \in Run, Adopt(r)
  PROVE  Facts'
<1>1. Works /\ r \notin excluded /\ UNCHANGED <<up, boot, list, loaded, queue, excluded, told, disk, flushed>>
  BY DEF Adopt
<1>2. CASE failed' = TRUE /\ UNCHANGED state
  BY <1>1, <1>2, Halts, LeavesDisk DEF Works, memory, Facts
<1>3. CASE /\ Exact(r) /\ ~Queued(r) /\ (state[r].held => state[r].made)
           /\ state' = [state EXCEPT ![r] = Captured(r)] /\ UNCHANGED failed
  <2>1. state'[r] = Captured(r) /\ (\A q \in Run \ {r} : state'[q] = state[q]) /\ state[r] \in StateRec
    BY <1>3 DEF IInv, Shape
  <2>2. list[r] \in Seq(Record) /\ Len(list[r]) \in 0 .. MaxSeq
    BY LenProperties, JournalAssumption DEF IInv, Shape
  <2>3. CASE state[r].held
    <3>1. state'[r] = state[r]
      BY <2>1, <2>3 DEF Captured
    <3>2. /\ state[r].appended <= Len(list[r]) /\ state[r].made
          /\ file[r].there /\ ~file[r].torn /\ file[r].log = First(list[r], state[r].appended)
      BY <1>1, <1>3, <2>3 DEF IInv, Facts, Writer, FileFollowsMemory
    <3> QED
      BY <1>1, <1>3, <2>1, <2>3, <3>1, <3>2, HoldsFacts
  <2>4. CASE ~state[r].held
    <3>1. state'[r] = [held |-> TRUE, made |-> TRUE, appended |-> Len(list[r])]
      BY <2>1, <2>4 DEF Captured, Reserved
    <3>2. state'[r] \in StateRec /\ state'[r].held /\ state'[r].made /\ state'[r].appended = Len(list[r])
      BY <2>2, <3>1 DEF StateRec
    <3>3. First(list[r], Len(list[r])) = list[r]
      BY <2>2, SubSeqFull DEF First
    <3>4. /\ state'[r].appended <= Len(list[r])
          /\ file[r].there /\ ~file[r].torn /\ file[r].log = First(list[r], state'[r].appended)
      BY <1>3, <2>2, <3>2, <3>3 DEF Exact
    <3> QED
      BY <1>1, <1>3, <2>1, <3>2, <3>4, HoldsFacts
  <2> QED
    BY <2>3, <2>4
<1> QED
  BY <1>2, <1>3 DEF Adopt

\* A file that appears under a claimed name keeps the facts.
LEMMA IntrudesFacts ==
  ASSUME IInv, NEW r \in Run, Intrudes(r)
  PROVE  Facts'
<1>1. /\ ~state[r].made /\ ~file[r].there
      /\ file' = [file EXCEPT ![r] = [there |-> TRUE, log |-> <<Alien>>, torn |-> FALSE]]
      /\ UNCHANGED <<up, failed, list, state, queue, excluded, kept, rewritten, flushed>>
  BY DEF Intrudes, memory
<1>2. /\ file'[r] = [there |-> TRUE, log |-> <<Alien>>, torn |-> FALSE]
      /\ \A q \in Run \ {r} : file'[q] = file[q]
  BY <1>1 DEF IInv, Shape
<1>3. Writer' /\ Commits'
  BY <1>1 DEF IInv, Facts, Writer, Commits, Works
<1>4. FileFollowsMemory'
  BY <1>1, <1>2 DEF IInv, Facts, FileFollowsMemory, Works
<1>5. Files'
  BY <1>1, <1>2 DEF IInv, Facts, Files
<1>6. Durable'
  <2>1. ASSUME NEW q \in Run \ rewritten
        PROVE  Len(flushed[q]) <= kept[q] /\ IsPrefix(flushed[q], file'[q].log)
    <3>1. CASE q = r
      <4>1. /\ flushed[r] \in Seq(Record) /\ file[r].log = <<>> /\ <<Alien>> \in Seq(Record)
            /\ Len(<<Alien>>) = 1 /\ <<>> \in Seq(Record) /\ Len(<<>>) = 0
        <5>1. flushed[r] \in Seq(Record) /\ file[r].log = <<>>
          BY <1>1 DEF IInv, Shape, Facts, Files
        <5>2. Alien \in Record
          BY JournalAssumption DEF Alien, Record
        <5>3. <<Alien>> \in Seq(Record) /\ Len(<<Alien>>) = 1
          BY <5>2
        <5> QED
          BY <5>1, <5>3, EmptySeq
      <4>2. Len(flushed[r]) <= kept[r] /\ Len(flushed[r]) <= 0
        BY <2>1, <3>1, <4>1, PrefixIs DEF IInv, Facts, Durable
      <4>3. Len(flushed[r]) <= Len(<<Alien>>) /\ \A i \in 1 .. Len(flushed[r]) : flushed[r][i] = <<Alien>>[i]
        <5>1. Len(flushed[r]) \in Nat
          BY <4>1, LenProperties
        <5>2. Len(flushed[r]) = 0
          BY <4>2, <5>1
        <5> QED
          BY <4>1, <5>2
      <4>4. IsPrefix(flushed[r], <<Alien>>)
        BY <4>1, <4>3, PrefixIs
      <4> QED
        BY <1>2, <3>1, <4>2, <4>4
    <3>2. CASE q # r
      BY <1>2, <2>1, <3>2 DEF IInv, Facts, Durable
    <3> QED
      BY <3>1, <3>2
  <2> QED
    BY <1>1, <2>1 DEF Durable
<1> QED
  BY <1>3, <1>4, <1>5, <1>6 DEF Facts

----------------------------------------------------------------------------
(* The invariant. *)

\* No process and no logs satisfy the invariant.
LEMMA Initially ==
  ASSUME Init
  PROVE  IInv
<1>1. /\ <<>> \in Seq(Record) /\ Len(<<>>) = 0 /\ <<>> \in Seq(1 .. MaxSeq)
      /\ <<>> \in Seq(Run \X (1 .. MaxSeq)) /\ MaxSeq \in Nat /\ MaxBoots \in Nat /\ 0 \in 0 .. MaxSeq
  BY EmptySeq, JournalAssumption
<1>2. NoState \in StateRec /\ NoFile \in FileRec
  BY <1>1 DEF NoState, StateRec, NoFile, FileRec
<1>3. \A r \in Run : /\ Len(list[r]) = 0 /\ file[r] = NoFile /\ file[r].log = <<>> /\ kept[r] = 0 /\ list[r] = <<>>
                     /\ state[r] = NoState /\ flushed[r] = <<>>
  BY <1>1 DEF Init, NoFile
<1>4. Shape
  <2>1. \A r \in Run : Len(list[r]) <= MaxSeq /\ Len(file[r].log) <= MaxSeq /\ kept[r] <= Len(file[r].log)
    BY <1>1, <1>3
  <2>2. /\ list \in [Run -> Seq(Record)] /\ state \in [Run -> StateRec] /\ told \in [Run -> Seq(1 .. MaxSeq)]
        /\ flushed \in [Run -> Seq(Record)] /\ file \in [Run -> FileRec] /\ kept \in [Run -> Nat]
        /\ queue \in Seq(Run \X (1 .. MaxSeq))
    BY <1>1, <1>2 DEF Init
  <2>3. /\ up \in BOOLEAN /\ failed \in BOOLEAN /\ boot \in 0 .. MaxBoots /\ ~up
        /\ loaded \subseteq Run /\ excluded \subseteq Run /\ rewritten \subseteq Run
    <3>1. 0 \in 0 .. MaxBoots
      BY <1>1
    <3> QED
      BY <3>1 DEF Init
  <2> QED
    BY <2>1, <2>2, <2>3 DEF Shape
<1>5. Writer /\ Commits /\ FileFollowsMemory
  BY <1>1, <1>3 DEF Init, Works, NoState, Writer, Commits, FileFollowsMemory
<1>6. Files
  BY <1>1, <1>3 DEF Files, Clean, NoFile
<1>7. Durable
  <2>1. IsPrefix(<<>>, <<>>)
    BY <1>1 DEF IsPrefix
  <2> QED
    BY <1>1, <1>3, <2>1 DEF Durable
<1> QED
  BY <1>4, <1>5, <1>6, <1>7 DEF IInv, Facts

\* Every step keeps the invariant.
LEMMA Step ==
  ASSUME IInv, [Next]_vars
  PROVE  IInv'
<1>1. Shape'
  BY ShapeStep
<1>2. Facts'
  <2>1. CASE Boot
    BY <2>1, BootFacts
  <2>2. CASE Commit
    BY <2>2, CommitFacts
  <2>3. CASE Fails
    BY <2>3, Halts, LeavesDisk DEF Fails, Works, memory, Facts
  <2>4. CASE Crash
    BY <2>4, CrashFacts
  <2>5. ASSUME NEW r \in Run, Load(r) PROVE Facts'
    BY <2>5, LoadFacts
  <2>6. ASSUME NEW r \in Run, RepairCut(r) PROVE Facts'
    BY <2>6, RepairCutFacts
  <2>7. ASSUME NEW r \in Run, Exclude(r) PROVE Facts'
    BY <2>7, ExcludeFacts
  <2>8. ASSUME NEW r \in Run, ClaimNew(r) PROVE Facts'
    BY <2>8, ClaimNewFacts
  <2>9. ASSUME NEW r \in Run, Reserve(r) PROVE Facts'
    BY <2>9, ReserveFacts
  <2>10. ASSUME NEW r \in Run, Adopt(r) PROVE Facts'
    BY <2>10, AdoptFacts
  <2>11. ASSUME NEW r \in Run, Intrudes(r) PROVE Facts'
    BY <2>11, IntrudesFacts
  <2>12. ASSUME NEW r \in Run, NEW n \in 1 .. MaxSeq, Flush(r, n) PROVE Facts'
    BY <1>1, <2>12, FlushFacts
  <2>13. CASE UNCHANGED vars
    BY <2>13 DEF vars, memory, disk, IInv, Facts, Writer, Commits, FileFollowsMemory, Works, Files, Durable
  <2> QED
    BY <2>1, <2>2, <2>3, <2>4, <2>5, <2>6, <2>7, <2>8, <2>9, <2>10, <2>11, <2>12, <2>13 DEF Next
<1> QED
  BY <1>1, <1>2 DEF IInv

\* IInv is an invariant of the journal.
LEMMA Invariant == Spec => []IInv
  BY Initially, Step, PTL DEF Spec

----------------------------------------------------------------------------
(* The theorems. *)

\* Every variable keeps its type, and no log grows past its bound.
THEOREM TypeCorrect == Spec => []TypeOK
<1>1. IInv => TypeOK
  <2> SUFFICES ASSUME IInv PROVE TypeOK
    OBVIOUS
  <2>1. \A r \in Run : /\ state[r] \in [held : BOOLEAN, made : BOOLEAN, appended : 0 .. MaxSeq]
                       /\ file[r].there \in BOOLEAN /\ file[r].torn \in BOOLEAN /\ file[r].log \in Seq(Record)
    BY DEF IInv, Shape, StateRec, FileRec
  <2>2. \A r \in Run : kept[r] \in 0 .. Len(file[r].log)
    <3>1. \A r \in Run : Len(file[r].log) \in Nat /\ kept[r] \in Nat /\ kept[r] <= Len(file[r].log)
      BY <2>1, LenProperties DEF IInv, Shape
    <3> QED
      BY <3>1
  <2> QED
    BY <2>1, <2>2 DEF IInv, Shape, TypeOK
<1> QED
  BY <1>1, Invariant, PTL

\* While the writer works, the file of a run is the beginning of the run's events,
\* whichever commits and fences wrote it and however they overtook each other.
THEOREM FileFollows == Spec => []FileFollowsMemory
<1>1. IInv => FileFollowsMemory
  BY DEF IInv, Facts
<1> QED
  BY <1>1, Invariant, PTL

\* What a fence reported durable is the beginning of the file through every later
\* append, crash and restart, but for a log that startup rewrote in place.
THEOREM FlushesSurvive == Spec => []FlushedSurvives
<1>1. IInv => FlushedSurvives
  BY DEF IInv, Facts, Durable, FlushedSurvives
<1> QED
  BY <1>1, Invariant, PTL

\* What a step of the running process may do to a log.
GoesOn(r) ==
  /\ failed \/ r \in excluded => file'[r] = file[r]
  /\ IsPrefix(file[r].log, file'[r].log)
  /\ file[r].log # <<>> /\ file[r].log[1] = Alien => file'[r].log = file[r].log

\* A log that stays as it is only grows.
LEMMA Untouched ==
  ASSUME IInv, NEW r \in Run, file'[r] = file[r]
  PROVE  GoesOn(r)
<1>1. file[r].log \in Seq(Record)
  BY DEF IInv, Shape, FileRec
<1>2. IsPrefix(file[r].log, file[r].log)
  BY <1>1, PrefixIs
<1> QED
  BY <1>2 DEF GoesOn

\* A drain, stopped or not, only appends, and only to the log it is for.
LEMMA DrainGoesOn ==
  ASSUME IInv, Works, NEW r \in Run, state[r].held, NEW n \in 1 .. Len(list[r]),
         Drains(r, n) \/ DrainFails(r, n), UNCHANGED <<up, boot, list, loaded, excluded>>
  PROVE  \A q \in Run : GoesOn(q)
<1>1. /\ \A q \in Run : IsPrefix(file[q].log, file'[q].log)
      /\ \A q \in Run \ {r} : file'[q] = file[q]
      /\ ~Opens(r) => file' = file
  BY DrainFacts
<1>2. ~failed /\ r \notin excluded
  BY DEF Works, IInv, Facts, Writer
<1>3. GoesOn(r)
  <2>1. CASE ~Opens(r)
    BY <1>1, <2>1, Untouched
  <2>2. CASE Opens(r)
    <3>1. /\ file[r].log = First(list[r], state[r].appended)
          /\ list[r] \in Seq(Record) /\ Len(list[r]) \in Nat /\ state[r].appended \in 0 .. Len(list[r])
      BY <2>2, OpenLog
    <3>2. ASSUME file[r].log # <<>> PROVE file[r].log[1] # Alien
      <4>1. /\ First(list[r], state[r].appended) \in Seq(Record)
            /\ Len(First(list[r], state[r].appended)) = state[r].appended
            /\ \A i \in 1 .. state[r].appended : First(list[r], state[r].appended)[i] = list[r][i]
        BY <3>1, FirstIs
      <4>2. state[r].appended # 0
        BY <3>1, <3>2, <4>1, EmptySeq
      <4>3. 1 \in 1 .. state[r].appended /\ 1 \in 1 .. Len(list[r])
        BY <3>1, <4>2
      <4>4. list[r][1] # Alien
        BY <4>3 DEF IInv, Facts, Files, Clean
      <4> QED
        BY <3>1, <4>1, <4>3, <4>4
    <3> QED
      BY <1>1, <1>2, <3>2 DEF GoesOn
  <2> QED
    BY <2>1, <2>2
<1> QED
  BY <1>1, <1>3, Untouched

\* A failed writer leaves every log alone, and so do the writer with the journal of
\* original recovery and with a file that is not its own; else a log only grows.
THEOREM OnlyAppendsHolds == Spec => OnlyAppends
<1>1. ASSUME IInv, [Next]_vars, NEW r \in Run, up' PROVE GoesOn(r)
  <2>1. CASE Boot
    BY <1>1, <2>1, Untouched DEF Boot, disk
  <2>2. CASE Commit
    <3>1. CASE failed
      BY <1>1, <2>2, <3>1, Untouched DEF Commit
    <3>2. CASE ~failed
      <4> DEFINE q == Head(queue)[1]
                 n == Head(queue)[2]
      <4>1. /\ Works /\ q \in Run /\ state[q].held /\ n \in 1 .. Len(list[q])
            /\ (Drains(q, n) \/ DrainFails(q, n)) /\ UNCHANGED <<up, boot, list, loaded, excluded>>
        BY <1>1, <2>2, <3>2, Commits1 DEF Commit, Works
      <4> HIDE DEF q, n
      <4> QED
        BY <1>1, <4>1, DrainGoesOn
    <3> QED
      BY <3>1, <3>2
  <2>3. CASE Fails
    BY <1>1, <2>3, Untouched DEF Fails, disk
  <2>4. CASE Crash
    BY <1>1, <2>4 DEF Crash
  <2>5. ASSUME NEW q \in Run, Load(q) PROVE GoesOn(r)
    <3>1. /\ ~failed /\ q \notin excluded /\ \A p \in Run \ {q} : file'[p] = file[p]
          /\ file'[q].log = file[q].log
      BY <1>1, <2>5 DEF Load, Works, Repaired, IInv, Shape, FileRec
    <3>2. IsPrefix(file[q].log, file[q].log)
      <4>1. file[q].log \in Seq(Record)
        BY <1>1 DEF IInv, Shape, FileRec
      <4> QED
        BY <4>1, PrefixIs
    <3>3. CASE r = q
      BY <3>1, <3>2, <3>3 DEF GoesOn
    <3>4. CASE r # q
      BY <1>1, <3>1, <3>4, Untouched
    <3> QED
      BY <3>3, <3>4
  <2>6. ASSUME NEW q \in Run, RepairCut(q) PROVE GoesOn(r)
    BY <1>1, <2>6 DEF RepairCut
  <2>7. ASSUME NEW q \in Run, Exclude(q) \/ ClaimNew(q) \/ Reserve(q) \/ Adopt(q) PROVE GoesOn(r)
    BY <1>1, <2>7, Untouched DEF Exclude, ClaimNew, Reserve, Adopt, disk
  <2>8. ASSUME NEW q \in Run, Intrudes(q) PROVE GoesOn(r)
    <3>1. /\ Works /\ state[q].held /\ file[q].log = <<>> /\ \A p \in Run \ {q} : file'[p] = file[p]
          /\ file'[q].log = <<Alien>>
      BY <1>1, <2>8 DEF Intrudes, IInv, Shape, Facts, Files
    <3>2. CASE r = q
      <4>1. ~failed /\ r \notin excluded
        BY <1>1, <3>1, <3>2 DEF IInv, Facts, Writer, Works
      <4>2. IsPrefix(<<>>, <<Alien>>)
        <5>1. Alien \in Record
          BY JournalAssumption DEF Alien, Record
        <5>2. <<Alien>> \in Seq(Record) /\ Len(<<Alien>>) = 1
          BY <5>1
        <5>3. <<>> \in Seq(Record) /\ Len(<<>>) = 0
          BY EmptySeq
        <5>4. Len(<<>>) <= Len(<<Alien>>) /\ \A i \in 1 .. Len(<<>>) : <<>>[i] = <<Alien>>[i]
          BY <5>2, <5>3
        <5> QED
          BY <5>2, <5>3, <5>4, PrefixIs
      <4> QED
        BY <3>1, <3>2, <4>1, <4>2 DEF GoesOn
    <3>3. CASE r # q
      BY <1>1, <3>1, <3>3, Untouched
    <3> QED
      BY <3>2, <3>3
  <2>9. ASSUME NEW q \in Run, NEW n \in 1 .. MaxSeq, Flush(q, n) PROVE GoesOn(r)
    <3>1. /\ Works /\ state[q].held /\ n \in 1 .. Len(list[q])
          /\ (Drains(q, n) \/ DrainFails(q, n)) /\ UNCHANGED <<up, boot, list, loaded, queue, excluded>>
      BY <2>9 DEF Flush, Live, Reserved
    <3> QED
      BY <1>1, <3>1, DrainGoesOn
  <2>10. CASE UNCHANGED vars
    BY <1>1, <2>10, Untouched DEF vars, disk
  <2> QED
    BY <1>1, <2>1, <2>2, <2>3, <2>4, <2>5, <2>6, <2>7, <2>8, <2>9, <2>10 DEF Next
<1>2. IInv /\ [Next]_vars =>
        [\A r \in Run :
           /\ up' /\ (failed \/ r \in excluded) => file'[r] = file[r]
           /\ up' => IsPrefix(file[r].log, file'[r].log)
           /\ up' /\ file[r].log # <<>> /\ file[r].log[1] = Alien => file'[r].log = file[r].log]_vars
  BY <1>1 DEF GoesOn
<1> QED
  BY <1>2, Invariant, PTL DEF Spec, OnlyAppends

----------------------------------------------------------------------------
(* What the callbacks are told. *)

\* The first k records of a log are those of earlier boots than b.
Since(log, k, b) == k \in 0 .. Len(log) /\ \A i \in 1 .. Len(log) : log[i][1] # b <=> i <= k

\* The sequence numbers of the records that follow k, up to a.
After(k, a) == [i \in 1 .. a - k |-> k + i]

\* No record is of a later boot.
Dated == \A r \in Run :
  /\ \A i \in 1 .. Len(list[r]) : list[r][i][1] <= boot
  /\ \A i \in 1 .. Len(file[r].log) : file[r].log[i][1] <= boot

\* The records of this boot follow the earlier ones, and the callbacks were told those
\* that were appended; a log that was neither loaded nor excluded is from before it.
Begun(r) ==
  /\ state[r].held => r \in loaded
  /\ r \notin loaded => list[r] = <<>>
  /\ r \notin loaded \cup excluded => \A i \in 1 .. Len(file[r].log) : file[r].log[i][1] < boot
  /\ \E k \in 0 .. Len(list[r]) :
       /\ Since(list[r], k, boot)
       /\ state[r].held =>
            k <= state[r].appended /\ told[r] = After(k, state[r].appended)
       /\ ~state[r].held /\ r \notin excluded => k = Len(list[r]) /\ told[r] = <<>>

TInv == IInv /\ Dated /\ (Works => \A r \in Run : Begun(r))

\* The earlier records are counted by where they end.
LEMMA SinceCounts ==
  ASSUME NEW log, Len(log) \in Nat, NEW k, NEW b, Since(log, k, b)
  PROVE  Cardinality({i \in 1 .. Len(log) : log[i][1] # b}) = k
<1> DEFINE old == {i \in 1 .. Len(log) : log[i][1] # b}
<1>1. k \in Nat /\ old = 1 .. k
  BY DEF Since
<1>2. Cardinality(1 .. k) = IF 1 > k THEN 0 ELSE k - 1 + 1
  <2>1. 1 \in Int /\ k \in Int
    BY <1>1
  <2> HIDE DEF old
  <2> QED
    BY <2>1, FS_Interval, Zenon
<1> HIDE DEF old
<1>3. Cardinality(1 .. k) = k
  BY <1>1, <1>2
<1>4. old = 1 .. k
  BY <1>1
<1>5. Cardinality(old) = k
  BY <1>3, <1>4
<1> QED
  BY <1>5 DEF old

\* A stretch of numbers, continued.
LEMMA Continued ==
  ASSUME NEW k \in Nat, NEW a \in Nat, k <= a, NEW d \in Nat
  PROVE  After(k, a) \o [i \in 1 .. d |-> a + i] = After(k, a + d)
<1> DEFINE s == After(k, a)
           t == [i \in 1 .. d |-> a + i]
           u == After(k, a + d)
<1>1. a - k \in Nat /\ a + d - k \in Nat
  OBVIOUS
<1>2. s \in Seq(Nat) /\ Len(s) = a - k /\ \A i \in 1 .. a - k : s[i] = k + i
  BY <1>1 DEF After
<1>3. t \in Seq(Nat) /\ Len(t) = d /\ \A i \in 1 .. d : t[i] = a + i
  OBVIOUS
<1>4. u \in Seq(Nat) /\ Len(u) = a + d - k /\ \A i \in 1 .. a + d - k : u[i] = k + i
  BY <1>1 DEF After
<1> HIDE DEF s, t, u
<1>5. s \o t \in Seq(Nat) /\ Len(s \o t) = Len(s) + Len(t)
      /\ \A i \in 1 .. Len(s) + Len(t) : (s \o t)[i] = IF i <= Len(s) THEN s[i] ELSE t[i - Len(s)]
  BY <1>2, <1>3, ConcatProperties
<1>6. ASSUME NEW i \in 1 .. a + d - k PROVE (s \o t)[i] = u[i]
  <2>1. CASE i <= a - k
    BY <1>1, <1>2, <1>3, <1>4, <1>5, <2>1
  <2>2. CASE ~(i <= a - k)
    <3>1. i - (a - k) \in 1 .. d /\ a + (i - (a - k)) = k + i
      BY <2>2
    <3> QED
      BY <1>1, <1>2, <1>3, <1>4, <1>5, <2>2, <3>1
  <2> QED
    BY <2>1, <2>2
<1>7. Len(s \o t) = Len(u)
  BY <1>1, <1>2, <1>3, <1>4, <1>5
<1>8. s \o t = u
  BY <1>4, <1>5, <1>6, <1>7, SeqEqual
<1> QED
  BY <1>8 DEF s, t, u

\* The beginning of a dated log is dated.
LEMMA FirstDated ==
  ASSUME NEW S, NEW log \in Seq(S), NEW n \in 0 .. Len(log), NEW b,
         \A i \in 1 .. Len(log) : log[i][1] <= b
  PROVE  \A i \in 1 .. Len(First(log, n)) : First(log, n)[i][1] <= b
<1>1. Len(log) \in Nat
  BY LenProperties
<1>2. Len(First(log, n)) = n /\ \A i \in 1 .. n : First(log, n)[i] = log[i]
  BY FirstIs
<1>3. \A i \in 1 .. n : i \in 1 .. Len(log)
  BY <1>1
<1> QED
  BY <1>2, <1>3

\* A drain dates nothing later.
LEMMA DrainDated ==
  ASSUME IInv, Dated, Works, NEW r \in Run, state[r].held, NEW n \in 1 .. Len(list[r]),
         Drains(r, n) \/ DrainFails(r, n), UNCHANGED <<boot, list>>
  PROVE  Dated'
<1>1. \/ UNCHANGED file
      \/ \E m \in 0 .. Len(list[r]), torn \in BOOLEAN : Wrote(r, m, torn)
  <2>1. state[r].appended \in Nat
    BY DEF IInv, Shape, StateRec
  <2>2. CASE Drains(r, n)
    <3>1. PICK m \in state[r].appended .. Len(list[r]) : Wrote(r, m, FALSE)
      BY <2>2, Drained
    <3>2. m \in 0 .. Len(list[r])
      BY <2>1, <3>1
    <3> QED
      BY <3>1, <3>2
  <2>3. CASE DrainFails(r, n)
    <3>1. UNCHANGED file \/ \E m \in state[r].appended .. Len(list[r]), torn \in BOOLEAN : Wrote(r, m, torn)
      BY <2>3, DrainStopped
    <3>2. \A m \in state[r].appended .. Len(list[r]) : m \in 0 .. Len(list[r])
      BY <2>1
    <3> QED
      BY <3>1, <3>2
  <2> QED
    BY <2>2, <2>3
<1>2. CASE UNCHANGED file
  BY <1>2 DEF Dated
<1>3. ASSUME NEW m \in 0 .. Len(list[r]), NEW torn \in BOOLEAN, Wrote(r, m, torn) PROVE Dated'
  <2>1. list[r] \in Seq(Record) /\ \A i \in 1 .. Len(list[r]) : list[r][i][1] <= boot
    BY DEF Dated, IInv, Shape
  <2>2. \A i \in 1 .. Len(First(list[r], m)) : First(list[r], m)[i][1] <= boot
    BY <2>1, FirstDated
  <2>3. \A i \in 1 .. Len(file'[r].log) : file'[r].log[i][1] <= boot
    BY <1>3, <2>2 DEF Wrote
  <2> QED
    BY <1>3, <2>3 DEF Dated, Wrote
<1> QED
  BY <1>1, <1>2, <1>3

\* Nothing is ever dated later than the present boot.
LEMMA DatedStep ==
  ASSUME IInv, Dated, [Next]_vars
  PROVE  Dated'
<1> /\ list \in [Run -> Seq(Record)] /\ file \in [Run -> FileRec] /\ boot \in Nat
    /\ \A r \in Run : /\ list[r] \in Seq(Record) /\ Len(list[r]) \in Nat
                      /\ file[r].log \in Seq(Record) /\ Len(file[r].log) \in Nat
  BY LenProperties DEF IInv, Shape, FileRec
<1>1. CASE Boot
  <2>1. \A r \in Run : Len(list'[r]) = 0
    BY <1>1 DEF Boot
  <2>2. boot' = boot + 1 /\ file' = file
    BY <1>1 DEF Boot, disk
  <2>3. \A r \in Run : \A i \in 1 .. Len(file[r].log) : file[r].log[i][1] <= boot + 1
    <3>1. \A r \in Run : \A i \in 1 .. Len(file[r].log) : file[r].log[i] \in Record /\ file[r].log[i][1] <= boot
      BY ElementOfSeq DEF Dated
    <3>2. \A x \in Record : x[1] \in Nat
      BY DEF Record
    <3> QED
      BY <3>1, <3>2
  <2> QED
    BY <2>1, <2>2, <2>3 DEF Dated
<1>2. CASE Commit
  <2>1. CASE failed
    BY <1>2, <2>1 DEF Commit, Dated
  <2>2. CASE ~failed
    <3> DEFINE r == Head(queue)[1]
               n == Head(queue)[2]
    <3>1. /\ Works /\ r \in Run /\ state[r].held /\ n \in 1 .. Len(list[r])
          /\ (Drains(r, n) \/ DrainFails(r, n)) /\ UNCHANGED <<boot, list>>
      BY <1>2, <2>2, Commits1 DEF Commit, Works
    <3> HIDE DEF r, n
    <3> QED
      BY <3>1, DrainDated
  <2> QED
    BY <2>1, <2>2
<1>3. CASE Fails
  BY <1>3 DEF Fails, memory, disk, Dated
<1>4. CASE Crash
  <2>1. ASSUME NEW r \in Run PROVE \A i \in 1 .. Len(file'[r].log) : file'[r].log[i][1] <= boot
    <3> DEFINE writing == ~failed /\ state[r].held /\ Opens(r)
               whole == IF writing THEN list[r] ELSE file[r].log
    <3>0. file'[r] \in Remains(r)
      BY <1>4 DEF Crash
    <3>1. PICK there \in {file[r].there, writing \/ file[r].there}, n \in kept[r] .. Len(whole),
               torn \in BOOLEAN : file'[r] = [there |-> there, log |-> First(whole, n), torn |-> torn]
      BY <3>0 DEF Remains
    <3>2. whole \in Seq(Record) /\ \A i \in 1 .. Len(whole) : whole[i][1] <= boot
      BY DEF Dated
    <3>3. kept[r] \in Nat /\ Len(whole) \in Nat
      BY <3>2, LenProperties DEF IInv, Shape
    <3> HIDE DEF whole
    <3>4. n \in 0 .. Len(whole) /\ file'[r].log = First(whole, n)
      BY <3>1, <3>3
    <3> QED
      BY <3>1, <3>2, <3>4, FirstDated
  <2> QED
    BY <1>4, <2>1 DEF Crash, memory, Dated
<1>5. ASSUME NEW r \in Run, Load(r) PROVE Dated'
  <2>1. /\ list' = [list EXCEPT ![r] = file[r].log] /\ boot' = boot
        /\ \A q \in Run : file'[q].log = file[q].log
    BY <1>5 DEF Load, Repaired, FileRec
  <2>2. list'[r] = file[r].log /\ \A q \in Run \ {r} : list'[q] = list[q]
    BY <2>1
  <2> QED
    BY <2>1, <2>2 DEF Dated
<1>6. ASSUME NEW r \in Run, RepairCut(r) PROVE Dated'
  <2>1. PICK n \in 0 .. Len(file[r].log), torn \in BOOLEAN :
          file' = [file EXCEPT ![r].log = First(@, n), ![r].torn = torn]
    BY <1>6 DEF RepairCut
  <2>2. file'[r].log = First(file[r].log, n) /\ \A q \in Run \ {r} : file'[q] = file[q]
    BY <2>1 DEF FileRec
  <2>3. \A i \in 1 .. Len(file'[r].log) : file'[r].log[i][1] <= boot
    BY <2>2, FirstDated DEF Dated
  <2> QED
    BY <1>6, <2>2, <2>3 DEF RepairCut, memory, Dated
<1>7. ASSUME NEW r \in Run, Exclude(r) \/ ClaimNew(r) \/ Adopt(r) PROVE Dated'
  BY <1>7 DEF Exclude, ClaimNew, Adopt, memory, disk, Dated
<1>8. ASSUME NEW r \in Run, Reserve(r) PROVE Dated'
  <2>1. CASE list' = list
    BY <1>8, <2>1 DEF Reserve, disk, Dated
  <2>2. CASE list' = [list EXCEPT ![r] = Append(@, <<boot, Reserved(r) + 1>>)]
    <3> DEFINE new == <<boot, Reserved(r) + 1>>
    <3>1. list'[r] = Append(list[r], new) /\ (\A q \in Run \ {r} : list'[q] = list[q]) /\ new[1] = boot
      BY <2>2
    <3> HIDE DEF new
    <3>2. Len(list'[r]) = Len(list[r]) + 1 /\ list'[r][Len(list[r]) + 1] = new
          /\ \A i \in 1 .. Len(list[r]) : list'[r][i] = list[r][i]
      BY <3>1
    <3>3. \A i \in 1 .. Len(list'[r]) : list'[r][i][1] <= boot
      BY <3>1, <3>2 DEF Dated
    <3> QED
      BY <1>8, <3>1, <3>3 DEF Reserve, disk, Dated
  <2> QED
    BY <1>8, <2>1, <2>2 DEF Reserve, memory
<1>9. ASSUME NEW r \in Run, Intrudes(r) PROVE Dated'
  <2>1. file'[r].log = <<Alien>> /\ \A q \in Run \ {r} : file'[q] = file[q]
    BY <1>9 DEF Intrudes
  <2>2. Len(<<Alien>>) = 1 /\ <<Alien>>[1][1] = 0
    BY DEF Alien
  <2>3. \A i \in 1 .. Len(file'[r].log) : file'[r].log[i][1] <= boot
    BY <2>1, <2>2
  <2> QED
    BY <1>9, <2>1, <2>3 DEF Intrudes, memory, Dated
<1>10. ASSUME NEW r \in Run, NEW n \in 1 .. MaxSeq, Flush(r, n) PROVE Dated'
  BY <1>10, DrainDated DEF Flush, Live, Reserved
<1>11. CASE UNCHANGED vars
  BY <1>11 DEF vars, memory, disk, Dated
<1> QED
  BY <1>1, <1>2, <1>3, <1>4, <1>5, <1>6, <1>7, <1>8, <1>9, <1>10, <1>11 DEF Next

\* A log that a step leaves alone.
LEMMA BegunSame ==
  ASSUME NEW q \in Run, Begun(q), boot' = boot, list'[q] = list[q], state'[q] = state[q],
         told'[q] = told[q], file'[q].log = file[q].log,
         q \in loaded' <=> q \in loaded, q \in excluded' <=> q \in excluded
  PROVE  Begun(q)'
BY DEF Begun

\* A drain tells what it appends.
LEMMA DrainTells ==
  ASSUME TInv, Works, NEW r \in Run, state[r].held, NEW n \in 1 .. Len(list[r]), Drains(r, n),
         UNCHANGED <<boot, list, loaded, excluded>>
  PROVE  \A q \in Run : Begun(q)'
<1>1. IInv /\ (\A q \in Run : Begun(q)) /\ Opens(r)
  BY DEF TInv, Drains
<1> DEFINE a == state[r].appended
           d == Len(Due(r, n))
<1>2. a \in Nat /\ d \in Nat
  <2>1. Due(r, n) \in Seq(Record)
    BY <1>1, DueExtends
  <2> QED
    BY <1>1, <2>1, LenProperties DEF IInv, Shape, StateRec
<1>3. /\ state'[r].held /\ state'[r].appended = a + d
      /\ told'[r] = told[r] \o [i \in 1 .. d |-> a + i]
      /\ \A q \in Run \ {r} : state'[q] = state[q] /\ told'[q] = told[q] /\ file'[q] = file[q]
  BY <1>1 DEF Drains, Tells, IInv, Shape, StateRec
<1> HIDE DEF a, d
<1>4. PICK k \in 0 .. Len(list[r]) :
        Since(list[r], k, boot) /\ k <= a /\ told[r] = After(k, a)
  BY <1>1 DEF Begun, a
<1>5. k \in Nat
  BY <1>4
<1>6. told'[r] = After(k, a + d) /\ k <= a + d
  <2>1. After(k, a) \o [i \in 1 .. d |-> a + i] = After(k, a + d)
    BY <1>2, <1>4, <1>5, Continued
  <2>2. told'[r] = After(k, a) \o [i \in 1 .. d |-> a + i]
    BY <1>3, <1>4
  <2>3. k <= a + d
    BY <1>2, <1>4, <1>5
  <2> QED
    BY <2>1, <2>2, <2>3
<1>7. Begun(r)'
  <2>1. r \in loaded /\ r \in loaded'
    BY <1>1 DEF Begun
  <2>2. told'[r] = After(k, state'[r].appended) /\ k <= state'[r].appended
    BY <1>3, <1>6
  <2>3. list'[r] = list[r] /\ boot' = boot /\ state'[r].held
    BY <1>3
  <2> QED
    BY <1>4, <2>1, <2>2, <2>3 DEF Begun
<1>8. ASSUME NEW q \in Run \ {r} PROVE Begun(q)'
  <2>1. Begun(q) /\ boot' = boot /\ list'[q] = list[q] /\ state'[q] = state[q] /\ told'[q] = told[q]
        /\ file'[q].log = file[q].log
    BY <1>1, <1>3
  <2> QED
    BY <2>1, BegunSame
<1> QED
  BY <1>7, <1>8

\* What a log is like when the writer takes it up: nothing of it is of this boot.
LEMMA TakenUp ==
  ASSUME NEW r \in Run, Begun(r), ~state[r].held, r \notin excluded, Len(list[r]) \in Nat
  PROVE  /\ Since(list[r], Len(list[r]), boot) /\ told[r] = <<>>
         /\ told[r] = After(Len(list[r]), Len(list[r]))
<1>1. Since(list[r], Len(list[r]), boot) /\ told[r] = <<>>
  BY DEF Begun
<1>2. After(Len(list[r]), Len(list[r])) = <<>>
  BY DEF After
<1> QED
  BY <1>1, <1>2

\* A reservation is a record of this boot that no callback was told.
LEMMA ReserveTells ==
  ASSUME TInv, NEW r \in Run, Reserve(r), Works'
  PROVE  \A q \in Run : Begun(q)'
<1>1. /\ IInv /\ Works /\ (\A q \in Run : Begun(q)) /\ list \in [Run -> Seq(Record)]
      /\ Len(list[r]) \in Nat /\ state \in [Run -> StateRec] /\ r \notin excluded /\ r \in loaded
  BY LenProperties DEF TInv, Reserve, Works, IInv, Shape
<1> DEFINE new == <<boot, Reserved(r) + 1>>
<1>2. /\ list' = [list EXCEPT ![r] = Append(@, new)] /\ state' = [state EXCEPT ![r] = Captured(r)]
      /\ UNCHANGED <<boot, loaded, excluded, told, file>> /\ new[1] = boot
  BY <1>1 DEF Reserve, Works, disk
<1> HIDE DEF new
<1>3. /\ list'[r] = Append(list[r], new) /\ state'[r] = Captured(r)
      /\ \A q \in Run \ {r} : list'[q] = list[q] /\ state'[q] = state[q]
  BY <1>1, <1>2
<1>4. PICK k \in 0 .. Len(list[r]) :
        /\ Since(list[r], k, boot)
        /\ k <= Captured(r).appended /\ told[r] = After(k, Captured(r).appended)
  <2>1. CASE state[r].held
    BY <1>1, <2>1 DEF Begun, Captured
  <2>2. CASE ~state[r].held
    <3>1. Captured(r).appended = Len(list[r])
      BY <2>2 DEF Captured, Reserved
    <3> QED
      BY <1>1, <2>2, <3>1, TakenUp
  <2> QED
    BY <2>1, <2>2
<1>5. Since(list'[r], k, boot) /\ k \in 0 .. Len(list'[r])
  <2>1. /\ Len(list'[r]) = Len(list[r]) + 1 /\ list'[r][Len(list[r]) + 1] = new
        /\ \A i \in 1 .. Len(list[r]) : list'[r][i] = list[r][i]
    BY <1>1, <1>3
  <2> QED
    BY <1>1, <1>2, <1>4, <2>1 DEF Since
<1>6. state'[r].held
  BY <1>3 DEF Captured
<1>7. Begun(r)'
  BY <1>1, <1>2, <1>3, <1>4, <1>5, <1>6 DEF Begun
<1>8. ASSUME NEW q \in Run \ {r} PROVE Begun(q)'
  BY <1>1, <1>2, <1>3, BegunSame
<1> QED
  BY <1>7, <1>8

\* The other steps of startup and of the writer tell nothing.
LEMMA SetupTells ==
  ASSUME TInv, NEW r \in Run, Load(r) \/ Exclude(r) \/ ClaimNew(r) \/ Adopt(r), Works'
  PROVE  \A q \in Run : Begun(q)'
<1>1. /\ IInv /\ Works /\ (\A q \in Run : Begun(q)) /\ list \in [Run -> Seq(Record)]
      /\ Len(list[r]) \in Nat /\ state \in [Run -> StateRec] /\ file \in [Run -> FileRec]
      /\ file[r].log \in Seq(Record) /\ Len(file[r].log) \in Nat
  BY LenProperties DEF TInv, Load, Exclude, ClaimNew, Adopt, Works, IInv, Shape, FileRec
<1>2. CASE Load(r)
  <2>1. /\ list'[r] = file[r].log /\ \A q \in Run \ {r} : list'[q] = list[q]
        /\ \A q \in Run : file'[q].log = file[q].log
        /\ UNCHANGED <<boot, state, told, excluded>> /\ loaded' = loaded \cup {r}
        /\ ~state[r].held /\ r \notin loaded \cup excluded
    BY <1>1, <1>2 DEF Load, Repaired, FileRec
  <2>2. \A i \in 1 .. Len(file[r].log) : file[r].log[i][1] # boot
    <3>1. \A i \in 1 .. Len(file[r].log) : file[r].log[i][1] < boot /\ file[r].log[i] \in Record
      BY <1>1, <2>1, ElementOfSeq DEF Begun
    <3>2. boot \in Nat /\ \A x \in Record : x[1] \in Nat
      BY <1>1 DEF Record, IInv, Shape
    <3> QED
      BY <3>1, <3>2
  <2>3. Since(list'[r], Len(list'[r]), boot) /\ told[r] = <<>> /\ Len(list'[r]) \in 0 .. Len(list'[r])
    BY <1>1, <2>1, <2>2, TakenUp DEF Since
  <2>4. Begun(r)'
    BY <2>1, <2>3 DEF Begun
  <2>5. ASSUME NEW q \in Run \ {r} PROVE Begun(q)'
    BY <1>1, <2>1, BegunSame
  <2> QED
    BY <2>4, <2>5
<1>3. CASE Exclude(r)
  <2>1. /\ state'[r] = NoState /\ (\A q \in Run \ {r} : state'[q] = state[q])
        /\ excluded' = excluded \cup {r} /\ UNCHANGED <<boot, list, loaded, told, file>>
    BY <1>1, <1>3 DEF Exclude, Works, disk
  <2>2. Begun(r)'
    <3>1. ~state'[r].held /\ r \in excluded'
      BY <2>1 DEF NoState
    <3>2. PICK k \in 0 .. Len(list[r]) : Since(list[r], k, boot)
      BY <1>1 DEF Begun
    <3>3. r \notin loaded => list[r] = <<>>
      BY <1>1 DEF Begun
    <3> QED
      BY <2>1, <3>1, <3>2, <3>3 DEF Begun
  <2>3. ASSUME NEW q \in Run \ {r} PROVE Begun(q)'
    BY <1>1, <2>1, BegunSame
  <2> QED
    BY <2>2, <2>3
<1>4. CASE ClaimNew(r)
  <2>1. /\ state'[r] = [NoState EXCEPT !.held = TRUE] /\ (\A q \in Run \ {r} : state'[q] = state[q])
        /\ loaded' = loaded \cup {r} /\ UNCHANGED <<boot, list, excluded, told, file>>
        /\ r \notin loaded \cup excluded /\ ~state[r].held
    BY <1>1, <1>4 DEF ClaimNew, disk
  <2>2. state'[r].held /\ state'[r].appended = 0 /\ list[r] = <<>> /\ Len(list[r]) = 0
    BY <1>1, <2>1 DEF NoState, Begun
  <2>3. Since(list[r], 0, boot) /\ told[r] = After(0, 0)
    BY <1>1, <2>1, <2>2, TakenUp
  <2>4. Begun(r)'
    BY <2>1, <2>2, <2>3 DEF Begun
  <2>5. ASSUME NEW q \in Run \ {r} PROVE Begun(q)'
    BY <1>1, <2>1, BegunSame
  <2> QED
    BY <2>4, <2>5
<1>5. CASE Adopt(r)
  <2>1. /\ state'[r] = Captured(r) /\ (\A q \in Run \ {r} : state'[q] = state[q])
        /\ UNCHANGED <<boot, list, loaded, excluded, told, file>> /\ r \in loaded \ excluded
    BY <1>1, <1>5 DEF Adopt, Works, disk
  <2>2. Begun(r)'
    <3>1. CASE state[r].held
      BY <1>1, <2>1, <3>1, BegunSame DEF Captured
    <3>2. CASE ~state[r].held
      <4>1. state'[r].held /\ state'[r].appended = Len(list[r])
        BY <2>1, <3>2 DEF Captured, Reserved
      <4>2. Since(list[r], Len(list[r]), boot) /\ Len(list[r]) \in 0 .. Len(list[r])
            /\ told[r] = After(Len(list[r]), Len(list[r]))
        BY <1>1, <2>1, <3>2, TakenUp
      <4> QED
        BY <1>1, <2>1, <4>1, <4>2 DEF Begun
    <3> QED
      BY <3>1, <3>2
  <2>3. ASSUME NEW q \in Run \ {r} PROVE Begun(q)'
    BY <1>1, <2>1, BegunSame
  <2> QED
    BY <2>2, <2>3
<1> QED
  BY <1>2, <1>3, <1>4, <1>5

\* Every step keeps the account of what was told.
LEMMA ToldStep ==
  ASSUME TInv, [Next]_vars
  PROVE  TInv'
<1>1. IInv' /\ Dated' /\ IInv
  BY Step, DatedStep DEF TInv
<1>2. ASSUME Works' PROVE \A q \in Run : Begun(q)'
  <2>1. CASE Boot
    <3>1. /\ boot' = boot + 1 /\ file' = file /\ boot \in Nat
          /\ \A q \in Run : list'[q] = <<>> /\ ~state'[q].held /\ told'[q] = <<>> /\ q \notin loaded'
      BY <2>1, <1>1 DEF Boot, disk, NoState, IInv, Shape
    <3>2. \A q \in Run : \A i \in 1 .. Len(file[q].log) : file[q].log[i][1] < boot + 1
      <4>1. \A q \in Run : file[q].log \in Seq(Record)
        BY <1>1 DEF IInv, Shape, FileRec
      <4>2. \A q \in Run : \A i \in 1 .. Len(file[q].log) : file[q].log[i] \in Record /\ file[q].log[i][1] <= boot
        BY <4>1, ElementOfSeq DEF TInv, Dated
      <4>3. \A x \in Record : x[1] \in Nat
        BY DEF Record
      <4> QED
        BY <3>1, <4>2, <4>3
    <3>3. \A q \in Run : Since(list'[q], 0, boot') /\ Len(list'[q]) = 0
      BY <3>1 DEF Since
    <3> QED
      BY <3>1, <3>2, <3>3 DEF Begun
  <2>2. CASE Commit
    <3> DEFINE r == Head(queue)[1]
               n == Head(queue)[2]
    <3>1. ~failed' /\ ~failed
      BY <1>2, <2>2 DEF Works, Commit, Drains, DrainFails
    <3>2. /\ Works /\ r \in Run /\ state[r].held /\ n \in 1 .. Len(list[r])
          /\ Drains(r, n) /\ UNCHANGED <<boot, list, loaded, excluded>>
      BY <1>1, <2>2, <3>1, Commits1 DEF Commit, Works, DrainFails
    <3> HIDE DEF r, n
    <3> QED
      BY <3>2, DrainTells
  <2>3. ASSUME NEW r \in Run, NEW n \in 1 .. MaxSeq, Flush(r, n) PROVE \A q \in Run : Begun(q)'
    <3>1. /\ Works /\ state[r].held /\ n \in 1 .. Len(list[r])
          /\ Drains(r, n) /\ UNCHANGED <<boot, list, loaded, excluded>>
      BY <1>2, <2>3 DEF Flush, Live, Reserved, DrainFails, Works
    <3> QED
      BY <3>1, DrainTells
  <2>4. ASSUME NEW r \in Run, Intrudes(r) PROVE \A q \in Run : Begun(q)'
    <3>1. /\ Works /\ state[r].held /\ r \in loaded /\ (\A q \in Run : Begun(q))
          /\ UNCHANGED <<boot, list, loaded, state, excluded, told>>
          /\ \A q \in Run \ {r} : file'[q] = file[q]
      BY <2>4 DEF Intrudes, memory, TInv, Begun
    <3>2. Begun(r)'
      BY <3>1 DEF Begun
    <3>3. ASSUME NEW q \in Run \ {r} PROVE Begun(q)'
      BY <3>1, BegunSame
    <3> QED
      BY <3>2, <3>3
  <2>5. CASE UNCHANGED vars
    <3>1. UNCHANGED <<boot, list, loaded, state, excluded, told, file>> /\ Works
      BY <1>2, <2>5 DEF vars, memory, disk, Works
    <3> QED
      BY <3>1, BegunSame DEF TInv
  <2>6. ~Fails /\ ~Crash /\ \A r \in Run : ~RepairCut(r)
    BY <1>2 DEF Fails, Crash, RepairCut, Works
  <2> QED
    BY <1>2, <2>1, <2>2, <2>3, <2>4, <2>5, <2>6, ReserveTells, SetupTells DEF Next
<1> QED
  BY <1>1, <1>2 DEF TInv

\* At the start nothing was told and nothing written.
LEMMA ToldInit ==
  ASSUME Init
  PROVE  TInv
<1>1. \A r \in Run : Len(list[r]) = 0 /\ Len(file[r].log) = 0
  <2>1. \A r \in Run : list[r] = <<>> /\ file[r].log = <<>>
    BY DEF Init, NoFile
  <2> QED
    BY <2>1
<1>2. Dated
  BY <1>1 DEF Dated
<1>3. ~Works
  BY DEF Works, Init
<1> QED
  BY <1>2, <1>3, Initially DEF TInv

\* Every appended record of this boot is told to its callback once and in order, a
\* record that is not in the file to nobody (run-journal.ts drain, bridge.ts emit).
THEOREM TellsInOrder == Spec => []ToldInOrder
<1>1. TInv => ToldInOrder
  <2> SUFFICES ASSUME TInv, Works, NEW r \in Run, state[r].held
               PROVE  told[r] = After(Cardinality({i \in 1 .. Reserved(r) : list[r][i][1] # boot}),
                                      state[r].appended)
    BY DEF ToldInOrder, After
  <2>1. PICK k \in 0 .. Len(list[r]) : Since(list[r], k, boot) /\ told[r] = After(k, state[r].appended)
    BY DEF TInv, Begun
  <2>2. Len(list[r]) \in Nat
    BY LenProperties DEF TInv, IInv, Shape
  <2>3. Cardinality({i \in 1 .. Reserved(r) : list[r][i][1] # boot}) = k
    BY <2>1, <2>2, SinceCounts DEF Reserved
  <2> QED
    BY <2>1, <2>3
<1>2. Spec => []TInv
  BY ToldInit, ToldStep, PTL DEF Spec
<1> QED
  BY <1>1, <1>2, PTL
=============================================================================
