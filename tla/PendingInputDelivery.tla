------------------------ MODULE PendingInputDelivery ------------------------
(* The durable records of PendingInputStore implement PromptQueue: the queue *)
(* is read off the disk, and what beforeNative answered is what the harness *)
(* was told.  Claims, links, pauses, recovery and restarts are invisible.    *)
EXTENDS PendingInputStore

StatusOf(i) ==
  CASE i.state = "absent" -> "new"
    [] Active(i) -> IF i.claim.possibleNative THEN "handed" ELSE "queued"
    [] i.state \in {"removed", "settled"} -> "ended"

Queue == INSTANCE PromptQueue WITH
  status <- [c \in Conv |-> [r \in Req |-> StatusOf(disk.conv[c].item[r])]],
  place <- [c \in Conv |-> [r \in Req |-> disk.conv[c].item[r].seq]],
  delivered <- granted

\* Through crashes, half-written files, pauses, withdrawals and late evidence,
\* the store hands each accepted prompt over at most once, oldest first, and
\* never while an earlier one is unfinished (store.ts claim, beforeNative,
\* settle, archiveNotSubmitted, recover).
ImplementsQueue == Queue!Spec
=============================================================================
