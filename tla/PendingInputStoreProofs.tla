---------------------- MODULE PendingInputStoreProofs ----------------------
(***************************************************************************)
(* Proofs about PendingInputStore, for every set of conversations, requests *)
(* and runs and every bound.                                               *)
(*                                                                         *)
(* The decode of the code is not inductive by itself: a claim's predecessor *)
(* is the newest settlement of its own chain only because chains follow one *)
(* another and claims never overtake an active item.  Frontier adds both.   *)
(* The argument has three layers: Evolves says what an operation may do to  *)
(* a conversation and EvolvesOK that this keeps ConvOK and Frontier; one    *)
(* lemma per operation shows it is such a step; Replaced lifts it to all    *)
(* conversations.                                                          *)
(*                                                                         *)
(* From IInv follow, in the two parts after it, that the store implements  *)
(* PromptQueue (Moved: an operation moves at most one prompt), and that     *)
(* records only advance (Later: what an operation may do to history, to a   *)
(* pause and to the revision).                                             *)
(***************************************************************************)
EXTENDS PendingInputDelivery, FiniteSetTheorems, TLAPS

RecOK(rec) == rec \in Records /\ Decodes(rec) /\ \A c \in Conv : Frontier(rec.conv[c])

Distinct(cv) == \A r, q \in Req :
  cv.item[r].state # "absent" /\ cv.item[q].state # "absent" /\ r # q
    => cv.item[r].seq # cv.item[q].seq

GoodConv(cv) == cv \in ConvRec /\ ConvOK(cv) /\ Frontier(cv) /\ Distinct(cv)

\* i and j are one item at two times.
Keeps(i, j) ==
  /\ i.state = "absent" <=> j.state = "absent"
  /\ i.state = "removed" => j.state = "removed"
  /\ j.seq = i.seq /\ j.chain = i.chain /\ j.pin = i.pin
  /\ j.native = i.native /\ j.receipt = i.receipt

SameClaim(i, j) ==
  /\ j.claim.run = i.claim.run /\ j.claim.pred = i.claim.pred
  /\ j.claim.expected = i.claim.expected

\* x becomes the claimed head of cv.
NewClaim(cv, x, j) ==
  /\ IsHead(cv, x) /\ ~Some(Unresolved, cv) /\ j.claim.expected = cv.revision
  /\ cv.lastRun # NoRun /\ cv.lastChain = cv.item[x].chain => j.claim.pred = cv.lastRun

ItemEvolves(cv, cw, x) ==
  LET i == cv.item[x]  j == cw.item[x] IN
  /\ Keeps(i, j) /\ ItemShape(j) /\ ItemEvidence(j)
  /\ Waiting(j) => Waiting(i)
  /\ Active(j) => Active(i)
  /\ SameClaim(i, j) \/ (i.claim.run = NoRun /\ NewClaim(cv, x, j))
  /\ Unresolved(j) => Unresolved(i) \/ NewClaim(cv, x, j)
  /\ Active(j) /\ j.claim.uncertain => cw.pause # NoPause
  /\ i.claim.possibleNative => j.claim.possibleNative
  /\ Settlement(i) => Settlement(j)
  /\ Settlement(j) => \/ Settlement(i) /\ cw.lastRun # NoRun
                      \/ Unresolved(i) /\ cw.lastRun = j.claim.run /\ cw.lastChain = j.chain

Evolves(cv, cw) ==
  /\ cv.revision < cw.revision
  /\ cw.pause \in PauseCode \cup OwnPause \cup {NoPause}
  /\ \A x \in Req : ItemEvolves(cv, cw, x)
  /\ IF Some(Active, cw) THEN cw.chain = cv.chain /\ cw.pin = cv.pin ELSE cw.chain = 0
  /\ (\A x \in Req : Settlement(cw.item[x]) => Settlement(cv.item[x]))
       => cw.lastRun = cv.lastRun /\ cw.lastChain = cv.lastChain
  /\ \A o \in Req : cw.op[o] = cv.op[o] \/
       /\ 0 < cw.op[o].revision /\ cw.op[o].revision <= cw.revision
       /\ cw.item[o].state = "absent"
       /\ cw.op[o].kind = "remove" =>
            /\ cw.op[o].target \in Req /\ cw.item[cw.op[o].target].state # "absent"
            /\ IF cw.op[o].outcome = "claimed" THEN cw.item[cw.op[o].target].claim.run # NoRun
                                               ELSE cw.item[cw.op[o].target].state = "removed"

----------------------------------------------------------------------------
(* What an evolution keeps, one part of ConvOK at a time. *)

\* The waiting inputs of a conversation that evolves stay within the limit.
LEMMA WaitingShrinks ==
  ASSUME NEW cv \in ConvRec, NEW cw \in ConvRec,
         Cardinality({r \in Req : Waiting(cv.item[r])}) <= MaxWaiting,
         \A x \in Req : Waiting(cw.item[x]) => Waiting(cv.item[x])
  PROVE  Cardinality({r \in Req : Waiting(cw.item[r])}) <= MaxWaiting
<1> DEFINE W == {r \in Req : Waiting(cv.item[r])}
           V == {r \in Req : Waiting(cw.item[r])}
<1>1. V \subseteq W /\ W \subseteq Req
  OBVIOUS
<1>2. IsFiniteSet(W)
  BY <1>1, FS_Subset, StoreAssumption
<1>3. Cardinality(V) <= Cardinality(W) /\ Cardinality(V) \in Nat /\ Cardinality(W) \in Nat
  BY <1>1, <1>2, FS_Subset, FS_CardinalityType
<1> HIDE DEF W, V
<1>4. Cardinality(W) <= MaxWaiting
  BY DEF W
<1>5. Cardinality(V) <= MaxWaiting
  BY <1>3, <1>4, StoreAssumption
<1> QED
  BY <1>5 DEF V

\* One chain, one unresolved claim, a pause over every uncertainty.
LEMMA EvolvesChain ==
  ASSUME NEW cv, GoodConv(cv), NEW cw \in ConvRec, Evolves(cv, cw)
  PROVE  ChainShape(cw)
<1>0. cv \in ConvRec /\ ChainShape(cv) /\ Distinct(cv) /\ \A x \in Req : ItemEvolves(cv, cw, x)
  BY DEF GoodConv, ConvOK, Evolves
<1>1. Cardinality({r \in Req : Waiting(cw.item[r])}) <= MaxWaiting
  BY <1>0, WaitingShrinks DEF ChainShape, ItemEvolves
<1>2. \A r, q \in Req : Unresolved(cw.item[r]) /\ Unresolved(cw.item[q]) => r = q
  <2> SUFFICES ASSUME NEW r \in Req, NEW q \in Req, Unresolved(cw.item[r]), Unresolved(cw.item[q])
               PROVE  r = q
    OBVIOUS
  <2>1. Unresolved(cv.item[r]) \/ (IsHead(cv, r) /\ ~Some(Unresolved, cv))
    BY <1>0 DEF ItemEvolves, NewClaim
  <2>2. Unresolved(cv.item[q]) \/ (IsHead(cv, q) /\ ~Some(Unresolved, cv))
    BY <1>0 DEF ItemEvolves, NewClaim
  <2>3. CASE Unresolved(cv.item[r]) /\ Unresolved(cv.item[q])
    BY <1>0, <2>3 DEF ChainShape
  <2>4. CASE IsHead(cv, r) /\ IsHead(cv, q)
    <3>1. cv.item[r].seq = cv.item[q].seq
      <4>1. cv.item[r].seq \in Nat /\ cv.item[q].seq \in Nat
        BY <1>0 DEF ConvRec, ItemRec
      <4> QED
        BY <4>1, <2>4 DEF IsHead
    <3> QED
      BY <3>1, <1>0, <2>4 DEF Distinct, IsHead, Waiting
  <2> QED
    BY <2>1, <2>2, <2>3, <2>4 DEF Some
<1>3. \A r \in Req : Active(cw.item[r]) => cw.chain = cw.item[r].chain /\ cw.pin = cw.item[r].pin
  <2> SUFFICES ASSUME NEW r \in Req, Active(cw.item[r])
               PROVE  cw.chain = cw.item[r].chain /\ cw.pin = cw.item[r].pin
    OBVIOUS
  <2>1. cw.chain = cv.chain /\ cw.pin = cv.pin
    BY DEF Evolves, Some
  <2> QED
    BY <1>0, <2>1 DEF ChainShape, ItemEvolves, Keeps
<1>4. cw.chain # 0 <=> Some(Active, cw)
  <2>1. CASE Some(Active, cw)
    <3>1. Some(Active, cv) /\ cw.chain = cv.chain
      BY <1>0, <2>1 DEF Evolves, ItemEvolves, Some
    <3> QED
      BY <1>0, <2>1, <3>1 DEF ChainShape
  <2>2. CASE ~Some(Active, cw)
    BY <2>2 DEF Evolves
  <2> QED
    BY <2>1, <2>2
<1>5. \A r \in Req : Active(cw.item[r]) /\ cw.item[r].claim.uncertain => cw.pause # NoPause
  BY <1>0 DEF ItemEvolves
<1> QED
  BY <1>1, <1>2, <1>3, <1>4, <1>5 DEF ChainShape

\* Receipts stay within the revision, and a claim follows its receipt.
LEMMA EvolvesRevisions ==
  ASSUME NEW cv, GoodConv(cv), NEW cw \in ConvRec, Evolves(cv, cw), NEW x \in Req
  PROVE  ItemRevisions(cw, cw.item[x])
<1>1. cv \in ConvRec /\ cv.item[x] \in ItemRec /\ cw.item[x] \in ItemRec
  BY DEF GoodConv, ConvRec
<1>2. ItemRevisions(cv, cv.item[x]) /\ ItemEvolves(cv, cw, x) /\ cv.revision < cw.revision
  BY DEF GoodConv, ConvOK, Evolves
<1>3. cv.revision \in Nat /\ cw.revision \in Nat /\ cv.item[x].receipt \in Nat
      /\ cv.item[x].claim.expected \in Nat /\ cw.item[x].claim.expected \in Nat
  BY <1>1 DEF ConvRec, ItemRec, ClaimRec
<1>4. Keeps(cv.item[x], cw.item[x])
  BY <1>2 DEF ItemEvolves
<1>5. CASE SameClaim(cv.item[x], cw.item[x])
  BY <1>2, <1>3, <1>4, <1>5 DEF ItemRevisions, Keeps, SameClaim
<1>6. CASE NewClaim(cv, x, cw.item[x])
  <2>1. cw.item[x].claim.expected = cv.revision
    BY <1>6 DEF NewClaim
  <2> QED
    BY <1>2, <1>3, <1>4, <2>1 DEF ItemRevisions, Keeps
<1> QED
  BY <1>2, <1>5, <1>6 DEF ItemEvolves

\* Nothing claimed lies behind an active item, and chains stay in order.
LEMMA EvolvesFrontier ==
  ASSUME NEW cv, GoodConv(cv), NEW cw \in ConvRec, Evolves(cv, cw)
  PROVE  Frontier(cw) /\ Distinct(cw)
<1>1. /\ cv \in ConvRec /\ Frontier(cv) /\ Distinct(cv)
      /\ \A x \in Req : ItemEvolves(cv, cw, x) /\ cv.item[x].seq \in Nat /\ cv.item[x].chain \in Nat
  BY DEF GoodConv, Evolves, ConvRec, ItemRec
<1>2. Distinct(cw)
  BY <1>1 DEF Distinct, ItemEvolves, Keeps
<1>3. ASSUME NEW r \in Req, NEW q \in Req, cw.item[r].state # "absent"
      PROVE  /\ 0 < cw.item[r].chain /\ cw.item[r].chain <= cw.item[r].seq
             /\ cw.chain # 0 => cw.item[r].chain <= cw.chain
             /\ cw.item[q].state # "absent" /\ cw.item[r].seq < cw.item[q].seq =>
                  /\ cw.item[r].chain <= cw.item[q].chain
                  /\ cw.item[q].claim.run # NoRun => ~Active(cw.item[r])
  <2>1. Keeps(cv.item[r], cw.item[r]) /\ Keeps(cv.item[q], cw.item[q])
    BY <1>1 DEF ItemEvolves
  <2>2. cw.chain # 0 => cw.chain = cv.chain
    BY DEF Evolves
  <2>3. /\ 0 < cw.item[r].chain /\ cw.item[r].chain <= cw.item[r].seq
        /\ cw.chain # 0 => cw.item[r].chain <= cw.chain
    BY <1>1, <1>3, <2>1, <2>2 DEF Frontier, Keeps
  <2>4. ASSUME cw.item[q].state # "absent", cw.item[r].seq < cw.item[q].seq
        PROVE  cw.item[r].chain <= cw.item[q].chain
    BY <1>1, <1>3, <2>1, <2>4 DEF Frontier, Keeps
  <2>5. ASSUME cw.item[q].state # "absent", cw.item[r].seq < cw.item[q].seq,
               cw.item[q].claim.run # NoRun, Active(cw.item[r])
        PROVE  FALSE
    <3>1. Active(cv.item[r]) /\ cv.item[r].seq < cv.item[q].seq
          /\ cv.item[r].state # "absent" /\ cv.item[q].state # "absent"
      BY <1>1, <1>3, <2>1, <2>5 DEF ItemEvolves, Keeps
    <3>2. cv.item[q].claim.run = NoRun
      BY <1>1, <3>1 DEF Frontier
    <3>3. NewClaim(cv, q, cw.item[q])
      BY <1>1, <2>5, <3>2 DEF ItemEvolves, SameClaim
    <3>4. Waiting(cv.item[r])
      BY <3>1, <3>3 DEF NewClaim, Some, Active, Unresolved, Waiting
    <3> QED
      BY <1>1, <3>1, <3>3, <3>4 DEF NewClaim, IsHead
  <2> QED
    BY <2>3, <2>4, <2>5
<1> QED
  BY <1>2, <1>3 DEF Frontier

\* Enqueue order is receipt order, and no claim skips an older waiter.
LEMMA EvolvesOrdered ==
  ASSUME NEW cv, GoodConv(cv), NEW cw \in ConvRec, Evolves(cv, cw)
  PROVE  Ordered(cw)
<1>1. Ordered(cv) /\ Frontier(cw) /\ \A x \in Req : ItemEvolves(cv, cw, x)
  BY EvolvesFrontier DEF GoodConv, ConvOK, Evolves
<1>2. ASSUME NEW r \in Req, NEW q \in Req, cw.item[r].state # "absent", cw.item[q].state # "absent",
             cw.item[r].seq < cw.item[q].seq
      PROVE  cw.item[r].receipt < cw.item[q].receipt /\ (Waiting(cw.item[r]) => ~Unresolved(cw.item[q]))
  <2>1. cw.item[r].receipt < cw.item[q].receipt
    BY <1>1, <1>2 DEF Ordered, ItemEvolves, Keeps
  <2>2. Unresolved(cw.item[q]) => cw.item[q].claim.run # NoRun
    BY <1>1 DEF ItemEvolves, ItemShape, Unresolved
  <2> QED
    BY <1>1, <1>2, <2>1, <2>2 DEF Frontier, Waiting, Active
<1> QED
  BY <1>2 DEF Ordered

\* The facts about items that the chain of predecessors rests on.
LEMMA EvolvesSeqs ==
  ASSUME NEW cv, GoodConv(cv), NEW cw \in ConvRec, Evolves(cv, cw)
  PROVE  /\ \A x \in Req : /\ ItemEvolves(cv, cw, x) /\ ItemShape(cv.item[x]) /\ ItemShape(cw.item[x])
                          /\ cv.item[x].seq \in Nat /\ cv.item[x].chain \in Nat
                          /\ cw.item[x].seq = cv.item[x].seq /\ cw.item[x].chain = cv.item[x].chain
         /\ Predecessors(cv) /\ Frontier(cv) /\ Distinct(cv)
  BY DEF GoodConv, ConvOK, Evolves, ConvRec, ItemRec, ItemEvolves, Keeps

\* Every claim follows the newest settlement of its own chain.
LEMMA EvolvesPredecessors ==
  ASSUME NEW cv, GoodConv(cv), NEW cw \in ConvRec, Evolves(cv, cw)
  PROVE  Predecessors(cw)
<1> USE EvolvesSeqs
<1> DEFINE Old(x) == cv.item[x]
           New(x) == cw.item[x]
<1>0. \A x \in Req : Settlement(New(x)) => New(x).claim.run # NoRun
  BY DEF Settlement, ItemShape
<1>1. \A x \in Req : Settlement(Old(x)) => Old(x).claim.run # NoRun /\ New(x).claim.run = Old(x).claim.run
  BY DEF Settlement, ItemShape, ItemEvolves, SameClaim
<1>2. ASSUME NEW r \in Req, NEW q \in Req, Settlement(New(r)), New(q).claim.run # NoRun,
             New(r).chain = New(q).chain, New(r).seq < New(q).seq,
             \A x \in Req : Settlement(New(x)) /\ New(x).chain = New(q).chain
                            => New(x).seq <= New(r).seq \/ New(x).seq >= New(q).seq
      PROVE  New(q).claim.pred = New(r).claim.run
  <2>1. Old(r).state # "absent" /\ Old(q).state # "absent"
    <3>1. New(r).state # "absent" /\ New(q).state # "absent"
      BY <1>2 DEF Settlement, ItemShape, NoItem, NoClaim
    <3> QED
      BY <3>1 DEF ItemEvolves, Keeps
  <2>0. Old(r).chain = Old(q).chain /\ Old(r).seq < Old(q).seq
    BY <1>2
  <2>2. CASE Old(q).claim.run # NoRun
    <3>1. ~Active(Old(r))
      BY <1>2, <2>1, <2>2 DEF Frontier
    <3>2. Settlement(Old(r))
      BY <1>2, <3>1 DEF ItemEvolves, Active, Unresolved
    <3>3. \A x \in Req : Settlement(Old(x)) /\ Old(x).chain = Old(q).chain
                         => Old(x).seq <= Old(r).seq \/ Old(x).seq >= Old(q).seq
      BY <1>2 DEF ItemEvolves
    <3>4. Old(q).claim.pred = Old(r).claim.run
      BY <2>0, <2>2, <3>2, <3>3 DEF Predecessors
    <3> QED
      BY <1>1, <2>2, <3>2, <3>4 DEF ItemEvolves, SameClaim
  <2>3. CASE Old(q).claim.run = NoRun
    <3>1. NewClaim(cv, q, New(q))
      BY <1>2, <2>3 DEF ItemEvolves, SameClaim
    <3>2. Settlement(Old(r))
      BY <1>2, <3>1 DEF ItemEvolves, NewClaim, Some
    <3>3. \A x \in Req : Settlement(Old(x)) => Old(x).seq <= Old(r).seq
      <4> SUFFICES ASSUME NEW x \in Req, Settlement(Old(x)), Old(r).seq < Old(x).seq PROVE FALSE
        OBVIOUS
      <4>1. Old(x).state # "absent" /\ Active(Old(q)) /\ Old(x).claim.run # NoRun
        BY <1>1, <3>1 DEF Settlement, NewClaim, IsHead, Waiting, Active
      <4>2. Old(x).seq <= Old(q).seq
        BY <2>1, <4>1 DEF Frontier
      <4>3. x # q
        BY <2>3, <4>1
      <4>4. Old(x).seq < Old(q).seq
        BY SMTT(30), <2>1, <4>1, <4>2, <4>3 DEF Distinct
      <4>5. Old(x).chain = Old(q).chain
        <5>1. Old(x).chain <= Old(q).chain /\ Old(r).chain <= Old(x).chain
          BY <1>2, <2>1, <4>1, <4>4 DEF Frontier
        <5> QED
          BY <2>0, <5>1
      <4> QED
        BY <1>2, <4>4, <4>5 DEF ItemEvolves
    <3>4. cv.lastRun = Old(r).claim.run /\ cv.lastChain = Old(r).chain /\ cv.lastRun # NoRun
      BY <1>1, <3>2, <3>3 DEF Predecessors
    <3> QED
      BY <1>1, <1>2, <3>1, <3>2, <3>4 DEF NewClaim
  <2> QED
    BY <2>2, <2>3
<1>3. cw.lastRun = NoRun <=> ~Some(Settlement, cw)
  <2>1. ASSUME NEW x \in Req, Settlement(New(x)) PROVE cw.lastRun # NoRun
    BY <1>0, <2>1 DEF ItemEvolves
  <2>2. ASSUME ~Some(Settlement, cw) PROVE cw.lastRun = NoRun
    <3>1. ~Some(Settlement, cv)
      BY <2>2 DEF Some, ItemEvolves
    <3>2. cw.lastRun = cv.lastRun
      BY <2>2 DEF Some, Evolves
    <3> QED
      BY <3>1, <3>2 DEF Predecessors
  <2> QED
    BY <2>1, <2>2 DEF Some
<1>4. ASSUME NEW r \in Req, Settlement(New(r)),
             \A x \in Req : Settlement(New(x)) => New(x).seq <= New(r).seq
      PROVE  cw.lastRun = New(r).claim.run /\ cw.lastChain = New(r).chain
  <2>1. CASE \A x \in Req : Settlement(New(x)) => Settlement(Old(x))
    <3>1. cw.lastRun = cv.lastRun /\ cw.lastChain = cv.lastChain
      BY <2>1 DEF Evolves
    <3>2. \A x \in Req : Settlement(Old(x)) => Old(x).seq <= Old(r).seq
      BY <1>4 DEF ItemEvolves
    <3> QED
      BY ZenonT(40), <1>1, <1>4, <2>1, <3>1, <3>2 DEF Predecessors
  <2>2. ASSUME NEW y \in Req, Settlement(New(y)), ~Settlement(Old(y))
        PROVE  cw.lastRun = New(r).claim.run /\ cw.lastChain = New(r).chain
    <3>1. Unresolved(Old(y)) /\ cw.lastRun = New(y).claim.run /\ cw.lastChain = New(y).chain
      BY <2>2 DEF ItemEvolves
    <3>2. y = r
      <4> SUFFICES ASSUME y # r PROVE FALSE
        OBVIOUS
      <4>1. Old(r).state # "absent" /\ Old(y).state # "absent"
        BY <1>4, <3>1 DEF ItemEvolves, Keeps, Settlement, Unresolved
      <4>2. Old(y).seq < Old(r).seq
        BY <1>4, <2>2, <4>1 DEF Distinct
      <4>3. Old(r).claim.run = NoRun
        BY <3>1, <4>1, <4>2 DEF Frontier, Active, Unresolved
      <4>4. NewClaim(cv, r, New(r))
        BY <1>0, <1>4, <4>3 DEF ItemEvolves, SameClaim
      <4> QED
        BY <3>1, <4>4 DEF NewClaim, Some
    <3> QED
      BY <3>1, <3>2
  <2> QED
    BY <2>1, <2>2
<1> QED
  <2> HIDE DEF Old, New
  <2>1. \A r, q \in Req :
       /\ Settlement(New(r)) /\ New(q).claim.run # NoRun
       /\ New(r).chain = New(q).chain /\ New(r).seq < New(q).seq
       /\ \A x \in Req : Settlement(New(x)) /\ New(x).chain = New(q).chain
                           => New(x).seq <= New(r).seq \/ New(x).seq >= New(q).seq
       => New(q).claim.pred = New(r).claim.run
    BY <1>2
  <2> QED
    BY <1>3, <1>4, <2>1 DEF Predecessors, New

\* A recorded answer stays true of the item it speaks of.
LEMMA EvolvesOperations ==
  ASSUME NEW cv, GoodConv(cv), NEW cw \in ConvRec, Evolves(cv, cw)
  PROVE  Operations(cw)
<1>1. /\ Operations(cv) /\ cv.revision < cw.revision /\ cv.revision \in Nat /\ cw.revision \in Nat
      /\ \A x \in Req : ItemEvolves(cv, cw, x) /\ cv.op[x].revision \in Nat
  BY DEF GoodConv, ConvOK, Evolves, ConvRec, OpRec
<1>2. ASSUME NEW o \in Req, cw.op[o].kind # "none"
      PROVE  /\ 0 < cw.op[o].revision /\ cw.op[o].revision <= cw.revision
             /\ cw.item[o].state = "absent"
             /\ cw.op[o].kind = "remove" =>
                  /\ cw.op[o].target \in Req /\ cw.item[cw.op[o].target].state # "absent"
                  /\ IF cw.op[o].outcome = "claimed" THEN cw.item[cw.op[o].target].claim.run # NoRun
                                                     ELSE cw.item[cw.op[o].target].state = "removed"
  <2>1. CASE cw.op[o] = cv.op[o]
    <3>1. 0 < cw.op[o].revision /\ cw.op[o].revision <= cw.revision
      BY <1>1, <1>2, <2>1 DEF Operations
    <3>2. cw.item[o].state = "absent"
      BY <1>1, <1>2, <2>1 DEF Operations, ItemEvolves, Keeps
    <3>3. ASSUME cw.op[o].kind = "remove"
          PROVE  /\ cw.op[o].target \in Req /\ cw.item[cw.op[o].target].state # "absent"
                 /\ IF cw.op[o].outcome = "claimed" THEN cw.item[cw.op[o].target].claim.run # NoRun
                                                    ELSE cw.item[cw.op[o].target].state = "removed"
      <4> DEFINE t == cw.op[o].target
      <4>1. /\ t \in Req /\ cv.item[t].state # "absent"
            /\ IF cw.op[o].outcome = "claimed" THEN cv.item[t].claim.run # NoRun
                                               ELSE cv.item[t].state = "removed"
        BY <1>1, <1>2, <2>1, <3>3 DEF Operations
      <4>2. ItemEvolves(cv, cw, t)
        BY <1>1, <4>1
      <4> HIDE DEF t
      <4>3. cw.item[t].state # "absent" /\ (cv.item[t].state = "removed" => cw.item[t].state = "removed")
        BY <4>1, <4>2 DEF ItemEvolves, Keeps
      <4>4. cv.item[t].claim.run # NoRun => cw.item[t].claim.run # NoRun
        BY <4>1, <4>2 DEF ItemEvolves, SameClaim
      <4>5. /\ t \in Req /\ cw.item[t].state # "absent"
            /\ IF cw.op[o].outcome = "claimed" THEN cw.item[t].claim.run # NoRun
                                               ELSE cw.item[t].state = "removed"
        BY <4>1, <4>3, <4>4
      <4> QED
        BY <4>5 DEF t
    <3> QED
      BY <3>1, <3>2, <3>3
  <2>2. CASE cw.op[o] # cv.op[o]
    BY <2>2 DEF Evolves
  <2> QED
    BY <2>1, <2>2
<1> QED
  BY <1>2 DEF Operations

\* An evolution keeps the codec's invariant of a conversation and its frontier.
LEMMA EvolvesOK ==
  ASSUME NEW cv, GoodConv(cv), NEW cw \in ConvRec, Evolves(cv, cw)
  PROVE  GoodConv(cw)
<1>1. \A r \in Req : ItemShape(cw.item[r]) /\ ItemEvidence(cw.item[r])
  BY DEF Evolves, ItemEvolves
<1>2. \A r \in Req : ItemRevisions(cw, cw.item[r])
  BY EvolvesRevisions
<1>3. cw.pause \in PauseCode \cup OwnPause \cup {NoPause}
  BY DEF Evolves
<1>4. ChainShape(cw) /\ Ordered(cw)
  BY EvolvesChain, EvolvesOrdered
<1>5. Predecessors(cw) /\ Operations(cw)
  BY EvolvesPredecessors, EvolvesOperations
<1>6. Frontier(cw) /\ Distinct(cw)
  BY EvolvesFrontier
<1>7. ConvOK(cw)
  BY <1>1, <1>2, <1>3, <1>4, <1>5 DEF ConvOK
<1> QED
  BY <1>6, <1>7 DEF GoodConv

----------------------------------------------------------------------------
(* From one conversation to the records. *)

\* The conversations of good records are good.
LEMMA ConvOfRecords ==
  ASSUME NEW rec, RecOK(rec), NEW c \in Conv
  PROVE  GoodConv(rec.conv[c])
<1>1. rec.conv[c] \in ConvRec /\ ConvOK(rec.conv[c]) /\ Frontier(rec.conv[c])
  BY DEF RecOK, Records, Decodes
<1>2. Distinct(rec.conv[c])
  BY DEF RecOK, Decodes, Global, Exists, Distinct
<1> QED
  BY <1>1, <1>2 DEF GoodConv

\* Items i of c and j of d share nothing that must be their own.
Unlike(c, d, i, j) ==
  /\ i.seq # j.seq
  /\ i.claim.run # NoRun => i.claim.run # j.claim.run
  /\ c # d => i.native # j.native
  /\ i.chain = j.chain => c = d /\ i.pin = j.pin

\* Two items of good records are unlike.
LEMMA Apart ==
  ASSUME NEW rec, Global(rec), NEW c \in Conv, NEW d \in Conv, NEW r \in Req, NEW q \in Req,
         Exists(rec, c, r), Exists(rec, d, q), c # d \/ r # q
  PROVE  Unlike(c, d, rec.conv[c].item[r], rec.conv[d].item[q])
<1>1. <<c, r>> # <<d, q>>
  OBVIOUS
<1> QED
  BY <1>1 DEF Global, Unlike

\* Replacing conversations by evolutions of themselves keeps good records good,
\* when at most one claim is new and its run is unused.
LEMMA Replaced ==
  ASSUME NEW rec, RecOK(rec), NEW rec2 \in Records, rec2.next = rec.next,
         \A c \in Conv : rec2.conv[c] = rec.conv[c] \/ Evolves(rec.conv[c], rec2.conv[c]),
         NEW d, NEW q,
         \A c \in Conv : \A r \in Req :
            \/ rec2.conv[c].item[r].claim.run = rec.conv[c].item[r].claim.run
            \/ <<c, r>> = <<d, q>> /\ ~RunUsed(rec, rec2.conv[d].item[q].claim.run)
  PROVE  RecOK(rec2)
<1>1. \A c \in Conv : GoodConv(rec2.conv[c])
  <2> SUFFICES ASSUME NEW c \in Conv PROVE GoodConv(rec2.conv[c])
    OBVIOUS
  <2>1. GoodConv(rec.conv[c]) /\ rec2.conv[c] \in ConvRec
    BY ConvOfRecords DEF Records
  <2> QED
    BY <2>1, EvolvesOK
<1>2. \A c \in Conv, r \in Req : Keeps(rec.conv[c].item[r], rec2.conv[c].item[r])
  <2> SUFFICES ASSUME NEW c \in Conv, NEW r \in Req
               PROVE  Keeps(rec.conv[c].item[r], rec2.conv[c].item[r])
    OBVIOUS
  <2>1. CASE rec2.conv[c] = rec.conv[c]
    BY <2>1 DEF Keeps
  <2>2. CASE Evolves(rec.conv[c], rec2.conv[c])
    BY <2>2 DEF Evolves, ItemEvolves
  <2> QED
    BY <2>1, <2>2
<1>3. Global(rec2)
  <2> SUFFICES ASSUME NEW c \in Conv, NEW e \in Conv, NEW r \in Req, NEW x \in Req
               PROVE  /\ Exists(rec2, c, r) => 0 < rec2.conv[c].item[r].seq /\ rec2.conv[c].item[r].seq < rec2.next
                      /\ Exists(rec2, c, r) /\ Exists(rec2, e, x) /\ <<c, r>> # <<e, x>> =>
                           LET i == rec2.conv[c].item[r]  j == rec2.conv[e].item[x] IN
                           /\ i.seq # j.seq
                           /\ i.claim.run # NoRun => i.claim.run # j.claim.run
                           /\ c # e => i.native # j.native
                           /\ i.chain = j.chain => c = e /\ i.pin = j.pin
    BY DEF Global
  <2>1. Global(rec) /\ Keeps(rec.conv[c].item[r], rec2.conv[c].item[r])
                    /\ Keeps(rec.conv[e].item[x], rec2.conv[e].item[x])
    BY <1>2 DEF RecOK, Decodes
  <2>2. RunUsed(rec, rec.conv[c].item[r].claim.run) /\ RunUsed(rec, rec.conv[e].item[x].claim.run)
    BY DEF RunUsed
  <2>3. Exists(rec2, c, r) => 0 < rec2.conv[c].item[r].seq /\ rec2.conv[c].item[r].seq < rec2.next
    BY <2>1 DEF Global, Exists, Keeps
  <2>4. ASSUME Exists(rec2, c, r), Exists(rec2, e, x), <<c, r>> # <<e, x>>
        PROVE  LET i == rec.conv[c].item[r]  j == rec.conv[e].item[x] IN
               /\ i.seq # j.seq
               /\ i.claim.run # NoRun => i.claim.run # j.claim.run
               /\ c # e => i.native # j.native
               /\ i.chain = j.chain => c = e /\ i.pin = j.pin
    <3>1. Exists(rec, c, r) /\ Exists(rec, e, x)
      BY <2>1, <2>4 DEF Exists, Keeps
    <3> QED
      <4>1. Unlike(c, e, rec.conv[c].item[r], rec.conv[e].item[x])
        BY <2>1, <2>4, <3>1, Apart
      <4> QED
        BY <4>1 DEF Unlike
  <2>5. ASSUME Exists(rec2, c, r), Exists(rec2, e, x), <<c, r>> # <<e, x>>,
               rec2.conv[c].item[r].claim.run # NoRun
        PROVE  rec2.conv[c].item[r].claim.run # rec2.conv[e].item[x].claim.run
    BY <2>2, <2>4, <2>5
  <2> QED
    BY <2>1, <2>3, <2>4, <2>5 DEF Keeps
<1> QED
  BY <1>1, <1>3 DEF RecOK, Decodes, GoodConv

----------------------------------------------------------------------------
(* The operations of one conversation are evolutions. *)

\* An item an operation leaves alone evolves, if no pause over an uncertainty is
\* lifted and the newest settlement is not forgotten.
LEMMA Untouched_Evolves ==
  ASSUME NEW cv, GoodConv(cv), NEW cw, NEW x \in Req, cw.item[x] = cv.item[x],
         Unresolved(cv.item[x]) /\ cv.pause # NoPause => cw.pause # NoPause,
         cv.lastRun # NoRun => cw.lastRun # NoRun
  PROVE  ItemEvolves(cv, cw, x)
<1>1. ItemShape(cv.item[x]) /\ ItemEvidence(cv.item[x])
  BY DEF GoodConv, ConvOK
<1>2. Active(cv.item[x]) /\ cv.item[x].claim.uncertain => cv.pause # NoPause
  BY DEF GoodConv, ConvOK, ChainShape
<1>3. Waiting(cv.item[x]) => cv.item[x].claim.uncertain = FALSE
  BY <1>1 DEF ItemShape, Waiting, NoClaim
<1>4. Settlement(cv.item[x]) => cv.lastRun # NoRun
  BY DEF GoodConv, ConvOK, Predecessors, Some
<1> QED
  BY <1>1, <1>2, <1>3, <1>4 DEF ItemEvolves, Keeps, SameClaim, Active, Unresolved, Waiting

\* A pause or a resume leaves every item alone.
LEMMA Paused_Evolves ==
  ASSUME NEW cv, GoodConv(cv), NEW code \in PauseCode
  PROVE  Paused(cv, code) \in ConvRec /\ Evolves(cv, Paused(cv, code))
<1> DEFINE cw == Paused(cv, code)
<1>1. cv \in ConvRec
  BY DEF GoodConv
<1>0. cw \in ConvRec
  <2>1. cv.revision + 1 \in Nat /\ code \in PauseCode \cup OwnPause \cup {NoPause}
    BY <1>1 DEF ConvRec
  <2> QED
    BY <1>1, <2>1 DEF Paused, ConvRec
<1>2. /\ cw \in ConvRec /\ cv.revision < cw.revision /\ cw.pause = code /\ cw.item = cv.item
      /\ cw.op = cv.op /\ cw.chain = cv.chain /\ cw.pin = cv.pin
      /\ cw.lastRun = cv.lastRun /\ cw.lastChain = cv.lastChain
  BY <1>0, <1>1 DEF Paused, ConvRec
<1> HIDE DEF cw
<1>3. \A x \in Req : ItemEvolves(cv, cw, x)
  BY <1>2, Untouched_Evolves, StoreAssumption
<1>4. ~Some(Active, cw) => cw.chain = 0
  BY <1>2 DEF GoodConv, ConvOK, ChainShape, Some
<1> QED
  BY <1>2, <1>3, <1>4 DEF Evolves, cw

\* resume: it lifts the pause of a conversation without unresolved claim.
LEMMA Resumed_Evolves ==
  ASSUME NEW cv, GoodConv(cv), NEW o \in Req, Unused(cv, o), ~Some(Unresolved, cv)
  PROVE  Resumed(cv, o) \in ConvRec /\ Evolves(cv, Resumed(cv, o))
<1> DEFINE cw == Resumed(cv, o)
<1>1. cv \in ConvRec
  BY DEF GoodConv
<1>0. cw \in ConvRec
  <2>1. /\ cv.revision + 1 \in Nat
        /\ [kind |-> "resume", target |-> "none", outcome |-> "resumed", revision |-> cv.revision + 1] \in OpRec
    BY <1>1 DEF ConvRec, OpRec
  <2> QED
    BY <1>1, <2>1 DEF Resumed, ConvRec
<1>2. /\ cw \in ConvRec /\ cv.revision < cw.revision /\ cw.pause = NoPause /\ cw.item = cv.item
      /\ \A q \in Req : q # o => cw.op[q] = cv.op[q]
      /\ cw.op[o].kind = "resume" /\ cw.op[o].revision = cw.revision
      /\ cw.chain = cv.chain /\ cw.pin = cv.pin
      /\ cw.lastRun = cv.lastRun /\ cw.lastChain = cv.lastChain
  BY <1>0, <1>1 DEF Resumed, ConvRec
<1>5. cv.revision \in Nat /\ cw.revision \in Nat
  BY <1>1, <1>2 DEF ConvRec
<1> HIDE DEF cw
<1>3. \A x \in Req : ItemEvolves(cv, cw, x)
  BY <1>2, Untouched_Evolves DEF Some
<1>4. ~Some(Active, cw) => cw.chain = 0
  BY <1>2 DEF GoodConv, ConvOK, ChainShape, Some
<1>6. cw.item[o].state = "absent"
  BY <1>2 DEF Unused
<1> QED
  BY <1>2, <1>3, <1>4, <1>5, <1>6 DEF Evolves, cw

\* A step of one claim: x is the unresolved item (or the head that is claimed),
\* it stays active, and nothing else changes.
LEMMA Step_Evolves ==
  ASSUME NEW cv, GoodConv(cv), NEW cw \in ConvRec, NEW r \in Req,
         cv.revision < cw.revision, cw.op = cv.op, cw.chain = cv.chain, cw.pin = cv.pin,
         cw.lastRun = cv.lastRun, cw.lastChain = cv.lastChain,
         cw.pause \in PauseCode \cup OwnPause \cup {NoPause},
         cv.pause # NoPause => cw.pause # NoPause,
         \A x \in Req : x # r => cw.item[x] = cv.item[x],
         Active(cw.item[r]), ItemEvolves(cv, cw, r), ~Settlement(cw.item[r])
  PROVE  Evolves(cv, cw)
<1>1. \A x \in Req : x # r => ItemEvolves(cv, cw, x)
  BY Untouched_Evolves
<1>2. \A x \in Req : ItemEvolves(cv, cw, x)
  BY <1>1
<1>3. Some(Active, cw)
  BY DEF Some
<1> QED
  BY <1>2, <1>3 DEF Evolves

\* link: only the head's phase moves.
LEMMA Linked_Evolves ==
  ASSUME NEW cv, GoodConv(cv), NEW r \in Req, cv.item[r].state = "claimed", Untouched(cv.item[r].claim)
  PROVE  Linked(cv, r) \in ConvRec /\ Evolves(cv, Linked(cv, r))
<1> DEFINE cw == Linked(cv, r)
           i == cv.item[r]
<1>1. cv \in ConvRec /\ i \in ItemRec /\ ItemShape(i) /\ ItemEvidence(i)
  BY DEF GoodConv, ConvOK, ConvRec
<1>2. cw.item[r] = [i EXCEPT !.state = "run-linked"]
  BY <1>1 DEF Linked, ConvRec
<1>0. cw \in ConvRec
  <2>1. cv.revision + 1 \in Nat /\ [i EXCEPT !.state = "run-linked"] \in ItemRec
    BY <1>1 DEF ConvRec, ItemRec
  <2> QED
    BY <1>1, <2>1 DEF Linked, ConvRec
<1>3. /\ cw \in ConvRec /\ cv.revision < cw.revision /\ cw.pause = cv.pause /\ cw.op = cv.op
      /\ cw.chain = cv.chain /\ cw.pin = cv.pin
      /\ cw.lastRun = cv.lastRun /\ cw.lastChain = cv.lastChain
      /\ \A x \in Req : x # r => cw.item[x] = cv.item[x]
  BY <1>0, <1>1 DEF Linked, ConvRec
<1> HIDE DEF cw
<1>4. /\ cw.item[r].state = "run-linked" /\ cw.item[r].claim = i.claim /\ cw.item[r].seq = i.seq
      /\ cw.item[r].chain = i.chain /\ cw.item[r].pin = i.pin /\ cw.item[r].native = i.native
      /\ cw.item[r].receipt = i.receipt /\ cw.item[r].history = i.history
  BY <1>1, <1>2 DEF ItemRec
<1>5. ItemShape(cw.item[r]) /\ ItemEvidence(cw.item[r])
  BY <1>1, <1>4 DEF ItemShape, ItemEvidence, EvidenceOK, Untouched
<1>6. ItemEvolves(cv, cw, r)
  BY <1>4, <1>5 DEF ItemEvolves, Keeps, SameClaim, Active, Unresolved, Waiting, Settlement, Untouched
<1>7. Evolves(cv, cw)
  BY <1>3, <1>4, <1>6, Step_Evolves DEF Active, Settlement, GoodConv, ConvOK
<1> QED
  BY <1>3, <1>7 DEF cw

\* beforeNative: the head becomes possibly native, with attempted evidence.
LEMMA Attempted_Evolves ==
  ASSUME NEW cv, GoodConv(cv), NEW r \in Req, cv.item[r].state = "run-linked", Untouched(cv.item[r].claim)
  PROVE  Attempted(cv, r) \in ConvRec /\ Evolves(cv, Attempted(cv, r))
<1> DEFINE cw == Attempted(cv, r)
           i == cv.item[r]
           k == [i.claim EXCEPT !.possibleNative = TRUE, !.submission = "attempted", !.acceptance = "unknown"]
<1>1. cv \in ConvRec /\ i \in ItemRec /\ i.claim \in ClaimRec /\ ItemShape(i) /\ ItemEvidence(i)
  BY DEF GoodConv, ConvOK, ConvRec, ItemRec
<1>2. k \in ClaimRec
  BY <1>1 DEF ClaimRec, Submission, Acceptance
<1>3. cw.item[r] = [i EXCEPT !.claim = k]
  BY <1>1 DEF Attempted, ConvRec, ItemRec, ClaimRec
<1>4. [i EXCEPT !.claim = k] \in ItemRec
  BY <1>1, <1>2 DEF ItemRec
<1>5. cw = [cv EXCEPT !.revision = cv.revision + 1, !.item = [cv.item EXCEPT ![r] = [i EXCEPT !.claim = k]]]
  BY <1>1 DEF Attempted, ConvRec, ItemRec, ClaimRec
<1> HIDE DEF k
<1>6. cw \in ConvRec
  <2>1. cv.revision + 1 \in Nat /\ [cv.item EXCEPT ![r] = [i EXCEPT !.claim = k]] \in [Req -> ItemRec]
    BY <1>1, <1>4 DEF ConvRec
  <2> QED
    BY <1>1, <1>5, <2>1 DEF ConvRec
<1>7. /\ cv.revision < cw.revision /\ cw.pause = cv.pause /\ cw.op = cv.op
      /\ cw.chain = cv.chain /\ cw.pin = cv.pin
      /\ cw.lastRun = cv.lastRun /\ cw.lastChain = cv.lastChain
      /\ \A x \in Req : x # r => cw.item[x] = cv.item[x]
  BY <1>1, <1>5 DEF ConvRec
<1> HIDE DEF cw
<1>8. /\ cw.item[r].state = "run-linked" /\ cw.item[r].claim = k /\ cw.item[r].seq = i.seq
      /\ cw.item[r].chain = i.chain /\ cw.item[r].pin = i.pin /\ cw.item[r].native = i.native
      /\ cw.item[r].receipt = i.receipt /\ cw.item[r].history = i.history
  BY <1>1, <1>3 DEF ItemRec
<1>9. /\ k.run = i.claim.run /\ k.pred = i.claim.pred /\ k.expected = i.claim.expected
      /\ k.possibleNative = TRUE /\ k.submission = "attempted" /\ k.acceptance = "unknown"
      /\ k.uncertain = i.claim.uncertain
  BY <1>1 DEF ClaimRec, k
<1>10. ItemShape(cw.item[r]) /\ ItemEvidence(cw.item[r])
  BY <1>1, <1>8, <1>9 DEF ItemShape, ItemEvidence, EvidenceOK
<1>11. ItemEvolves(cv, cw, r)
  BY <1>8, <1>9, <1>10 DEF ItemEvolves, Keeps, SameClaim, Active, Unresolved, Waiting, Settlement, Untouched
<1>12. Evolves(cv, cw)
  BY <1>6, <1>7, <1>8, <1>11, Step_Evolves DEF Active, Settlement, GoodConv, ConvOK
<1> QED
  BY <1>6, <1>12 DEF cw

\* outcome: reports only sharpen the head's evidence, or pause it.
LEMMA Evidenced_Evolves ==
  ASSUME NEW cv, GoodConv(cv), NEW r \in Req, Unresolved(cv.item[r]),
         NEW sub \in Submission, NEW acc \in Acceptance,
         EvidenceOK(cv.item[r], sub, acc), sub # "attempted",
         cv.item[r].state = "run-linked" \/ sub \in {"not-submitted", "unknown"},
         NoReversal(cv.item[r].claim, sub, acc)
  PROVE  Evidenced(cv, r, sub, acc) \in ConvRec /\ Evolves(cv, Evidenced(cv, r, sub, acc))
<1> DEFINE cw == Evidenced(cv, r, sub, acc)
           i == cv.item[r]
           k == WithEvidence(i.claim, sub, acc)
           p == EvidencePause(cv, sub)
<1>1. cv \in ConvRec /\ i \in ItemRec /\ i.claim \in ClaimRec /\ ItemShape(i) /\ ItemEvidence(i)
  BY DEF GoodConv, ConvOK, ConvRec, ItemRec
<1>2. k \in ClaimRec
  <2>1. (IF sub = "unknown" THEN TRUE ELSE i.claim.uncertain) \in BOOLEAN
    BY <1>1 DEF ClaimRec
  <2> QED
    BY <1>1, <2>1 DEF ClaimRec, WithEvidence
<1>3. cw.item[r] = [i EXCEPT !.claim = k]
  BY <1>1 DEF Evidenced, ConvRec, ItemRec, ClaimRec
<1>4. [i EXCEPT !.claim = k] \in ItemRec
  BY <1>1, <1>2 DEF ItemRec
<1>5. cw = [cv EXCEPT !.revision = cv.revision + 1, !.pause = p,
                      !.item = [cv.item EXCEPT ![r] = [i EXCEPT !.claim = k]]]
  BY <1>1 DEF Evidenced, ConvRec, ItemRec, ClaimRec
<1>9. /\ k.run = i.claim.run /\ k.pred = i.claim.pred /\ k.expected = i.claim.expected
      /\ k.possibleNative = i.claim.possibleNative /\ k.submission = sub /\ k.acceptance = acc
      /\ (k.uncertain <=> i.claim.uncertain \/ sub = "unknown")
  BY <1>1 DEF ClaimRec, WithEvidence
<1>13. /\ p \in PauseCode \cup OwnPause \cup {NoPause}
       /\ cv.pause # NoPause => p # NoPause
       /\ sub = "unknown" => p # NoPause
  BY <1>1 DEF EvidencePause, PauseIfNone, OwnPause, NoPause, ConvRec
<1> HIDE DEF k, p
<1>6. cw \in ConvRec
  <2>1. cv.revision + 1 \in Nat /\ [cv.item EXCEPT ![r] = [i EXCEPT !.claim = k]] \in [Req -> ItemRec]
    BY <1>1, <1>4 DEF ConvRec
  <2> QED
    BY <1>1, <1>5, <1>13, <2>1 DEF ConvRec
<1>7. /\ cv.revision < cw.revision /\ cw.pause = p /\ cw.op = cv.op
      /\ cw.chain = cv.chain /\ cw.pin = cv.pin
      /\ cw.lastRun = cv.lastRun /\ cw.lastChain = cv.lastChain
      /\ \A x \in Req : x # r => cw.item[x] = cv.item[x]
  BY <1>1, <1>5 DEF ConvRec
<1> HIDE DEF cw
<1>8. /\ cw.item[r].state = i.state /\ cw.item[r].claim = k /\ cw.item[r].seq = i.seq
      /\ cw.item[r].chain = i.chain /\ cw.item[r].pin = i.pin /\ cw.item[r].native = i.native
      /\ cw.item[r].receipt = i.receipt /\ cw.item[r].history = i.history
  BY <1>1, <1>3 DEF ItemRec
<1>10. ItemShape(cw.item[r]) /\ ItemEvidence(cw.item[r])
  BY <1>1, <1>8, <1>9 DEF ItemShape, ItemEvidence, EvidenceOK, Unresolved, Submission
<1>14. i.claim.uncertain => cv.pause # NoPause
  BY DEF GoodConv, ConvOK, ChainShape, Active, Unresolved
<1>11. ItemEvolves(cv, cw, r)
  BY <1>7, <1>8, <1>9, <1>10, <1>13, <1>14
     DEF ItemEvolves, Keeps, SameClaim, Active, Unresolved, Waiting, Settlement
<1>12. Evolves(cv, cw)
  BY <1>6, <1>7, <1>8, <1>11, <1>13, Step_Evolves DEF Active, Unresolved, Settlement
<1> QED
  BY <1>6, <1>12 DEF cw

\* claim: the one step that makes a new claim, of the head and over the last settlement.
LEMMA Claimed_Evolves ==
  ASSUME NEW cv, GoodConv(cv), NEW r \in Req, NEW run \in Run, NEW pred \in Run \cup {NoRun},
         cv.pause = NoPause, ~Some(Unresolved, cv), IsHead(cv, r),
         cv.lastRun # NoRun /\ cv.lastChain = cv.item[r].chain => pred = cv.lastRun
  PROVE  Claimed(cv, r, run, pred) \in ConvRec /\ Evolves(cv, Claimed(cv, r, run, pred))
<1> DEFINE cw == Claimed(cv, r, run, pred)
           i == cv.item[r]
           k == [NoClaim EXCEPT !.run = run, !.pred = pred, !.expected = cv.revision]
           j == [i EXCEPT !.state = "claimed", !.claim = k]
<1>1. cv \in ConvRec /\ i \in ItemRec /\ ItemShape(i) /\ cv.revision \in Nat
  BY DEF GoodConv, ConvOK, ConvRec
<1>2. /\ k \in ClaimRec
      /\ k.run = run /\ k.pred = pred /\ k.expected = cv.revision /\ k.submission = "none"
      /\ k.possibleNative = FALSE /\ k.uncertain = FALSE
  <2>1. NoClaim \in ClaimRec
    BY DEF NoClaim, ClaimRec
  <2>2. NoClaim.submission = "none" /\ NoClaim.possibleNative = FALSE /\ NoClaim.uncertain = FALSE
    BY DEF NoClaim
  <2> QED
    BY <1>1, <2>1, <2>2 DEF ClaimRec
<1>4. j \in ItemRec
  BY <1>1, <1>2 DEF ItemRec
<1>5. cw = [cv EXCEPT !.revision = cv.revision + 1, !.item = [cv.item EXCEPT ![r] = j]]
  BY <1>1 DEF Claimed, ConvRec, ItemRec
<1> HIDE DEF k
<1>8. /\ j.state = "claimed" /\ j.claim = k /\ j.seq = i.seq
      /\ j.chain = i.chain /\ j.pin = i.pin /\ j.native = i.native
      /\ j.receipt = i.receipt /\ j.history = i.history
  BY <1>1 DEF ItemRec
<1> HIDE DEF j
<1>6. cw \in ConvRec
  <2>1. cv.revision + 1 \in Nat /\ [cv.item EXCEPT ![r] = j] \in [Req -> ItemRec]
    BY <1>1, <1>4 DEF ConvRec
  <2> QED
    BY <1>1, <1>5, <2>1 DEF ConvRec
<1>7. /\ cv.revision < cw.revision /\ cw.pause = cv.pause /\ cw.op = cv.op
      /\ cw.chain = cv.chain /\ cw.pin = cv.pin
      /\ cw.lastRun = cv.lastRun /\ cw.lastChain = cv.lastChain
      /\ \A x \in Req : x # r => cw.item[x] = cv.item[x]
      /\ cw.item[r] = j
  BY <1>1, <1>5 DEF ConvRec
<1> HIDE DEF cw
<1>9. i.state = "waiting" /\ i.claim.run = NoRun /\ i.history = "none" /\ i.claim.possibleNative = FALSE
  BY <1>1 DEF IsHead, Waiting, ItemShape, NoClaim
<1>10. ItemShape(j) /\ ItemEvidence(j)
  BY <1>2, <1>8, <1>9, StoreAssumption DEF ItemShape, ItemEvidence
<1>11. NewClaim(cv, r, j)
  BY <1>2, <1>8 DEF NewClaim
<1>12. ItemEvolves(cv, cw, r)
  BY <1>2, <1>7, <1>8, <1>9, <1>10, <1>11
     DEF ItemEvolves, Keeps, Active, Unresolved, Waiting, Settlement
<1>13. Evolves(cv, cw)
  BY <1>6, <1>7, <1>8, <1>12, Step_Evolves DEF Active, Settlement, GoodConv, ConvOK
<1> QED
  BY <1>6, <1>13 DEF cw

\* FinishChain drops the chain of a conversation with nothing active.
LEMMA FinishChain_Fields ==
  ASSUME NEW cv \in ConvRec
  PROVE  LET cw == FinishChain(cv) IN
         /\ cw \in ConvRec /\ cw.revision = cv.revision /\ cw.pause = cv.pause
         /\ cw.lastChain = cv.lastChain /\ cw.lastRun = cv.lastRun /\ cw.item = cv.item /\ cw.op = cv.op
         /\ IF Some(Active, cw) THEN cw.chain = cv.chain /\ cw.pin = cv.pin ELSE cw.chain = 0
<1> DEFINE cw == FinishChain(cv)
<1>1. cw.item = cv.item
  BY DEF FinishChain, ConvRec
<1>2. Some(Active, cw) <=> Some(Active, cv)
  BY <1>1 DEF Some
<1>3. CASE Some(Active, cv)
  BY <1>2, <1>3 DEF FinishChain
<1>4. CASE ~Some(Active, cv)
  <2>1. cw = [cv EXCEPT !.chain = 0, !.pin = NoPin] /\ ~Some(Active, cw)
    BY <1>2, <1>4 DEF FinishChain
  <2>2. /\ cw.revision = cv.revision /\ cw.pause = cv.pause /\ cw.lastChain = cv.lastChain
        /\ cw.lastRun = cv.lastRun /\ cw.op = cv.op /\ cw.chain = 0
    BY <2>1 DEF ConvRec
  <2>3. cw \in ConvRec
    <3>1. 0 \in Nat /\ NoPin \in Pin \cup {NoPin}
      OBVIOUS
    <3> QED
      BY <2>1, <3>1 DEF ConvRec
  <2> QED
    BY <1>1, <2>1, <2>2, <2>3
<1> QED
  BY <1>3, <1>4

\* An ended item keeps its identity and its claim.
LEMMA Ended_Fields ==
  ASSUME NEW i \in ItemRec, NEW h \in Status \cup {"not-submitted"}
  PROVE  LET j == Ended(i, h) IN
         /\ j \in ItemRec /\ j.state = "settled" /\ j.history = h
         /\ j.seq = i.seq /\ j.chain = i.chain /\ j.pin = i.pin /\ j.native = i.native
         /\ j.receipt = i.receipt /\ SameClaim(i, j)
         /\ j.claim.uncertain = FALSE /\ j.claim.possibleNative = i.claim.possibleNative
         /\ j.claim.submission = i.claim.submission /\ j.claim.acceptance = i.claim.acceptance
<1> DEFINE k == [i.claim EXCEPT !.uncertain = FALSE]
<1>1. i.claim \in ClaimRec
  BY DEF ItemRec
<1>2. k \in ClaimRec
  BY <1>1 DEF ClaimRec
<1>3. /\ k.run = i.claim.run /\ k.pred = i.claim.pred /\ k.expected = i.claim.expected
      /\ k.uncertain = FALSE /\ k.possibleNative = i.claim.possibleNative
      /\ k.submission = i.claim.submission /\ k.acceptance = i.claim.acceptance
  BY <1>1 DEF ClaimRec
<1>4. Ended(i, h) = [i EXCEPT !.state = "settled", !.history = h, !.claim = k]
  BY DEF Ended, ItemRec
<1> HIDE DEF k
<1> QED
  BY <1>2, <1>3, <1>4 DEF ItemRec, SameClaim

\* settle: the head becomes the settlement its chain saw last.
LEMMA Settled_Evolves ==
  ASSUME NEW cv, GoodConv(cv), NEW r \in Req, NEW status \in Status,
         cv.item[r].state = "run-linked", cv.item[r].claim.submission = "submitted"
  PROVE  Settled(cv, r, status) \in ConvRec /\ Evolves(cv, Settled(cv, r, status))
<1> DEFINE cw == Settled(cv, r, status)
           i == cv.item[r]
           j == Ended(i, status)
           p == SettlePause(cv, status)
           raw == [cv EXCEPT !.revision = cv.revision + 1, !.pause = p, !.lastChain = i.chain,
                             !.lastRun = i.claim.run, !.item = [cv.item EXCEPT ![r] = j]]
<1>1. cv \in ConvRec /\ i \in ItemRec /\ i.claim \in ClaimRec /\ ItemShape(i) /\ ItemEvidence(i)
  BY DEF GoodConv, ConvOK, ConvRec, ItemRec
<1>2. cw = FinishChain(raw)
  BY <1>1 DEF Settled, ConvRec
<1>3. /\ j \in ItemRec /\ j.state = "settled" /\ j.history = status
      /\ j.seq = i.seq /\ j.chain = i.chain /\ j.pin = i.pin /\ j.native = i.native
      /\ j.receipt = i.receipt /\ SameClaim(i, j)
      /\ j.claim.uncertain = FALSE /\ j.claim.possibleNative = i.claim.possibleNative
      /\ j.claim.submission = i.claim.submission /\ j.claim.acceptance = i.claim.acceptance
  BY <1>1, Ended_Fields
<1>4. /\ p \in PauseCode \cup OwnPause \cup {NoPause}
      /\ cv.pause # NoPause => p # NoPause
  BY <1>1 DEF SettlePause, PauseIfNone, OwnPause, NoPause, ConvRec, Status
<1> HIDE DEF j, p
<1>5. raw \in ConvRec
  <2>1. /\ cv.revision + 1 \in Nat /\ [cv.item EXCEPT ![r] = j] \in [Req -> ItemRec]
        /\ i.chain \in Nat /\ i.claim.run \in Run \cup {NoRun}
    BY <1>1, <1>3 DEF ConvRec, ItemRec, ClaimRec
  <2> QED
    BY <1>1, <1>4, <2>1 DEF ConvRec
<1>6. /\ raw.revision = cv.revision + 1 /\ raw.pause = p /\ raw.lastChain = i.chain /\ raw.lastRun = i.claim.run
      /\ raw.chain = cv.chain /\ raw.pin = cv.pin /\ raw.op = cv.op
      /\ raw.item = [cv.item EXCEPT ![r] = j]
  BY <1>1 DEF ConvRec
<1> HIDE DEF raw
<1>7. /\ cw \in ConvRec /\ cv.revision < cw.revision /\ cw.pause = p /\ cw.op = cv.op
      /\ cw.lastRun = i.claim.run /\ cw.lastChain = i.chain
      /\ cw.item[r] = j /\ \A x \in Req : x # r => cw.item[x] = cv.item[x]
      /\ IF Some(Active, cw) THEN cw.chain = cv.chain /\ cw.pin = cv.pin ELSE cw.chain = 0
  BY <1>1, <1>2, <1>5, <1>6, FinishChain_Fields DEF ConvRec
<1> HIDE DEF cw
<1>8. i.claim.run # NoRun
  BY <1>1 DEF ItemShape
<1>9. ItemShape(j) /\ ItemEvidence(j)
  BY <1>1, <1>3, <1>8 DEF ItemShape, ItemEvidence, EvidenceOK, Status, SameClaim
<1>10. ItemEvolves(cv, cw, r)
  BY <1>3, <1>7, <1>8, <1>9 DEF ItemEvolves, Keeps, SameClaim, Active, Unresolved, Waiting, Settlement
<1>11. \A x \in Req : ItemEvolves(cv, cw, x)
  BY <1>4, <1>7, <1>8, <1>10, Untouched_Evolves
<1>12. Settlement(cw.item[r]) /\ ~Settlement(cv.item[r])
  BY <1>3, <1>7 DEF Settlement
<1> QED
  BY <1>4, <1>7, <1>11, <1>12 DEF Evolves, cw

\* archiveNotSubmitted: a claim that never left goes to history like a settlement.
LEMMA Archived_Evolves ==
  ASSUME NEW cv, GoodConv(cv), NEW r \in Req, Unresolved(cv.item[r]),
         ~cv.item[r].claim.possibleNative, cv.item[r].claim.submission = "not-submitted"
  PROVE  Archived(cv, r) \in ConvRec /\ Evolves(cv, Archived(cv, r))
<1> DEFINE cw == Archived(cv, r)
           i == cv.item[r]
           j == Ended(i, "not-submitted")
           p == PauseIfNone(cv, "admission-unavailable")
           raw == [cv EXCEPT !.revision = cv.revision + 1, !.pause = p,
                             !.item = [cv.item EXCEPT ![r] = j]]
<1>1. cv \in ConvRec /\ i \in ItemRec /\ i.claim \in ClaimRec /\ ItemShape(i) /\ ItemEvidence(i)
  BY DEF GoodConv, ConvOK, ConvRec, ItemRec
<1>2. cw = FinishChain(raw)
  BY <1>1 DEF Archived, ConvRec
<1>3. /\ j \in ItemRec /\ j.state = "settled" /\ j.history = "not-submitted"
      /\ j.seq = i.seq /\ j.chain = i.chain /\ j.pin = i.pin /\ j.native = i.native
      /\ j.receipt = i.receipt /\ SameClaim(i, j)
      /\ j.claim.uncertain = FALSE /\ j.claim.possibleNative = i.claim.possibleNative
      /\ j.claim.submission = i.claim.submission /\ j.claim.acceptance = i.claim.acceptance
  BY <1>1, Ended_Fields
<1>4. p \in PauseCode \cup OwnPause \cup {NoPause} /\ p # NoPause
  BY <1>1 DEF PauseIfNone, OwnPause, NoPause, ConvRec
<1> HIDE DEF j, p
<1>5. raw \in ConvRec
  <2>1. cv.revision + 1 \in Nat /\ [cv.item EXCEPT ![r] = j] \in [Req -> ItemRec]
    BY <1>1, <1>3 DEF ConvRec
  <2> QED
    BY <1>1, <1>4, <2>1 DEF ConvRec
<1>6. /\ raw.revision = cv.revision + 1 /\ raw.pause = p
      /\ raw.lastChain = cv.lastChain /\ raw.lastRun = cv.lastRun
      /\ raw.chain = cv.chain /\ raw.pin = cv.pin /\ raw.op = cv.op
      /\ raw.item = [cv.item EXCEPT ![r] = j]
  BY <1>1 DEF ConvRec
<1> HIDE DEF raw
<1>7. /\ cw \in ConvRec /\ cv.revision < cw.revision /\ cw.pause = p /\ cw.op = cv.op
      /\ cw.lastRun = cv.lastRun /\ cw.lastChain = cv.lastChain
      /\ cw.item[r] = j /\ \A x \in Req : x # r => cw.item[x] = cv.item[x]
      /\ IF Some(Active, cw) THEN cw.chain = cv.chain /\ cw.pin = cv.pin ELSE cw.chain = 0
  BY <1>1, <1>2, <1>5, <1>6, FinishChain_Fields DEF ConvRec
<1> HIDE DEF cw
<1>8. i.claim.run # NoRun
  BY <1>1 DEF ItemShape, Unresolved
<1>9. ItemShape(j) /\ ItemEvidence(j)
  BY <1>1, <1>3, <1>8 DEF ItemShape, ItemEvidence, EvidenceOK, Status, SameClaim
<1>10. ItemEvolves(cv, cw, r)
  BY <1>3, <1>7, <1>8, <1>9
     DEF ItemEvolves, Keeps, SameClaim, Active, Unresolved, Waiting, Settlement, Status
<1>11. \A x \in Req : ItemEvolves(cv, cw, x)
  BY <1>4, <1>7, <1>10, Untouched_Evolves
<1> QED
  BY <1>4, <1>7, <1>11 DEF Evolves, cw

\* remove: the target's prompt is withdrawn, or the removal reports that it is too late.
LEMMA Removed_Evolves ==
  ASSUME NEW cv, GoodConv(cv), NEW o \in Req, NEW r \in Req, Unused(cv, o), cv.item[r].state # "absent"
  PROVE  Removed(cv, o, r) \in ConvRec /\ Evolves(cv, Removed(cv, o, r))
<1> DEFINE cw == Removed(cv, o, r)
           i == cv.item[r]
           s == IF i.claim # NoClaim THEN i.state ELSE "removed"
           j == [i EXCEPT !.state = s]
           op == [kind |-> "remove", target |-> r, outcome |-> RemovalOutcome(i), revision |-> cv.revision + 1]
           raw == [cv EXCEPT !.revision = cv.revision + 1, !.item = [cv.item EXCEPT ![r] = j],
                             !.op = [cv.op EXCEPT ![o] = op]]
<1>1. cv \in ConvRec /\ i \in ItemRec /\ i.claim \in ClaimRec /\ ItemShape(i) /\ ItemEvidence(i)
  BY DEF GoodConv, ConvOK, ConvRec, ItemRec
<1>2. cw = FinishChain(raw)
  BY <1>1 DEF Removed, ConvRec, ItemRec
<1>3. s \in {"absent", "waiting", "claimed", "run-linked", "removed", "settled"}
  BY <1>1 DEF ItemRec
<1> HIDE DEF s
<1>4. /\ j \in ItemRec /\ j.state = s /\ j.history = i.history /\ j.claim = i.claim
      /\ j.seq = i.seq /\ j.chain = i.chain /\ j.pin = i.pin /\ j.native = i.native
      /\ j.receipt = i.receipt
  BY <1>1, <1>3 DEF ItemRec
<1> HIDE DEF j
<1>5. op \in OpRec
  <2>1. RemovalOutcome(i) \in {"none", "removed", "already-removed", "claimed", "resumed"}
    BY DEF RemovalOutcome
  <2>2. cv.revision + 1 \in Nat
    BY <1>1 DEF ConvRec
  <2> QED
    BY <2>1, <2>2 DEF OpRec
<1>6. op.kind = "remove" /\ op.target = r /\ op.revision = cv.revision + 1 /\ op.outcome = RemovalOutcome(i)
  OBVIOUS
<1> HIDE DEF op
<1>7. raw \in ConvRec
  <2>1. /\ cv.revision + 1 \in Nat /\ [cv.item EXCEPT ![r] = j] \in [Req -> ItemRec]
        /\ [cv.op EXCEPT ![o] = op] \in [Req -> OpRec]
    BY <1>1, <1>4, <1>5 DEF ConvRec
  <2> QED
    BY <1>1, <2>1 DEF ConvRec
<1>8. /\ raw.revision = cv.revision + 1 /\ raw.pause = cv.pause
      /\ raw.lastChain = cv.lastChain /\ raw.lastRun = cv.lastRun
      /\ raw.chain = cv.chain /\ raw.pin = cv.pin
      /\ raw.op = [cv.op EXCEPT ![o] = op] /\ raw.item = [cv.item EXCEPT ![r] = j]
  BY <1>1 DEF ConvRec
<1> HIDE DEF raw
<1>9. /\ cw \in ConvRec /\ cw.pause = cv.pause
      /\ cw.revision = cv.revision + 1 /\ cv.revision \in Nat
      /\ cw.lastRun = cv.lastRun /\ cw.lastChain = cv.lastChain
      /\ cw.item[r] = j /\ \A x \in Req : x # r => cw.item[x] = cv.item[x]
      /\ cw.op[o] = op /\ \A x \in Req : x # o => cw.op[x] = cv.op[x]
      /\ IF Some(Active, cw) THEN cw.chain = cv.chain /\ cw.pin = cv.pin ELSE cw.chain = 0
  BY <1>1, <1>2, <1>7, <1>8, FinishChain_Fields DEF ConvRec
<1> HIDE DEF cw
<1>10. s = i.state \/ (s = "removed" /\ i.claim = NoClaim /\ i.history = "none")
  <2>1. i.claim = NoClaim => i.claim.run = NoRun
    BY DEF NoClaim
  <2> QED
    BY <1>1, <2>1 DEF s, ItemShape, ItemRec
<1>11. ItemShape(j) /\ ItemEvidence(j)
  <2>1. CASE s = i.state
    <3>1. j = i
      BY <1>1, <2>1 DEF j, ItemRec
    <3> QED
      BY <1>1, <3>1
  <2>2. CASE s = "removed" /\ i.claim = NoClaim /\ i.history = "none"
    <3>1. i.claim.run = NoRun
      BY <2>2 DEF NoClaim
    <3> QED
      BY <1>4, <2>2, <3>1 DEF ItemShape, ItemEvidence
  <2> QED
    BY <1>10, <2>1, <2>2
<1>12. i.state \in {"waiting", "removed"} \/ s = i.state
  <2>1. i.claim = NoClaim => i.claim.run = NoRun
    BY DEF NoClaim
  <2>2. i.state \in {"absent", "waiting", "claimed", "run-linked", "removed", "settled"}
    BY <1>1 DEF ItemRec
  <2> QED
    BY <1>1, <1>10, <2>1, <2>2 DEF ItemShape
<1>13. ItemEvolves(cv, cw, r)
  <2>1. CASE s = i.state
    <3>1. cw.item[r] = cv.item[r]
      BY <1>1, <1>9, <2>1 DEF j, ItemRec
    <3> QED
      BY <1>9, <3>1, Untouched_Evolves
  <2>2. CASE s = "removed" /\ i.state \in {"waiting", "removed"}
    BY <1>4, <1>9, <1>11, <2>2
       DEF ItemEvolves, Keeps, SameClaim, Active, Unresolved, Waiting, Settlement
  <2> QED
    BY <1>10, <1>12, <2>1, <2>2
<1>14. \A x \in Req : ItemEvolves(cv, cw, x)
  BY <1>9, <1>13, Untouched_Evolves
<1>15. \A x \in Req : Settlement(cw.item[x]) => Settlement(cv.item[x])
  BY <1>4, <1>9, <1>10 DEF Settlement
<1>16. cw.item[o].state = "absent"
  BY <1>14 DEF ItemEvolves, Keeps, Unused
<1>17. /\ cw.op[o].target \in Req /\ cw.item[cw.op[o].target].state # "absent"
       /\ IF cw.op[o].outcome = "claimed" THEN cw.item[cw.op[o].target].claim.run # NoRun
                                          ELSE cw.item[cw.op[o].target].state = "removed"
  <2>1. cw.op[o].target = r /\ cw.op[o].outcome = RemovalOutcome(i) /\ cw.item[r] = j
    BY <1>6, <1>9
  <2>2. cw.item[r].state # "absent"
    BY <1>14 DEF ItemEvolves, Keeps
  <2>3. CASE i.claim = NoClaim
    <3>1. RemovalOutcome(i) # "claimed" /\ s = "removed"
      BY <2>3 DEF RemovalOutcome, s
    <3> QED
      BY <1>4, <2>1, <2>2, <3>1
  <2>4. CASE i.claim # NoClaim
    <3>1. RemovalOutcome(i) = "claimed"
      BY <2>4 DEF RemovalOutcome
    <3>2. i.claim.run # NoRun
      BY <1>1, <2>4 DEF ItemShape, ItemRec
    <3> QED
      BY <1>4, <2>1, <2>2, <3>1, <3>2
  <2> QED
    BY <2>3, <2>4
<1> QED
  <2>1. cw.pause \in PauseCode \cup OwnPause \cup {NoPause}
    BY <1>9 DEF ConvRec
  <2>2. 0 < cw.op[o].revision /\ cw.op[o].revision <= cw.revision
    BY <1>6, <1>9
  <2> QED
    BY <1>9, <1>14, <1>15, <1>16, <1>17, <2>1, <2>2 DEF Evolves, cw

\* The startup classification marks every unresolved claim, under a pause.
LEMMA Recovered_Evolves ==
  ASSUME NEW cv, GoodConv(cv)
  PROVE  /\ Recovered(cv) \in ConvRec
         /\ Recovered(cv) = cv \/ Evolves(cv, Recovered(cv))
         /\ \A x \in Req : Recovered(cv).item[x].claim.run = cv.item[x].claim.run
<1> DEFINE cw == Recovered(cv)
           p == PauseIfNone(cv, "restart")
           M(x) == IF Unresolved(cv.item[x]) THEN [cv.item[x] EXCEPT !.claim.uncertain = TRUE] ELSE cv.item[x]
<1>1. cv \in ConvRec /\ \A x \in Req : cv.item[x] \in ItemRec /\ ItemShape(cv.item[x]) /\ ItemEvidence(cv.item[x])
  BY DEF GoodConv, ConvOK, ConvRec
<1>2. CASE ~Some(Active, cv)
  BY <1>1, <1>2 DEF Recovered
<1>3. CASE Some(Active, cv)
  <2>1. cw = [cv EXCEPT !.revision = cv.revision + 1, !.pause = p, !.item = [x \in Req |-> M(x)]]
    BY <1>1, <1>3 DEF Recovered, ConvRec
  <2>2. p \in PauseCode \cup OwnPause \cup {NoPause} /\ p # NoPause
    BY <1>1 DEF PauseIfNone, OwnPause, NoPause, ConvRec
  <2> HIDE DEF p
  <2>3. ASSUME NEW x \in Req, Unresolved(cv.item[x])
        PROVE  LET i == cv.item[x]  j == M(x) IN
               /\ j \in ItemRec /\ j.state = i.state /\ j.history = i.history
               /\ j.seq = i.seq /\ j.chain = i.chain /\ j.pin = i.pin /\ j.native = i.native
               /\ j.receipt = i.receipt /\ SameClaim(i, j)
               /\ j.claim.uncertain = TRUE /\ j.claim.possibleNative = i.claim.possibleNative
               /\ j.claim.submission = i.claim.submission /\ j.claim.acceptance = i.claim.acceptance
    <3> DEFINE i == cv.item[x]
               k == [i.claim EXCEPT !.uncertain = TRUE]
    <3>1. i \in ItemRec /\ i.claim \in ClaimRec
      BY <1>1 DEF ItemRec
    <3>2. k \in ClaimRec
      BY <3>1 DEF ClaimRec
    <3>3. /\ k.run = i.claim.run /\ k.pred = i.claim.pred /\ k.expected = i.claim.expected
          /\ k.uncertain = TRUE /\ k.possibleNative = i.claim.possibleNative
          /\ k.submission = i.claim.submission /\ k.acceptance = i.claim.acceptance
      BY <3>1 DEF ClaimRec
    <3>4. M(x) = [i EXCEPT !.claim = k]
      BY <2>3, <3>1 DEF ItemRec
    <3> HIDE DEF k, M
    <3> QED
      BY <3>1, <3>2, <3>3, <3>4 DEF ItemRec, SameClaim
  <2>4. \A x \in Req : M(x) \in ItemRec /\ M(x).claim.run = cv.item[x].claim.run
    BY <1>1, <2>3 DEF SameClaim
  <2>5. \A x \in Req : ~Unresolved(cv.item[x]) => M(x) = cv.item[x]
    OBVIOUS
  <2> HIDE DEF M
  <2>6. cw \in ConvRec
    <3>1. cv.revision + 1 \in Nat /\ [x \in Req |-> M(x)] \in [Req -> ItemRec]
      BY <1>1, <2>4 DEF ConvRec
    <3> QED
      BY <1>1, <2>1, <2>2, <3>1 DEF ConvRec
  <2>7. /\ cv.revision < cw.revision /\ cw.pause = p /\ cw.op = cv.op
        /\ cw.chain = cv.chain /\ cw.pin = cv.pin
        /\ cw.lastRun = cv.lastRun /\ cw.lastChain = cv.lastChain
        /\ \A x \in Req : cw.item[x] = M(x)
    BY <1>1, <2>1 DEF ConvRec
  <2> HIDE DEF cw
  <2>8. ASSUME NEW x \in Req PROVE ItemEvolves(cv, cw, x) /\ (Settlement(cw.item[x]) => Settlement(cv.item[x]))
    <3>1. CASE ~Unresolved(cv.item[x])
      BY <2>2, <2>5, <2>7, <3>1, Untouched_Evolves
    <3>2. CASE Unresolved(cv.item[x])
      <4> DEFINE i == cv.item[x]
                 j == M(x)
      <4>2. /\ j.state = i.state /\ j.history = i.history /\ j.native = i.native /\ SameClaim(i, j)
            /\ j.claim.uncertain /\ j.claim.possibleNative = i.claim.possibleNative
            /\ j.claim.submission = i.claim.submission /\ j.claim.acceptance = i.claim.acceptance
        BY <2>3, <3>2
      <4>3. ItemShape(i) /\ ItemEvidence(i) /\ i.state \in {"claimed", "run-linked"}
        BY <1>1, <3>2 DEF Unresolved
      <4> HIDE DEF i, j
      <4>4. ItemShape(j)
        BY <4>2, <4>3 DEF ItemShape, SameClaim
      <4>5. ItemEvidence(j)
        BY <4>2, <4>3 DEF ItemEvidence, EvidenceOK, SameClaim
      <4>1. ItemShape(M(x)) /\ ItemEvidence(M(x))
        BY <4>4, <4>5 DEF j
      <4> QED
        BY <2>2, <2>3, <2>7, <3>2, <4>1
           DEF ItemEvolves, Keeps, Active, Unresolved, Waiting, Settlement
    <3> QED
      BY <3>1, <3>2
  <2>9. Some(Active, cw)
    <3>1. PICK x \in Req : Active(cv.item[x])
      BY <1>3 DEF Some
    <3>2. Active(cw.item[x])
      BY <2>3, <2>5, <2>7, <3>1 DEF Active
    <3> QED
      BY <3>2 DEF Some
  <2>10. Evolves(cv, cw)
    BY <2>2, <2>7, <2>8, <2>9 DEF Evolves
  <2> QED
    BY <2>4, <2>6, <2>7, <2>10 DEF cw
<1> QED
  BY <1>2, <1>3

----------------------------------------------------------------------------
(* enqueue adds an item, which is no evolution. *)

\* The waiting inputs after one more was added stay within the limit.
LEMMA WaitingGrows ==
  ASSUME NEW cv \in ConvRec, NEW cw \in ConvRec, NEW r \in Req,
         Cardinality({q \in Req : Waiting(cv.item[q])}) < MaxWaiting,
         ~Waiting(cv.item[r]), Waiting(cw.item[r]),
         \A x \in Req : x # r => cw.item[x] = cv.item[x]
  PROVE  Cardinality({q \in Req : Waiting(cw.item[q])}) <= MaxWaiting
<1> DEFINE W == {q \in Req : Waiting(cv.item[q])}
<1>1. {q \in Req : Waiting(cw.item[q])} = W \cup {r}
  OBVIOUS
<1>2. IsFiniteSet(W) /\ r \notin W
  <2>1. W \subseteq Req
    OBVIOUS
  <2> QED
    BY <2>1, FS_Subset, StoreAssumption
<1> HIDE DEF W
<1>3. Cardinality(W \cup {r}) = Cardinality(W) + 1 /\ Cardinality(W) \in Nat
  BY <1>2, FS_AddElement, FS_CardinalityType
<1>4. Cardinality(W) < MaxWaiting
  BY DEF W
<1>5. Cardinality(W \cup {r}) <= MaxWaiting
  BY <1>3, <1>4, StoreAssumption
<1> QED
  BY <1>1, <1>5

\* enqueue appends to the queue and takes the next sequence.
LEMMA Enqueued_OK ==
  ASSUME NEW rec, RecOK(rec), NEW c \in Conv, NEW r \in Req, NEW p \in Pin, NEW n \in Native,
         Unused(rec.conv[c], r),
         \A d \in Conv \ {c} : \A q \in Req : rec.conv[d].item[q].native # n,
         Cardinality({q \in Req : Waiting(rec.conv[c].item[q])}) < MaxWaiting,
         rec.conv[c].chain # 0 => rec.conv[c].pin = p
  PROVE  RecOK(Enqueued(rec, c, r, p, n))
<1> DEFINE cv == rec.conv[c]
           chain == IF cv.chain = 0 THEN rec.next ELSE cv.chain
           new == [NoItem EXCEPT !.state = "waiting", !.seq = rec.next, !.chain = chain,
                                 !.pin = p, !.native = n, !.receipt = cv.revision + 1]
           cw == [cv EXCEPT !.revision = cv.revision + 1, !.chain = chain, !.pin = p,
                            !.item = [cv.item EXCEPT ![r] = new]]
           rec2 == Enqueued(rec, c, r, p, n)
<1>1. /\ rec \in Records /\ rec.next \in Nat /\ 0 < rec.next /\ rec.conv \in [Conv -> ConvRec]
      /\ cv \in ConvRec /\ cv.revision \in Nat /\ cv.chain \in Nat /\ Global(rec)
      /\ GoodConv(cv) /\ \A x \in Req : cv.item[x] \in ItemRec
  BY ConvOfRecords DEF RecOK, Records, Decodes, ConvRec
<1>2. /\ \A x \in Req : ItemShape(cv.item[x]) /\ ItemEvidence(cv.item[x]) /\ ItemRevisions(cv, cv.item[x])
      /\ ChainShape(cv) /\ Ordered(cv) /\ Predecessors(cv) /\ Operations(cv) /\ Frontier(cv) /\ Distinct(cv)
      /\ cv.pause \in PauseCode \cup OwnPause \cup {NoPause}
  BY <1>1 DEF GoodConv, ConvOK
<1>3. rec2 = [next |-> rec.next + 1, conv |-> [rec.conv EXCEPT ![c] = cw]]
  BY <1>1 DEF Enqueued, ConvRec
<1>4. chain \in Nat /\ 0 < chain /\ chain <= rec.next
  <2>1. CASE cv.chain = 0
    BY <1>1, <2>1
  <2>2. CASE cv.chain # 0
    <3>1. PICK q \in Req : Active(cv.item[q])
      BY <1>2, <2>2 DEF ChainShape, Some
    <3>2. Exists(rec, c, q) /\ cv.item[q].chain = cv.chain
      BY <1>2, <3>1 DEF Exists, Active, ChainShape
    <3>3. cv.item[q].seq < rec.next /\ cv.item[q].chain <= cv.item[q].seq /\ 0 < cv.item[q].chain
      BY <1>1, <1>2, <3>2 DEF Global, Exists, Frontier
    <3>4. cv.item[q].seq \in Nat
      BY <1>1 DEF ItemRec
    <3> QED
      BY <1>1, <2>2, <3>2, <3>3, <3>4
  <2> QED
    BY <2>1, <2>2
<1>5. /\ new.state = "waiting" /\ new.seq = rec.next /\ new.chain = chain /\ new.pin = p
      /\ new.native = n /\ new.receipt = cv.revision + 1 /\ new.claim = NoClaim /\ new.history = "none"
  BY DEF NoItem
<1>6. new \in ItemRec
  <2>1. chain \in Nat /\ cv.revision + 1 \in Nat /\ rec.next \in Nat /\ NoClaim \in ClaimRec
    BY <1>1, <1>4 DEF NoClaim, ClaimRec
  <2> HIDE DEF chain, cv
  <2> QED
    BY <2>1 DEF NoItem, ItemRec
<1>7. cv.item[r].state = "absent" /\ cv.op[r].kind = "none"
  BY DEF Unused
<1> HIDE DEF new, chain
<1>8. /\ cw.revision = cv.revision + 1 /\ cw.chain = chain /\ cw.pin = p /\ cw.pause = cv.pause
      /\ cw.lastChain = cv.lastChain /\ cw.lastRun = cv.lastRun /\ cw.op = cv.op
      /\ cw.item[r] = new /\ \A x \in Req : x # r => cw.item[x] = cv.item[x]
  BY <1>1 DEF ConvRec
<1>9. cw \in ConvRec
  <2>1. cv.revision + 1 \in Nat /\ [cv.item EXCEPT ![r] = new] \in [Req -> ItemRec]
    BY <1>1, <1>6 DEF ConvRec
  <2> QED
    BY <1>1, <1>4, <2>1 DEF ConvRec
<1>10. rec2.next = rec.next + 1 /\ rec2.conv[c] = cw /\ rec2 \in Records
       /\ \A d \in Conv : d # c => rec2.conv[d] = rec.conv[d]
  <2> HIDE DEF cw, rec2
  <2> QED
    BY <1>1, <1>3, <1>9 DEF Records
<1> HIDE DEF cw, cv, rec2
<1>11. \A x \in Req : cw.item[x].state # "absent" /\ x # r
                        => 0 < cw.item[x].seq /\ cw.item[x].seq < rec.next
                           /\ cw.item[x].seq \in Nat /\ cw.item[x].chain \in Nat /\ cw.item[x].receipt \in Nat
  <2>1. \A x \in Req : cv.item[x].state # "absent" => 0 < cv.item[x].seq /\ cv.item[x].seq < rec.next
    BY <1>1 DEF Global, Exists, cv
  <2> QED
    BY <1>1, <1>8, <2>1 DEF ItemRec
<1>12. \A x \in Req : ItemShape(cw.item[x]) /\ ItemEvidence(cw.item[x]) /\ ItemRevisions(cw, cw.item[x])
  <2>1. ItemShape(new) /\ ItemEvidence(new) /\ ItemRevisions(cw, new)
    BY <1>1, <1>5, <1>8 DEF ItemShape, ItemEvidence, ItemRevisions, NoClaim
  <2>2. ASSUME NEW x \in Req, x # r PROVE ItemRevisions(cw, cv.item[x])
    <3>1. ItemRevisions(cv, cv.item[x]) /\ cv.item[x].receipt \in Nat /\ cv.item[x].claim.expected \in Nat
      BY <1>1, <1>2 DEF ItemRec, ClaimRec
    <3> QED
      BY <1>1, <1>8, <3>1 DEF ItemRevisions
  <2> QED
    BY <1>2, <1>8, <2>1, <2>2
<1>13. ChainShape(cw)
  <2>1. Cardinality({q \in Req : Waiting(cw.item[q])}) <= MaxWaiting
    BY <1>1, <1>5, <1>7, <1>8, <1>9, WaitingGrows DEF Waiting, cv
  <2>2. ~Unresolved(new) /\ Active(new) /\ ~new.claim.uncertain
    BY <1>5 DEF Unresolved, Active, NoClaim
  <2>3. \A x \in Req : Active(cw.item[x]) => cw.chain = cw.item[x].chain /\ cw.pin = cw.item[x].pin
    <3> SUFFICES ASSUME NEW x \in Req, x # r, Active(cv.item[x])
                 PROVE  cw.chain = cv.item[x].chain /\ cw.pin = cv.item[x].pin
      BY <1>5, <1>8
    <3>1. cv.chain = cv.item[x].chain /\ cv.pin = cv.item[x].pin /\ cv.chain # 0
      BY <1>2 DEF ChainShape, Some
    <3> QED
      BY <1>8, <3>1 DEF chain, cv
  <2> QED
    BY <1>2, <1>4, <1>8, <2>1, <2>2, <2>3 DEF ChainShape, Some
<1>14. Ordered(cw)
  <2> SUFFICES ASSUME NEW x \in Req, NEW q \in Req, cw.item[x].state # "absent",
                      cw.item[q].state # "absent", cw.item[x].seq < cw.item[q].seq
               PROVE  /\ cw.item[x].receipt < cw.item[q].receipt
                      /\ Waiting(cw.item[x]) => ~Unresolved(cw.item[q])
    BY DEF Ordered
  <2>1. CASE q = r
    <3>1. x # r
      BY <1>1, <1>5, <1>8, <2>1
    <3>2. cv.item[x].receipt <= cv.revision /\ cv.item[x].receipt \in Nat
      BY <1>2, <1>8, <1>11, <3>1 DEF ItemRevisions
    <3> QED
      BY <1>1, <1>5, <1>8, <2>1, <3>1, <3>2 DEF Unresolved
  <2>2. CASE q # r /\ x = r
    BY <1>1, <1>5, <1>8, <1>11, <2>2
  <2>3. CASE q # r /\ x # r
    BY <1>2, <1>8, <2>3 DEF Ordered
  <2> QED
    BY <2>1, <2>2, <2>3
<1>15. Predecessors(cw)
  <2>1. ~Settlement(new) /\ new.claim.run = NoRun
    BY <1>5 DEF Settlement, NoClaim
  <2>2. ~Settlement(cv.item[r])
    BY <1>7 DEF Settlement
  <2>3. \A x \in Req : Settlement(cw.item[x]) => x # r /\ cw.item[x] = cv.item[x]
    BY <1>8, <2>1
  <2>4. \A x \in Req : Settlement(cv.item[x]) => x # r /\ cw.item[x] = cv.item[x]
    BY <1>8, <2>2
  <2>5. \A x \in Req : cw.item[x].claim.run # NoRun => x # r /\ cw.item[x] = cv.item[x]
    BY <1>8, <2>1
  <2>6. Some(Settlement, cw) <=> Some(Settlement, cv)
    BY <2>3, <2>4 DEF Some
  <2>7. cw.lastRun = NoRun <=> ~Some(Settlement, cw)
    BY <1>2, <1>8, <2>6 DEF Predecessors
  <2>8. ASSUME NEW x \in Req, Settlement(cw.item[x]),
               \A y \in Req : Settlement(cw.item[y]) => cw.item[y].seq <= cw.item[x].seq
        PROVE  cw.lastRun = cw.item[x].claim.run /\ cw.lastChain = cw.item[x].chain
    <3>1. \A y \in Req : Settlement(cv.item[y]) => cv.item[y].seq <= cv.item[x].seq
      BY <2>3, <2>4, <2>8
    <3> QED
      BY <1>2, <1>8, <2>3, <2>8, <3>1 DEF Predecessors
  <2>9. ASSUME NEW x \in Req, NEW q \in Req, Settlement(cw.item[x]), cw.item[q].claim.run # NoRun,
               cw.item[x].chain = cw.item[q].chain, cw.item[x].seq < cw.item[q].seq,
               \A y \in Req : Settlement(cw.item[y]) /\ cw.item[y].chain = cw.item[q].chain
                               => cw.item[y].seq <= cw.item[x].seq \/ cw.item[y].seq >= cw.item[q].seq
        PROVE  cw.item[q].claim.pred = cw.item[x].claim.run
    <3>1. \A y \in Req : Settlement(cv.item[y]) /\ cv.item[y].chain = cv.item[q].chain
                               => cv.item[y].seq <= cv.item[x].seq \/ cv.item[y].seq >= cv.item[q].seq
      BY <2>3, <2>4, <2>5, <2>9
    <3> QED
      BY <1>2, <2>3, <2>5, <2>9, <3>1 DEF Predecessors
  <2> QED
    BY <2>7, <2>8, <2>9 DEF Predecessors
<1>16. Operations(cw)
  <2> SUFFICES ASSUME NEW o \in Req, cv.op[o].kind # "none"
               PROVE  /\ 0 < cv.op[o].revision /\ cv.op[o].revision <= cw.revision
                      /\ cw.item[o].state = "absent"
                      /\ cv.op[o].kind = "remove" =>
                           /\ cv.op[o].target \in Req /\ cw.item[cv.op[o].target].state # "absent"
                           /\ IF cv.op[o].outcome = "claimed" THEN cw.item[cv.op[o].target].claim.run # NoRun
                                                              ELSE cw.item[cv.op[o].target].state = "removed"
    BY SMTT(30), <1>8 DEF Operations
  <2>1. /\ 0 < cv.op[o].revision /\ cv.op[o].revision <= cv.revision
        /\ cv.item[o].state = "absent"
        /\ cv.op[o].kind = "remove" =>
             /\ cv.op[o].target \in Req /\ cv.item[cv.op[o].target].state # "absent"
             /\ IF cv.op[o].outcome = "claimed" THEN cv.item[cv.op[o].target].claim.run # NoRun
                                                ELSE cv.item[cv.op[o].target].state = "removed"
    BY <1>2 DEF Operations
  <2>2. cv.op[o].revision \in Nat
    BY <1>1 DEF ConvRec, OpRec
  <2>3. o # r /\ cw.item[o] = cv.item[o] /\ cv.op[o].revision <= cw.revision
    <3>1. o # r
      BY <1>7
    <3> QED
      BY <1>1, <1>8, <2>1, <2>2, <3>1
  <2>4. ASSUME cv.op[o].kind = "remove" PROVE cw.item[cv.op[o].target] = cv.item[cv.op[o].target]
    BY <1>7, <1>8, <2>1, <2>4 DEF cv
  <2> QED
    BY <2>1, <2>3, <2>4
<1>17. Frontier(cw)
  <2> SUFFICES ASSUME NEW x \in Req, NEW q \in Req, cw.item[x].state # "absent"
               PROVE  /\ 0 < cw.item[x].chain /\ cw.item[x].chain <= cw.item[x].seq
                      /\ cw.chain # 0 => cw.item[x].chain <= cw.chain
                      /\ cw.item[q].state # "absent" /\ cw.item[x].seq < cw.item[q].seq =>
                           /\ cw.item[x].chain <= cw.item[q].chain
                           /\ cw.item[q].claim.run # NoRun => ~Active(cw.item[x])
    BY DEF Frontier
  <2>1. ASSUME x # r PROVE cw.item[x].chain <= chain
    <3>1. CASE cv.chain = 0
      <4>1. chain = rec.next /\ rec.next \in Nat
        BY <1>1, <3>1 DEF chain, Records
      <4>2. cw.item[x] = cv.item[x] /\ cv.item[x].chain <= cv.item[x].seq
        BY <1>2, <1>8, <2>1 DEF Frontier
      <4>3. cw.item[x].seq < rec.next /\ cw.item[x].seq \in Nat /\ cw.item[x].chain \in Nat
        BY <1>11, <2>1
      <4> QED
        BY <4>1, <4>2, <4>3
    <3>2. CASE cv.chain # 0
      BY <1>2, <1>8, <2>1, <3>2 DEF Frontier, chain, cv
    <3> QED
      BY <3>1, <3>2
  <2>2. CASE x # r /\ q # r
    BY <1>2, <1>8, <2>1, <2>2 DEF Frontier
  <2>3. CASE x # r /\ q = r
    BY <1>2, <1>5, <1>8, <2>1, <2>3 DEF Frontier, NoClaim
  <2>4. CASE x = r
    BY <1>1, <1>4, <1>5, <1>8, <1>11, <2>4
  <2> QED
    BY <2>2, <2>3, <2>4
<1>18. Global(rec2)
  <2>1. ASSUME NEW d \in Conv, NEW x \in Req, Exists(rec2, d, x), <<d, x>> # <<c, r>>
        PROVE  rec2.conv[d].item[x] = rec.conv[d].item[x] /\ Exists(rec, d, x)
    BY <1>8, <1>10, <2>1 DEF Exists, cv
  <2>2. ASSUME NEW d \in Conv, NEW x \in Req, Exists(rec, d, x)
        PROVE  /\ 0 < rec.conv[d].item[x].seq /\ rec.conv[d].item[x].seq < rec.next
               /\ rec.conv[d].item[x].seq \in Nat
               /\ rec.conv[d].item[x].chain \in Nat
               /\ rec.conv[d].item[x].chain <= rec.conv[d].item[x].seq
    <3>1. rec.conv[d].item[x] \in ItemRec /\ Frontier(rec.conv[d])
      BY <1>1 DEF RecOK, ConvRec
    <3> QED
      BY <1>1, <2>2, <3>1 DEF Global, Frontier, Exists, ItemRec
  <2>3. rec2.conv[c].item[r] = new
    BY <1>8, <1>10
  <2>4. ASSUME NEW d \in Conv, NEW x \in Req, Exists(rec, d, x), <<d, x>> # <<c, r>>
        PROVE  LET j == rec.conv[d].item[x] IN
               /\ j.seq # new.seq
               /\ j.claim.run # NoRun => j.claim.run # new.claim.run
               /\ d # c => j.native # new.native
               /\ j.chain = new.chain => d = c /\ j.pin = new.pin
    <3>1. rec.conv[d].item[x].seq # new.seq
      BY <1>1, <1>5, <2>2, <2>4
    <3>2. rec.conv[d].item[x].chain = chain => d = c /\ rec.conv[d].item[x].pin = p
      <4>1. CASE cv.chain = 0
        BY <1>1, <2>2, <2>4, <4>1 DEF chain, cv
      <4>2. CASE cv.chain # 0
        <5>1. PICK q \in Req : Active(cv.item[q])
          BY <1>2, <4>2 DEF ChainShape, Some
        <5>2. Exists(rec, c, q) /\ cv.item[q].chain = cv.chain /\ cv.item[q].pin = p
          BY <1>2, <4>2, <5>1 DEF Exists, Active, ChainShape, cv
        <5>3. CASE <<d, x>> = <<c, q>>
          BY <5>2, <5>3 DEF cv
        <5>4. CASE <<d, x>> # <<c, q>>
          <6>1. chain = cv.chain
            BY <4>2 DEF chain
          <6>2. Unlike(d, c, rec.conv[d].item[x], rec.conv[c].item[q])
            BY <1>1, <2>4, <5>2, <5>4, Apart
          <6> QED
            BY <5>2, <6>1, <6>2 DEF Unlike, cv
        <5> QED
          BY <5>3, <5>4
      <4> QED
        BY <4>1, <4>2
    <3>3. d # c => rec.conv[d].item[x].native # n
      OBVIOUS
    <3>4. new.claim.run = NoRun
      BY <1>5 DEF NoClaim
    <3> QED
      BY <1>5, <3>1, <3>2, <3>3, <3>4
  <2>5. new.claim.run = NoRun /\ new.state # "absent"
    BY <1>5 DEF NoClaim
  <2> SUFFICES ASSUME NEW d \in Conv, NEW e \in Conv, NEW x \in Req, NEW y \in Req
               PROVE  /\ Exists(rec2, d, x) => 0 < rec2.conv[d].item[x].seq /\ rec2.conv[d].item[x].seq < rec2.next
                      /\ Exists(rec2, d, x) /\ Exists(rec2, e, y) /\ <<d, x>> # <<e, y>> =>
                           LET i == rec2.conv[d].item[x]  j == rec2.conv[e].item[y] IN
                           /\ i.seq # j.seq
                           /\ i.claim.run # NoRun => i.claim.run # j.claim.run
                           /\ d # e => i.native # j.native
                           /\ i.chain = j.chain => d = e /\ i.pin = j.pin
    BY DEF Global
  <2>6. Exists(rec2, d, x) => 0 < rec2.conv[d].item[x].seq /\ rec2.conv[d].item[x].seq < rec2.next
    <3>1. CASE <<d, x>> = <<c, r>>
      BY <1>1, <1>5, <1>10, <2>3, <3>1
    <3>2. CASE <<d, x>> # <<c, r>>
      BY <1>1, <1>10, <2>1, <2>2, <3>2
    <3> QED
      BY <3>1, <3>2
  <2>7. ASSUME Exists(rec2, d, x), Exists(rec2, e, y), <<d, x>> # <<e, y>>
        PROVE  LET i == rec2.conv[d].item[x]  j == rec2.conv[e].item[y] IN
               /\ i.seq # j.seq
               /\ i.claim.run # NoRun => i.claim.run # j.claim.run
               /\ d # e => i.native # j.native
               /\ i.chain = j.chain => d = e /\ i.pin = j.pin
    <3>1. CASE <<d, x>> = <<c, r>>
      <4>1. <<e, y>> # <<c, r>> /\ Exists(rec, e, y) /\ rec2.conv[e].item[y] = rec.conv[e].item[y]
        BY <2>1, <2>7, <3>1
      <4>2. rec2.conv[d].item[x] = new /\ d = c
        BY <2>3, <3>1
      <4> QED
        BY <2>4, <2>5, <4>1, <4>2
    <3>2. CASE <<e, y>> = <<c, r>>
      <4>1. <<d, x>> # <<c, r>> /\ Exists(rec, d, x) /\ rec2.conv[d].item[x] = rec.conv[d].item[x]
        BY <2>1, <2>7, <3>2
      <4>2. rec2.conv[e].item[y] = new /\ e = c
        BY <2>3, <3>2
      <4> QED
        BY <2>4, <4>1, <4>2
    <3>3. CASE <<d, x>> # <<c, r>> /\ <<e, y>> # <<c, r>>
      <4>1. /\ Exists(rec, d, x) /\ rec2.conv[d].item[x] = rec.conv[d].item[x]
            /\ Exists(rec, e, y) /\ rec2.conv[e].item[y] = rec.conv[e].item[y]
        BY <2>1, <2>7, <3>3
      <4>2. Unlike(d, e, rec.conv[d].item[x], rec.conv[e].item[y])
        BY <1>1, <2>7, <4>1, Apart
      <4> QED
        BY <4>1, <4>2 DEF Unlike
    <3> QED
      BY <3>1, <3>2, <3>3
  <2> QED
    BY <2>6, <2>7
<1>19. 0 < rec2.next
  BY <1>1, <1>10
<1>20. cw.pause \in PauseCode \cup OwnPause \cup {NoPause}
  BY <1>2, <1>8
<1>21. \A d \in Conv : ConvOK(rec2.conv[d]) /\ Frontier(rec2.conv[d])
  <2>1. ConvOK(cw)
    BY <1>12, <1>13, <1>14, <1>15, <1>16, <1>20 DEF ConvOK
  <2> QED
    BY <1>10, <1>17, <2>1 DEF RecOK, Decodes
<1> QED
  BY <1>10, <1>18, <1>19, <1>21 DEF RecOK, Decodes, rec2

----------------------------------------------------------------------------
(* The inductive invariant. *)

IInv == TypeOK /\ RecordsInv /\ GrantIsDurable /\ OneAtATimeInOrder

\* What was handed to the harness stays so, in its place, and settled if it was.
Sticks(rec, rec2) == \A c \in Conv, x \in Req :
  LET i == rec.conv[c].item[x]  j == rec2.conv[c].item[x] IN
  i.claim.possibleNative =>
    j.claim.possibleNative /\ j.seq = i.seq /\ (i.state = "settled" => j.state = "settled")

\* Everything handed over before r is settled and lies before r.
NextGrant(rec, c, r) ==
  /\ rec.conv[c].item[r].claim.possibleNative
  /\ \A q \in Req : q # r /\ rec.conv[c].item[q].claim.possibleNative =>
       rec.conv[c].item[q].state = "settled" /\ rec.conv[c].item[q].seq < rec.conv[c].item[r].seq

\* In good records an item handed over has evidence and is not withdrawn.
LEMMA HandedOver ==
  ASSUME NEW rec, RecOK(rec), NEW c \in Conv, NEW r \in Req,
         rec.conv[c].item[r].claim.possibleNative
  PROVE  LET i == rec.conv[c].item[r] IN
         /\ i.claim.submission \notin {"none", "not-submitted"}
         /\ i.state \in {"run-linked", "settled"} /\ i.history # "not-submitted" /\ i.claim.run # NoRun
<1> DEFINE i == rec.conv[c].item[r]
<1>1. i \in ItemRec /\ ItemShape(i) /\ ItemEvidence(i)
  BY DEF RecOK, Records, ConvRec, Decodes, ConvOK
<1>2. i.state \notin {"absent", "waiting", "removed"}
  BY <1>1 DEF ItemShape, NoItem, NoClaim
<1> QED
  BY <1>1, <1>2 DEF ItemShape, ItemEvidence, ItemRec

\* An evolution of every conversation forgets nothing that was handed over.
LEMMA EvolvesSticks ==
  ASSUME NEW rec, RecOK(rec), NEW rec2,
         \A c \in Conv : rec2.conv[c] = rec.conv[c] \/ Evolves(rec.conv[c], rec2.conv[c])
  PROVE  Sticks(rec, rec2)
<1> SUFFICES ASSUME NEW c \in Conv, NEW x \in Req, rec.conv[c].item[x].claim.possibleNative,
                    Evolves(rec.conv[c], rec2.conv[c])
             PROVE  LET i == rec.conv[c].item[x]  j == rec2.conv[c].item[x] IN
                    j.claim.possibleNative /\ j.seq = i.seq /\ (i.state = "settled" => j.state = "settled")
  BY DEF Sticks
<1> DEFINE i == rec.conv[c].item[x]
           j == rec2.conv[c].item[x]
<1>1. ItemEvolves(rec.conv[c], rec2.conv[c], x) /\ ItemShape(i)
  BY DEF Evolves, RecOK, Decodes, ConvOK
<1>2. i.state = "settled" => Settlement(i)
  <2>1. i.history # "not-submitted" /\ ItemEvidence(i) /\ i.claim.run # NoRun
    BY HandedOver DEF RecOK, Decodes, ConvOK
  <2> QED
    BY <2>1 DEF ItemEvidence, Settlement
<1> QED
  BY <1>1, <1>2 DEF ItemEvolves, Keeps, Settlement

\* The frame of every mutation: what change() publishes, or half writes, is good.
LEMMA Published ==
  ASSUME IInv, NEW cand, RecOK(cand), Sticks(mem, cand), failed = "no",
         \/ /\ mem' = cand /\ disk' = cand /\ failed' = "no"
            /\ recoveryRequired' \in BOOLEAN /\ mine' \subseteq Run
            /\ \/ granted' = granted
               \/ \E c \in Conv, r \in Req :
                    /\ granted' = [granted EXCEPT ![c] = Append(@, r)]
                    /\ NextGrant(cand, c, r) /\ ~mem.conv[c].item[r].claim.possibleNative
         \/ failed' = "write" /\ disk' \in {disk, cand} /\ UNCHANGED <<mem, recoveryRequired, granted, mine>>
  PROVE  IInv'
<1>1. mem = disk /\ RecOK(mem) /\ granted \in [Conv -> Seq(Req)] /\ mine \subseteq Run
  BY DEF IInv, TypeOK, RecordsInv, RecOK
<1>2. RecOK(mem') /\ RecOK(disk') /\ failed' \in {"no", "write"} /\ (failed' = "no" => mem' = disk')
  BY <1>1
<1>3. granted' \in [Conv -> Seq(Req)]
  <2>1. ASSUME NEW c \in Conv, NEW r \in Req
        PROVE  [granted EXCEPT ![c] = Append(@, r)] \in [Conv -> Seq(Req)]
    <3>1. Append(granted[c], r) \in Seq(Req)
      BY <1>1
    <3> QED
      BY <1>1, <3>1
  <2> QED
    BY <1>1, <2>1
<1>4. TypeOK'
  BY <1>1, <1>2, <1>3 DEF TypeOK, RecOK, IInv
<1>5. RecordsInv'
  BY <1>2 DEF RecordsInv, RecOK, NeverPoisoned
<1>6. \A c \in Conv : \A k \in 1..Len(granted[c]) :
        granted[c][k] \in Req /\ mem.conv[c].item[granted[c][k]].claim.possibleNative
  <2> SUFFICES ASSUME NEW c \in Conv, NEW k \in 1..Len(granted[c])
               PROVE  granted[c][k] \in Req /\ mem.conv[c].item[granted[c][k]].claim.possibleNative
    OBVIOUS
  <2>1. granted[c] \in Seq(Req)
    BY <1>1
  <2>2. granted[c][k] \in Req
    BY <2>1
  <2> QED
    BY <2>2 DEF IInv, GrantIsDurable
<1>7. Sticks(mem, mem') /\ Sticks(mem, disk')
  <2>1. Sticks(mem, mem)
    BY DEF Sticks
  <2>2. mem' \in {mem, cand} /\ disk' \in {mem, cand}
    BY <1>1
  <2> QED
    BY <2>1, <2>2
<1>8. CASE granted' = granted
  <2>1. \A c \in Conv : \A k \in 1..Len(granted'[c]) :
          /\ granted'[c][k] \in Req
          /\ mem'.conv[c].item[granted'[c][k]].claim.possibleNative
          /\ disk'.conv[c].item[granted'[c][k]].claim.possibleNative
    BY ZenonT(40), <1>6, <1>7, <1>8 DEF Sticks
  <2>2. GrantIsDurable'
    BY ZenonT(40), <1>2, <2>1, HandedOver DEF GrantIsDurable
  <2>3. ASSUME NEW c \in Conv, NEW k \in 2..Len(granted'[c])
        PROVE  /\ disk'.conv[c].item[granted'[c][k - 1]].seq < disk'.conv[c].item[granted'[c][k]].seq
               /\ disk'.conv[c].item[granted'[c][k - 1]].state = "settled"
    <3>1. k \in 1..Len(granted[c]) /\ k - 1 \in 1..Len(granted[c])
      BY <1>1, <1>8, <2>3
    <3>2. /\ disk.conv[c].item[granted[c][k - 1]].seq < disk.conv[c].item[granted[c][k]].seq
          /\ disk.conv[c].item[granted[c][k - 1]].state = "settled"
      BY <1>8, <2>3 DEF IInv, OneAtATimeInOrder
    <3> QED
      BY ZenonT(40), <1>1, <1>6, <1>7, <1>8, <3>1, <3>2 DEF Sticks
  <2> QED
    BY <1>4, <1>5, <2>2, <2>3 DEF IInv, OneAtATimeInOrder
<1>9. CASE granted' # granted
  <2>1. PICK c \in Conv, r \in Req :
          /\ granted' = [granted EXCEPT ![c] = Append(@, r)]
          /\ NextGrant(cand, c, r) /\ ~mem.conv[c].item[r].claim.possibleNative
    BY <1>9
  <2>2. mem' = cand /\ disk' = cand
    BY <1>9
  <2>3. \A d \in Conv : \A k \in 1..Len(granted'[d]) :
          \/ k \in 1..Len(granted[d]) /\ granted'[d][k] = granted[d][k]
          \/ d = c /\ k = Len(granted[c]) + 1 /\ granted'[d][k] = r
    <3> SUFFICES ASSUME NEW d \in Conv, NEW k \in 1..Len(granted'[d])
                 PROVE  \/ k \in 1..Len(granted[d]) /\ granted'[d][k] = granted[d][k]
                        \/ d = c /\ k = Len(granted[c]) + 1 /\ granted'[d][k] = r
      OBVIOUS
    <3>1. granted[c] \in Seq(Req) /\ granted[d] \in Seq(Req)
      BY <1>1
    <3>2. CASE d # c
      BY <1>1, <2>1, <3>2
    <3>3. CASE d = c
      <4>1. granted'[d] = Append(granted[c], r)
        BY <1>1, <2>1, <3>3
      <4> QED
        BY <3>1, <3>3, <4>1
    <3> QED
      BY <3>2, <3>3
  <2>4. \A d \in Conv : \A k \in 1..Len(granted'[d]) :
          granted'[d][k] \in Req /\ cand.conv[d].item[granted'[d][k]].claim.possibleNative
    <3> SUFFICES ASSUME NEW d \in Conv, NEW k \in 1..Len(granted'[d])
                 PROVE  granted'[d][k] \in Req /\ cand.conv[d].item[granted'[d][k]].claim.possibleNative
      OBVIOUS
    <3>1. CASE k \in 1..Len(granted[d]) /\ granted'[d][k] = granted[d][k]
      <4>1. granted[d][k] \in Req /\ mem.conv[d].item[granted[d][k]].claim.possibleNative
        BY <1>6, <3>1
      <4> QED
        BY <3>1, <4>1 DEF Sticks
    <3>2. CASE d = c /\ granted'[d][k] = r
      BY <2>1, <3>2 DEF NextGrant
    <3> QED
      BY <2>3, <3>1, <3>2
  <2>5. GrantIsDurable'
    BY ZenonT(40), <2>2, <2>4, HandedOver DEF GrantIsDurable
  <2>6. ASSUME NEW d \in Conv, NEW k \in 2..Len(granted'[d])
        PROVE  /\ cand.conv[d].item[granted'[d][k - 1]].seq < cand.conv[d].item[granted'[d][k]].seq
               /\ cand.conv[d].item[granted'[d][k - 1]].state = "settled"
    <3>1. k \in 1..Len(granted'[d]) /\ k - 1 \in 1..Len(granted'[d]) /\ Len(granted[d]) \in Nat /\ Len(granted[c]) \in Nat
      BY <1>1, <1>3, <2>6
    <3>2. k - 1 \in 1..Len(granted[d]) /\ granted'[d][k - 1] = granted[d][k - 1]
      BY <2>3, <2>6, <3>1
    <3>3. CASE k \in 1..Len(granted[d]) /\ granted'[d][k] = granted[d][k]
      <4>1. k \in 2..Len(granted[d])
        BY <3>3, <2>6, <3>1
      <4>2. /\ disk.conv[d].item[granted[d][k - 1]].seq < disk.conv[d].item[granted[d][k]].seq
            /\ disk.conv[d].item[granted[d][k - 1]].state = "settled"
        BY <4>1 DEF IInv, OneAtATimeInOrder
      <4>3. /\ granted[d][k] \in Req /\ mem.conv[d].item[granted[d][k]].claim.possibleNative
            /\ granted[d][k - 1] \in Req /\ mem.conv[d].item[granted[d][k - 1]].claim.possibleNative
        BY <1>6, <3>2, <3>3
      <4>4. /\ cand.conv[d].item[granted[d][k]].seq = mem.conv[d].item[granted[d][k]].seq
            /\ cand.conv[d].item[granted[d][k - 1]].seq = mem.conv[d].item[granted[d][k - 1]].seq
            /\ mem.conv[d].item[granted[d][k - 1]].state = "settled"
                 => cand.conv[d].item[granted[d][k - 1]].state = "settled"
        BY <4>3 DEF Sticks
      <4> QED
        BY <1>1, <3>2, <3>3, <4>2, <4>4
    <3>4. CASE d = c /\ k = Len(granted[c]) + 1 /\ granted'[d][k] = r
      <4>1. mem.conv[c].item[granted[c][k - 1]].claim.possibleNative /\ granted[c][k - 1] \in Req
        BY <1>6, <3>2, <3>4
      <4>2. granted[c][k - 1] # r /\ cand.conv[c].item[granted[c][k - 1]].claim.possibleNative
        BY <2>1, <4>1 DEF Sticks
      <4> QED
        BY ZenonT(40), <2>1, <3>2, <3>4, <4>1, <4>2 DEF NextGrant
    <3> QED
      BY <2>3, <3>1, <3>3, <3>4
  <2> QED
    BY <1>4, <1>5, <2>2, <2>5, <2>6 DEF IInv, OneAtATimeInOrder
<1> QED
  BY <1>8, <1>9

\* The invariant at a healthy process.
LEMMA Healthy ==
  ASSUME IInv
  PROVE  /\ RecOK(mem) /\ RecOK(disk) /\ (failed = "no" => mem = disk) /\ failed # "invariant"
         /\ \A c \in Conv : GoodConv(mem.conv[c])
BY ConvOfRecords DEF IInv, TypeOK, RecordsInv, RecOK, NeverPoisoned

\* One conversation evolves and at most the claim of q is new.
LEMMA PutOK ==
  ASSUME NEW rec, RecOK(rec), NEW c \in Conv, NEW cw \in ConvRec, Evolves(rec.conv[c], cw), NEW q,
         \A x \in Req : \/ cw.item[x].claim.run = rec.conv[c].item[x].claim.run
                        \/ x = q /\ ~RunUsed(rec, cw.item[q].claim.run)
  PROVE  RecOK([rec EXCEPT !.conv[c] = cw]) /\ Sticks(rec, [rec EXCEPT !.conv[c] = cw])
<1> DEFINE rec2 == [rec EXCEPT !.conv = [rec.conv EXCEPT ![c] = cw]]
<1>1. rec \in Records /\ rec.next \in Nat /\ rec.conv \in [Conv -> ConvRec]
  BY DEF RecOK, Records
<1>2. [rec.conv EXCEPT ![c] = cw] \in [Conv -> ConvRec]
  BY <1>1
<1>3. rec2 \in Records /\ rec2.next = rec.next /\ rec2.conv[c] = cw
      /\ \A d \in Conv : d # c => rec2.conv[d] = rec.conv[d]
  BY <1>1, <1>2 DEF Records
<1>4. [rec EXCEPT !.conv[c] = cw] = rec2
  BY <1>1 DEF Records
<1> HIDE DEF rec2
<1>5. \A d \in Conv : rec2.conv[d] = rec.conv[d] \/ Evolves(rec.conv[d], rec2.conv[d])
  BY <1>3
<1>6. \A d \in Conv : \A x \in Req :
        \/ rec2.conv[d].item[x].claim.run = rec.conv[d].item[x].claim.run
        \/ <<d, x>> = <<c, q>> /\ ~RunUsed(rec, rec2.conv[c].item[q].claim.run)
  BY <1>3
<1>7. RecOK(rec2)
  BY <1>3, <1>5, <1>6, Replaced
<1> QED
  BY <1>4, <1>5, <1>7, EvolvesSticks

\* A mutation that claims nothing and grants nothing.
LEMMA Mutated ==
  ASSUME IInv, NEW c \in Conv, NEW cw \in ConvRec, Evolves(mem.conv[c], cw),
         \A x \in Req : cw.item[x].claim.run = mem.conv[c].item[x].claim.run,
         Mutate(c, cw, NoEffect)
  PROVE  IInv'
<1>1. RecOK(Put(c, cw)) /\ Sticks(mem, Put(c, cw))
  <2>1. RecOK(mem)
    BY Healthy
  <2> QED
    BY <2>1, PutOK DEF Put
<1>2. failed = "no" /\ Decodes(Put(c, cw))
  BY <1>1 DEF Mutate, Change, RecOK
<1>3. recoveryRequired \in BOOLEAN /\ mine \subseteq Run
  BY DEF IInv, TypeOK
<1>4. \/ mem' = Put(c, cw) /\ disk' = Put(c, cw) /\ failed' = "no"
         /\ recoveryRequired' = recoveryRequired /\ mine' = mine /\ granted' = granted
      \/ failed' = "write" /\ disk' \in {disk, Put(c, cw)} /\ UNCHANGED <<mem, recoveryRequired, granted, mine>>
  BY <1>2 DEF Mutate, Change, NoEffect
<1> QED
  BY <1>1, <1>2, <1>3, <1>4, Published

\* While a claim is unresolved no evolution makes another.
LEMMA NoNewClaim ==
  ASSUME NEW cv, NEW cw, Evolves(cv, cw), Some(Unresolved, cv)
  PROVE  \A x \in Req : cw.item[x].claim.run = cv.item[x].claim.run
BY DEF Evolves, ItemEvolves, NewClaim, SameClaim

\* A claimed item is what makes its conversation unresolved.
LEMMA UnresolvedSome ==
  ASSUME NEW cv, NEW r \in Req, Unresolved(cv.item[r])
  PROVE  Some(Unresolved, cv)
BY DEF Some

----------------------------------------------------------------------------
(* The actions keep the invariant. *)

\* Enqueue keeps the invariant: the new item is the last of its chain and of the sequence.
LEMMA EnqueueOK ==
  ASSUME IInv, NEW c \in Conv, NEW r \in Req, NEW p \in Pin, NEW n \in Native, Enqueue(c, r, p, n)
  PROVE  IInv'
<1> DEFINE cand == Enqueued(mem, c, r, p, n)
<1>1. RecOK(mem) /\ mem.conv \in [Conv -> ConvRec]
  BY Healthy DEF RecOK, Records
<1>2. RecOK(cand)
  BY <1>1, Enqueued_OK DEF Enqueue
<1>3. Sticks(mem, cand)
  <2> SUFFICES ASSUME NEW d \in Conv, NEW x \in Req, mem.conv[d].item[x].claim.possibleNative
               PROVE  cand.conv[d].item[x] = mem.conv[d].item[x]
    BY DEF Sticks
  <2>1. mem.conv[d].item[x].state # "absent" /\ mem.conv[c].item[r].state = "absent"
    BY <1>1, HandedOver DEF Enqueue, Unused
  <2>2. <<d, x>> # <<c, r>>
    BY <2>1
  <2> QED
    BY <1>1, <2>2 DEF Enqueued, ConvRec
<1>4. failed = "no" /\ Decodes(cand)
  BY <1>2 DEF Enqueue, Change, RecOK
<1>5. \/ mem' = cand /\ disk' = cand /\ failed' = "no"
         /\ recoveryRequired' = recoveryRequired /\ mine' = mine /\ granted' = granted
      \/ failed' = "write" /\ disk' \in {disk, cand} /\ UNCHANGED <<mem, recoveryRequired, granted, mine>>
  BY <1>4 DEF Enqueue, Change, NoEffect
<1>6. recoveryRequired \in BOOLEAN /\ mine \subseteq Run
  BY DEF IInv, TypeOK
<1> HIDE DEF cand
<1> QED
  BY <1>2, <1>3, <1>4, <1>5, <1>6, Published

\* A removal keeps the invariant: a withdrawn prompt was never granted.
LEMMA RemoveOK ==
  ASSUME IInv, NEW c \in Conv, NEW o \in Req, NEW r \in Req, Remove(c, o, r)
  PROVE  IInv'
<1> DEFINE cv == mem.conv[c]
           cw == Removed(cv, o, r)
<1>1. GoodConv(cv) /\ Unused(cv, o) /\ cv.item[r].state # "absent" /\ cv \in ConvRec
  BY Healthy DEF Remove, GoodConv
<1>2. cw \in ConvRec /\ Evolves(cv, cw)
  BY <1>1, Removed_Evolves
<1>3. \A x \in Req : cw.item[x].claim.run = cv.item[x].claim.run
  <2> DEFINE raw == [cv EXCEPT !.revision = @ + 1,
                      !.item[r].state = IF cv.item[r].claim # NoClaim THEN @ ELSE "removed",
                      !.op[o] = [kind |-> "remove", target |-> r,
                                 outcome |-> RemovalOutcome(cv.item[r]), revision |-> cv.revision + 1]]
  <2>1. raw.item = [cv.item EXCEPT ![r].state = IF cv.item[r].claim # NoClaim THEN @ ELSE "removed"]
    BY <1>1 DEF ConvRec
  <2>2. cw.item = raw.item
    BY DEF Removed, FinishChain
  <2>3. cv.item \in [Req -> ItemRec]
    BY <1>1 DEF ConvRec
  <2> HIDE DEF raw, cw, cv
  <2> QED
    BY <2>1, <2>2, <2>3 DEF ItemRec
<1> QED
  BY <1>2, <1>3, Mutated DEF Remove

\* A resume keeps the invariant.
LEMMA ResumeOK ==
  ASSUME IInv, NEW c \in Conv, NEW o \in Req, NEW e, Resume(c, o, e)
  PROVE  IInv'
<1>1. GoodConv(mem.conv[c])
  BY Healthy
<1>2. Resumed(mem.conv[c], o) \in ConvRec /\ Evolves(mem.conv[c], Resumed(mem.conv[c], o))
  BY <1>1, Resumed_Evolves DEF Resume
<1>3. Resumed(mem.conv[c], o).item = mem.conv[c].item
  BY <1>1 DEF Resumed, GoodConv, ConvRec
<1> QED
  BY <1>2, <1>3, Mutated DEF Resume

\* A pause keeps the invariant.
LEMMA PauseOK ==
  ASSUME IInv, NEW c \in Conv, NEW code \in PauseCode, Pause(c, code)
  PROVE  IInv'
<1>1. GoodConv(mem.conv[c])
  BY Healthy
<1>2. Paused(mem.conv[c], code) \in ConvRec /\ Evolves(mem.conv[c], Paused(mem.conv[c], code))
  BY <1>1, Paused_Evolves
<1>3. Paused(mem.conv[c], code).item = mem.conv[c].item
  BY <1>1 DEF Paused, GoodConv, ConvRec
<1> QED
  BY <1>2, <1>3, Mutated DEF Pause

\* A claim keeps the invariant: it takes the head of a chain and an unused run.
LEMMA ClaimOK ==
  ASSUME IInv, NEW c \in Conv, NEW r \in Req, NEW run \in Run, NEW pred \in Run \cup {NoRun},
         NEW e, Claim(c, r, run, pred, e)
  PROVE  IInv'
<1> DEFINE cv == mem.conv[c]
           cw == Claimed(cv, r, run, pred)
           cand == Put(c, cw)
<1>1. RecOK(mem) /\ GoodConv(cv) /\ cv \in ConvRec
  BY Healthy DEF GoodConv
<1>2. cw \in ConvRec /\ Evolves(cv, cw)
  BY <1>1, Claimed_Evolves DEF Claim
<1>3. /\ \A x \in Req : x # r => cw.item[x] = cv.item[x]
      /\ cw.item[r].claim.run = run
  <2>1. cv.item \in [Req -> ItemRec] /\ cv.item[r] \in ItemRec
    BY <1>1 DEF ConvRec
  <2>2. cw.item = [cv.item EXCEPT ![r] = [@ EXCEPT !.state = "claimed",
                     !.claim = [NoClaim EXCEPT !.run = run, !.pred = pred, !.expected = cv.revision]]]
    BY <1>1 DEF Claimed, ConvRec
  <2> HIDE DEF cw, cv
  <2> QED
    BY <2>1, <2>2 DEF ItemRec, NoClaim
<1>4. ~RunUsed(mem, run)
  BY DEF Claim
<1> HIDE DEF cw
<1>5. RecOK(cand) /\ Sticks(mem, cand)
  BY <1>1, <1>2, <1>3, <1>4, PutOK DEF Put
<1>6. failed = "no" /\ Decodes(cand)
  BY <1>5 DEF Claim, Mutate, Change, RecOK
<1>7. \/ mem' = cand /\ disk' = cand /\ failed' = "no"
         /\ recoveryRequired' = recoveryRequired /\ mine' = mine \cup {run} /\ granted' = granted
      \/ failed' = "write" /\ disk' \in {disk, cand} /\ UNCHANGED <<mem, recoveryRequired, granted, mine>>
  BY <1>6 DEF Claim, Mutate, Change, cw
<1>8. recoveryRequired \in BOOLEAN /\ mine \cup {run} \subseteq Run
  BY DEF IInv, TypeOK
<1> HIDE DEF cand
<1> QED
  BY <1>5, <1>6, <1>7, <1>8, Published

\* A link keeps the invariant.
LEMMA LinkOK ==
  ASSUME IInv, NEW c \in Conv, NEW r \in Req, Link(c, r)
  PROVE  IInv'
<1>1. GoodConv(mem.conv[c]) /\ Some(Unresolved, mem.conv[c])
  BY Healthy, UnresolvedSome DEF Link, Owned
<1>2. Linked(mem.conv[c], r) \in ConvRec /\ Evolves(mem.conv[c], Linked(mem.conv[c], r))
  BY <1>1, Linked_Evolves DEF Link
<1> QED
  BY <1>1, <1>2, NoNewClaim, Mutated DEF Link

\* A report keeps the invariant.
LEMMA OutcomeOK ==
  ASSUME IInv, NEW c \in Conv, NEW r \in Req, NEW sub \in Submission, NEW acc \in Acceptance,
         Outcome(c, r, sub, acc)
  PROVE  IInv'
<1>1. GoodConv(mem.conv[c]) /\ Some(Unresolved, mem.conv[c])
  BY Healthy, UnresolvedSome DEF Outcome, Owned
<1>2. /\ Evidenced(mem.conv[c], r, sub, acc) \in ConvRec
      /\ Evolves(mem.conv[c], Evidenced(mem.conv[c], r, sub, acc))
  BY <1>1, Evidenced_Evolves DEF Outcome, Owned
<1> QED
  BY <1>1, <1>2, NoNewClaim, Mutated DEF Outcome

\* A settlement keeps the invariant.
LEMMA SettleOK ==
  ASSUME IInv, NEW c \in Conv, NEW r \in Req, NEW status \in Status, Settle(c, r, status)
  PROVE  IInv'
<1>1. GoodConv(mem.conv[c]) /\ Some(Unresolved, mem.conv[c])
  BY Healthy, UnresolvedSome DEF Settle, Owned
<1>2. Settled(mem.conv[c], r, status) \in ConvRec /\ Evolves(mem.conv[c], Settled(mem.conv[c], r, status))
  BY <1>1, Settled_Evolves DEF Settle
<1> QED
  BY <1>1, <1>2, NoNewClaim, Mutated DEF Settle

\* Archiving a prompt that was never submitted keeps the invariant.
LEMMA ArchiveNotSubmittedOK ==
  ASSUME IInv, NEW c \in Conv, NEW r \in Req, ArchiveNotSubmitted(c, r)
  PROVE  IInv'
<1>1. GoodConv(mem.conv[c]) /\ Some(Unresolved, mem.conv[c])
  BY Healthy, UnresolvedSome DEF ArchiveNotSubmitted, Owned
<1>2. Archived(mem.conv[c], r) \in ConvRec /\ Evolves(mem.conv[c], Archived(mem.conv[c], r))
  BY <1>1, Archived_Evolves DEF ArchiveNotSubmitted, Owned
<1> QED
  BY <1>1, <1>2, NoNewClaim, Mutated DEF ArchiveNotSubmitted

\* The durable intent is granted to the one unresolved item, and everything that
\* was handed over before it is settled and older.
LEMMA AttemptedIsNext ==
  ASSUME NEW cv, GoodConv(cv), NEW r \in Req, cv.item[r].state = "run-linked",
         NEW q \in Req, q # r, cv.item[q].claim.possibleNative
  PROVE  cv.item[q].state = "settled" /\ cv.item[q].seq < cv.item[r].seq
<1>1. /\ ItemShape(cv.item[q]) /\ cv.item[q] \in ItemRec /\ cv.item[r] \in ItemRec
      /\ ChainShape(cv) /\ Frontier(cv) /\ Distinct(cv)
  BY DEF GoodConv, ConvOK, ConvRec
<1>2. cv.item[q].claim # NoClaim
  BY DEF NoClaim
<1>3. cv.item[q].state \in {"claimed", "run-linked", "settled"} /\ cv.item[q].claim.run # NoRun
  BY <1>1, <1>2 DEF ItemShape, ItemRec, NoItem
<1>4. ~Unresolved(cv.item[q])
  BY <1>1 DEF ChainShape, Unresolved
<1>5. ~(cv.item[r].seq < cv.item[q].seq) /\ cv.item[q].seq # cv.item[r].seq
  BY <1>1, <1>3 DEF Frontier, Distinct, Active
<1>6. cv.item[q].seq \in Nat /\ cv.item[r].seq \in Nat
  BY <1>1 DEF ItemRec
<1> QED
  BY <1>3, <1>4, <1>5, <1>6 DEF Unresolved

\* The grant keeps the invariant: it follows the write, and the head had no grant before.
LEMMA BeforeNativeOK ==
  ASSUME IInv, NEW c \in Conv, NEW r \in Req, BeforeNative(c, r)
  PROVE  IInv'
<1> DEFINE cv == mem.conv[c]
           cw == Attempted(cv, r)
           cand == Put(c, cw)
<1>1. RecOK(mem) /\ GoodConv(cv) /\ cv \in ConvRec /\ Some(Unresolved, cv)
  BY Healthy, UnresolvedSome DEF GoodConv, BeforeNative, Owned
<1>2. cw \in ConvRec /\ Evolves(cv, cw)
  BY <1>1, Attempted_Evolves DEF BeforeNative
<1>3. RecOK(cand) /\ Sticks(mem, cand)
  BY <1>1, <1>2, NoNewClaim, PutOK DEF Put
<1>4. /\ cw.item[r].claim.possibleNative /\ cw.item[r].seq = cv.item[r].seq
      /\ \A x \in Req : x # r => cw.item[x] = cv.item[x]
  <2>1. cv.item \in [Req -> ItemRec] /\ cv.item[r] \in ItemRec /\ cv.item[r].claim \in ClaimRec
    BY <1>1 DEF ConvRec, ItemRec
  <2>2. cw.item = [cv.item EXCEPT ![r].claim = [@ EXCEPT !.possibleNative = TRUE,
                     !.submission = "attempted", !.acceptance = "unknown"]]
    BY <1>1 DEF Attempted, ConvRec
  <2> HIDE DEF cw, cv
  <2> QED
    BY <2>1, <2>2 DEF ItemRec, ClaimRec
<1>5. ~cv.item[r].claim.possibleNative /\ cv.item[r].state = "run-linked"
  BY DEF BeforeNative, Untouched
<1>6. NextGrant(cand, c, r)
  <2>1. cand.conv[c] = cw
    BY <1>1 DEF Put, RecOK, Records
  <2>2. \A q \in Req : q # r /\ cv.item[q].claim.possibleNative
                         => cv.item[q].state = "settled" /\ cv.item[q].seq < cv.item[r].seq
    BY <1>1, <1>5, AttemptedIsNext
  <2> HIDE DEF cand, cw, cv
  <2> QED
    BY <1>4, <2>1, <2>2 DEF NextGrant
<1>7. failed = "no" /\ Decodes(cand)
  BY <1>3 DEF BeforeNative, Mutate, Change, RecOK
<1>8. \/ mem' = cand /\ disk' = cand /\ failed' = "no"
         /\ recoveryRequired' = recoveryRequired /\ mine' = mine
         /\ granted' = [granted EXCEPT ![c] = Append(@, r)]
      \/ failed' = "write" /\ disk' \in {disk, cand} /\ UNCHANGED <<mem, recoveryRequired, granted, mine>>
  BY <1>7 DEF BeforeNative, Mutate, Change
<1>9. recoveryRequired \in BOOLEAN /\ mine \subseteq Run
  BY DEF IInv, TypeOK
<1> HIDE DEF cand, cw
<1> QED
  BY <1>3, <1>5, <1>6, <1>7, <1>8, <1>9, Published

\* The classification of the last process's claims keeps the invariant.
LEMMA RecoverOK ==
  ASSUME IInv, Recover
  PROVE  IInv'
<1> DEFINE cand == [mem EXCEPT !.conv = [c \in Conv |-> Recovered(mem.conv[c])]]
<1>1. RecOK(mem) /\ mem \in Records
  BY Healthy DEF RecOK
<1>2. \A c \in Conv : /\ Recovered(mem.conv[c]) \in ConvRec
                      /\ Recovered(mem.conv[c]) = mem.conv[c] \/ Evolves(mem.conv[c], Recovered(mem.conv[c]))
                      /\ \A x \in Req : Recovered(mem.conv[c]).item[x].claim.run = mem.conv[c].item[x].claim.run
  BY Healthy, Recovered_Evolves
<1>3. cand \in Records /\ cand.next = mem.next /\ \A c \in Conv : cand.conv[c] = Recovered(mem.conv[c])
  BY <1>1, <1>2 DEF Records
<1>4. RecOK(cand) /\ Sticks(mem, cand)
  <2> HIDE DEF cand
  <2> QED
    BY <1>1, <1>2, <1>3, Replaced, EvolvesSticks
<1>5. failed = "no" /\ Decodes(cand)
  BY <1>4 DEF Recover, Change, RecOK
<1>6. \/ mem' = cand /\ disk' = cand /\ failed' = "no"
         /\ recoveryRequired' = FALSE /\ mine' = mine /\ granted' = granted
      \/ failed' = "write" /\ disk' \in {disk, cand} /\ UNCHANGED <<mem, recoveryRequired, granted, mine>>
  BY <1>5 DEF Recover, Change
<1>7. mine \subseteq Run
  BY DEF IInv, TypeOK
<1> HIDE DEF cand
<1> QED
  BY <1>4, <1>5, <1>6, <1>7, Published

\* A crash and restart keeps the invariant: only what the disk holds survives.
LEMMA RestartOK ==
  ASSUME IInv, Restart
  PROVE  IInv'
<1>1. TypeOK'
  BY DEF IInv, TypeOK, Restart
<1>2. RecordsInv'
  BY DEF IInv, RecordsInv, Restart, NeverPoisoned
<1>3. GrantIsDurable'
  BY DEF IInv, GrantIsDurable, Restart
<1>4. OneAtATimeInOrder'
  BY DEF IInv, OneAtATimeInOrder, Restart
<1> QED
  BY <1>1, <1>2, <1>3, <1>4 DEF IInv

\* Losing the write fence keeps the invariant: nothing is published after it.
LEMMA FenceFailsOK ==
  ASSUME IInv, FenceFails
  PROVE  IInv'
<1>1. TypeOK' /\ RecordsInv'
  BY DEF IInv, TypeOK, RecordsInv, FenceFails, NeverPoisoned
<1>2. GrantIsDurable' /\ OneAtATimeInOrder'
  BY DEF IInv, GrantIsDurable, OneAtATimeInOrder, FenceFails
<1> QED
  BY <1>1, <1>2 DEF IInv

\* Empty records satisfy the invariant.
LEMMA InitOK ==
  ASSUME Init
  PROVE  IInv
<1>1. NoClaim \in ClaimRec
  BY DEF NoClaim, ClaimRec
<1>2. NoItem \in ItemRec
  BY <1>1 DEF NoItem, ItemRec
<1>3. NoOp \in OpRec
  BY DEF NoOp, OpRec
<1>4. NewConv \in ConvRec
  BY <1>2, <1>3 DEF NewConv, ConvRec
<1>5. EmptyRecords \in Records
  BY <1>4 DEF EmptyRecords, Records
<1>6. /\ NoItem.state = "absent" /\ NoItem.claim = NoClaim /\ NoItem.history = "none"
      /\ NoClaim.run = NoRun /\ NoClaim.possibleNative = FALSE /\ NoOp.kind = "none"
  BY DEF NoItem, NoClaim, NoOp
<1>7. /\ NewConv.revision = 0 /\ NewConv.chain = 0 /\ NewConv.pause = NoPause /\ NewConv.lastRun = NoRun
      /\ \A x \in Req : NewConv.item[x] = NoItem /\ NewConv.op[x] = NoOp
  BY DEF NewConv
<1>8. \A x \in Req : /\ ~Active(NewConv.item[x]) /\ ~Unresolved(NewConv.item[x])
                     /\ ~Waiting(NewConv.item[x]) /\ ~Settlement(NewConv.item[x])
  BY <1>6, <1>7 DEF Active, Unresolved, Waiting, Settlement
<1> HIDE DEF NewConv
<1>9. ChainShape(NewConv)
  <2>1. {r \in Req : Waiting(NewConv.item[r])} = {}
    BY <1>8
  <2>2. Cardinality({r \in Req : Waiting(NewConv.item[r])}) <= MaxWaiting
    BY <2>1, FS_EmptySet, StoreAssumption
  <2> QED
    BY <1>7, <1>8, <2>2 DEF ChainShape, Some
<1>10. Ordered(NewConv) /\ Operations(NewConv) /\ Frontier(NewConv)
  BY <1>6, <1>7 DEF Ordered, Operations, Frontier
<1>11. Predecessors(NewConv)
  BY <1>7, <1>8 DEF Predecessors, Some
<1>12. \A x \in Req : ItemShape(NewConv.item[x]) /\ ItemEvidence(NewConv.item[x])
                      /\ ItemRevisions(NewConv, NewConv.item[x])
  BY <1>6, <1>7 DEF ItemShape, ItemEvidence, ItemRevisions
<1>13. ConvOK(NewConv)
  BY <1>7, <1>9, <1>10, <1>11, <1>12 DEF ConvOK
<1>14. EmptyRecords.next = 1 /\ \A c \in Conv : EmptyRecords.conv[c] = NewConv
  BY DEF EmptyRecords
<1> HIDE DEF EmptyRecords
<1>15. Global(EmptyRecords)
  BY <1>6, <1>7, <1>14 DEF Global, Exists
<1>16. Decodes(EmptyRecords) /\ \A c \in Conv : Frontier(EmptyRecords.conv[c])
  BY <1>10, <1>13, <1>14, <1>15 DEF Decodes
<1>17. granted \in [Conv -> Seq(Req)] /\ \A c \in Conv : granted[c] = <<>>
  BY DEF Init
<1>18. TypeOK
  BY <1>5, <1>17 DEF Init, TypeOK
<1>19. RecordsInv
  BY <1>16 DEF Init, RecordsInv, NeverPoisoned
<1>20. GrantIsDurable /\ OneAtATimeInOrder
  <2>1. \A c \in Conv : 1..Len(granted[c]) = {} /\ 2..Len(granted[c]) = {}
    BY <1>17
  <2> QED
    BY <2>1 DEF GrantIsDurable, OneAtATimeInOrder
<1> QED
  BY <1>18, <1>19, <1>20 DEF IInv

\* The induction step: every action keeps the invariant.
LEMMA NextOK ==
  ASSUME IInv, [Next]_vars
  PROVE  IInv'
<1>1. ASSUME NEW c \in Conv, Ask(c) PROVE IInv'
  BY <1>1, EnqueueOK, RemoveOK, ResumeOK, PauseOK DEF Ask
<1>2. ASSUME NEW c \in Conv, Dispatch(c) PROVE IInv'
  BY <1>2, ClaimOK, LinkOK, BeforeNativeOK, ArchiveNotSubmittedOK, OutcomeOK, SettleOK DEF Dispatch
<1>3. CASE UNCHANGED vars
  <2>1. TypeOK' /\ RecordsInv'
    BY <1>3 DEF IInv, TypeOK, RecordsInv, vars, NeverPoisoned
  <2>2. GrantIsDurable' /\ OneAtATimeInOrder'
    BY <1>3 DEF IInv, GrantIsDurable, OneAtATimeInOrder, vars
  <2> QED
    BY <2>1, <2>2 DEF IInv
<1> QED
  BY <1>1, <1>2, <1>3, RecoverOK, RestartOK, FenceFailsOK DEF Next

----------------------------------------------------------------------------
(* The theorems. *)

\* IInv is an invariant of the store.
THEOREM Invariance == Spec => []IInv
<1>1. Init => IInv
  BY InitOK
<1>2. IInv /\ [Next]_vars => IInv'
  BY NextOK
<1> QED
  BY <1>1, <1>2, PTL DEF Spec

\* Records keep their shape, in the process and on disk (PendingInputRecords).
THEOREM TypeCorrect == Spec => []TypeOK
<1>1. IInv => TypeOK
  BY DEF IInv
<1> QED
  BY <1>1, Invariance, PTL

\* Whatever is called, fails or restarts, mem and disk always decode and stay in
\* order, and no candidate is ever refused by the decode ("Pending input
\* invariant failed").
THEOREM RecordsAlwaysDecode == Spec => []RecordsInv
<1>1. IInv => RecordsInv
  BY DEF IInv
<1> QED
  BY <1>1, Invariance, PTL

\* An intent that beforeNative returned is durable for good.
THEOREM GrantsAreDurable == Spec => []GrantIsDurable
<1>1. IInv => GrantIsDurable
  BY DEF IInv
<1> QED
  BY <1>1, Invariance, PTL

\* The prompts of a conversation reach the native boundary one at a time and in
\* enqueue order.
THEOREM DeliveryInOrder == Spec => []OneAtATimeInOrder
<1>1. IInv => OneAtATimeInOrder
  BY DEF IInv
<1> QED
  BY <1>1, Invariance, PTL
----------------------------------------------------------------------------
(* The store implements PromptQueue. *)

St(rec) == [c \in Conv |-> [r \in Req |-> StatusOf(rec.conv[c].item[r])]]

Pl(rec) == [c \in Conv |-> [r \in Req |-> rec.conv[c].item[r].seq]]

\* Prompt r of c aside, the queue reads the same off both records.
SameButFor(rec, rec2, c, r) == \A d \in Conv, x \in Req : d # c \/ x # r =>
  /\ StatusOf(rec2.conv[d].item[x]) = StatusOf(rec.conv[d].item[x])
  /\ rec2.conv[d].item[x].seq = rec.conv[d].item[x].seq

\* The queue read off rec, with prompt r of c put at t or at place n.
StWith(rec, c, r, t) == [St(rec) EXCEPT ![c][r] = t]
PlWith(rec, c, r, n) == [Pl(rec) EXCEPT ![c][r] = n]

Stays == UNCHANGED <<St(disk), Pl(disk), granted>>

\* Prompt r of c becomes t, and nothing else happens to the queue.
Becomes(c, r, t) ==
  St(disk') = [St(disk) EXCEPT ![c][r] = t] /\ Pl(disk') = Pl(disk) /\ granted' = granted

----------------------------------------------------------------------------
(* What the queue reads off the records. *)

\* The life of a prompt, by the state of its item.
LEMMA StatusFacts ==
  ASSUME NEW i \in ItemRec
  PROVE  /\ i.state = "absent" => StatusOf(i) = "new"
         /\ Active(i) /\ i.claim.possibleNative => StatusOf(i) = "handed"
         /\ Active(i) /\ ~i.claim.possibleNative => StatusOf(i) = "queued"
         /\ i.state \in {"removed", "settled"} => StatusOf(i) = "ended"
         /\ StatusOf(i) = "handed" => Active(i) /\ i.claim.possibleNative
         /\ StatusOf(i) = "queued" => Active(i)
<1>1. i.state \in {"absent", "waiting", "claimed", "run-linked", "removed", "settled"}
  BY DEF ItemRec
<1> QED
  BY <1>1 DEF StatusOf, Active

\* The items of good records are typed, and a waiting one carries no claim.
LEMMA ItemFacts ==
  ASSUME NEW cv, GoodConv(cv), NEW r \in Req
  PROVE  /\ cv \in ConvRec /\ cv.item \in [Req -> ItemRec] /\ cv.item[r] \in ItemRec
         /\ cv.item[r].claim \in ClaimRec /\ cv.item[r].seq \in Nat
         /\ cv.item[r].state \in {"waiting", "removed"} => cv.item[r].claim = NoClaim
         /\ cv.item[r].state \in {"claimed", "run-linked", "settled"} => cv.item[r].claim.run # NoRun
         /\ cv.item[r].state = "absent" => cv.item[r] = NoItem
BY DEF GoodConv, ConvOK, ConvRec, ItemRec, ItemShape

\* Two records that differ in one prompt differ there in the queue.
LEMMA OneDiffers ==
  ASSUME NEW rec, NEW rec2, NEW c \in Conv, NEW r \in Req,
         SameButFor(rec, rec2, c, r)
  PROVE  /\ St(rec2) = StWith(rec, c, r, StatusOf(rec2.conv[c].item[r]))
         /\ Pl(rec2) = PlWith(rec, c, r, rec2.conv[c].item[r].seq)
<1> USE DEF SameButFor
<1>2. St(rec2) = [St(rec) EXCEPT ![c][r] = StatusOf(rec2.conv[c].item[r])]
  <2> DEFINE f == St(rec2)
             g == [St(rec) EXCEPT ![c][r] = StatusOf(rec2.conv[c].item[r])]
  <2>1. ASSUME NEW d \in Conv PROVE f[d] = g[d]
    <3>1. CASE d = c
      <4>1. f[c] = [x \in Req |-> StatusOf(rec2.conv[c].item[x])]
        BY DEF St
      <4>2. g[c] = [[x \in Req |-> StatusOf(rec.conv[c].item[x])] EXCEPT ![r] = StatusOf(rec2.conv[c].item[r])]
        BY DEF St
      <4>3. \A x \in Req : x # r => StatusOf(rec2.conv[c].item[x]) = StatusOf(rec.conv[c].item[x])
        OBVIOUS
      <4> HIDE DEF f, g
      <4> QED
        BY <3>1, <4>1, <4>2, <4>3
    <3>2. CASE d # c
      <4>1. \A x \in Req : StatusOf(rec2.conv[d].item[x]) = StatusOf(rec.conv[d].item[x])
        BY <3>2
      <4>2. g[d] = [x \in Req |-> StatusOf(rec.conv[d].item[x])]
        BY <3>2 DEF St
      <4>3. f[d] = [x \in Req |-> StatusOf(rec2.conv[d].item[x])]
        BY DEF St
      <4> HIDE DEF f, g
      <4> QED
        BY <4>1, <4>2, <4>3
    <3> QED
      BY <3>1, <3>2
  <2>2. f = [d \in Conv |-> f[d]] /\ g = [d \in Conv |-> g[d]]
    BY DEF St
  <2> HIDE DEF f, g
  <2>3. f = g
    BY <2>1, <2>2
  <2> QED
    BY <2>3 DEF f, g
<1>3. Pl(rec2) = [Pl(rec) EXCEPT ![c][r] = rec2.conv[c].item[r].seq]
  <2> DEFINE f == Pl(rec2)
             g == [Pl(rec) EXCEPT ![c][r] = rec2.conv[c].item[r].seq]
  <2>1. ASSUME NEW d \in Conv PROVE f[d] = g[d]
    <3>1. CASE d = c
      <4>1. f[c] = [x \in Req |-> rec2.conv[c].item[x].seq]
        BY DEF Pl
      <4>2. g[c] = [[x \in Req |-> rec.conv[c].item[x].seq] EXCEPT ![r] = rec2.conv[c].item[r].seq]
        BY DEF Pl
      <4>3. \A x \in Req : x # r => rec2.conv[c].item[x].seq = rec.conv[c].item[x].seq
        OBVIOUS
      <4> HIDE DEF f, g
      <4> QED
        BY <3>1, <4>1, <4>2, <4>3
    <3>2. CASE d # c
      <4>1. \A x \in Req : rec2.conv[d].item[x].seq = rec.conv[d].item[x].seq
        BY <3>2
      <4>2. g[d] = [x \in Req |-> rec.conv[d].item[x].seq]
        BY <3>2 DEF Pl
      <4>3. f[d] = [x \in Req |-> rec2.conv[d].item[x].seq]
        BY DEF Pl
      <4> HIDE DEF f, g
      <4> QED
        BY <4>1, <4>2, <4>3
    <3> QED
      BY <3>1, <3>2
  <2>2. f = [d \in Conv |-> f[d]] /\ g = [d \in Conv |-> g[d]]
    BY DEF Pl
  <2> HIDE DEF f, g
  <2>3. f = g
    BY <2>1, <2>2
  <2> QED
    BY <2>3 DEF f, g
<1> QED
  BY <1>2, <1>3 DEF StWith, PlWith

\* Writing one conversation moves at most the prompt it names.
LEMMA Written ==
  ASSUME IInv, mem = disk, NEW c \in Conv, NEW r \in Req, NEW cw \in ConvRec,
         Evolves(mem.conv[c], cw), disk' = Put(c, cw),
         \A x \in Req : x # r => StatusOf(cw.item[x]) = StatusOf(mem.conv[c].item[x])
  PROVE  St(disk') = [St(disk) EXCEPT ![c][r] = StatusOf(cw.item[r])] /\ Pl(disk') = Pl(disk)
<1>6. RecOK(mem) /\ mem \in Records /\ mem.conv \in [Conv -> ConvRec]
  BY Healthy DEF RecOK, Records
<1>7. PICK new : new = Put(c, cw)
  OBVIOUS
<1>1. new.conv[c] = cw /\ \A d \in Conv : d # c => new.conv[d] = mem.conv[d]
  BY <1>6, <1>7 DEF Put, Records
<1>2. \A x \in Req : cw.item[x].seq = mem.conv[c].item[x].seq
  BY DEF Evolves, ItemEvolves, Keeps
<1>3. /\ St(new) = StWith(mem, c, r, StatusOf(new.conv[c].item[r]))
      /\ Pl(new) = PlWith(mem, c, r, new.conv[c].item[r].seq)
  <2>1. SameButFor(mem, new, c, r)
    BY <1>1, <1>2 DEF SameButFor
  <2> QED
    BY <2>1, OneDiffers
<1>4. PlWith(mem, c, r, mem.conv[c].item[r].seq) = Pl(mem)
  <2>1. Pl(mem)[c][r] = mem.conv[c].item[r].seq
    BY DEF Pl
  <2>2. Pl(mem)[c] = [Pl(mem)[c] EXCEPT ![r] = mem.conv[c].item[r].seq]
    BY DEF Pl
  <2>3. [Pl(mem) EXCEPT ![c] = Pl(mem)[c]] = Pl(mem)
    BY DEF Pl
  <2> QED
    BY <2>2, <2>3 DEF PlWith
<1>5. Pl(new) = Pl(mem) /\ new.conv[c].item[r] = cw.item[r]
  BY <1>1, <1>2, <1>3, <1>4
<1> QED
  BY <1>3, <1>5, <1>7 DEF StWith
\* An operation moves at most the prompt it names, or fails to write.
LEMMA Moved ==
  ASSUME IInv, mem = disk, NEW c \in Conv, NEW r \in Req, NEW cw \in ConvRec,
         Evolves(mem.conv[c], cw), disk' \in {disk, Put(c, cw)}, granted' = granted,
         \A x \in Req : x # r => StatusOf(cw.item[x]) = StatusOf(mem.conv[c].item[x])
  PROVE  Stays \/ Becomes(c, r, StatusOf(cw.item[r]))
<1>1. CASE disk' = disk
  BY <1>1 DEF Stays, St, Pl
<1>2. CASE disk' = Put(c, cw)
  BY <1>2, Written DEF Becomes
<1> QED
  BY <1>1, <1>2

\* A prompt that becomes what it is leaves the queue as it is.
LEMMA SameStays ==
  ASSUME NEW c \in Conv, NEW r \in Req, mem = disk,
         Becomes(c, r, StatusOf(mem.conv[c].item[r]))
  PROVE  Stays
<1>1. St(disk)[c] = [St(disk)[c] EXCEPT ![r] = StatusOf(mem.conv[c].item[r])]
  BY DEF St
<1>2. [St(disk) EXCEPT ![c] = St(disk)[c]] = St(disk)
  BY DEF St
<1> QED
  BY <1>1, <1>2 DEF Becomes, Stays

\* A change that does not reach beforeNative's caller touches the file alone.
LEMMA Quiet ==
  ASSUME IInv, NEW c \in Conv, NEW cw, Mutate(c, cw, NoEffect)
  PROVE  mem = disk /\ disk' \in {disk, Put(c, cw)} /\ granted' = granted
BY Healthy DEF Mutate, Change, NoEffect

----------------------------------------------------------------------------
(* The promise in the queue's own words. *)

\* Leaving the queue as it is is a stutter.
LEMMA StaysStutters ==
  ASSUME Stays
  PROVE  UNCHANGED Queue!vars
BY DEF Stays, St, Pl, Queue!vars

\* With no requests there is no queue.
LEMMA EmptyStays ==
  ASSUME Req = {}, granted' = granted
  PROVE  Stays
<1>1. St(disk') = St(disk)
  BY DEF St
<1>2. Pl(disk') = Pl(disk)
  BY DEF Pl
<1> QED
  BY <1>1, <1>2 DEF Stays

\* A queued prompt that ends was withdrawn.
LEMMA Withdrawn ==
  ASSUME NEW c \in Conv, NEW r \in Req, StatusOf(disk.conv[c].item[r]) = "queued", Becomes(c, r, "ended")
  PROVE  Queue!Next
<1>1. Queue!Withdraw(c, r)
  BY DEF Becomes, St, Pl, Queue!Withdraw, Queue!Move
<1> QED
  BY <1>1 DEF Queue!Next

\* A prompt handed over that ends was finished.
LEMMA Finished ==
  ASSUME NEW c \in Conv, NEW r \in Req, StatusOf(disk.conv[c].item[r]) = "handed", Becomes(c, r, "ended")
  PROVE  Queue!Next
<1>1. Queue!Finish(c, r)
  BY DEF Becomes, St, Pl, Queue!Finish, Queue!Move
<1> QED
  BY <1>1 DEF Queue!Next

Promised == Queue!Next \/ UNCHANGED Queue!vars
----------------------------------------------------------------------------
(* The operations keep the promise. *)

\* A safety pause and its end are invisible.
LEMMA PauseKept ==
  ASSUME IInv, NEW c \in Conv, NEW code \in PauseCode, Pause(c, code)
  PROVE  Promised
<1> DEFINE cv == mem.conv[c]
           cw == Paused(cv, code)
<1>0. GoodConv(cv)
  BY Healthy
<1>1. cw \in ConvRec /\ Evolves(cv, cw) /\ cw.item = cv.item
  <2>1. cw \in ConvRec /\ Evolves(cv, cw)
    BY <1>0, Paused_Evolves
  <2>2. cw.item = cv.item
    BY <1>0 DEF Paused, GoodConv, ConvRec
  <2> QED
    BY <2>1, <2>2
<1>2. mem = disk /\ disk' \in {disk, Put(c, cw)} /\ granted' = granted
  BY Quiet DEF Pause
<1> HIDE DEF cw
<1>3. ASSUME NEW r \in Req PROVE Stays
  BY <1>1, <1>2, Moved, SameStays
<1>4. CASE Req = {}
  BY <1>2, <1>4, EmptyStays, StaysStutters DEF Promised
<1> QED
  BY <1>3, <1>4, StaysStutters DEF Promised

\* A resume is invisible.
LEMMA ResumeKept ==
  ASSUME IInv, NEW c \in Conv, NEW o \in Req, NEW e, Resume(c, o, e)
  PROVE  Promised
<1> DEFINE cv == mem.conv[c]
           cw == Resumed(cv, o)
<1>0. GoodConv(cv)
  BY Healthy
<1>1. cw \in ConvRec /\ Evolves(cv, cw) /\ cw.item = cv.item
  <2>1. cw \in ConvRec /\ Evolves(cv, cw)
    BY <1>0, Resumed_Evolves DEF Resume
  <2>2. cw.item = cv.item
    BY <1>0 DEF Resumed, GoodConv, ConvRec
  <2> QED
    BY <2>1, <2>2
<1>2. mem = disk /\ disk' \in {disk, Put(c, cw)} /\ granted' = granted
  BY Quiet DEF Resume
<1> HIDE DEF cw
<1>3. Stays
  BY <1>1, <1>2, Moved, SameStays
<1> QED
  BY <1>3, StaysStutters DEF Promised

\* A removal withdraws a waiting prompt, and touches no other.
LEMMA RemoveKept ==
  ASSUME IInv, NEW c \in Conv, NEW o \in Req, NEW r \in Req, Remove(c, o, r)
  PROVE  Promised
<1> DEFINE cv == mem.conv[c]
           cw == Removed(cv, o, r)
           i == cv.item[r]
<1>1. GoodConv(cv) /\ Unused(cv, o) /\ i.state # "absent"
  BY Healthy DEF Remove
<1>2. cw \in ConvRec /\ Evolves(cv, cw)
  BY <1>1, Removed_Evolves
<1>3. /\ cw.item[r] = [i EXCEPT !.state = IF i.claim # NoClaim THEN i.state ELSE "removed"]
      /\ \A x \in Req : x # r => cw.item[x] = cv.item[x]
  <2> DEFINE raw == [cv EXCEPT !.revision = @ + 1,
                      !.item[r].state = IF cv.item[r].claim # NoClaim THEN @ ELSE "removed",
                      !.op[o] = [kind |-> "remove", target |-> r,
                                 outcome |-> RemovalOutcome(cv.item[r]), revision |-> cv.revision + 1]]
  <2>1. raw.item = [cv.item EXCEPT ![r].state = IF cv.item[r].claim # NoClaim THEN @ ELSE "removed"]
    BY <1>1 DEF GoodConv, ConvRec
  <2>2. cw.item = raw.item
    BY DEF Removed, FinishChain
  <2>3. cv.item \in [Req -> ItemRec]
    BY <1>1, ItemFacts
  <2> HIDE DEF raw, cw, cv
  <2> QED
    BY <2>1, <2>2, <2>3
<1>4. mem = disk /\ disk' \in {disk, Put(c, cw)} /\ granted' = granted
  BY Quiet DEF Remove
<1>5. i \in ItemRec /\ i.claim \in ClaimRec
  BY <1>1, ItemFacts
<1> HIDE DEF cw
<1>6. Stays \/ Becomes(c, r, StatusOf(cw.item[r]))
  BY <1>2, <1>3, <1>4, Moved
<1>7. CASE i.claim # NoClaim
  <2>1. cw.item[r] = i
    BY <1>3, <1>5, <1>7 DEF ItemRec
  <2> QED
    BY <1>4, <1>6, <2>1, SameStays, StaysStutters DEF Promised
<1>8. CASE i.claim = NoClaim
  <2>1. cw.item[r].state = "removed" /\ cw.item[r] \in ItemRec
    BY <1>3, <1>5, <1>8 DEF ItemRec
  <2>2. StatusOf(cw.item[r]) = "ended"
    BY <2>1, StatusFacts
  <2>3. i.state \in {"waiting", "removed"}
    BY <1>1, <1>5, <1>8, ItemFacts DEF ItemRec, NoClaim
  <2>4. CASE i.state = "removed"
    <3>1. StatusOf(i) = "ended"
      BY <1>5, <2>4, StatusFacts
    <3> QED
      BY <1>4, <1>6, <2>2, <3>1, SameStays, StaysStutters DEF Promised
  <2>5. CASE i.state = "waiting"
    <3>1. StatusOf(i) = "queued"
      BY <1>5, <1>8, <2>5, StatusFacts DEF Active, NoClaim
    <3> QED
      BY <1>4, <1>6, <2>2, <3>1, Withdrawn, StaysStutters DEF Promised
  <2> QED
    BY <2>3, <2>4, <2>5
<1> QED
  BY <1>7, <1>8

\* A claim leaves its prompt queued.
LEMMA ClaimKept ==
  ASSUME IInv, NEW c \in Conv, NEW r \in Req, NEW run \in Run, NEW pred \in Run \cup {NoRun},
         NEW e, Claim(c, r, run, pred, e)
  PROVE  Promised
<1> DEFINE cv == mem.conv[c]
           cw == Claimed(cv, r, run, pred)
           i == cv.item[r]
           k == [NoClaim EXCEPT !.run = run, !.pred = pred, !.expected = cv.revision]
<1>1. GoodConv(cv)
  BY Healthy
<1>2. cw \in ConvRec /\ Evolves(cv, cw)
  BY <1>1, Claimed_Evolves DEF Claim
<1>3. /\ cw.item[r] = [i EXCEPT !.state = "claimed", !.claim = k]
      /\ \A x \in Req : x # r => cw.item[x] = cv.item[x]
  <2>1. cw.item = [cv.item EXCEPT ![r] = [@ EXCEPT !.state = "claimed", !.claim = k]]
    BY <1>1 DEF Claimed, GoodConv, ConvRec
  <2>2. cv.item \in [Req -> ItemRec]
    BY <1>1, ItemFacts
  <2> HIDE DEF cw, cv, k
  <2> QED
    BY <2>1, <2>2
<1>4. mem = disk /\ disk' \in {disk, Put(c, cw)} /\ granted' = granted
  BY Healthy DEF Claim, Mutate, Change
<1>5. i \in ItemRec /\ i.claim = NoClaim /\ Waiting(i) /\ cw.item[r] \in ItemRec
  BY <1>1, <1>2, ItemFacts DEF Claim, IsHead, Waiting, ConvRec
<1>6. k.possibleNative = FALSE /\ NoClaim.possibleNative = FALSE
  BY DEF NoClaim
<1> HIDE DEF cw, k
<1>7. StatusOf(i) = "queued"
  BY <1>5, <1>6, StatusFacts DEF Active, Waiting
<1>8. StatusOf(cw.item[r]) = "queued"
  <2>1. cw.item[r].state = "claimed" /\ cw.item[r].claim = k
    BY <1>3, <1>5 DEF ItemRec
  <2> QED
    BY <1>5, <1>6, <2>1, StatusFacts DEF Active
<1>9. Stays
  BY <1>2, <1>3, <1>4, <1>7, <1>8, Moved, SameStays
<1> QED
  BY <1>9, StaysStutters DEF Promised

\* A link leaves its prompt queued.
LEMMA LinkKept ==
  ASSUME IInv, NEW c \in Conv, NEW r \in Req, Link(c, r)
  PROVE  Promised
<1> DEFINE cv == mem.conv[c]
           cw == Linked(cv, r)
           i == cv.item[r]
<1>1. GoodConv(cv)
  BY Healthy
<1>2. cw \in ConvRec /\ Evolves(cv, cw)
  BY <1>1, Linked_Evolves DEF Link
<1>3. /\ cw.item[r] = [i EXCEPT !.state = "run-linked"]
      /\ \A x \in Req : x # r => cw.item[x] = cv.item[x]
  <2>1. cw.item = [cv.item EXCEPT ![r].state = "run-linked"]
    BY <1>1 DEF Linked, GoodConv, ConvRec
  <2>2. cv.item \in [Req -> ItemRec]
    BY <1>1, ItemFacts
  <2> HIDE DEF cw, cv
  <2> QED
    BY <2>1, <2>2
<1>4. mem = disk /\ disk' \in {disk, Put(c, cw)} /\ granted' = granted
  BY Quiet DEF Link
<1>5. i \in ItemRec /\ i.state = "claimed" /\ cw.item[r] \in ItemRec
  BY <1>1, <1>2, ItemFacts DEF Link, ConvRec
<1> HIDE DEF cw
<1>6. cw.item[r].state = "run-linked" /\ cw.item[r].claim = i.claim
  BY <1>3, <1>5 DEF ItemRec
<1>7. StatusOf(cw.item[r]) = StatusOf(i)
  BY <1>5, <1>6 DEF StatusOf, Active
<1>8. Stays
  BY <1>2, <1>3, <1>4, <1>7, Moved, SameStays
<1> QED
  BY <1>8, StaysStutters DEF Promised

\* Evidence says nothing new of whether a prompt was handed over.
LEMMA OutcomeKept ==
  ASSUME IInv, NEW c \in Conv, NEW r \in Req, NEW sub \in Submission, NEW acc \in Acceptance,
         Outcome(c, r, sub, acc)
  PROVE  Promised
<1> DEFINE cv == mem.conv[c]
           cw == Evidenced(cv, r, sub, acc)
           i == cv.item[r]
           k == WithEvidence(i.claim, sub, acc)
<1>1. GoodConv(cv)
  BY Healthy
<1>2. cw \in ConvRec /\ Evolves(cv, cw)
  BY <1>1, Evidenced_Evolves DEF Outcome, Owned
<1>3. /\ cw.item[r] = [i EXCEPT !.claim = k]
      /\ \A x \in Req : x # r => cw.item[x] = cv.item[x]
  <2>1. cw.item = [cv.item EXCEPT ![r].claim = WithEvidence(@, sub, acc)]
    BY <1>1 DEF Evidenced, GoodConv, ConvRec
  <2>2. cv.item \in [Req -> ItemRec]
    BY <1>1, ItemFacts
  <2> HIDE DEF cw, cv
  <2> QED
    BY <2>1, <2>2
<1>4. mem = disk /\ disk' \in {disk, Put(c, cw)} /\ granted' = granted
  BY Quiet DEF Outcome
<1>5. i \in ItemRec /\ i.claim \in ClaimRec
  BY <1>1, ItemFacts
<1>6. k.possibleNative = i.claim.possibleNative
  BY <1>5 DEF WithEvidence, ClaimRec
<1> HIDE DEF cw, k
<1>7. cw.item[r].state = i.state /\ cw.item[r].claim = k
  BY <1>3, <1>5 DEF ItemRec
<1>8. StatusOf(cw.item[r]) = StatusOf(i)
  BY <1>6, <1>7 DEF StatusOf, Active
<1>9. Stays
  BY <1>2, <1>3, <1>4, <1>8, Moved, SameStays
<1> QED
  BY <1>9, StaysStutters DEF Promised

\* Only a prompt that was handed over is settled.
LEMMA SettleKept ==
  ASSUME IInv, NEW c \in Conv, NEW r \in Req, NEW status \in Status, Settle(c, r, status)
  PROVE  Promised
<1> DEFINE cv == mem.conv[c]
           cw == Settled(cv, r, status)
           i == cv.item[r]
           j == Ended(i, status)
           raw == [cv EXCEPT !.revision = @ + 1, !.pause = SettlePause(cv, status),
                             !.lastChain = cv.item[r].chain, !.lastRun = cv.item[r].claim.run,
                             !.item[r] = Ended(@, status)]
<1>1. GoodConv(cv)
  BY Healthy
<1>2. cw \in ConvRec /\ Evolves(cv, cw)
  BY <1>1, Settled_Evolves DEF Settle
<1>3. cw.item[r] = j /\ \A x \in Req : x # r => cw.item[x] = cv.item[x]
  <2>1. raw.item = [cv.item EXCEPT ![r] = j]
    BY <1>1 DEF GoodConv, ConvRec
  <2>2. cw.item = raw.item
    BY DEF Settled, FinishChain
  <2>3. cv.item \in [Req -> ItemRec]
    BY <1>1, ItemFacts
  <2> HIDE DEF raw, cw, cv, j
  <2> QED
    BY <2>1, <2>2, <2>3
<1>4. mem = disk /\ disk' \in {disk, Put(c, cw)} /\ granted' = granted
  BY Quiet DEF Settle
<1>5. i \in ItemRec /\ j \in ItemRec /\ j.state = "settled"
  <2>1. i \in ItemRec
    BY <1>1, ItemFacts
  <2> HIDE DEF i
  <2> QED
    BY <2>1, Ended_Fields DEF Status
<1>6. i.state = "run-linked" /\ i.claim.possibleNative
  <2>1. ItemEvidence(i) /\ i.claim.run # NoRun /\ i.state = "run-linked" /\ i.claim.submission = "submitted"
    BY <1>1, ItemFacts DEF Settle, GoodConv, ConvOK
  <2> QED
    BY <2>1 DEF ItemEvidence, EvidenceOK
<1> HIDE DEF cw, j
<1>7. StatusOf(i) = "handed" /\ StatusOf(j) = "ended"
  BY <1>5, <1>6, StatusFacts DEF Active
<1>8. Stays \/ Becomes(c, r, "ended")
  BY <1>2, <1>3, <1>4, <1>7, Moved
<1> QED
  BY <1>4, <1>7, <1>8, Finished, StaysStutters DEF Promised

\* Only a prompt that was not handed over is archived as not submitted.
LEMMA ArchiveKept ==
  ASSUME IInv, NEW c \in Conv, NEW r \in Req, ArchiveNotSubmitted(c, r)
  PROVE  Promised
<1> DEFINE cv == mem.conv[c]
           cw == Archived(cv, r)
           i == cv.item[r]
           j == Ended(i, "not-submitted")
           raw == [cv EXCEPT !.revision = @ + 1, !.pause = PauseIfNone(cv, "admission-unavailable"),
                             !.item[r] = Ended(@, "not-submitted")]
<1>1. GoodConv(cv)
  BY Healthy
<1>2. cw \in ConvRec /\ Evolves(cv, cw)
  BY <1>1, Archived_Evolves DEF ArchiveNotSubmitted, Owned
<1>3. cw.item[r] = j /\ \A x \in Req : x # r => cw.item[x] = cv.item[x]
  <2>1. raw.item = [cv.item EXCEPT ![r] = j]
    BY <1>1 DEF GoodConv, ConvRec
  <2>2. cw.item = raw.item
    BY DEF Archived, FinishChain
  <2>3. cv.item \in [Req -> ItemRec]
    BY <1>1, ItemFacts
  <2> HIDE DEF raw, cw, cv, j
  <2> QED
    BY <2>1, <2>2, <2>3
<1>4. mem = disk /\ disk' \in {disk, Put(c, cw)} /\ granted' = granted
  BY Quiet DEF ArchiveNotSubmitted
<1>5. i \in ItemRec /\ j \in ItemRec /\ j.state = "settled"
  <2>1. i \in ItemRec
    BY <1>1, ItemFacts
  <2> HIDE DEF i
  <2> QED
    BY <2>1, Ended_Fields DEF Status
<1>6. Unresolved(i) /\ ~i.claim.possibleNative
  BY DEF ArchiveNotSubmitted, Owned
<1> HIDE DEF cw, j
<1>7. StatusOf(i) = "queued" /\ StatusOf(j) = "ended"
  BY <1>5, <1>6, StatusFacts DEF Active, Unresolved
<1>8. Stays \/ Becomes(c, r, "ended")
  BY <1>2, <1>3, <1>4, <1>7, Moved
<1> QED
  BY <1>4, <1>7, <1>8, Withdrawn, StaysStutters DEF Promised

\* A new prompt takes its place behind everything the conversation ever held.
LEMMA EnqueueKept ==
  ASSUME IInv, NEW c \in Conv, NEW r \in Req, NEW p \in Pin, NEW n \in Native, Enqueue(c, r, p, n)
  PROVE  Promised
<1> DEFINE cand == Enqueued(mem, c, r, p, n)
<1>1. RecOK(mem) /\ mem = disk /\ mem.next \in Nat /\ mem.conv \in [Conv -> ConvRec]
  BY Healthy DEF Enqueue, Change, RecOK, Records
<1>2. disk' \in {disk, cand} /\ granted' = granted
  BY DEF Enqueue, Change, NoEffect
<1>3. mem.conv[c].item[r].state = "absent" /\ mem.conv[c].item[r] \in ItemRec
  BY <1>1, ConvOfRecords, ItemFacts DEF Enqueue, Unused
<1>4. CASE disk' = disk
  BY <1>2, <1>4, StaysStutters DEF Promised, Stays, St, Pl
<1>5. CASE disk' = cand
  <2>1. PICK new : new = cand
    OBVIOUS
  <2>2. /\ new.conv[c].item[r].state = "waiting" /\ new.conv[c].item[r].claim = NoClaim
        /\ new.conv[c].item[r].seq = mem.next
        /\ \A d \in Conv, x \in Req : d # c \/ x # r => new.conv[d].item[x] = mem.conv[d].item[x]
    BY <1>1, <2>1 DEF Enqueued, ConvRec, NoItem
  <2>3. SameButFor(mem, new, c, r)
    BY <2>2 DEF SameButFor
  <2>4. /\ St(new) = StWith(mem, c, r, StatusOf(new.conv[c].item[r]))
        /\ Pl(new) = PlWith(mem, c, r, mem.next)
    BY <2>2, <2>3, OneDiffers
  <2>5. StatusOf(new.conv[c].item[r]) = "queued" /\ StatusOf(mem.conv[c].item[r]) = "new"
    BY <1>3, <2>2, StatusFacts DEF StatusOf, Active, NoClaim
  <2>6. \A q \in Req : mem.conv[c].item[q].seq < mem.next
    <3> SUFFICES ASSUME NEW q \in Req PROVE mem.conv[c].item[q].seq < mem.next
      OBVIOUS
    <3>1. CASE mem.conv[c].item[q].state = "absent"
      <4>1. mem.conv[c].item[q].seq = 0
        BY <1>1, <3>1, ConvOfRecords, ItemFacts DEF NoItem
      <4> QED
        BY <1>1, <4>1 DEF RecOK, Decodes
    <3>2. CASE mem.conv[c].item[q].state # "absent"
      BY <1>1, <3>2 DEF RecOK, Decodes, Global, Exists
    <3> QED
      BY <3>1, <3>2
  <2>7. Queue!Move(c, r, "new", "queued")
    BY <1>1, <1>5, <2>1, <2>4, <2>5 DEF Queue!Move, St, StWith
  <2>8. Pl(disk') = [Pl(disk) EXCEPT ![c][r] = mem.next] /\ Pl(disk')[c][r] = mem.next
    BY <1>1, <1>5, <2>1, <2>2, <2>4 DEF PlWith, Pl
  <2>9. \A q \in Req : Pl(disk)[c][q] < Pl(disk')[c][r]
    BY <1>1, <2>6, <2>8 DEF Pl
  <2>10. Pl(disk') = [Pl(disk) EXCEPT ![c][r] = Pl(disk')[c][r]]
    BY <2>8
  <2>11. Queue!Accept(c, r)
    BY <1>2, <2>7, <2>9, <2>10 DEF Queue!Accept, Pl
  <2> QED
    BY <2>11 DEF Queue!Next, Promised
<1> QED
  BY <1>2, <1>4, <1>5

\* The prompt handed over is the oldest unfinished one, and nothing else is handed over.
LEMMA HeadOfQueue ==
  ASSUME NEW cv, GoodConv(cv), NEW r \in Req, cv.item[r].state = "run-linked",
         ~cv.item[r].claim.possibleNative, NEW q \in Req
  PROVE  /\ StatusOf(cv.item[q]) # "handed"
         /\ StatusOf(cv.item[q]) = "queued" => cv.item[r].seq <= cv.item[q].seq
<1>1. /\ cv.item[q] \in ItemRec /\ cv.item[r] \in ItemRec /\ ChainShape(cv) /\ Ordered(cv)
      /\ cv.item[q].seq \in Nat /\ cv.item[r].seq \in Nat
      /\ Waiting(cv.item[q]) => ~cv.item[q].claim.possibleNative
  BY ItemFacts DEF GoodConv, ConvOK, Waiting, NoClaim
<1>2. Unresolved(cv.item[q]) => q = r
  BY <1>1 DEF ChainShape, Unresolved
<1>3. Active(cv.item[q]) => q = r \/ Waiting(cv.item[q])
  BY <1>2 DEF Active, Unresolved, Waiting
<1>4. StatusOf(cv.item[q]) # "handed"
  BY <1>1, <1>3, StatusFacts
<1>5. ASSUME StatusOf(cv.item[q]) = "queued" PROVE cv.item[r].seq <= cv.item[q].seq
  <2>1. CASE q = r
    BY <1>1, <2>1
  <2>2. CASE Waiting(cv.item[q])
    <3>1. ~(cv.item[q].seq < cv.item[r].seq)
      BY <1>1, <2>2 DEF Ordered, Waiting, Unresolved
    <3> QED
      BY <1>1, <3>1
  <2> QED
    BY <1>1, <1>3, <1>5, <2>1, <2>2, StatusFacts
<1> QED
  BY <1>4, <1>5

\* beforeNative hands a prompt over: durably, and to its caller only after that.
LEMMA BeforeNativeKept ==
  ASSUME IInv, NEW c \in Conv, NEW r \in Req, BeforeNative(c, r)
  PROVE  Promised
<1> DEFINE cv == mem.conv[c]
           cw == Attempted(cv, r)
           cand == Put(c, cw)
           i == cv.item[r]
<1>1. GoodConv(cv) /\ mem = disk
  BY Healthy DEF BeforeNative, Mutate, Change
<1>2. cw \in ConvRec /\ Evolves(cv, cw)
  BY <1>1, Attempted_Evolves DEF BeforeNative
<1>3. \/ disk' \in {disk, cand} /\ granted' = granted
      \/ disk' = cand /\ granted' = [granted EXCEPT ![c] = Append(@, r)]
  BY DEF BeforeNative, Mutate, Change
<1>4. i.state = "run-linked" /\ ~i.claim.possibleNative
  BY DEF BeforeNative, Untouched
<1>5. /\ cw.item[r].claim.possibleNative /\ cw.item[r].state = "run-linked" /\ cw.item[r] \in ItemRec
      /\ \A x \in Req : x # r => cw.item[x] = cv.item[x]
  <2>1. cv.item \in [Req -> ItemRec] /\ i \in ItemRec /\ i.claim \in ClaimRec
    BY <1>1, ItemFacts
  <2>2. cw.item = [cv.item EXCEPT ![r].claim = [@ EXCEPT !.possibleNative = TRUE,
                     !.submission = "attempted", !.acceptance = "unknown"]]
    BY <1>1 DEF Attempted, GoodConv, ConvRec
  <2>3. cw.item[r] \in ItemRec
    BY <1>2 DEF ConvRec
  <2> HIDE DEF cw, cv
  <2> QED
    BY <1>4, <2>1, <2>2, <2>3 DEF ItemRec, ClaimRec
<1>6. StatusOf(i) = "queued" /\ StatusOf(cw.item[r]) = "handed"
  <2>1. i \in ItemRec
    BY <1>1, ItemFacts
  <2> HIDE DEF cw
  <2> QED
    BY <1>4, <1>5, <2>1, StatusFacts DEF Active
<1> HIDE DEF cw
<1>7. CASE disk' = disk /\ granted' = granted
  BY <1>7, StaysStutters DEF Promised, Stays, St, Pl
<1>8. CASE disk' = cand /\ granted' \in {granted, [granted EXCEPT ![c] = Append(@, r)]}
  <2>1. St(disk') = [St(disk) EXCEPT ![c][r] = "handed"] /\ Pl(disk') = Pl(disk)
    BY <1>1, <1>2, <1>5, <1>6, <1>8, Written
  <2>2. \A q \in Req : /\ St(disk)[c][q] # "handed"
                       /\ St(disk)[c][q] = "queued" => Pl(disk)[c][r] <= Pl(disk)[c][q]
    <3>1. \A q \in Req : /\ StatusOf(cv.item[q]) # "handed"
                         /\ StatusOf(cv.item[q]) = "queued" => cv.item[r].seq <= cv.item[q].seq
      BY <1>1, <1>4, HeadOfQueue
    <3> QED
      BY <1>1, <3>1 DEF St, Pl
  <2>3. St(disk)[c][r] = "queued"
    BY <1>1, <1>6 DEF St
  <2>4. Queue!HandOver(c, r)
    BY <1>8, <2>1, <2>2, <2>3 DEF Queue!HandOver, Queue!Move, St, Pl
  <2> QED
    BY <2>4 DEF Queue!Next, Promised
<1> QED
  BY <1>3, <1>7, <1>8

\* The classification at startup is invisible.
LEMMA RecoverKept ==
  ASSUME IInv, Recover
  PROVE  Promised
<1> DEFINE cand == [mem EXCEPT !.conv = [c \in Conv |-> Recovered(mem.conv[c])]]
<1>1. mem = disk /\ RecOK(mem) /\ mem \in Records
  BY Healthy DEF Recover, Change, RecOK
<1>2. disk' \in {disk, cand} /\ granted' = granted
  BY DEF Recover, Change
<1>3. \A c \in Conv : cand.conv[c] = Recovered(mem.conv[c])
  BY <1>1 DEF Records
<1>4. ASSUME NEW c \in Conv, NEW r \in Req
      PROVE  /\ StatusOf(Recovered(mem.conv[c]).item[r]) = StatusOf(mem.conv[c].item[r])
             /\ Recovered(mem.conv[c]).item[r].seq = mem.conv[c].item[r].seq
  <2> DEFINE cv == mem.conv[c]
             i == cv.item[r]
             j == [i EXCEPT !.claim.uncertain = TRUE]
  <2>1. GoodConv(cv) /\ i \in ItemRec /\ i.claim \in ClaimRec /\ cv \in ConvRec
    BY Healthy, ItemFacts
  <2>2. Recovered(cv).item[r] \in {i, j}
    BY <2>1 DEF Recovered, ConvRec
  <2>3. j.state = i.state /\ j.seq = i.seq /\ j.claim.possibleNative = i.claim.possibleNative
    BY <2>1 DEF ItemRec, ClaimRec
  <2> HIDE DEF j
  <2> QED
    BY <2>2, <2>3 DEF StatusOf, Active
<1> HIDE DEF cand
<1>5. CASE disk' = disk
  BY <1>2, <1>5, StaysStutters DEF Promised, Stays, St, Pl
<1>6. CASE disk' = cand
  <2>1. St(cand) = St(mem)
    BY <1>3, <1>4 DEF St
  <2>2. Pl(cand) = Pl(mem)
    BY <1>3, <1>4 DEF Pl
  <2> QED
    BY <1>1, <1>2, <1>6, <2>1, <2>2, StaysStutters DEF Promised, Stays
<1> QED
  BY <1>2, <1>5, <1>6

\* The empty records are the empty queue.
LEMMA InitKept ==
  ASSUME Init
  PROVE  Queue!Init
<1>1. \A c \in Conv, r \in Req : disk.conv[c].item[r] = NoItem
  BY DEF Init, EmptyRecords, NewConv
<1>2. NoItem.seq = 0 /\ StatusOf(NoItem) = "new"
  <2>1. NoItem.seq = 0 /\ NoItem.state = "absent"
    BY DEF NoItem
  <2> QED
    BY <2>1 DEF StatusOf, Active
<1> QED
  BY <1>1, <1>2 DEF Init, Queue!Init

\* Every step of the store is a step of the queue or changes nothing in it.
LEMMA StepKept ==
  ASSUME IInv, [Next]_vars
  PROVE  Promised
<1>1. ASSUME NEW c \in Conv, Ask(c) PROVE Promised
  BY <1>1, EnqueueKept, RemoveKept, ResumeKept, PauseKept DEF Ask
<1>2. ASSUME NEW c \in Conv, Dispatch(c) PROVE Promised
  BY <1>2, ClaimKept, LinkKept, BeforeNativeKept, ArchiveKept, OutcomeKept, SettleKept DEF Dispatch
<1>3. CASE Restart \/ FenceFails \/ UNCHANGED vars
  <2>1. disk' = disk /\ granted' = granted
    BY <1>3 DEF Restart, FenceFails, vars
  <2> QED
    BY <2>1, StaysStutters DEF Promised, Stays, St, Pl
<1> QED
  BY <1>1, <1>2, <1>3, RecoverKept DEF Next

----------------------------------------------------------------------------

\* Whatever crashes, half-written files, pauses, withdrawals and late evidence
\* come, the store hands each accepted prompt over at most once, oldest first, and
\* never while an earlier one is unfinished (store.ts claim, beforeNative, settle,
\* archiveNotSubmitted, recover): the store implements the queue.
THEOREM Implementation == Spec => ImplementsQueue
<1>1. Init => Queue!Init
  BY InitKept
<1>2. IInv /\ [Next]_vars => [Queue!Next]_(Queue!vars)
  BY StepKept DEF Promised
<1> QED
  BY <1>1, <1>2, Invariance, PTL DEF Spec, ImplementsQueue, Queue!Spec
----------------------------------------------------------------------------
(* Records only advance. *)

\* Evidence that is not there accepts nothing.
Whole(i) == i.claim.submission = "none" => i.claim.acceptance = "none"

\* What an operation may make of an item: its identity stays, what has ended is final,
\* and evidence is not reversed (HistoryIsFinal).
FinalItem(i, j) ==
  /\ i.state # "absent" => j.state # "absent" /\ j.seq = i.seq /\ j.chain = i.chain
  /\ i.state \in {"removed", "settled"} => j = i
  /\ i.claim # NoClaim =>
       j.claim.run = i.claim.run /\ NoReversal(i.claim, j.claim.submission, j.claim.acceptance)
  /\ Whole(i) => Whole(j)

AllWhole(cv) == \A x \in Req : Whole(cv.item[x])

\* What an operation may make of a conversation.
Later(cv, cw) ==
  /\ cw # cv => cw.revision > cv.revision
  /\ cv.pause # NoPause /\ cw.pause = NoPause =>
       \E o \in Req : cv.op[o].kind = "none" /\ cw.op[o].kind = "resume"
  /\ \A x \in Req : FinalItem(cv.item[x], cw.item[x])

\* An unresolved claim that is not uncertain; its owner may go on with it.
Open(i) == Unresolved(i) /\ ~i.claim.uncertain

\* No claim is open that was not.
NoneOpened(cv, cw) == \A x \in Req :
  Open(cw.item[x]) => Open(cv.item[x]) /\ cw.item[x].claim.run = cv.item[x].claim.run

Ahead(rec, rec2) == \A c \in Conv : Later(rec.conv[c], rec2.conv[c])

\* What the disk may hold of a write that was not published is later than what is
\* published, and an open claim is the present process's.
HInv ==
  /\ IInv
  /\ Ahead(mem, disk)
  /\ \A c \in Conv : AllWhole(mem.conv[c]) /\ AllWhole(disk.conv[c])
  /\ ~recoveryRequired => \A c \in Conv, r \in Req :
       Open(mem.conv[c].item[r]) => mem.conv[c].item[r].claim.run \in mine

\* An item that is left alone is final.
LEMMA SameFinal ==
  ASSUME NEW i
  PROVE  FinalItem(i, i)
BY DEF FinalItem, NoReversal

\* A conversation that is left alone is no earlier.
LEMMA SameLater ==
  ASSUME NEW cv
  PROVE  Later(cv, cv)
BY SameFinal DEF Later

\* An operation on the one item r, which lifts no pause.
LEMMA OneLater ==
  ASSUME NEW cv \in ConvRec, NEW cw \in ConvRec, Evolves(cv, cw), NEW r \in Req,
         \A x \in Req : x # r => cw.item[x] = cv.item[x],
         FinalItem(cv.item[r], cw.item[r]),
         cv.pause # NoPause => cw.pause # NoPause
  PROVE  Later(cv, cw)
<1>1. cv.revision < cw.revision /\ cv.revision \in Nat /\ cw.revision \in Nat
  BY DEF Evolves, ConvRec
<1>2. \A x \in Req : FinalItem(cv.item[x], cw.item[x])
  BY SameFinal
<1> QED
  BY <1>1, <1>2 DEF Later

\* pause and resume touch no item.
LEMMA Paused_Later ==
  ASSUME NEW cv, GoodConv(cv), NEW code \in PauseCode
  PROVE  Later(cv, Paused(cv, code)) /\ NoneOpened(cv, Paused(cv, code))
<1> DEFINE cw == Paused(cv, code)
<1>1. cv \in ConvRec /\ cv.revision \in Nat
  BY DEF GoodConv, ConvRec
<1>2. cw.item = cv.item /\ cw.revision = cv.revision + 1 /\ cw.pause = code
  BY <1>1 DEF Paused, ConvRec
<1>3. code # NoPause
  BY StoreAssumption
<1> HIDE DEF cw
<1> QED
  BY <1>1, <1>2, <1>3, SameFinal DEF Later, NoneOpened, cw

\* resume leaves its request in the record.
LEMMA Resumed_Later ==
  ASSUME NEW cv, GoodConv(cv), NEW o \in Req, Unused(cv, o)
  PROVE  Later(cv, Resumed(cv, o)) /\ NoneOpened(cv, Resumed(cv, o))
<1> DEFINE cw == Resumed(cv, o)
<1>1. cv \in ConvRec /\ cv.revision \in Nat
  BY DEF GoodConv, ConvRec
<1>2. cw.item = cv.item /\ cw.revision = cv.revision + 1 /\ cw.op[o].kind = "resume"
  BY <1>1 DEF Resumed, ConvRec
<1>3. cv.op[o].kind = "none"
  BY DEF Unused
<1> HIDE DEF cw
<1> QED
  BY <1>1, <1>2, <1>3, SameFinal DEF Later, NoneOpened, cw

\* remove: what it withdraws was waiting, and its pause stands.
LEMMA Removed_Later ==
  ASSUME NEW cv, GoodConv(cv), NEW o \in Req, NEW r \in Req, Unused(cv, o), cv.item[r].state # "absent"
  PROVE  Later(cv, Removed(cv, o, r)) /\ NoneOpened(cv, Removed(cv, o, r))
<1> DEFINE cw == Removed(cv, o, r)
           i == cv.item[r]
           raw == [cv EXCEPT !.revision = @ + 1,
                    !.item[r].state = IF cv.item[r].claim # NoClaim THEN @ ELSE "removed",
                    !.op[o] = [kind |-> "remove", target |-> r,
                               outcome |-> RemovalOutcome(cv.item[r]), revision |-> cv.revision + 1]]
<1>1. cv \in ConvRec /\ i \in ItemRec /\ cv.item \in [Req -> ItemRec] /\ ItemShape(i)
  BY ItemFacts DEF GoodConv, ConvOK
<1>2. cw \in ConvRec /\ Evolves(cv, cw)
  BY Removed_Evolves
<1>3. raw.item = [cv.item EXCEPT ![r].state = IF cv.item[r].claim # NoClaim THEN @ ELSE "removed"]
      /\ raw.pause = cv.pause
  BY <1>1 DEF ConvRec
<1>4. cw.item = raw.item /\ cw.pause = raw.pause
  <2>1. cw.item = raw.item
    BY DEF Removed, FinishChain
  <2>2. cw.pause = raw.pause
    BY DEF Removed, FinishChain
  <2> QED
    BY <2>1, <2>2
<1> HIDE DEF raw, cw
<1>5. /\ cw.item[r] = [i EXCEPT !.state = IF i.claim # NoClaim THEN @ ELSE "removed"]
      /\ \A x \in Req : x # r => cw.item[x] = cv.item[x]
  BY <1>1, <1>3, <1>4
<1>6. CASE i.claim # NoClaim
  <2>1. cw.item[r] = i
    BY <1>1, <1>5, <1>6 DEF ItemRec
  <2> QED
    BY <1>1, <1>2, <1>3, <1>4, <1>5, <2>1, OneLater, SameFinal DEF NoneOpened, cw
<1>7. CASE i.claim = NoClaim
  <2>1. /\ cw.item[r].state = "removed" /\ cw.item[r].seq = i.seq /\ cw.item[r].chain = i.chain
        /\ i.state \in {"waiting", "removed"} /\ cw.item[r].claim = i.claim
    BY <1>1, <1>5, <1>7 DEF ItemRec, ItemShape, NoClaim
  <2>2. i.state = "removed" => cw.item[r] = i
    BY <1>1, <1>5, <1>7 DEF ItemRec
  <2>3. FinalItem(i, cw.item[r])
    BY <1>7, <2>1, <2>2 DEF FinalItem, Whole
  <2>4. ~Open(cw.item[r])
    BY <2>1 DEF Open, Unresolved
  <2> QED
    BY <1>1, <1>2, <1>3, <1>4, <1>5, <2>3, <2>4, OneLater DEF NoneOpened, cw
<1> QED
  BY <1>6, <1>7

\* claim: the head had no claim.
LEMMA Claimed_Later ==
  ASSUME NEW cv, GoodConv(cv), NEW r \in Req, NEW run \in Run, NEW pred \in Run \cup {NoRun},
         cv.pause = NoPause, ~Some(Unresolved, cv), IsHead(cv, r),
         cv.lastRun # NoRun /\ cv.lastChain = cv.item[r].chain => pred = cv.lastRun
  PROVE  LET cw == Claimed(cv, r, run, pred) IN
         /\ Later(cv, cw)
         /\ \A x \in Req : Open(cw.item[x]) => x = r /\ cw.item[x].claim.run = run
<1> DEFINE cw == Claimed(cv, r, run, pred)
           i == cv.item[r]
           k == [NoClaim EXCEPT !.run = run, !.pred = pred, !.expected = cv.revision]
<1>1. cw \in ConvRec /\ Evolves(cv, cw) /\ cv \in ConvRec
  BY Claimed_Evolves DEF GoodConv
<1>2. i \in ItemRec /\ i.state = "waiting" /\ i.claim = NoClaim
  BY ItemFacts DEF IsHead, Waiting
<1>3. /\ cw.item[r] = [i EXCEPT !.state = "claimed", !.claim = k]
      /\ \A x \in Req : x # r => cw.item[x] = cv.item[x]
  <2>1. cw.item = [cv.item EXCEPT ![r] = [@ EXCEPT !.state = "claimed", !.claim = k]]
    BY <1>1 DEF Claimed, ConvRec
  <2>2. cv.item \in [Req -> ItemRec]
    BY ItemFacts
  <2> HIDE DEF cw, k
  <2> QED
    BY <2>1, <2>2
<1>4. k.run = run /\ k.submission = "none" /\ k.acceptance = "none"
  BY DEF NoClaim
<1> HIDE DEF cw, k
<1>5. /\ cw.item[r].state = "claimed" /\ cw.item[r].seq = i.seq /\ cw.item[r].chain = i.chain
      /\ cw.item[r].claim.run = run /\ Whole(cw.item[r])
  BY <1>2, <1>3, <1>4 DEF ItemRec, Whole
<1>6. FinalItem(i, cw.item[r])
  BY <1>2, <1>5 DEF FinalItem
<1>7. Later(cv, cw)
  BY <1>1, <1>3, <1>6, OneLater
<1>8. \A x \in Req : Open(cw.item[x]) => x = r
  BY <1>3 DEF Open, Some
<1> QED
  BY <1>5, <1>7, <1>8 DEF cw

\* A step of the unresolved claim of r, which makes it k and keeps its evidence.
LEMMA ClaimStep_Later ==
  ASSUME NEW cv, GoodConv(cv), NEW cw \in ConvRec, Evolves(cv, cw), NEW r \in Req, Unresolved(cv.item[r]),
         \A x \in Req : x # r => cw.item[x] = cv.item[x],
         cv.pause # NoPause => cw.pause # NoPause,
         cw.item[r].claim.run = cv.item[r].claim.run,
         NoReversal(cv.item[r].claim, cw.item[r].claim.submission, cw.item[r].claim.acceptance),
         Whole(cv.item[r]) => Whole(cw.item[r]),
         Open(cw.item[r]) => ~cv.item[r].claim.uncertain
  PROVE  Later(cv, cw) /\ NoneOpened(cv, cw)
<1>1. ItemEvolves(cv, cw, r) /\ cv \in ConvRec
  BY DEF Evolves, GoodConv
<1>2. FinalItem(cv.item[r], cw.item[r])
  BY <1>1 DEF ItemEvolves, Keeps, FinalItem, Unresolved
<1>3. NoneOpened(cv, cw)
  BY DEF NoneOpened, Open
<1> QED
  BY <1>1, <1>2, <1>3, OneLater

\* link: the claim stays as it is.
LEMMA Linked_Later ==
  ASSUME NEW cv, GoodConv(cv), NEW r \in Req, cv.item[r].state = "claimed", Untouched(cv.item[r].claim)
  PROVE  Later(cv, Linked(cv, r)) /\ NoneOpened(cv, Linked(cv, r))
<1> DEFINE cw == Linked(cv, r)
           i == cv.item[r]
<1>1. cw \in ConvRec /\ Evolves(cv, cw) /\ cv \in ConvRec
  BY Linked_Evolves DEF GoodConv
<1>2. /\ cw.item[r] = [i EXCEPT !.state = "run-linked"]
      /\ \A x \in Req : x # r => cw.item[x] = cv.item[x]
  <2>1. cw.item = [cv.item EXCEPT ![r].state = "run-linked"]
    BY <1>1 DEF Linked, ConvRec
  <2>2. cv.item \in [Req -> ItemRec]
    BY ItemFacts
  <2> HIDE DEF cw
  <2> QED
    BY <2>1, <2>2
<1>3. cw.pause = cv.pause /\ i \in ItemRec
  BY <1>1, ItemFacts DEF Linked, ConvRec
<1> HIDE DEF cw
<1>4. cw.item[r].claim = i.claim
  BY <1>2, <1>3 DEF ItemRec
<1>5. NoReversal(i.claim, i.claim.submission, i.claim.acceptance) /\ ~i.claim.uncertain /\ Unresolved(i)
      /\ (Whole(i) => Whole(cw.item[r]))
  BY <1>4 DEF NoReversal, Untouched, Unresolved, Whole
<1>6. Later(cv, cw) /\ NoneOpened(cv, cw)
  BY <1>1, <1>2, <1>3, <1>4, <1>5, ClaimStep_Later
<1> QED
  BY <1>6 DEF cw

\* beforeNative: the claim had no evidence.
LEMMA Attempted_Later ==
  ASSUME NEW cv, GoodConv(cv), AllWhole(cv), NEW r \in Req,
         cv.item[r].state = "run-linked", Untouched(cv.item[r].claim)
  PROVE  Later(cv, Attempted(cv, r)) /\ NoneOpened(cv, Attempted(cv, r))
<1> DEFINE cw == Attempted(cv, r)
           i == cv.item[r]
           k == [i.claim EXCEPT !.possibleNative = TRUE, !.submission = "attempted", !.acceptance = "unknown"]
<1>1. cw \in ConvRec /\ Evolves(cv, cw) /\ cv \in ConvRec
  BY Attempted_Evolves DEF GoodConv
<1>2. i \in ItemRec /\ i.claim \in ClaimRec /\ ItemEvidence(i) /\ i.claim.run # NoRun
  BY ItemFacts DEF GoodConv, ConvOK
<1>3. /\ cw.item[r] = [i EXCEPT !.claim = k]
      /\ \A x \in Req : x # r => cw.item[x] = cv.item[x]
  <2>1. cw.item = [cv.item EXCEPT ![r].claim = [@ EXCEPT !.possibleNative = TRUE,
                     !.submission = "attempted", !.acceptance = "unknown"]]
    BY <1>1 DEF Attempted, ConvRec
  <2>2. cv.item \in [Req -> ItemRec]
    BY ItemFacts
  <2> HIDE DEF cw
  <2> QED
    BY <2>1, <2>2
<1>4. cw.pause = cv.pause
  BY <1>1 DEF Attempted, ConvRec
<1>5. k.run = i.claim.run /\ k.submission = "attempted" /\ k.acceptance = "unknown"
  BY <1>2 DEF ClaimRec
<1> HIDE DEF cw, k
<1>6. cw.item[r].claim = k
  BY <1>2, <1>3 DEF ItemRec
<1>7. /\ NoReversal(i.claim, cw.item[r].claim.submission, cw.item[r].claim.acceptance)
      /\ ~i.claim.uncertain /\ Unresolved(i) /\ Whole(cw.item[r])
  BY <1>5, <1>6 DEF Untouched, AllWhole, Whole, NoReversal, Unresolved
<1>8. Later(cv, cw) /\ NoneOpened(cv, cw)
  BY <1>1, <1>3, <1>4, <1>5, <1>6, <1>7, ClaimStep_Later
<1> QED
  BY <1>8 DEF cw

\* outcome: NoReversal is its guard.
LEMMA Evidenced_Later ==
  ASSUME NEW cv, GoodConv(cv), NEW r \in Req, Unresolved(cv.item[r]),
         NEW sub \in Submission, NEW acc \in Acceptance,
         EvidenceOK(cv.item[r], sub, acc), sub # "attempted",
         cv.item[r].state = "run-linked" \/ sub \in {"not-submitted", "unknown"},
         NoReversal(cv.item[r].claim, sub, acc)
  PROVE  Later(cv, Evidenced(cv, r, sub, acc)) /\ NoneOpened(cv, Evidenced(cv, r, sub, acc))
<1> DEFINE cw == Evidenced(cv, r, sub, acc)
           i == cv.item[r]
           k == WithEvidence(i.claim, sub, acc)
<1>1. cw \in ConvRec /\ Evolves(cv, cw) /\ cv \in ConvRec
  BY Evidenced_Evolves DEF GoodConv
<1>2. i \in ItemRec /\ i.claim \in ClaimRec
  BY ItemFacts
<1>3. /\ cw.item[r] = [i EXCEPT !.claim = k]
      /\ \A x \in Req : x # r => cw.item[x] = cv.item[x]
  <2>1. cw.item = [cv.item EXCEPT ![r].claim = WithEvidence(@, sub, acc)]
    BY <1>1 DEF Evidenced, ConvRec
  <2>2. cv.item \in [Req -> ItemRec]
    BY ItemFacts
  <2> HIDE DEF cw, k
  <2> QED
    BY <2>1, <2>2 DEF k
<1>4. cv.pause # NoPause => cw.pause # NoPause
  <2>1. cw.pause = EvidencePause(cv, sub)
    BY <1>1 DEF Evidenced, ConvRec
  <2> HIDE DEF cw
  <2> QED
    BY <2>1 DEF EvidencePause, PauseIfNone
<1>5. /\ k.run = i.claim.run /\ k.submission = sub /\ k.acceptance = acc
      /\ ~k.uncertain => ~i.claim.uncertain
  BY <1>2 DEF WithEvidence, ClaimRec
<1> HIDE DEF cw, k
<1>6. cw.item[r].claim = k
  BY <1>2, <1>3 DEF ItemRec
<1>7. (Open(cw.item[r]) => ~i.claim.uncertain) /\ Whole(cw.item[r])
  BY <1>5, <1>6 DEF Open, Whole, Submission
<1>8. Later(cv, cw) /\ NoneOpened(cv, cw)
  BY <1>1, <1>3, <1>4, <1>5, <1>6, <1>7, ClaimStep_Later
<1> QED
  BY <1>8 DEF cw

\* settle: the evidence of the claim goes to history with it.
LEMMA Settled_Later ==
  ASSUME NEW cv, GoodConv(cv), NEW r \in Req, NEW status \in Status,
         cv.item[r].state = "run-linked", cv.item[r].claim.submission = "submitted"
  PROVE  Later(cv, Settled(cv, r, status)) /\ NoneOpened(cv, Settled(cv, r, status))
<1> DEFINE cw == Settled(cv, r, status)
           i == cv.item[r]
           j == Ended(i, status)
           raw == [cv EXCEPT !.revision = @ + 1, !.pause = SettlePause(cv, status),
                             !.lastChain = cv.item[r].chain, !.lastRun = cv.item[r].claim.run,
                             !.item[r] = Ended(@, status)]
<1>1. cw \in ConvRec /\ Evolves(cv, cw) /\ cv \in ConvRec
  BY Settled_Evolves DEF GoodConv
<1>2. raw.item = [cv.item EXCEPT ![r] = j] /\ raw.pause = SettlePause(cv, status)
  BY <1>1 DEF ConvRec
<1>3. cw.item = raw.item
  BY DEF Settled, FinishChain
<1>4. cw.pause = raw.pause
  BY DEF Settled, FinishChain
<1>5. cv.item \in [Req -> ItemRec] /\ i \in ItemRec
  BY ItemFacts
<1> HIDE DEF raw, cw, j
<1>6. cw.item[r] = j /\ \A x \in Req : x # r => cw.item[x] = cv.item[x]
  BY <1>2, <1>3, <1>5
<1>7. cv.pause # NoPause => cw.pause # NoPause
  BY <1>2, <1>4 DEF SettlePause, PauseIfNone, Status
<1>8. /\ j.claim.run = i.claim.run /\ j.state = "settled"
      /\ j.claim.submission = i.claim.submission /\ j.claim.acceptance = i.claim.acceptance
  <2> HIDE DEF i
  <2> QED
    BY <1>5, Ended_Fields DEF Status, SameClaim, j
<1>9. /\ NoReversal(i.claim, cw.item[r].claim.submission, cw.item[r].claim.acceptance)
      /\ Unresolved(i) /\ ~Open(cw.item[r]) /\ (Whole(i) => Whole(cw.item[r]))
  BY <1>6, <1>8 DEF NoReversal, Unresolved, Open, Whole
<1>10. Later(cv, cw) /\ NoneOpened(cv, cw)
  BY <1>1, <1>6, <1>7, <1>8, <1>9, ClaimStep_Later
<1> QED
  BY <1>10 DEF cw

\* archiveNotSubmitted likewise.
LEMMA Archived_Later ==
  ASSUME NEW cv, GoodConv(cv), NEW r \in Req, Unresolved(cv.item[r]),
         ~cv.item[r].claim.possibleNative, cv.item[r].claim.submission = "not-submitted"
  PROVE  Later(cv, Archived(cv, r)) /\ NoneOpened(cv, Archived(cv, r))
<1> DEFINE cw == Archived(cv, r)
           i == cv.item[r]
           j == Ended(i, "not-submitted")
           raw == [cv EXCEPT !.revision = @ + 1, !.pause = PauseIfNone(cv, "admission-unavailable"),
                             !.item[r] = Ended(@, "not-submitted")]
<1>1. cw \in ConvRec /\ Evolves(cv, cw) /\ cv \in ConvRec
  BY Archived_Evolves DEF GoodConv
<1>2. raw.item = [cv.item EXCEPT ![r] = j] /\ raw.pause = PauseIfNone(cv, "admission-unavailable")
  BY <1>1 DEF ConvRec
<1>3. cw.item = raw.item
  BY DEF Archived, FinishChain
<1>4. cw.pause = raw.pause
  BY DEF Archived, FinishChain
<1>5. cv.item \in [Req -> ItemRec] /\ i \in ItemRec
  BY ItemFacts
<1> HIDE DEF raw, cw, j
<1>6. cw.item[r] = j /\ \A x \in Req : x # r => cw.item[x] = cv.item[x]
  BY <1>2, <1>3, <1>5
<1>7. cv.pause # NoPause => cw.pause # NoPause
  BY <1>2, <1>4 DEF PauseIfNone
<1>8. /\ j.claim.run = i.claim.run /\ j.state = "settled"
      /\ j.claim.submission = i.claim.submission /\ j.claim.acceptance = i.claim.acceptance
  <2> HIDE DEF i
  <2> QED
    BY <1>5, Ended_Fields DEF SameClaim, j
<1>9. /\ NoReversal(i.claim, cw.item[r].claim.submission, cw.item[r].claim.acceptance)
      /\ ~Open(cw.item[r]) /\ (Whole(i) => Whole(cw.item[r]))
  BY <1>6, <1>8 DEF NoReversal, Unresolved, Open, Whole
<1>10. Later(cv, cw) /\ NoneOpened(cv, cw)
  BY <1>1, <1>6, <1>7, <1>8, <1>9, ClaimStep_Later
<1> QED
  BY <1>10 DEF cw

\* recover: what was open is uncertain from then on.
LEMMA Recovered_Later ==
  ASSUME NEW cv, GoodConv(cv)
  PROVE  /\ Later(cv, Recovered(cv))
         /\ \A x \in Req : ~Open(Recovered(cv).item[x])
<1> DEFINE cw == Recovered(cv)
           M(x) == IF Unresolved(cv.item[x]) THEN [cv.item[x] EXCEPT !.claim.uncertain = TRUE] ELSE cv.item[x]
<1>1. cv \in ConvRec /\ \A x \in Req : cv.item[x] \in ItemRec /\ cv.item[x].claim \in ClaimRec
  BY ItemFacts DEF GoodConv
<1>2. CASE ~Some(Active, cv)
  <2>1. cw = cv /\ \A x \in Req : ~Open(cv.item[x])
    BY <1>2 DEF Recovered, Some, Active, Open, Unresolved
  <2> QED
    BY <2>1, SameLater
<1>3. CASE Some(Active, cv)
  <2>1. cw = [cv EXCEPT !.revision = @ + 1, !.pause = PauseIfNone(cv, "restart"), !.item = [x \in Req |-> M(x)]]
    BY <1>3 DEF Recovered
  <2>2. \A x \in Req : cw.item[x] = M(x)
    BY <1>1, <2>1 DEF ConvRec
  <2>3. cw.revision = cv.revision + 1 /\ cw.pause # NoPause /\ cv.revision \in Nat
    BY <1>1, <2>1 DEF ConvRec, PauseIfNone, NoPause
  <2>4. ASSUME NEW x \in Req PROVE FinalItem(cv.item[x], M(x)) /\ ~Open(M(x))
    <3>1. CASE ~Unresolved(cv.item[x])
      BY <3>1, SameFinal DEF Open
    <3>2. CASE Unresolved(cv.item[x])
      <4> DEFINE i == cv.item[x]
                 k == [i.claim EXCEPT !.uncertain = TRUE]
      <4>1. M(x) = [i EXCEPT !.claim = k]
        BY <1>1, <3>2 DEF ItemRec
      <4>2. k.run = i.claim.run /\ k.submission = i.claim.submission /\ k.acceptance = i.claim.acceptance /\ k.uncertain
        BY <1>1 DEF ClaimRec
      <4> HIDE DEF k, M
      <4>3. M(x).claim = k /\ M(x).state = i.state /\ M(x).seq = i.seq /\ M(x).chain = i.chain
        BY <1>1, <4>1 DEF ItemRec
      <4>4. ~Open(M(x))
        BY <4>2, <4>3 DEF Open
      <4>5. FinalItem(i, M(x))
        BY <3>2, <4>2, <4>3 DEF FinalItem, NoReversal, Unresolved, Whole
      <4> QED
        BY <4>4, <4>5
    <3> QED
      BY <3>1, <3>2
  <2> HIDE DEF cw, M
  <2>5. Later(cv, cw)
    BY <2>2, <2>3, <2>4 DEF Later
  <2>6. \A x \in Req : ~Open(cw.item[x])
    BY <2>2, <2>4
  <2> QED
    BY <2>5, <2>6 DEF cw
<1> QED
  BY <1>2, <1>3

\* enqueue: the new item took nobody's place.
LEMMA Enqueued_Later ==
  ASSUME NEW rec, RecOK(rec), NEW c \in Conv, NEW r \in Req, NEW p \in Pin, NEW n \in Native,
         Unused(rec.conv[c], r)
  PROVE  LET rec2 == Enqueued(rec, c, r, p, n) IN
         Ahead(rec, rec2) /\ \A d \in Conv : NoneOpened(rec.conv[d], rec2.conv[d])
<1> DEFINE cv == rec.conv[c]
           chain == IF cv.chain = 0 THEN rec.next ELSE cv.chain
           new == [NoItem EXCEPT !.state = "waiting", !.seq = rec.next, !.chain = chain,
                                 !.pin = p, !.native = n, !.receipt = cv.revision + 1]
           cw == [cv EXCEPT !.revision = @ + 1, !.chain = chain, !.pin = p, !.item[r] = new]
           rec2 == Enqueued(rec, c, r, p, n)
<1>1. GoodConv(cv) /\ cv \in ConvRec /\ rec.conv \in [Conv -> ConvRec]
  BY ConvOfRecords DEF GoodConv, RecOK, Records
<1>2. rec2.conv = [rec.conv EXCEPT ![c] = cw]
  BY DEF Enqueued
<1>3. new.state = "waiting" /\ new.claim = NoClaim
  BY DEF NoItem
<1> HIDE DEF new
<1>4. /\ cw.revision = cv.revision + 1 /\ cw.pause = cv.pause /\ cv.revision \in Nat
      /\ cw.item[r] = new /\ \A x \in Req : x # r => cw.item[x] = cv.item[x]
  BY <1>1 DEF ConvRec
<1> HIDE DEF cw
<1>5. cv.item[r].state = "absent" /\ cv.item[r].claim = NoClaim
  BY <1>1, ItemFacts DEF Unused, NoItem
<1>6. FinalItem(cv.item[r], new)
  BY <1>3, <1>5 DEF FinalItem, Whole
<1>7. Later(cv, cw)
  BY <1>4, <1>6, SameFinal DEF Later
<1>8. NoneOpened(cv, cw)
  BY <1>3, <1>4 DEF NoneOpened, Open, Unresolved
<1>9. \A d \in Conv : rec2.conv[d] = IF d = c THEN cw ELSE rec.conv[d]
  BY <1>1, <1>2
<1> HIDE DEF rec2
<1>10. Ahead(rec, rec2)
  BY <1>7, <1>9, SameLater DEF Ahead
<1>11. \A d \in Conv : NoneOpened(rec.conv[d], rec2.conv[d])
  BY <1>8, <1>9 DEF NoneOpened
<1> QED
  BY <1>10, <1>11 DEF rec2
----------------------------------------------------------------------------
(* The steps. *)

\* The open claims of rec belong to the runs of own.
OpenIn(rec, own) == \A c \in Conv, r \in Req :
  Open(rec.conv[c].item[r]) => rec.conv[c].item[r].claim.run \in own

\* What is later than whole evidence is whole.
LEMMA AheadWhole ==
  ASSUME NEW rec, NEW rec2, Ahead(rec, rec2), \A c \in Conv : AllWhole(rec.conv[c])
  PROVE  \A c \in Conv : AllWhole(rec2.conv[c])
BY DEF Ahead, Later, FinalItem, AllWhole

\* Published or half written, a candidate that is later keeps the invariant.
LEMMA LaterPublished ==
  ASSUME HInv, IInv', NEW cand, Ahead(mem, cand), mem = disk,
         \/ mem' = cand /\ disk' = cand /\ (recoveryRequired' \/ OpenIn(cand, mine'))
         \/ disk' \in {disk, cand} /\ UNCHANGED <<mem, recoveryRequired, mine>>
  PROVE  HInv' /\ Ahead(mem, mem')
<1>1. Ahead(mem, mem) /\ Ahead(cand, cand)
  BY SameLater DEF Ahead
<1>2. \A c \in Conv : AllWhole(mem.conv[c]) /\ AllWhole(cand.conv[c])
  <2>1. \A c \in Conv : AllWhole(mem.conv[c])
    BY DEF HInv
  <2> QED
    BY <2>1, AheadWhole
<1>3. ~recoveryRequired => OpenIn(mem, mine)
  BY DEF HInv, OpenIn
<1>4. CASE mem' = cand /\ disk' = cand /\ (recoveryRequired' \/ OpenIn(cand, mine'))
  BY <1>1, <1>2, <1>4 DEF HInv, OpenIn
<1>5. CASE disk' \in {disk, cand} /\ UNCHANGED <<mem, recoveryRequired, mine>>
  <2>1. Ahead(mem', disk') /\ Ahead(mem, mem')
    BY <1>1, <1>5
  <2>2. \A c \in Conv : AllWhole(mem'.conv[c]) /\ AllWhole(disk'.conv[c])
    BY <1>2, <1>5
  <2>3. ~recoveryRequired' => OpenIn(mem', mine')
    BY <1>3, <1>5
  <2> QED
    BY <2>1, <2>2, <2>3 DEF HInv, OpenIn
<1> QED
  BY <1>4, <1>5

\* One conversation that is later makes later records.
LEMMA PutLater ==
  ASSUME NEW c \in Conv, NEW cw, Later(mem.conv[c], cw), mem.conv \in [Conv -> ConvRec], mem \in Records
  PROVE  /\ Ahead(mem, Put(c, cw))
         /\ \A d \in Conv : Put(c, cw).conv[d] = IF d = c THEN cw ELSE mem.conv[d]
<1>1. \A d \in Conv : Put(c, cw).conv[d] = IF d = c THEN cw ELSE mem.conv[d]
  BY DEF Put, Records
<1> QED
  BY <1>1, SameLater DEF Ahead

\* An operation on one conversation that opens no claim.
LEMMA MutatedLater ==
  ASSUME HInv, IInv', NEW c \in Conv, NEW cw,
         Later(mem.conv[c], cw), NoneOpened(mem.conv[c], cw), Mutate(c, cw, NoEffect)
  PROVE  HInv' /\ Ahead(mem, mem')
<1>1. /\ mem = disk /\ mem \in Records /\ mem.conv \in [Conv -> ConvRec] /\ failed = "no" /\ ~recoveryRequired
      /\ failed' # "invariant"
  BY DEF HInv, IInv, TypeOK, RecordsInv, NeverPoisoned, Mutate, Change, Records
<1>2. /\ Ahead(mem, Put(c, cw))
      /\ \A d \in Conv : Put(c, cw).conv[d] = IF d = c THEN cw ELSE mem.conv[d]
  BY <1>1, PutLater
<1>3. OpenIn(Put(c, cw), mine)
  BY <1>1, <1>2 DEF OpenIn, HInv, NoneOpened
<1>4. \/ mem' = Put(c, cw) /\ disk' = Put(c, cw) /\ mine' = mine
      \/ disk' \in {disk, Put(c, cw)} /\ UNCHANGED <<mem, recoveryRequired, mine>>
  BY DEF Mutate, Change, NoEffect
<1> QED
  BY <1>1, <1>2, <1>3, <1>4, LaterPublished

\* What a healthy store knows of the conversation it is asked about.
LEMMA AskedOf ==
  ASSUME HInv
  PROVE  /\ \A c \in Conv : GoodConv(mem.conv[c]) /\ AllWhole(mem.conv[c])
         /\ RecOK(mem) /\ mem \in Records /\ mem.conv \in [Conv -> ConvRec]
         /\ failed = "no" => mem = disk
BY Healthy DEF HInv, RecOK, Records

\* enqueue keeps the invariant, and the records are no earlier.
LEMMA EnqueueLater ==
  ASSUME HInv, IInv', NEW c \in Conv, NEW r \in Req, NEW p \in Pin, NEW n \in Native, Enqueue(c, r, p, n)
  PROVE  HInv' /\ Ahead(mem, mem')
<1> DEFINE cand == Enqueued(mem, c, r, p, n)
<1>1. Ahead(mem, cand) /\ \A d \in Conv : NoneOpened(mem.conv[d], cand.conv[d])
  BY AskedOf, Enqueued_Later DEF Enqueue
<1>2. mem = disk /\ ~recoveryRequired /\ failed' # "invariant"
  BY AskedOf DEF Enqueue, Change, HInv, IInv, RecordsInv, NeverPoisoned
<1>3. OpenIn(cand, mine)
  BY <1>1, <1>2 DEF OpenIn, HInv, NoneOpened
<1>4. \/ mem' = cand /\ disk' = cand /\ mine' = mine
      \/ disk' \in {disk, cand} /\ UNCHANGED <<mem, recoveryRequired, mine>>
  BY <1>2 DEF Enqueue, Change, NoEffect
<1> HIDE DEF cand
<1> QED
  BY <1>1, <1>2, <1>3, <1>4, LaterPublished

\* The operations of a browser and the App on a queue.
LEMMA AskLater ==
  ASSUME HInv, IInv', NEW c \in Conv, Ask(c)
  PROVE  HInv' /\ Ahead(mem, mem')
<1>1. GoodConv(mem.conv[c])
  BY AskedOf
<1>2. ASSUME NEW o \in Req, NEW r \in Req, Remove(c, o, r) PROVE HInv' /\ Ahead(mem, mem')
  BY <1>1, <1>2, Removed_Later, MutatedLater DEF Remove
<1>3. ASSUME NEW o \in Req, NEW e \in 1..MaxRevision, Resume(c, o, e) PROVE HInv' /\ Ahead(mem, mem')
  BY <1>1, <1>3, Resumed_Later, MutatedLater DEF Resume
<1>4. ASSUME NEW code \in PauseCode, Pause(c, code) PROVE HInv' /\ Ahead(mem, mem')
  BY <1>1, <1>4, Paused_Later, MutatedLater DEF Pause
<1> QED
  BY <1>2, <1>3, <1>4, EnqueueLater DEF Ask

\* claim: the one open claim is of a run the process claims now.
LEMMA ClaimLater ==
  ASSUME HInv, IInv', NEW c \in Conv, NEW r \in Req, NEW run \in Run, NEW pred \in Run \cup {NoRun},
         NEW e, Claim(c, r, run, pred, e)
  PROVE  HInv' /\ Ahead(mem, mem')
<1> DEFINE cw == Claimed(mem.conv[c], r, run, pred)
           cand == Put(c, cw)
<1>1. /\ Later(mem.conv[c], cw)
      /\ \A x \in Req : Open(cw.item[x]) => cw.item[x].claim.run = run
  BY AskedOf, Claimed_Later DEF Claim
<1>2. /\ mem = disk /\ ~recoveryRequired /\ failed' # "invariant"
      /\ Mutate(c, cw, mine' = mine \cup {run} /\ UNCHANGED <<recoveryRequired, granted>>)
  BY AskedOf DEF Claim, Mutate, Change, HInv, IInv, RecordsInv, NeverPoisoned
<1> HIDE DEF cw
<1>3. Ahead(mem, cand) /\ \A d \in Conv : cand.conv[d] = IF d = c THEN cw ELSE mem.conv[d]
  BY <1>1, AskedOf, PutLater
<1>4. \/ mem' = cand /\ disk' = cand /\ mine' = mine \cup {run}
      \/ disk' \in {disk, cand} /\ UNCHANGED <<mem, recoveryRequired, mine>>
  BY <1>2 DEF Mutate, Change
<1> HIDE DEF cand
<1>5. OpenIn(cand, mine \cup {run})
  BY <1>1, <1>2, <1>3 DEF OpenIn, HInv
<1> QED
  BY <1>2, <1>3, <1>4, <1>5, LaterPublished

\* beforeNative: the grant touches neither the claim's run nor its owner.
LEMMA BeforeNativeLater ==
  ASSUME HInv, IInv', NEW c \in Conv, NEW r \in Req, BeforeNative(c, r)
  PROVE  HInv' /\ Ahead(mem, mem')
<1> DEFINE cw == Attempted(mem.conv[c], r)
           cand == Put(c, cw)
<1>1. Later(mem.conv[c], cw) /\ NoneOpened(mem.conv[c], cw)
  BY AskedOf, Attempted_Later DEF BeforeNative
<1>2. mem = disk /\ ~recoveryRequired /\ failed' # "invariant"
  BY AskedOf DEF BeforeNative, Mutate, Change, HInv, IInv, RecordsInv, NeverPoisoned
<1>3. \/ mem' = cand /\ disk' = cand /\ mine' = mine
      \/ disk' \in {disk, cand} /\ UNCHANGED <<mem, recoveryRequired, mine>>
  BY <1>2 DEF BeforeNative, Mutate, Change
<1> HIDE DEF cw
<1>4. Ahead(mem, cand) /\ \A d \in Conv : cand.conv[d] = IF d = c THEN cw ELSE mem.conv[d]
  BY <1>1, AskedOf, PutLater
<1> HIDE DEF cand
<1>5. OpenIn(cand, mine)
  BY <1>1, <1>2, <1>4 DEF OpenIn, HInv, NoneOpened
<1> QED
  BY <1>2, <1>3, <1>4, <1>5, LaterPublished

\* The steps of a dispatch.
LEMMA DispatchLater ==
  ASSUME HInv, IInv', NEW c \in Conv, Dispatch(c)
  PROVE  HInv' /\ Ahead(mem, mem')
<1>1. GoodConv(mem.conv[c])
  BY AskedOf
<1>2. ASSUME NEW r \in Req, Link(c, r) PROVE HInv' /\ Ahead(mem, mem')
  BY <1>1, <1>2, Linked_Later, MutatedLater DEF Link
<1>3. ASSUME NEW r \in Req, ArchiveNotSubmitted(c, r) PROVE HInv' /\ Ahead(mem, mem')
  BY <1>1, <1>3, Archived_Later, MutatedLater DEF ArchiveNotSubmitted, Owned
<1>4. ASSUME NEW r \in Req, NEW sub \in Submission, NEW acc \in Acceptance, Outcome(c, r, sub, acc)
      PROVE  HInv' /\ Ahead(mem, mem')
  BY <1>1, <1>4, Evidenced_Later, MutatedLater DEF Outcome, Owned
<1>5. ASSUME NEW r \in Req, NEW status \in Status, Settle(c, r, status) PROVE HInv' /\ Ahead(mem, mem')
  BY <1>1, <1>5, Settled_Later, MutatedLater DEF Settle
<1> QED
  BY <1>2, <1>3, <1>4, <1>5, ClaimLater, BeforeNativeLater DEF Dispatch

\* recover: no claim of the last process stays open.
LEMMA RecoverLater ==
  ASSUME HInv, IInv', Recover
  PROVE  HInv' /\ Ahead(mem, mem')
<1> DEFINE cand == [mem EXCEPT !.conv = [c \in Conv |-> Recovered(mem.conv[c])]]
<1>1. mem = disk /\ mem \in Records /\ failed' # "invariant"
  BY AskedOf DEF Recover, Change, HInv, IInv, RecordsInv, NeverPoisoned
<1>2. \A c \in Conv : cand.conv[c] = Recovered(mem.conv[c])
  BY <1>1 DEF Records
<1>3. \/ mem' = cand /\ disk' = cand /\ mine' = mine
      \/ disk' \in {disk, cand} /\ UNCHANGED <<mem, recoveryRequired, mine>>
  BY <1>1 DEF Recover, Change
<1> HIDE DEF cand
<1>4. Ahead(mem, cand)
  BY <1>2, AskedOf, Recovered_Later DEF Ahead
<1>5. OpenIn(cand, mine)
  BY <1>2, AskedOf, Recovered_Later DEF OpenIn
<1> QED
  BY <1>1, <1>3, <1>4, <1>5, LaterPublished

\* A restart publishes what the disk holds; where nothing is active nothing is open.
LEMMA RestartLater ==
  ASSUME HInv, IInv', Restart
  PROVE  HInv' /\ Ahead(mem, mem')
<1>1. mem' = disk /\ disk' = disk /\ Ahead(mem, mem')
  BY DEF Restart, HInv
<1>2. Ahead(mem', disk')
  BY <1>1, SameLater DEF Ahead
<1>3. ~recoveryRequired' => OpenIn(mem', mine')
  BY <1>1 DEF Restart, OpenIn, Open, Some, Active, Unresolved
<1> QED
  BY <1>1, <1>2, <1>3 DEF HInv, OpenIn

\* Every step keeps the invariant, and no step leaves earlier records behind.
LEMMA StepLater ==
  ASSUME HInv, [Next]_vars
  PROVE  HInv' /\ Ahead(mem, mem')
<1>1. IInv'
  BY NextOK DEF HInv
<1>2. CASE UNCHANGED vars
  BY <1>1, <1>2, SameLater DEF HInv, vars, Ahead
<1>3. CASE FenceFails
  BY <1>1, <1>3, SameLater DEF HInv, FenceFails, Ahead
<1> QED
  BY <1>1, <1>2, <1>3, AskLater, DispatchLater, RecoverLater, RestartLater DEF Next

\* At the start nothing is recorded.
LEMMA InitLater ==
  ASSUME Init
  PROVE  HInv
<1>1. IInv
  BY InitOK
<1>2. Ahead(mem, disk)
  BY SameLater DEF Init, Ahead
<1>3. \A c \in Conv, r \in Req : mem.conv[c].item[r] = NoItem /\ disk.conv[c].item[r] = NoItem
  BY DEF Init, EmptyRecords, NewConv
<1>4. Whole(NoItem) /\ ~Open(NoItem)
  BY DEF Whole, Open, Unresolved, NoItem, NoClaim
<1> QED
  BY <1>1, <1>2, <1>3, <1>4 DEF HInv, AllWhole

\* Only beforeNative grants, to the claim of a run the process claimed itself.
LEMMA OnlyBeforeNative ==
  ASSUME HInv, Next, NEW c \in Conv, granted'[c] # granted[c]
  PROVE  \E r \in Req : BeforeNative(c, r) /\ granted' = [granted EXCEPT ![c] = Append(@, r)]
<1>1. granted \in [Conv -> Seq(Req)]
  BY DEF HInv, IInv, TypeOK
<1>2. ASSUME NEW d \in Conv, Ask(d) PROVE FALSE
  <2>1. ASSUME NEW cand, Change(cand, NoEffect) PROVE FALSE
    BY <2>1 DEF Change, NoEffect
  <2>2. ASSUME NEW d2, NEW cw, Mutate(d2, cw, NoEffect) PROVE FALSE
    BY <2>1, <2>2 DEF Mutate
  <2> QED
    BY <1>2, <2>1, <2>2 DEF Ask, Enqueue, Remove, Resume, Pause
<1>3. ~Recover /\ ~Restart /\ ~FenceFails
  BY DEF Recover, Restart, FenceFails, Change
<1>4. PICK d \in Conv : Dispatch(d)
  BY <1>2, <1>3 DEF Next
<1>5. ASSUME NEW cw, Mutate(d, cw, NoEffect) PROVE FALSE
  BY <1>5 DEF Mutate, Change, NoEffect
<1>6. ASSUME NEW r, NEW run, NEW pred, NEW e, Claim(d, r, run, pred, e) PROVE FALSE
  BY <1>6 DEF Claim, Mutate, Change
<1>7. \E r \in Req : BeforeNative(d, r)
  BY <1>4, <1>5, <1>6 DEF Dispatch, Link, ArchiveNotSubmitted, Outcome, Settle
<1>8. ASSUME NEW r \in Req, BeforeNative(d, r) PROVE granted' = [granted EXCEPT ![d] = Append(@, r)]
  BY <1>8 DEF BeforeNative, Mutate, Change
<1> QED
  BY <1>1, <1>7, <1>8

\* HInv is an invariant of the store.
THEOREM RecordsOnlyAdvance == Spec => []HInv
<1>1. Init => HInv
  BY InitLater
<1>2. HInv /\ [Next]_vars => HInv'
  BY StepLater
<1> QED
  BY <1>1, <1>2, PTL DEF Spec

\* A durable pause ends only with a resume request the records keep (store.ts resume).
THEOREM PausesHold == Spec => OnlyResumeClearsPause
<1>1. HInv /\ [Next]_vars =>
        [\A c \in Conv : mem.conv[c].pause # NoPause /\ mem'.conv[c].pause = NoPause =>
           \E o \in Req : mem.conv[c].op[o].kind = "none" /\ mem'.conv[c].op[o].kind = "resume"]_vars
  BY StepLater DEF Ahead, Later
<1> QED
  BY <1>1, RecordsOnlyAdvance, PTL DEF Spec, OnlyResumeClearsPause

\* A conversation that looks different has a greater revision (bump in store.ts).
THEOREM RevisionsWitness == Spec => RevisionWitnessesChange
<1>1. HInv /\ [Next]_vars =>
        [\A c \in Conv : mem'.conv[c] # mem.conv[c] => mem'.conv[c].revision > mem.conv[c].revision]_vars
  BY StepLater DEF Ahead, Later
<1> QED
  BY <1>1, RecordsOnlyAdvance, PTL DEF Spec, RevisionWitnessesChange

\* What is acknowledged stays in its place, what has ended is final, and evidence
\* is never reversed (store.ts owned, outcome, settle).
THEOREM HistoryStays == Spec => HistoryIsFinal
<1>1. HInv /\ [Next]_vars =>
        [\A c \in Conv, r \in Req :
           LET i == mem.conv[c].item[r]  j == mem'.conv[c].item[r] IN
           /\ i.state # "absent" => j.state # "absent" /\ j.seq = i.seq /\ j.chain = i.chain
           /\ i.state \in {"removed", "settled"} => j = i
           /\ i.claim # NoClaim => j.claim.run = i.claim.run /\ NoReversal(i.claim, j.claim.submission, j.claim.acceptance)]_vars
  BY StepLater DEF Ahead, Later, FinalItem
<1> QED
  BY <1>1, RecordsOnlyAdvance, PTL DEF Spec, HistoryIsFinal

\* The native boundary opens only for a run the present process claimed (store.ts
\* beforeNative after recover): no later process replays a claim.
THEOREM GrantsToClaimants == Spec => GrantOnlyByClaimant
<1>1. HInv /\ [Next]_vars =>
        [\A c \in Conv : granted'[c] # granted[c] =>
           LET r == granted'[c][Len(granted'[c])] IN
           /\ mem.conv[c].item[r].claim.run \in mine
           /\ \A q \in Req : ~(Unresolved(mem.conv[c].item[q]) /\ mem.conv[c].item[q].claim.uncertain)
           /\ ~recoveryRequired]_vars
  <2> SUFFICES ASSUME HInv, Next, NEW c \in Conv, granted'[c] # granted[c]
               PROVE  LET r == granted'[c][Len(granted'[c])] IN
                      /\ mem.conv[c].item[r].claim.run \in mine
                      /\ \A q \in Req : ~(Unresolved(mem.conv[c].item[q]) /\ mem.conv[c].item[q].claim.uncertain)
                      /\ ~recoveryRequired
    BY DEF vars
  <2>1. PICK r \in Req : BeforeNative(c, r) /\ granted' = [granted EXCEPT ![c] = Append(@, r)]
    BY OnlyBeforeNative
  <2>2. granted'[c][Len(granted'[c])] = r
    BY <2>1 DEF HInv, IInv, TypeOK
  <2>3. ~recoveryRequired /\ mem.conv[c].item[r].state = "run-linked" /\ Untouched(mem.conv[c].item[r].claim)
    BY <2>1 DEF BeforeNative, Mutate
  <2>4. mem.conv[c].item[r].claim.run \in mine
    BY <2>3 DEF HInv, Open, Unresolved, Untouched
  <2>5. ASSUME NEW q \in Req, Unresolved(mem.conv[c].item[q]) PROVE ~mem.conv[c].item[q].claim.uncertain
    <3>1. q = r
      BY <2>3, <2>5, AskedOf DEF GoodConv, ConvOK, ChainShape, Unresolved
    <3> QED
      BY <2>3, <3>1 DEF Untouched
  <2> QED
    BY <2>2, <2>3, <2>4, <2>5
<1> QED
  BY <1>1, RecordsOnlyAdvance, PTL DEF Spec, GrantOnlyByClaimant
=============================================================================
