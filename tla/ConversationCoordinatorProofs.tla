-------------------- MODULE ConversationCoordinatorProofs --------------------
(***************************************************************************)
(* Proofs about ConversationCoordinator, for every set of conversations,   *)
(* leases and owners and every limit.                                      *)
(*                                                                         *)
(* OneExecution speaks of the moment a second owner is installed, when the *)
(* registry no longer shows the first one.  Gone is what makes it          *)
(* inductive: whoever has left the registry had settled with no interrupt  *)
(* on its way, and nothing starts one for an owner that has left.          *)
(***************************************************************************)
EXTENDS ConversationCoordinator, FiniteSetTheorems, TLAPS

Gone == \A p \in Owner :
  run[p].session # NoSession /\ ~Owns(p) => run[p].settled /\ ~run[p].cancelling

IInv == TypeOK /\ LeasesExact /\ OneExecution /\ Gone

----------------------------------------------------------------------------
(* What the actions have in common. *)

\* A lifecycle or bridge step that touches no lease keeps the two maps in step.
LEMMA SameLeases ==
  ASSUME LeasesExact, UNCHANGED <<reservations, leases>>
  PROVE  LeasesExact'
BY DEF LeasesExact

\* A step that touches neither registry, runs nor barriers keeps executions apart.
LEMMA SameExecutions ==
  ASSUME OneExecution, Gone, UNCHANGED <<owners, run, reconciling>>
  PROVE  OneExecution' /\ Gone'
BY DEF OneExecution, Gone, Owns

\* The wake is well typed after a request.
LEMMA WakeType ==
  ASSUME TypeOK, RequestWake \/ UNCHANGED wake
  PROVE  dirty' \in BOOLEAN /\ task' \in {"none", "scheduled", "pass", "ending"}
BY DEF TypeOK, RequestWake, wake, Closing

\* A step that may free a conversation keeps the shape of the owners.
LEMMA LetGoType ==
  ASSUME TypeOK, NEW o \in Owner, NEW r \in RunRec, r.session = run[o].session,
         LetGo(o, r) \/ UNCHANGED <<owners, wake>>
  PROVE  /\ owners' \in [Session -> Owner \cup {NoOwner}]
         /\ dirty' \in BOOLEAN /\ task' \in {"none", "scheduled", "pass", "ending"}
<1>1. RequestWake \/ UNCHANGED wake
  BY DEF LetGo, wake
<1>2. owners' \in [Session -> Owner \cup {NoOwner}]
  BY DEF TypeOK, LetGo, RunRec, Owns
<1> QED
  BY <1>1, <1>2, WakeType

\* A run that settles or whose interrupt ends, and that perhaps lets go of its
\* conversation: the others keep theirs.
LEMMA LetGoExecutions ==
  ASSUME TypeOK, OneExecution, Gone, NEW o \in Owner, NEW r \in RunRec,
         r.session = run[o].session, run[o].settled => r.settled,
         r.cancelling => run[o].cancelling, run[o].session # NoSession,
         run' = [run EXCEPT ![o] = r],
         LetGo(o, r) \/ UNCHANGED <<owners, wake>>, UNCHANGED reconciling
  PROVE  OneExecution' /\ Gone'
<1> USE DEF Owns
<1>0. /\ \A p \in Owner : run'[p] = IF p = o THEN r ELSE run[p]
      /\ \A p \in Owner : run'[p].session = run[p].session
  BY DEF TypeOK
<1>1. \/ UNCHANGED owners
      \/ /\ Owns(o) /\ r.settled /\ ~r.cancelling
         /\ owners' = [owners EXCEPT ![r.session] = NoOwner]
  BY DEF LetGo
<1>2. \A p \in Owner : Owns(p)' => Owns(p)
  <2> SUFFICES ASSUME NEW p \in Owner, Owns(p)'  PROVE Owns(p)
    OBVIOUS
  <2>1. run[p].session \in Session
    BY <1>0 DEF TypeOK, RunRec
  <2> QED
    BY <1>0, <1>1, <2>1, CoordinatorAssumption DEF TypeOK
<1>3. OneExecution'
  <2> SUFFICES ASSUME NEW q \in Owner, NEW p \in Owner, q # p, Owns(q)',
                      run'[p].session = run'[q].session
               PROVE  run'[p].settled /\ ~run'[p].cancelling /\ reconciling'[run'[q].session] # p
    BY DEF OneExecution
  <2>1. run[p].settled /\ ~run[p].cancelling /\ reconciling[run[q].session] # p
    BY <1>0, <1>2 DEF OneExecution
  <2> QED
    BY <2>1, <1>0
<1>4. Gone'
  <2> SUFFICES ASSUME NEW p \in Owner, run'[p].session # NoSession, ~Owns(p)'
               PROVE  run'[p].settled /\ ~run'[p].cancelling
    BY DEF Gone
  <2>1. CASE ~Owns(p)
    <3>1. run[p].settled /\ ~run[p].cancelling
      BY <2>1, <1>0 DEF Gone
    <3> QED
      BY <3>1, <1>0
  <2>2. CASE Owns(p)
    <3>1. Owns(o) /\ r.settled /\ ~r.cancelling /\ owners' = [owners EXCEPT ![r.session] = NoOwner]
      BY <1>0, <1>1, <2>2
    <3>2. p = o
      BY <3>1, <2>2, <1>0 DEF TypeOK
    <3> QED
      BY <3>1, <3>2, <1>0
  <2> QED
    BY <2>1, <2>2
<1> QED
  BY <1>3, <1>4

\* A run that takes a free conversation in which no barrier stands.
LEMMA Begins ==
  ASSUME TypeOK, OneExecution, Gone, NEW o \in Owner, NEW s \in Session,
         run[o].session = NoSession, owners[s] = NoOwner, reconciling[s] = NoOwner,
         owners' = [owners EXCEPT ![s] = o], run' = Begun(o, s), UNCHANGED reconciling
  PROVE  OneExecution' /\ Gone'
<1>0. /\ run'[o] = [run[o] EXCEPT !.session = s]
      /\ \A p \in Owner : p # o => run'[p] = run[p]
      /\ \A p \in Owner : run'[p].settled = run[p].settled /\ run'[p].cancelling = run[p].cancelling
      /\ run'[o].session = s /\ s # NoSession
  BY CoordinatorAssumption DEF TypeOK, RunRec, Begun
<1>1. \A p \in Owner : p # o => (Owns(p)' <=> Owns(p))
  <2> SUFFICES ASSUME NEW p \in Owner, p # o  PROVE Owns(p)' <=> Owns(p)
    OBVIOUS
  <2>1. run'[p] = run[p] /\ run[p].session \in Session \cup {NoSession}
    BY <1>0 DEF TypeOK, RunRec
  <2> QED
    BY <2>1, CoordinatorAssumption DEF Owns, TypeOK
<1>2. OneExecution'
  <2> SUFFICES ASSUME NEW q \in Owner, NEW p \in Owner, q # p, Owns(q)',
                      run'[p].session = run'[q].session
               PROVE  run'[p].settled /\ ~run'[p].cancelling /\ reconciling'[run'[q].session] # p
    BY DEF OneExecution
  <2>1. CASE q = o
    <3>1. run[p].session = s /\ ~Owns(p)
      BY <2>1, <1>0, CoordinatorAssumption DEF Owns
    <3>2. run[p].settled /\ ~run[p].cancelling
      BY <3>1, <1>0 DEF Gone
    <3>3. reconciling'[s] # p
      BY CoordinatorAssumption
    <3> QED
      BY <3>2, <3>3, <2>1, <1>0
  <2>2. CASE q # o /\ p = o
    <3>1. Owns(q)' /\ run'[q].session = s
      BY <2>2, <1>0
    <3>2. owners'[s] = o
      BY DEF TypeOK
    <3> QED
      BY <3>1, <3>2, <2>2 DEF Owns
  <2>3. CASE q # o /\ p # o
    BY <2>3, <1>0, <1>1 DEF OneExecution
  <2> QED
    BY <2>1, <2>2, <2>3
<1>3. Gone'
  <2> SUFFICES ASSUME NEW p \in Owner, run'[p].session # NoSession, ~Owns(p)'
               PROVE  run'[p].settled /\ ~run'[p].cancelling
    BY DEF Gone
  <2>1. p # o
    <3>1. owners'[s] = o
      BY DEF TypeOK
    <3> QED
      BY <3>1, <1>0 DEF Owns
  <2> QED
    BY <2>1, <1>0, <1>1 DEF Gone
<1> QED
  BY <1>2, <1>3

----------------------------------------------------------------------------
(* Every action keeps the invariant. *)

\* A new coordinator satisfies the invariant.
LEMMA Initial == Init => IInv
<1> SUFFICES ASSUME Init  PROVE IInv
  OBVIOUS
<1>1. TypeOK
  BY DEF Init, TypeOK, LeaseRec, NoAdmission, RunRec
<1>2. LeasesExact
  BY CoordinatorAssumption DEF Init, LeasesExact, NoAdmission
<1>3. OneExecution /\ Gone
  BY DEF Init, OneExecution, Gone, Owns
<1> QED
  BY <1>1, <1>2, <1>3 DEF IInv

\* Reserving, extending, installing and releasing a lease keep the invariant.
LEMMA AdmitStep ==
  ASSUME IInv, NEW l \in Lease, Admit(l)
  PROVE  IInv'
<1>0. TypeOK /\ LeasesExact /\ OneExecution /\ Gone
  BY DEF IInv
<1>1. ASSUME NEW ids \in SUBSET Session, NEW e \in BOOLEAN, NEW p \in Owner \cup {NoOwner},
             ReserveAdmission(l, ids, e, p)
      PROVE  IInv'
  <2>1. UNCHANGED <<owners, run, reconciling>>
    BY <1>1 DEF ReserveAdmission
  <2>2. \A s \in ids : reservations[s] = NoLease
    BY <1>1 DEF ReserveAdmission, Admissible, Succeeds
  <2>3. TypeOK'
    BY <1>0, <1>1 DEF ReserveAdmission, TypeOK, LeaseRec, Held, environment, wake
  <2>4. LeasesExact'
    BY <1>0, <1>1, <2>2, CoordinatorAssumption
       DEF ReserveAdmission, LeasesExact, TypeOK, LeaseRec, Held
  <2> QED
    BY <1>0, <2>1, <2>3, <2>4, SameExecutions DEF IInv
<1>2. ASSUME NEW more \in SUBSET Session, ExtendAdmission(l, more)
      PROVE  IInv'
  <2>1. UNCHANGED <<owners, run, reconciling>>
    BY <1>2 DEF ExtendAdmission
  <2>2. \A s \in more : reservations[s] = NoLease
    BY <1>2 DEF ExtendAdmission, Admissible
  <2>3. TypeOK'
    BY <1>0, <1>2 DEF ExtendAdmission, TypeOK, LeaseRec, Held, environment, wake
  <2>4. LeasesExact'
    BY <1>0, <1>2, <2>2, CoordinatorAssumption
       DEF ExtendAdmission, LeasesExact, TypeOK, LeaseRec, Held
  <2> QED
    BY <1>0, <2>1, <2>3, <2>4, SameExecutions DEF IInv
<1>3. ASSUME NEW o \in Owner, NEW s \in Session, InstallOwner(l, o, s)
      PROVE  IInv'
  <2>1. TypeOK'
    BY <1>0, <1>3 DEF InstallOwner, TypeOK, RunRec, Begun, environment, wake
  <2>2. LeasesExact'
    BY <1>0, <1>3, SameLeases DEF InstallOwner
  <2>3. OneExecution' /\ Gone'
    BY <1>0, <1>3, Begins DEF InstallOwner
  <2> QED
    BY <2>1, <2>2, <2>3 DEF IInv
<1>4. CASE ReleaseAdmission(l)
  <2>1. UNCHANGED <<owners, run, reconciling>>
    BY <1>4 DEF ReleaseAdmission
  <2>2. TypeOK'
    <3>1. dirty' \in BOOLEAN /\ task' \in {"none", "scheduled", "pass", "ending"}
      BY <1>0, <1>4, WakeType DEF ReleaseAdmission
    <3>2. reservations' \in [Session -> Lease \cup {NoLease}]
      BY <1>0, <1>4 DEF ReleaseAdmission, TypeOK
    <3>3. leases' \in [Lease -> LeaseRec]
      BY <1>0, <1>4 DEF ReleaseAdmission, TypeOK, LeaseRec, NoAdmission
    <3> QED
      BY <1>0, <1>4, <3>1, <3>2, <3>3 DEF ReleaseAdmission, TypeOK, environment
  <2>3. LeasesExact'
    BY <1>0, <1>4, CoordinatorAssumption DEF ReleaseAdmission, LeasesExact, TypeOK, LeaseRec, NoAdmission
  <2> QED
    BY <1>0, <2>1, <2>2, <2>3, SameExecutions DEF IInv
<1> QED
  BY <1>1, <1>2, <1>3, <1>4 DEF Admit

\* The steps of a run, from observation to the end of reconciliation, keep the invariant.
LEMMA LifecycleStep ==
  ASSUME IInv, NEW o \in Owner, Lifecycle(o)
  PROVE  IInv'
<1>0. TypeOK /\ LeasesExact /\ OneExecution /\ Gone
  BY DEF IInv
<1>1. LeasesExact'
  BY <1>0, SameLeases DEF Lifecycle, AdoptObservedOwner, Settle, ReleaseOwner, Cancel, CancelEnds,
     BeginReconciliation, EndReconciliation
<1>2. ASSUME NEW s \in Session, AdoptObservedOwner(o, s)
      PROVE  IInv'
  <2>1. TypeOK'
    BY <1>0, <1>2 DEF AdoptObservedOwner, TypeOK, RunRec, Begun, environment, wake
  <2>2. OneExecution' /\ Gone'
    BY <1>0, <1>2, Begins DEF AdoptObservedOwner
  <2> QED
    BY <2>1, <2>2, <1>1 DEF IInv
<1>3. CASE Settle(o)
  <2> DEFINE r == [run[o] EXCEPT !.settled = TRUE]
  <2>1. r \in RunRec /\ r.session = run[o].session /\ r.settled /\ r.cancelling = run[o].cancelling
    BY <1>0 DEF TypeOK, RunRec
  <2>2. run' = [run EXCEPT ![o] = r] /\ (LetGo(o, r) \/ UNCHANGED <<owners, wake>>)
        /\ run[o].session # NoSession /\ UNCHANGED reconciling
    BY <1>3 DEF Settle, Owns
  <2> HIDE DEF r
  <2>3. TypeOK'
    BY <1>0, <1>3, <2>1, <2>2, LetGoType DEF TypeOK, Settle, environment
  <2>4. OneExecution' /\ Gone'
    BY <1>0, <2>1, <2>2, LetGoExecutions
  <2> QED
    BY <2>3, <2>4, <1>1 DEF IInv
<1>4. CASE ReleaseOwner(o)
  <2>1. run[o] \in RunRec /\ run' = [run EXCEPT ![o] = run[o]]
    BY <1>0, <1>4 DEF ReleaseOwner, TypeOK
  <2>2. LetGo(o, run[o]) /\ run[o].session # NoSession /\ UNCHANGED reconciling
    BY <1>4 DEF ReleaseOwner, Owns
  <2>3. TypeOK'
    BY <1>0, <1>4, <2>1, <2>2, LetGoType DEF TypeOK, ReleaseOwner, environment
  <2>4. OneExecution' /\ Gone'
    BY <1>0, <2>1, <2>2, LetGoExecutions
  <2> QED
    BY <2>3, <2>4, <1>1 DEF IInv
<1>5. CASE Cancel(o)
  <2>1. TypeOK'
    BY <1>0, <1>5 DEF Cancel, TypeOK, RunRec, environment, wake
  <2>2. /\ UNCHANGED <<owners, reconciling>> /\ Owns(o)
        /\ \A p \in Owner : p # o => run'[p] = run[p]
        /\ \A p \in Owner : run'[p].session = run[p].session
    BY <1>0, <1>5 DEF Cancel, TypeOK, RunRec
  <2>3. \A p \in Owner : Owns(p)' <=> Owns(p)
    BY <2>2 DEF Owns
  <2>4. OneExecution'
    <3> SUFFICES ASSUME NEW q \in Owner, NEW p \in Owner, q # p, Owns(q)',
                        run'[p].session = run'[q].session
                 PROVE  run'[p].settled /\ ~run'[p].cancelling /\ reconciling'[run'[q].session] # p
      BY DEF OneExecution
    <3>1. p # o
      BY <2>2, <2>3 DEF Owns
    <3> QED
      BY <3>1, <2>2, <2>3, <1>0 DEF OneExecution
  <2>5. Gone'
    BY <2>2, <2>3, <1>0 DEF Gone
  <2> QED
    BY <2>1, <2>4, <2>5, <1>1 DEF IInv
<1>6. CASE CancelEnds(o)
  <2> DEFINE r == [run[o] EXCEPT !.cancelling = FALSE]
  <2>1. r \in RunRec /\ r.session = run[o].session /\ r.settled = run[o].settled /\ ~r.cancelling
    BY <1>0 DEF TypeOK, RunRec
  <2>2. run' = [run EXCEPT ![o] = r] /\ LetGo(o, r) /\ UNCHANGED reconciling
    BY <1>6 DEF CancelEnds
  <2>3. run[o].cancelling
    BY <1>6 DEF CancelEnds
  <2> HIDE DEF r
  <2>4. TypeOK'
    BY <1>0, <1>6, <2>1, <2>2, LetGoType DEF TypeOK, CancelEnds, environment
  <2>5. CASE run[o].session # NoSession
    BY <1>0, <1>1, <2>1, <2>2, <2>4, <2>5, LetGoExecutions DEF IInv
  <2>6. CASE run[o].session = NoSession
    <3>1. UNCHANGED owners
      BY <2>2, <2>6 DEF LetGo, Owns
    <3>2. /\ \A p \in Owner : p # o => run'[p] = run[p]
          /\ \A p \in Owner : run'[p].session = run[p].session
          /\ run'[o] = r
      BY <2>1, <2>2, <1>0 DEF TypeOK
    <3>3. \A p \in Owner : Owns(p)' <=> Owns(p)
      BY <3>1, <3>2 DEF Owns
    <3>4. OneExecution' /\ Gone'
      BY <3>2, <3>3, <2>1, <2>2, <1>0 DEF OneExecution, Gone
    <3> QED
      BY <3>4, <2>4, <1>1 DEF IInv
  <2> QED
    BY <2>5, <2>6
<1>7. CASE BeginReconciliation(o)
  <2>1. TypeOK'
    BY <1>0, <1>7 DEF BeginReconciliation, TypeOK, RunRec, Owns, environment, wake
  <2>2. UNCHANGED <<owners, run>> /\ Owns(o)
        /\ reconciling' = [reconciling EXCEPT ![run[o].session] = o]
    BY <1>7 DEF BeginReconciliation
  <2>3. Gone'
    BY <2>2, <1>0 DEF Gone, Owns
  <2>4. OneExecution'
    <3> SUFFICES ASSUME NEW q \in Owner, NEW p \in Owner, q # p, Owns(q),
                        run[p].session = run[q].session
                 PROVE  run[p].settled /\ ~run[p].cancelling /\ reconciling'[run[q].session] # p
      BY <2>2 DEF OneExecution, Owns
    <3>1. p # o
      BY <2>2 DEF Owns
    <3> QED
      BY <3>1, <2>2, <1>0 DEF OneExecution, TypeOK
  <2> QED
    BY <2>1, <2>3, <2>4, <1>1 DEF IInv
<1>8. CASE EndReconciliation(o)
  <2>1. TypeOK'
    <3>1. dirty' \in BOOLEAN /\ task' \in {"none", "scheduled", "pass", "ending"}
      BY <1>0, <1>8, WakeType DEF EndReconciliation
    <3> QED
      BY <1>0, <1>8, <3>1 DEF EndReconciliation, TypeOK, RunRec, environment
  <2>2. UNCHANGED <<owners, run>>
        /\ reconciling' = [reconciling EXCEPT ![run[o].session] = NoOwner]
    BY <1>8 DEF EndReconciliation
  <2>3. Gone'
    BY <2>2, <1>0 DEF Gone, Owns
  <2>4. OneExecution'
    BY <2>2, <1>0, CoordinatorAssumption DEF OneExecution, Owns, TypeOK
  <2> QED
    BY <2>1, <2>3, <2>4, <1>1 DEF IInv
<1> QED
  BY <1>2, <1>3, <1>4, <1>5, <1>6, <1>7, <1>8 DEF Lifecycle

\* The wake task, the rest of the bridge and stuttering keep the invariant.
LEMMA SurroundStep ==
  ASSUME IInv, WakeTask \/ Bridge \/ UNCHANGED vars
  PROVE  IInv'
<1>0. TypeOK /\ LeasesExact /\ OneExecution /\ Gone
  BY DEF IInv
<1>1. UNCHANGED admission
  BY DEF WakeTask, Bridge, WakeLoop, PassEnds, WakeEnds, Occupy, Vacate, StartupReady, Retain,
     BridgeCloses, Close, vars, admission
<1>2. LeasesExact' /\ OneExecution' /\ Gone'
  BY <1>0, <1>1, SameLeases, SameExecutions DEF admission
<1>3. TypeOK'
  <2>1. CASE WakeTask
    BY <1>0, <1>1, <2>1 DEF WakeTask, WakeLoop, PassEnds, WakeEnds, TypeOK, admission, environment
  <2>2. ASSUME NEW s \in Session, Occupy(s) \/ Vacate(s)
        PROVE  TypeOK'
    <3>1. dirty' \in BOOLEAN /\ task' \in {"none", "scheduled", "pass", "ending"}
      BY <1>0, <2>2, WakeType DEF Occupy, Vacate
    <3> QED
      BY <1>0, <1>1, <2>2, <3>1 DEF Occupy, Vacate, TypeOK, admission
  <2>3. CASE StartupReady \/ Retain \/ BridgeCloses \/ Close
    BY <1>0, <1>1, <2>3 DEF StartupReady, Retain, BridgeCloses, Close, TypeOK, admission, wake
  <2>4. CASE UNCHANGED vars
    BY <1>0, <2>4 DEF vars, TypeOK
  <2> QED
    BY <2>1, <2>2, <2>3, <2>4 DEF Bridge
<1> QED
  BY <1>2, <1>3 DEF IInv

\* The induction step: every action keeps the invariant.
LEMMA Step == IInv /\ [Next]_vars => IInv'
BY AdmitStep, LifecycleStep, SurroundStep DEF Next

\* Everything the invariant says holds of every execution.
THEOREM Invariance == Spec => []IInv
BY Initial, Step, PTL DEF Spec

\* The registry, the reservations and the wake keep their types.
THEOREM TypeCorrect == Spec => []TypeOK
<1>1. IInv => TypeOK
  BY DEF IInv
<1> QED
  BY <1>1, Invariance, PTL

\* No reservation without the lease that lists it: coordinator.ts:199-259.
THEOREM LeasesAgree == Spec => []LeasesExact
<1>1. IInv => LeasesExact
  BY DEF IInv
<1> QED
  BY <1>1, Invariance, PTL

\* A conversation with an owner has no other execution left.
THEOREM ExecutionsApart == Spec => []OneExecution
<1>1. IInv => OneExecution
  BY DEF IInv
<1> QED
  BY <1>1, Invariance, PTL

----------------------------------------------------------------------------
(* Capacity. *)

\* Conversations that fit leave the number of live ones within the limit.
LEMMA FitsBounds ==
  ASSUME TypeOK, NEW targets \in SUBSET Session, Fits(targets), ~(targets \subseteq Occupied)
  PROVE  Cardinality(Occupied \cup targets) <= MaxConcurrent
<1> DEFINE fresh == targets \ Occupied
<1>1. Occupied \subseteq Session /\ fresh \subseteq Session /\ fresh # {}
  BY DEF Occupied
<1>2. IsFiniteSet(Occupied) /\ IsFiniteSet(fresh)
  BY <1>1, FS_Subset, CoordinatorAssumption
<1>3. Cardinality(Occupied) \in Nat /\ Cardinality(fresh) \in Nat
  BY <1>2, FS_CardinalityType
<1>4. Occupied \cap fresh = {} /\ Occupied \cup targets = Occupied \cup fresh
  OBVIOUS
<1>5. Cardinality(Occupied \cup fresh) = Cardinality(Occupied) + Cardinality(fresh)
  <2>1. Cardinality(Occupied \cup fresh)
          = Cardinality(Occupied) + Cardinality(fresh) - Cardinality(Occupied \cap fresh)
    BY <1>2, FS_Union
  <2>2. Cardinality(Occupied \cap fresh) = 0
    BY <1>4, FS_EmptySet
  <2> QED
    BY <2>1, <2>2, <1>3
<1>6. Cardinality(Occupied) + Cardinality(fresh) <= MaxConcurrent
  BY <1>1 DEF Fits
<1> QED
  BY <1>4, <1>5, <1>6

\* Only an admission adds a conversation that is not in the domain stores.
LEMMA OnlyAdmissionOccupies ==
  ASSUME TypeOK, [Next]_vars, external' = external
  PROVE  \/ Occupied' \subseteq Occupied
         \/ \E targets \in SUBSET Session :
              Fits(targets) /\ ~(targets \subseteq Occupied) /\ Occupied' = Occupied \cup targets
<1>1. ASSUME NEW l \in Lease, NEW ids \in SUBSET Session, NEW e \in BOOLEAN,
             NEW p \in Owner \cup {NoOwner}, ReserveAdmission(l, ids, e, p)
      PROVE  \/ Occupied' \subseteq Occupied
             \/ \E targets \in SUBSET Session :
                  Fits(targets) /\ ~(targets \subseteq Occupied) /\ Occupied' = Occupied \cup targets
  <2>1. Occupied' = Occupied \cup ids
    BY <1>1, CoordinatorAssumption DEF ReserveAdmission, Held, Occupied, environment, TypeOK
  <2>2. CASE p = NoOwner
    BY <1>1, <2>1, <2>2 DEF ReserveAdmission, Admissible
  <2>3. CASE p # NoOwner
    BY <1>1, <2>1, <2>3 DEF ReserveAdmission, Succeeds, Occupied
  <2> QED
    BY <2>2, <2>3
<1>2. ASSUME NEW l \in Lease, NEW more \in SUBSET Session, ExtendAdmission(l, more)
      PROVE  \/ Occupied' \subseteq Occupied
             \/ \E targets \in SUBSET Session :
                  Fits(targets) /\ ~(targets \subseteq Occupied) /\ Occupied' = Occupied \cup targets
  <2>1. Occupied' = Occupied \cup more
    BY <1>2, CoordinatorAssumption DEF ExtendAdmission, Held, Occupied, environment, TypeOK
  <2> QED
    BY <1>2, <2>1 DEF ExtendAdmission, Admissible
<1>3. ASSUME NEW l \in Lease, NEW o \in Owner, NEW s \in Session, InstallOwner(l, o, s)
      PROVE  Occupied' \subseteq Occupied
  <2>1. s \in Occupied
    BY <1>3, CoordinatorAssumption DEF InstallOwner, Occupied
  <2> QED
    BY <1>3, <2>1 DEF InstallOwner, Occupied, environment, TypeOK
<1>4. ASSUME NEW l \in Lease, ReleaseAdmission(l)
      PROVE  Occupied' \subseteq Occupied
  BY <1>4 DEF ReleaseAdmission, Occupied, environment
<1>5. ASSUME NEW o \in Owner, NEW s \in Session, AdoptObservedOwner(o, s)
      PROVE  Occupied' \subseteq Occupied
  BY <1>5 DEF AdoptObservedOwner, Occupied, environment, TypeOK
<1>6. ASSUME NEW o \in Owner, Settle(o) \/ ReleaseOwner(o) \/ CancelEnds(o)
      PROVE  Occupied' \subseteq Occupied
  <2>1. UNCHANGED <<reservations, reconciling>>
    BY <1>6 DEF Settle, ReleaseOwner, CancelEnds
  <2>2. \A s \in Session : owners'[s] # NoOwner => owners[s] # NoOwner
    BY <1>6 DEF Settle, ReleaseOwner, CancelEnds, LetGo, TypeOK
  <2> QED
    BY <2>1, <2>2 DEF Occupied
<1>7. ASSUME NEW o \in Owner, Cancel(o) \/ BeginReconciliation(o) \/ EndReconciliation(o)
      PROVE  Occupied' \subseteq Occupied
  <2>1. CASE Cancel(o)
    BY <2>1 DEF Cancel, Occupied, environment
  <2>2. CASE BeginReconciliation(o)
    BY <2>2, CoordinatorAssumption DEF BeginReconciliation, Occupied, Owns, environment, TypeOK
  <2>3. CASE EndReconciliation(o)
    BY <2>3 DEF EndReconciliation, Occupied, environment, TypeOK
  <2> QED
    BY <1>7, <2>1, <2>2, <2>3
<1>8. ASSUME WakeTask \/ Bridge \/ UNCHANGED vars
      PROVE  Occupied' \subseteq Occupied
  <2>1. UNCHANGED admission
    BY <1>8 DEF WakeTask, Bridge, WakeLoop, PassEnds, WakeEnds, Occupy, Vacate, StartupReady, Retain,
       BridgeCloses, Close, vars, admission
  <2> QED
    BY <2>1 DEF Occupied, admission
<1> QED
  BY <1>1, <1>2, <1>3, <1>4, <1>5, <1>6, <1>7, <1>8 DEF Next, Admit, Lifecycle

\* No admission exceeds the limit: coordinator.ts:188-196.
THEOREM CapacityKept == Spec => WithinCapacity
<1>1. TypeOK /\ [Next]_vars =>
        [external' = external /\ ~(Occupied' \subseteq Occupied)
           => Cardinality(Occupied') <= MaxConcurrent]_vars
  BY OnlyAdmissionOccupies, FitsBounds
<1> QED
  BY <1>1, TypeCorrect, PTL DEF Spec, WithinCapacity

\* Nothing starts in a bridge that closes: coordinator.ts:293-301.
THEOREM ClosingIsFinal == Spec => NothingAfterClose
<1> DEFINE Quiet == Closing =>
       /\ \A s \in Session : owners'[s] \in {owners[s], NoOwner}
                             /\ reservations'[s] \in {reservations[s], NoLease}
       /\ task' = "pass" => task = "pass"
<1>1. TypeOK /\ [Next]_vars => [Quiet]_vars
  <2> SUFFICES ASSUME TypeOK, [Next]_vars, Closing  PROVE Quiet \/ UNCHANGED vars
    OBVIOUS
  <2>0. Unavailable
    BY DEF Closing, Unavailable
  <2>1. ASSUME NEW l \in Lease, Admit(l)  PROVE Quiet
    BY <2>0, <2>1 DEF Admit, ReserveAdmission, ExtendAdmission, InstallOwner, ReleaseAdmission,
       Admissible, Succeeds, RequestWake, wake, TypeOK, Closing
  <2>2. ASSUME NEW o \in Owner, Lifecycle(o)  PROVE Quiet
    BY <2>2 DEF Lifecycle, AdoptObservedOwner, Settle, ReleaseOwner, Cancel, CancelEnds, LetGo,
       BeginReconciliation, EndReconciliation, RequestWake, wake, TypeOK, Closing
  <2>3. CASE WakeTask
    BY <2>0, <2>3 DEF WakeTask, WakeLoop, PassEnds, WakeEnds, admission, environment
  <2>4. CASE Bridge
    BY <2>4 DEF Bridge, Occupy, Vacate, StartupReady, Retain, BridgeCloses, Close, admission, wake, RequestWake
  <2> QED
    BY <2>1, <2>2, <2>3, <2>4 DEF Next
<1> QED
  BY <1>1, TypeCorrect, PTL DEF Spec, NothingAfterClose
=============================================================================
