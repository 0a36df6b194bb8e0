----------------------- MODULE ConversationCoordinator -----------------------
(***************************************************************************)
(* Who may execute in which conversation:                                  *)
(* packages/sane-app/src/conversation-coordinator.ts, with the steps of    *)
(* its callers that it depends on (run-controls.ts, harness-dispatch.ts,   *)
(* bridge.ts).  Every method is synchronous and all-or-nothing, so each is *)
(* one action; what interleaves is the order in which requests, finishing  *)
(* runs, cancellations, reconciliations and the wake task call them.       *)
(*                                                                         *)
(* The callbacks policy, canRetainPredecessor and observationAdmission can *)
(* only refuse: a refused call changes nothing and is a stuttering step.   *)
(* A reconciliation token is named by the owner it was given to; a stale   *)
(* token is refused by identity, which is a stuttering step as well.       *)
(***************************************************************************)
EXTENDS Naturals, FiniteSets

CONSTANTS
  Session,       \* App conversations
  Lease,         \* admission leases
  Owner,         \* run owners
  MaxConcurrent  \* options.maxConcurrentRuns

NoSession == "no-session"
NoLease == "no-lease"
NoOwner == "no-owner"

ASSUME CoordinatorAssumption ==
  /\ MaxConcurrent \in Nat \ {0} /\ IsFiniteSet(Session)
  /\ NoSession \notin Session /\ NoLease \notin Lease /\ NoOwner \notin Owner

VARIABLES
  owners,        \* ownerRegistry
  reservations,  \* conversation -> the lease that reserves it
  leases,        \* lease -> its admission record
  reconciling,   \* conversation -> the barrier that stands in it
  run,           \* the run owners, as their lifecycles see them
  external,      \* externalOccupancy(): live sessions of the domain stores
  gate,          \* startupReady, isClosing and closed
  retained,      \* retained(): execution ownership is unconfirmed
  dirty, task    \* the coalesced wake

admission == <<owners, reservations, leases, reconciling, run>>
environment == <<external, gate, retained>>
wake == <<dirty, task>>
vars == <<owners, reservations, leases, reconciling, run, external, gate, retained, dirty, task>>

LeaseRec == [state : {"fresh", "held", "released"}, ids : SUBSET Session,
             executable : BOOLEAN, predecessor : Owner \cup {NoOwner}]

RunRec == [session : Session \cup {NoSession}, settled : BOOLEAN, cancelling : BOOLEAN]

NoAdmission == [state |-> "fresh", ids |-> {}, executable |-> FALSE, predecessor |-> NoOwner]

Closing == gate \in {"closing", "closed"}
Unavailable == gate # "open" \/ retained

Owns(o) == run[o].session # NoSession /\ owners[run[o].session] = o

\* occupiedConversationIds.
Occupied == {s \in Session : \/ owners[s] # NoOwner \/ reservations[s] # NoLease
                             \/ reconciling[s] # NoOwner \/ s \in external}

\* requestWake: requests of one turn coalesce; a closing bridge takes none.
RequestWake ==
  IF Closing THEN UNCHANGED wake
  ELSE dirty' = TRUE /\ task' = IF task = "none" THEN "scheduled" ELSE task

----------------------------------------------------------------------------
(* Admission. *)

\* A conversation already reserved elsewhere in the request adds no slot.
Fits(targets) ==
  LET fresh == targets \ Occupied IN
  fresh # {} => Cardinality(Occupied) + Cardinality(fresh) <= MaxConcurrent

\* Mutant: each conversation of a request is counted alone.
AdmissibleAlone(s, targets) ==
  /\ ~Unavailable /\ reconciling[s] = NoOwner
  /\ owners[s] = NoOwner /\ reservations[s] = NoLease
  /\ Fits({s})

\* inspect, for the admission phase.
Admissible(s, targets) ==
  /\ ~Unavailable /\ reconciling[s] = NoOwner
  /\ owners[s] = NoOwner /\ reservations[s] = NoLease
  /\ Fits(targets)

\* inspect, with a predecessor: its slot is reserved through its settlement.
Succeeds(s, o) ==
  /\ ~Unavailable /\ reconciling[s] = NoOwner
  /\ owners[s] = o /\ ~run[o].settled /\ ~run[o].cancelling
  /\ reservations[s] = NoLease

Held(l, ids) == [s \in Session |-> IF s \in ids THEN l ELSE reservations[s]]

\* reserveAdmission
ReserveAdmission(l, ids, executable, predecessor) ==
  /\ leases[l].state = "fresh" /\ ids # {}
  /\ IF predecessor = NoOwner
       THEN \A s \in ids : Admissible(s, ids)
       ELSE \E s \in ids : ids = {s} /\ Succeeds(s, predecessor)
  /\ leases' = [leases EXCEPT ![l] = [state |-> "held", ids |-> ids,
                  executable |-> executable, predecessor |-> predecessor]]
  /\ reservations' = Held(l, ids)
  /\ UNCHANGED <<owners, reconciling, run, environment, wake>>

\* Mutant: the admission record does not learn of the conversations added to it.
ExtendUnrecorded(l, more) ==
  /\ leases[l].state = "held" /\ leases[l].predecessor = NoOwner
  /\ more # {} /\ more \cap leases[l].ids = {}
  /\ \A s \in more : Admissible(s, more)
  /\ reservations' = Held(l, more)
  /\ UNCHANGED <<owners, leases, reconciling, run, environment, wake>>

\* extendAdmission: all the additional conversations or none of them.
ExtendAdmission(l, more) ==
  /\ leases[l].state = "held" /\ leases[l].predecessor = NoOwner
  /\ more # {} /\ more \cap leases[l].ids = {}
  /\ \A s \in more : Admissible(s, more)
  /\ leases' = [leases EXCEPT ![l].ids = @ \cup more]
  /\ reservations' = Held(l, more)
  /\ UNCHANGED <<owners, reconciling, run, environment, wake>>

Begun(o, s) == [run EXCEPT ![o].session = s]

\* installOwner: the exact lease and the policy are validated again.
InstallOwner(l, o, s) ==
  /\ leases[l].state = "held" /\ reservations[s] = l /\ leases[l].executable
  /\ run[o].session = NoSession
  /\ ~Unavailable /\ reconciling[s] = NoOwner /\ owners[s] = NoOwner
  /\ owners' = [owners EXCEPT ![s] = o] /\ run' = Begun(o, s)
  /\ UNCHANGED <<reservations, leases, reconciling, environment, wake>>

\* releaseAdmission: the lease goes, an owner it installed stays.
ReleaseAdmission(l) ==
  /\ leases[l].state = "held"
  /\ leases' = [leases EXCEPT ![l] = [NoAdmission EXCEPT !.state = "released"]]
  /\ reservations' = [s \in Session |->
       IF s \in leases[l].ids /\ reservations[s] = l THEN NoLease ELSE reservations[s]]
  /\ RequestWake
  /\ UNCHANGED <<owners, reconciling, run, environment>>

\* Mutant: a run is observed even while the bridge shuts down.
AdoptWhileClosing(o, s) ==
  /\ run[o].session = NoSession /\ s \in external
  /\ owners[s] = NoOwner /\ reservations[s] = NoLease /\ reconciling[s] = NoOwner
  /\ owners' = [owners EXCEPT ![s] = o] /\ run' = Begun(o, s)
  /\ UNCHANGED <<reservations, leases, reconciling, environment, wake>>

\* adoptObservedOwner: a run of the last process, observed and not dispatched.
AdoptObservedOwner(o, s) ==
  /\ ~Closing /\ run[o].session = NoSession /\ s \in external
  /\ owners[s] = NoOwner /\ reservations[s] = NoLease /\ reconciling[s] = NoOwner
  /\ owners' = [owners EXCEPT ![s] = o] /\ run' = Begun(o, s)
  /\ UNCHANGED <<reservations, leases, reconciling, environment, wake>>

----------------------------------------------------------------------------
(* The end of a run. *)

\* Mutant: an interrupt that is still on its way does not hold the owner back.
LetGoCancelling(o, r) ==
  IF Owns(o) /\ r.settled /\ ~retained
    THEN owners' = [owners EXCEPT ![r.session] = NoOwner] /\ RequestWake
    ELSE UNCHANGED <<owners, wake>>

\* releaseOwner, for the owner whose record is now r.
LetGo(o, r) ==
  IF Owns(o) /\ r.settled /\ ~r.cancelling /\ ~retained
    THEN owners' = [owners EXCEPT ![r.session] = NoOwner] /\ RequestWake
    ELSE UNCHANGED <<owners, wake>>

\* The lifecycle settles its owner and, unless its barrier failed or its
\* completion is not durable yet, asks for the release in the same turn.
Settle(o) ==
  LET r == [run[o] EXCEPT !.settled = TRUE] IN
  /\ Owns(o) /\ ~run[o].settled
  /\ run' = [run EXCEPT ![o] = r]
  /\ LetGo(o, r) \/ UNCHANGED <<owners, wake>>
  /\ UNCHANGED <<reservations, leases, reconciling, environment>>

ReleaseOwner(o) ==
  /\ Owns(o) /\ LetGo(o, run[o])
  /\ UNCHANGED <<reservations, leases, reconciling, run, environment>>

\* requestRunCancellation: the interrupt of a current owner ...
Cancel(o) ==
  /\ Owns(o) /\ ~run[o].cancelling
  /\ run' = [run EXCEPT ![o].cancelling = TRUE]
  /\ UNCHANGED <<owners, reservations, leases, reconciling, environment, wake>>

\* ... and its end, which releases an owner that settled in the meantime.
CancelEnds(o) ==
  LET r == [run[o] EXCEPT !.cancelling = FALSE] IN
  /\ run[o].cancelling
  /\ run' = [run EXCEPT ![o] = r]
  /\ LetGo(o, r)
  /\ UNCHANGED <<reservations, leases, reconciling, environment>>

BeginReconciliation(o) ==
  /\ Owns(o) /\ reconciling[run[o].session] = NoOwner
  /\ reconciling' = [reconciling EXCEPT ![run[o].session] = o]
  /\ UNCHANGED <<owners, reservations, leases, run, environment, wake>>

\* A reconciliation that fails never ends: the barrier is kept until recovery.
EndReconciliation(o) ==
  /\ run[o].session # NoSession /\ reconciling[run[o].session] = o
  /\ reconciling' = [reconciling EXCEPT ![run[o].session] = NoOwner]
  /\ RequestWake
  /\ UNCHANGED <<owners, reservations, leases, run, environment>>

----------------------------------------------------------------------------
(* The wake task. *)

\* The loop's test, in a microtask of its own.
WakeLoop ==
  /\ task = "scheduled"
  /\ IF dirty /\ ~Unavailable THEN dirty' = FALSE /\ task' = "pass"
                              ELSE task' = "ending" /\ UNCHANGED dirty
  /\ UNCHANGED <<admission, environment>>

\* A pass ends well or badly; only a failing onError closes the coordinator.
PassEnds ==
  /\ task = "pass" /\ task' = "scheduled"
  /\ gate' \in {gate, "closed"}
  /\ UNCHANGED <<admission, external, retained, dirty>>

\* Mutant: a request made after the loop's last test is forgotten.
WakeEndsUnchecked ==
  /\ task = "ending" /\ task' = "none"
  /\ UNCHANGED <<admission, environment, dirty>>

\* The finally handler runs in a later microtask and looks again.
WakeEnds ==
  /\ task = "ending"
  /\ task' = IF dirty /\ ~Unavailable THEN "scheduled" ELSE "none"
  /\ UNCHANGED <<admission, environment, dirty>>

----------------------------------------------------------------------------
(* The bridge around it. *)

Occupy(s) ==
  /\ s \notin external /\ external' = external \cup {s}
  /\ UNCHANGED <<admission, gate, retained, wake>>

\* A domain store lets go of a session, some with an explicit requestWake.
Vacate(s) ==
  /\ s \in external /\ external' = external \ {s}
  /\ RequestWake \/ UNCHANGED wake
  /\ UNCHANGED <<admission, gate, retained>>

StartupReady ==
  /\ gate = "starting" /\ gate' = "open"
  /\ UNCHANGED <<admission, external, retained, wake>>

Retain ==
  /\ ~retained /\ retained' = TRUE
  /\ UNCHANGED <<admission, external, gate, wake>>

BridgeCloses ==
  /\ ~Closing /\ gate' = "closing"
  /\ UNCHANGED <<admission, external, retained, wake>>

Close ==
  /\ gate' = "closed" /\ dirty' = FALSE
  /\ UNCHANGED <<admission, external, retained, task>>

Init ==
  /\ owners = [s \in Session |-> NoOwner]
  /\ reservations = [s \in Session |-> NoLease]
  /\ leases = [l \in Lease |-> NoAdmission]
  /\ reconciling = [s \in Session |-> NoOwner]
  /\ run = [o \in Owner |-> [session |-> NoSession, settled |-> FALSE, cancelling |-> FALSE]]
  /\ external \in SUBSET Session /\ gate = "starting" /\ retained = FALSE
  /\ dirty = FALSE /\ task = "none"

Admit(l) ==
  \/ \E ids \in SUBSET Session, e \in BOOLEAN, p \in Owner \cup {NoOwner} :
       ReserveAdmission(l, ids, e, p)
  \/ \E more \in SUBSET Session : ExtendAdmission(l, more)
  \/ \E o \in Owner, s \in Session : InstallOwner(l, o, s)
  \/ ReleaseAdmission(l)

Lifecycle(o) ==
  \/ \E s \in Session : AdoptObservedOwner(o, s)
  \/ Settle(o) \/ ReleaseOwner(o) \/ Cancel(o) \/ CancelEnds(o)
  \/ BeginReconciliation(o) \/ EndReconciliation(o)

WakeTask == WakeLoop \/ PassEnds \/ WakeEnds

Bridge == (\E s \in Session : Occupy(s) \/ Vacate(s)) \/ StartupReady \/ Retain \/ BridgeCloses \/ Close

Next == (\E l \in Lease : Admit(l)) \/ (\E o \in Owner : Lifecycle(o)) \/ WakeTask \/ Bridge

Spec == Init /\ [][Next]_vars

\* Microtasks run, and the bridge's pass is one synchronous notification
\* (bridge.ts:792): the wake task always takes its next step.
FairSpec == Spec /\ WF_vars(WakeTask)

----------------------------------------------------------------------------
(* Properties. *)

\* The maps of the coordinator, its runs and its wake keep their shape.
TypeOK ==
  /\ owners \in [Session -> Owner \cup {NoOwner}]
  /\ reservations \in [Session -> Lease \cup {NoLease}]
  /\ leases \in [Lease -> LeaseRec]
  /\ reconciling \in [Session -> Owner \cup {NoOwner}]
  /\ run \in [Owner -> RunRec]
  /\ external \subseteq Session
  /\ gate \in {"starting", "open", "closing", "closed"}
  /\ retained \in BOOLEAN /\ dirty \in BOOLEAN
  /\ task \in {"none", "scheduled", "pass", "ending"}

\* The two maps of the arbitration agree: a lease holds exactly the conversations
\* its record lists, so releasing it leaves no conversation reserved for nobody
\* and never frees what another lease has reserved since.
LeasesExact == \A l \in Lease, s \in Session :
  reservations[s] = l <=> leases[l].state = "held" /\ s \in leases[l].ids

\* A conversation that has an owner has no other execution left: every earlier
\* owner has settled, no interrupt for it is on its way and its reconciliation
\* barrier is down, however releases, cancellations and adoptions interleave.
OneExecution == \A o, p \in Owner :
  o # p /\ Owns(o) /\ run[p].session = run[o].session =>
    /\ run[p].settled /\ ~run[p].cancelling
    /\ reconciling[run[o].session] # p

\* Only the domain stores push the number of live conversations over the limit:
\* no admission does, not even one that reserves several conversations or is
\* extended after an await.
WithinCapacity ==
  [][external' = external /\ ~(Occupied' \subseteq Occupied)
       => Cardinality(Occupied') <= MaxConcurrent]_vars

\* "No subsequent pass or owner installation is allowed" (coordinator.ts:294):
\* once the bridge closes, ownership and reservations only go.
NothingAfterClose ==
  [][Closing =>
       /\ \A s \in Session : owners'[s] \in {owners[s], NoOwner}
                             /\ reservations'[s] \in {reservations[s], NoLease}
       /\ task' = "pass" => task = "pass"]_vars

\* "Preserve wakes arriving during an awaited pass (or its completion)"
\* (coordinator.ts:269): a request the wake task was alive to see is answered
\* by a pass that starts after it, unless the bridge stops admitting at all.
WakeServed == dirty /\ task # "none" ~> ~dirty \/ Unavailable
=============================================================================
