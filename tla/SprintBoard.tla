----------------------------- MODULE SprintBoard -----------------------------
(***************************************************************************)
(* The plan of one Sprint and its release to the Developers: the lifecycle *)
(* of scripts/sprint_domain.py (SprintLifecycleStore), the work units of   *)
(* SprintWorkUnitStore, and the work-assignment messages that releasing    *)
(* them sends.  Every operator is one write transaction of the database,   *)
(* or the part of one that these tables see.                               *)
(*                                                                         *)
(* Actors are assumed authorised: a refused call changes nothing.          *)
(***************************************************************************)
EXTENDS Integers, FiniteSets

CONSTANTS
  Developers,  \* shells of the Developer participants
  Reviewers,   \* shells of the Reviewer participants
  Mortal,      \* bound: those of them that may be deleted
  Nobody,      \* no shell: an owner not selected, a unit not created
  Plans,       \* the plans a Planner may give a unit: records of Plan
  MaxUnit,     \* bound: rows of sprint_work_units
  MaxGen       \* bound: changes of the conformance owner

VARIABLES
  lifecycle,   \* sprints.lifecycle
  owner,       \* sprints.conformance_reviewer_shell_id
  gen,         \* sprints.conformance_owner_generation
  eligible,    \* Reviewers that neither declined nor were deleted
  announced,   \* events sprint.delivery_terminal: <<units, owner, generation>>
  units,       \* sprint_work_units and their dependencies
  asg          \* the newest work_assignment message of each unit

board == <<lifecycle, owner, gen, eligible, announced, units, asg>>

UnitId == 1..MaxUnit

Plan == [dev : Developers, kind : {"code", "report"}, deps : SUBSET UnitId, wave : Nat]

ASSUME BoardConstants ==
  /\ MaxUnit \in Nat /\ MaxGen \in Nat
  /\ IsFiniteSet(Developers) /\ IsFiniteSet(Reviewers)
  /\ Nobody \notin Developers \cup Reviewers
  /\ Plans \subseteq Plan

Lifecycles == {"prepared", "armed", "paused", "completed", "aborted"}

(* Work units: in the plan, in the hands of a Developer, or at an end. *)
Occupied == {"ready", "active", "in_review", "fixing", "merge_ready"}
Settled == {"completed", "cancelled"}
Dispositions == {"absent", "planned"} \cup Occupied \cup Settled

Unit == [state : Dispositions, dev : Developers \cup {Nobody}, kind : {"code", "report"},
         deps : SUBSET UnitId, wave : Nat]

Assignment == {"none", "queued", "delivered", "accepted", "declined"}

Planned(plan, state) ==
  [state |-> state, dev |-> plan.dev, kind |-> plan.kind, deps |-> plan.deps,
   wave |-> plan.wave]

NoUnitYet == [state |-> "absent", dev |-> Nobody, kind |-> "report", deps |-> {}, wave |-> 0]

Created(us) == {u \in UnitId : us[u].state # "absent"}

Moved(us, u, state) == [us EXCEPT ![u] = [us[u] EXCEPT !.state = state]]

(***************************************************************************)
(* Release: _dispatch_ready_locked.  A unit is ready once every unit it    *)
(* depends on is completed; each Developer without a lane gets the first   *)
(* by wave and id.                                                         *)
(***************************************************************************)
Ready(us, u) == us[u].state = "planned" /\ \A v \in us[u].deps : us[v].state = "completed"

Free(us, d) == \A u \in UnitId : us[u].dev = d => us[u].state \notin Occupied

(* Seeded fault: two units of one wave wait for one another. *)
BeforeByWave(us, u, v) == us[u].wave < us[v].wave

Before(us, u, v) == us[u].wave < us[v].wave \/ (us[u].wave = us[v].wave /\ u < v)

Released(us) ==
  {u \in UnitId : /\ Ready(us, u) /\ Free(us, us[u].dev)
                  /\ \A v \in UnitId \ {u} :
                       Ready(us, v) /\ us[v].dev = us[u].dev => Before(us, u, v)}

Release(us) ==
  [u \in UnitId |-> IF u \in Released(us) THEN [us[u] EXCEPT !.state = "ready"] ELSE us[u]]

(* Each released unit gets a fresh assignment message under a new key. *)
Assign(us, as) == [u \in UnitId |-> IF u \in Released(us) THEN "queued" ELSE as[u]]

(* _queue_delivery_terminal: when every unit of an armed Sprint is settled, the
   conformance owner is told, once per count of units, owner and generation; a
   Sprint whose owner is no longer eligible is paused instead. *)
AllSettled(us) ==
  Created(us) # {} /\ \A u \in Created(us) : us[u].state \in Settled

Notice(us) == <<Cardinality(Created(us)), owner, gen>>

OwnerLost(us) == lifecycle = "armed" /\ AllSettled(us) /\ owner \notin eligible

(* The end of a transaction that moved units to `us` and assignments to `as`. *)
Settle(us, as, release) ==
  \/ /\ OwnerLost(us)
     /\ lifecycle' = "paused" /\ units' = us /\ asg' = as
     /\ UNCHANGED <<owner, gen, eligible, announced>>
  \/ /\ ~OwnerLost(us)
     /\ announced' = announced \cup
          (IF lifecycle = "armed" /\ AllSettled(us) THEN {Notice(us)} ELSE {})
     /\ IF release /\ lifecycle = "armed"
          THEN units' = Release(us) /\ asg' = Assign(us, as)
          ELSE units' = us /\ asg' = as
     /\ UNCHANGED <<lifecycle, owner, gen, eligible>>

(***************************************************************************)
(* The Planner's plan: SprintWorkUnitStore.                                *)
(***************************************************************************)
(* A set of units each of which depends on another of the set is a cycle. *)
Acyclic(deps) ==
  \A S \in SUBSET UnitId \ {{}} : \E u \in S : deps[u] \cap S = {}

(* Seeded fault: only an aborted Sprint takes no more work. *)
CreateUnlessAborted(u, plan) ==
  /\ lifecycle # "aborted"
  /\ Created(units) = 1..(u - 1) /\ plan.deps \subseteq Created(units)
  /\ units' = [units EXCEPT ![u] = Planned(plan, "planned")]
  /\ UNCHANGED <<lifecycle, owner, gen, eligible, announced, asg>>

Create(u, plan) ==
  /\ lifecycle \notin {"completed", "aborted"}
  /\ Created(units) = 1..(u - 1)
  /\ plan.deps \subseteq Created(units)
  /\ units' = [units EXCEPT ![u] = Planned(plan, "planned")]
  /\ UNCHANGED <<lifecycle, owner, gen, eligible, announced, asg>>

(* Seeded fault: a cancelled unit may be planned again. *)
ReplanCancelled(u, plan) ==
  /\ units[u].state \in {"planned", "cancelled"}
  /\ plan.deps \subseteq Created(units) \ {u}
  /\ Acyclic([v \in UnitId |-> IF v = u THEN plan.deps ELSE units[v].deps])
  /\ units' = [units EXCEPT ![u] = Planned(plan, "planned")]
  /\ UNCHANGED <<lifecycle, owner, gen, eligible, announced, asg>>

Replan(u, plan) ==
  /\ units[u].state = "planned"
  /\ plan.deps \subseteq Created(units) \ {u}
  /\ Acyclic([v \in UnitId |-> IF v = u THEN plan.deps ELSE units[v].deps])
  /\ units' = [units EXCEPT ![u] = Planned(plan, "planned")]
  /\ UNCHANGED <<lifecycle, owner, gen, eligible, announced, asg>>

(* Retiring a lane declines its pending assignment; an accepted one is history. *)
Retired(a) == IF a \in {"queued", "delivered"} THEN "declined" ELSE a

(* Seeded fault: the assignment of the recalled lane stays as it is. *)
RecallWithOffer(u, bound) ==
  /\ lifecycle = "paused" /\ ~bound /\ units[u].state \in Occupied
  /\ units' = Moved(units, u, "planned")
  /\ UNCHANGED <<lifecycle, owner, gen, eligible, announced, asg>>

(* `bound`: a registered PR is linked to the unit and the link not superseded. *)
Recall(u, bound) ==
  /\ lifecycle = "paused" /\ ~bound
  /\ units[u].state \in Occupied
  /\ units' = Moved(units, u, "planned")
  /\ asg' = [asg EXCEPT ![u] = Retired(@)]
  /\ UNCHANGED <<lifecycle, owner, gen, eligible, announced>>

(* Seeded fault: the last unit may be cancelled without a word. *)
CancelQuietly(u) ==
  /\ units[u].state = "planned" /\ units' = Moved(units, u, "cancelled")
  /\ UNCHANGED <<lifecycle, owner, gen, eligible, announced, asg>>

Cancel(u) ==
  /\ units[u].state = "planned"
  /\ Settle(Moved(units, u, "cancelled"), asg, FALSE)

(* Seeded fault: a lane may be settled by decree while the Sprint runs. *)
ResolveAnytime(u, target) ==
  /\ lifecycle \in {"armed", "paused"} /\ target \in Settled
  /\ units[u].state \in {"planned"} \cup Occupied
  /\ units' = Moved(units, u, target) /\ asg' = [asg EXCEPT ![u] = Retired(@)]
  /\ UNCHANGED <<lifecycle, owner, gen, eligible, announced>>

Resolve(u, target) ==
  /\ lifecycle = "paused" /\ target \in Settled
  /\ units[u].state \in {"planned"} \cup Occupied
  /\ units' = Moved(units, u, target)
  /\ asg' = [asg EXCEPT ![u] = Retired(@)]
  /\ UNCHANGED <<lifecycle, owner, gen, eligible, announced>>

(* The Developer's result of a report-only or no-code unit. *)
Complete(u) ==
  /\ units[u].kind = "report" /\ units[u].state = "active"
  /\ Settle(Moved(units, u, "completed"), asg, TRUE)

(* dispatch_ready, the pulse of sprint_runtime and the Planner's call. *)
DispatchReady == lifecycle = "armed" /\ Settle(units, asg, TRUE)

(***************************************************************************)
(* Assignment messages: SprintMessageStore and the wake that carries them. *)
(***************************************************************************)
(* A wake turn takes every undelivered message of its shell. *)
Delivered(d) ==
  [u \in UnitId |-> IF units[u].dev = d /\ asg[u] = "queued" THEN "delivered" ELSE asg[u]]

(* mark_read: a lane rerouted while active or fixing keeps its disposition. *)
Accept(u) ==
  /\ asg[u] = "delivered" /\ units[u].state \in {"ready", "active", "fixing"}
  /\ asg' = [asg EXCEPT ![u] = "accepted"]
  /\ units' = IF units[u].state = "ready" THEN Moved(units, u, "active") ELSE units
  /\ UNCHANGED <<lifecycle, owner, gen, eligible, announced>>

Decline(u) ==
  /\ asg[u] = "delivered"
  /\ asg' = [asg EXCEPT ![u] = "declined"]
  /\ units' = IF units[u].state = "ready" THEN Moved(units, u, "planned") ELSE units
  /\ UNCHANGED <<lifecycle, owner, gen, eligible, announced>>

(* reroute of a Developer's seat: it may own no lane that is ready or in review,
   and no wake that is on its way; the lane it works in is assigned again. *)
RerouteDeveloper(d) ==
  /\ lifecycle = "paused"
  /\ \A u \in UnitId : units[u].dev = d =>
       units[u].state \notin {"ready", "in_review"} /\ asg[u] # "queued"
  /\ asg' = [u \in UnitId |->
       IF units[u].dev = d /\ units[u].state \in {"active", "fixing"} THEN "queued" ELSE asg[u]]
  /\ UNCHANGED <<lifecycle, owner, gen, eligible, announced, units>>

(***************************************************************************)
(* Lifecycle: SprintLifecycleStore.                                        *)
(***************************************************************************)
(* _set_conformance_owner. *)
Generation(r) == IF r = owner THEN gen ELSE gen + 1

Arm(r) ==
  /\ lifecycle = "prepared" /\ Created(units) # {}
  /\ eligible = Reviewers /\ r \in Reviewers
  /\ lifecycle' = "armed" /\ owner' = r /\ gen' = Generation(r)
  /\ units' = Release(units) /\ asg' = Assign(units, asg)
  /\ announced' = announced \cup
       (IF AllSettled(units) THEN {<<Cardinality(Created(units)), r, gen'>>} ELSE {})
  /\ UNCHANGED eligible

(* pause, and _pause_in_transaction for the engine's own pauses. *)
Pause ==
  /\ lifecycle = "armed" /\ lifecycle' = "paused"
  /\ UNCHANGED <<owner, gen, eligible, announced, units, asg>>

(* resume.  `us`: the units after the merges it found were projected.  Its
   reconciliation of unread wakes may pause the Sprint again, within the
   transaction and before anything is projected or released. *)
Resume(r, us) ==
  /\ lifecycle = "paused" /\ r \in eligible
  /\ owner' = r /\ gen' = Generation(r)
  /\ lifecycle' = "armed"
  /\ units' = Release(us) /\ asg' = Assign(us, asg)
  /\ announced' = announced \cup
       (IF AllSettled(us) THEN {<<Cardinality(Created(us)), r, gen'>>} ELSE {})
  /\ UNCHANGED eligible

ResumeRefused(r, us) ==
  /\ lifecycle = "paused" /\ r \in eligible
  /\ owner' = r /\ gen' = Generation(r)
  /\ units' = us
  /\ announced' = announced \cup
       (IF us # units /\ AllSettled(us) THEN {<<Cardinality(Created(us)), r, gen'>>} ELSE {})
  /\ UNCHANGED <<lifecycle, eligible, asg>>

Abort ==
  /\ lifecycle \in {"prepared", "armed", "paused"} /\ lifecycle' = "aborted"
  /\ UNCHANGED <<owner, gen, eligible, announced, units, asg>>

(* record_conformance by the owner, and completion by Planner or operator. *)
Conclude ==
  /\ lifecycle = "armed" /\ AllSettled(units)
  /\ lifecycle' = "completed"
  /\ UNCHANGED <<owner, gen, eligible, announced, units, asg>>

(* A Reviewer's shell is deleted. *)
Retire(r) ==
  /\ r \in eligible \cap Mortal /\ eligible' = eligible \ {r}
  /\ UNCHANGED <<lifecycle, owner, gen, announced, units, asg>>

InitBoard ==
  /\ lifecycle = "prepared" /\ owner = Nobody /\ gen = 0
  /\ eligible = Reviewers /\ announced = {}
  /\ units = [u \in UnitId |-> NoUnitYet]
  /\ asg = [u \in UnitId |-> "none"]
=============================================================================
