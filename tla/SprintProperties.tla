--------------------------- MODULE SprintProperties ---------------------------
(***************************************************************************)
(* What must hold of a Sprint's lanes, in SprintLanes.                     *)
(***************************************************************************)
EXTENDS SprintLanes

(* Types. *)
BoardTypeOK ==
  /\ lifecycle \in Lifecycles /\ owner \in Reviewers \cup {Nobody} /\ gen \in Nat
  /\ eligible \subseteq Reviewers
  /\ announced \subseteq Nat \X (Reviewers \cup {Nobody}) \X Nat
  /\ units \in [UnitId -> Unit] /\ asg \in [UnitId -> Assignment]

LanesTypeOK ==
  /\ prs \in [PRs -> PR] /\ github \in [PRs -> Fact]
  /\ reads \in [Readers -> Read \cup {AtRest}] /\ survey \in Survey
  /\ req \in [UnitId -> Request] /\ approved \in [UnitId -> 0..MaxRequest]
  /\ rounds \in [UnitId -> Nat] /\ facts \subseteq Developers \cup {Nobody}
  /\ bypassed \subseteq PRs \X (0..MaxSeen) \X ({NoUnit} \cup UnitId)

TypeOK == BoardTypeOK /\ LanesTypeOK

(***************************************************************************)
(* The board.                                                              *)
(***************************************************************************)
(* A Developer has one lane at a time, whichever of release, recall, decline,
   reroute, adoption and merge projection moved the units: _dispatch_ready_locked
   computes who is occupied, and the unique index covers editing lanes only. *)
OneLanePerDeveloper ==
  \A u, v \in UnitId :
    units[u].state \in Occupied /\ units[v].state \in Occupied /\ units[u].dev = units[v].dev
      => u = v

(* A unit is out only while everything it depends on is completed, although the
   plan is edited, recalled and resolved around it. *)
UpstreamsDone ==
  \A u \in UnitId : units[u].state \in Occupied =>
    \A v \in units[u].deps : units[v].state = "completed"

(* No lane is stranded: a ready unit has an assignment its Developer will get or
   has got, and a unit back in the plan has none that could still be accepted. *)
OfferMatchesLane ==
  \A u \in UnitId :
    /\ units[u].state = "ready" => asg[u] \in {"queued", "delivered"}
    /\ units[u].state = "planned" => asg[u] \notin {"queued", "delivered"}

(* Whoever moved the last unit to an end, the conformance owner of an armed
   Sprint has been told of exactly this count under this generation. *)
TerminalIsAnnounced ==
  lifecycle = "armed" /\ AllSettled(units) => Notice(units) \in announced

(* A completed Sprint left no unit behind, also not one planned meanwhile. *)
CompletedIsSettled == lifecycle = "completed" => AllSettled(units)

(* What is completed or cancelled stays so through every later call, and the
   plan under it does not change. *)
SettledUnitsStay ==
  [][\A u \in UnitId : units[u].state \in Settled => units'[u] = units[u]]_vars

(***************************************************************************)
(* The review loop.                                                        *)
(***************************************************************************)
(* A lane that may merge was approved by the answer to the newest request: no
   verdict on a request that was superseded, rerouted or retired counts. *)
ApprovalAnswersNewestRequest ==
  \A u \in UnitId : units[u].state = "merge_ready" =>
    approved[u] = req[u].n /\ req[u].state = "accepted"

(* An open request belongs to a lane in review: a verdict, a merge, a recall, a
   resolution or a new request leaves none behind that could still be taken. *)
OneOpenRequest ==
  \A u \in UnitId : req[u].state \in {"queued", "delivered"} => units[u].state = "in_review"

(* A resume leaves no approved lane waiting for a merge that was recorded. *)
ResumeProjectsMerges ==
  [][lifecycle = "paused" /\ lifecycle' = "armed" =>
       \A p \in PRs : prs'[p].home = "here" /\ prs'[p].live /\ prs'[p].lane.state = "merged"
         => units'[prs'[p].unit].state # "merge_ready"]_vars

(* No merge is lost: when a registered PR of a Sprint that is armed or paused is
   recorded as merged, by a poll, a resume or an adoption, its unit is completed
   in the same step or the Planner is told that the merge bypassed the grant. *)
MergeIsAccountedFor ==
  [][\A p \in PRs :
       /\ prs[p].lane.state # "merged" /\ Projects(prs', p)
       /\ lifecycle \in {"armed", "paused"}
       => LET u == prs'[p].unit IN
            units'[u].state = "completed" \/ <<p, prs'[p].key, u>> \in bypassed']_vars

(***************************************************************************)
(* The schedule.                                                           *)
(***************************************************************************)
StageOf(state) ==
  CASE state = "absent" -> "none"
    [] state = "planned" -> "waiting"
    [] state \in Occupied -> "out"
    [] state = "completed" -> "done"
    [] state = "cancelled" -> "dropped"

Schedule == INSTANCE WorkSchedule WITH
  Items <- UnitId, People <- Developers \cup {Nobody},
  stage <- [u \in UnitId |-> StageOf(units[u].state)],
  who <- [u \in UnitId |-> units[u].dev],
  needs <- [u \in UnitId |-> units[u].deps],
  running <- lifecycle = "armed"

(* The board implements the schedule. *)
Scheduled == Schedule!Spec

(* Ready work of a Developer who is free goes out, or the Sprint stops. *)
Releasable(u) ==
  lifecycle = "armed" /\ Ready(units, u) /\ Free(units, units[u].dev)

ReadyWorkIsReleased == \A u \in UnitId : Releasable(u) ~> ~Releasable(u)
=============================================================================
