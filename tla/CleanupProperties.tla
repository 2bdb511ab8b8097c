-------------------------- MODULE CleanupProperties --------------------------
(***************************************************************************)
(* What must hold of the cleanup, in SprintCleanup.                        *)
(***************************************************************************)
EXTENDS SprintCleanup

(* Types. *)
TypeOK ==
  /\ lifecycle \in [Sprints -> {"prepared", "armed", "paused", "completed", "aborted"}]
  /\ later \in [Sprints -> SUBSET Sprints]
  /\ rows \in [Target -> Row] /\ notices \in [Sprints -> Nat]
  /\ work \in [Workers -> Work] /\ lock \in {{}} \cup {{w} : w \in Workers}
  /\ launch \in [Launchers -> {"none", "asked", "cleaning", "again", "cleared", "running"}]
  /\ tree \in [Shells -> {"clean", "dirty", "half"}] /\ artifacts \subseteq Sprints
  /\ faults \in Nat /\ retries \in Nat

(* The worker is between its last check and its last command on the worktree. *)
Destroying(w, t) == work[w].target = t /\ work[w].at \in {"resetting", "restoring"}

(* The worktree is not reset under a turn: the probe was made before the fetch and
   before begin_attempt, and a turn may be launched meanwhile. *)
TurnUndisturbed ==
  \A w \in Workers, s \in Sprints, sh \in Shells :
    Destroying(w, <<s, sh>>) /\ <<"turn", sh>> \in Launchers
      => launch[<<"turn", sh>>] \notin {"cleared", "running"}

(* Nor under a Sprint that was armed after the one whose leftovers these are. *)
NewerSprintSafe ==
  \A w \in Workers, s, b \in Sprints, sh \in Shells :
    Destroying(w, <<s, sh>>) /\ b # s /\ sh \in Members[b] => lifecycle[b] # "armed"

(* Two workers never destroy at the same time, although a lease runs out while its
   holder still works. *)
OneDestroyer ==
  \A w, v \in Workers :
    work[w].at \in {"resetting", "restoring"} /\ work[v].at \in {"resetting", "restoring"} => w = v

(* A worktree that a crash or a failure left half reset is handed to nobody: some
   target still keeps its shell from being launched or armed. *)
HalfResetIsFenced ==
  \A sh \in Shells : tree[sh] = "half" => Unresolved({sh}) # {}

(* The artifacts, which may explain a failed reset, outlive every reset. *)
ArtifactsLast ==
  \A s \in Sprints : s \notin artifacts =>
    \A sh \in Members[s] : rows[<<s, sh>>].state = "succeeded"

(* The end of a Sprint's cleanup is announced once, when all of it has succeeded,
   and not again by a retry or a superseded worker. *)
AnnouncedOnce ==
  \A s \in Sprints :
    notices[s] = IF \A t \in Targets(s) : rows[t].state = "succeeded" THEN 1 ELSE 0

(* project: what the Sprint's status says of its cleanup. *)
Aggregate(s) ==
  LET states == {rows[t].state : t \in Targets(s)}
  IN  CASE "failed" \in states -> "failed"
        [] "failed" \notin states /\ states \cap {"pending", "running"} # {} -> "pending"
        [] OTHER -> "done"

(* While nobody else is in the worktrees, a cleanup comes to an end, or to a failure
   that the Planner is told of, whoever crashed or lost its claim on the way. *)
Quiet(sh) == \A l \in Launchers : l[2] = sh => launch[l] = "none"

EveryCleanupSettles ==
  \A s \in Sprints :
    <>[](\A sh \in Members[s] : Quiet(sh))
      => (Aggregate(s) = "pending" ~>
            Aggregate(s) # "pending" \/ \E t \in Targets(s) : rows[t].gen = MaxClaims)

(* A worktree that is in use for good does not keep the others from being served. *)
DormantIsServed ==
  \A t \in Sprints \X Shells :
    Due(t) /\ rows[t].gen < MaxClaims /\ rows[t].state # "none" ~> ~Due(t)
=============================================================================
