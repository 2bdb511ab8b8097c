---------------------------- MODULE SprintCleanup ----------------------------
(***************************************************************************)
(* What is left of completed Sprints: scripts/sprint_cleanup.py resets the *)
(* worktrees of the participants and then deletes the Sprint's artifacts.  *)
(* The rows of sprint_cleanup_targets are claimed under a lease by the     *)
(* Sprint runtime's cleanup worker and by launches that need the worktree  *)
(* (run.py, cleanup_before_launch); the work itself is done under a file   *)
(* lock of the repository.  A claim that ran out may have been taken over, *)
(* so every write of a worker is fenced by the generation of its claim.    *)
(*                                                                         *)
(* Around it: the lifecycle of several Sprints that share shells, and the  *)
(* turns and CLI sessions that run in the same worktrees.                  *)
(***************************************************************************)
EXTENDS Integers, FiniteSets

CONSTANTS
  Sprints,     \* sprints.sprint_id
  Shells,      \* participants that are not Admin: each has one worktree
  Members,     \* the shells of each Sprint
  Artifacts,   \* the slot of a target that is no worktree
  Pulse,       \* the runtime's cleanup worker, one thread at a time
  Launchers,   \* launches: <<"turn", sh>> by the broker, <<"cli", sh>> by hand
  MaxAttempts, \* SprintCleanupExecutor.max_attempts
  MaxClaims,   \* bound: claim_generation of a row
  MaxFaults,   \* bound: failures, stalls and crashes
  MaxRetries   \* bound: manual retries

VARIABLES
  lifecycle,   \* sprints.lifecycle
  later,       \* Sprints with a lifecycle event after this one was completed
  rows,        \* sprint_cleanup_targets
  notices,     \* events sprint.cleanup_completed of each Sprint
  work,        \* what each worker is doing, with the claim it holds
  lock,        \* who holds sc-sprint-cleanup.lock
  launch,      \* how far each launch has come
  tree,        \* each worktree: as main has it, with work in it, half reset
  artifacts,   \* Sprints whose artifact directory exists
  faults, retries

board == <<lifecycle, later>>
disk == <<tree, artifacts>>
budget == <<faults, retries>>
vars == <<board, rows, notices, work, lock, launch, disk, budget>>

Target == Sprints \X (Shells \cup {Artifacts})
Workers == {Pulse} \cup Launchers
Targets(s) == {s} \X (Members[s] \cup {Artifacts})

ASSUME CleanupConstants ==
  /\ Sprints \subseteq Nat \ {0} /\ Members \in [Sprints -> SUBSET Shells]
  /\ IsFiniteSet(Sprints) /\ IsFiniteSet(Shells) /\ Artifacts \notin Shells
  /\ Launchers \subseteq {"turn", "cli"} \X Shells /\ Pulse \notin Launchers
  /\ {MaxAttempts, MaxClaims, MaxFaults, MaxRetries} \subseteq Nat

Row == [state : {"none", "pending", "running", "succeeded", "failed"}, gen : Nat,
        attempts : Nat, lease : {"none", "held", "over"}]

NoRow == [state |-> "none", gen |-> 0, attempts |-> 0, lease |-> "none"]
Unclaimed == [state |-> "pending", gen |-> 0, attempts |-> 0, lease |-> "none"]

(* The repository lock is held from "validating" to "finishing". *)
Locked == {"validating", "recording", "revalidating", "beginning", "resetting", "restoring",
           "checking", "finishing"}
Stages == {"idle", "locking", "waiting", "unsafe", "failing"} \cup Locked

Work == [at : Stages, target : (Sprints \cup {0}) \X (Shells \cup {Artifacts}), gen : Nat]

NoWork == [at |-> "idle", target |-> <<0, Artifacts>>, gen |-> 0]

(***************************************************************************)
(* Who is in a worktree: the liveness probe.                               *)
(***************************************************************************)
(* Seeded fault: a turn counts once its harness runs. *)
LiveOnceRunning(sh, w) ==
  \E kind \in {"turn", "cli"} : <<kind, sh>> \in Launchers /\ launch[<<kind, sh>>] = "running"

(* A turn counts from the lease of its run, but for the launch that cleans up for
   itself; a CLI session from the moment its process is the harness. *)
Live(sh, w) ==
  \/ <<"turn", sh>> \in Launchers \ {w} /\ launch[<<"turn", sh>>] # "none"
  \/ <<"cli", sh>> \in Launchers /\ launch[<<"cli", sh>>] = "running"

(* Seeded fault: a failed cleanup no longer keeps the shell. *)
UnresolvedUntilFailed(S) ==
  {t \in Target : t[2] \in S /\ rows[t].state \in {"pending", "running"}}

(* unresolved_worktree: the targets that keep a shell from being used again. *)
Unresolved(S) ==
  {t \in Target : t[2] \in S /\ rows[t].state \notin {"none", "succeeded"}}

(***************************************************************************)
(* The lifecycle of the Sprints.                                           *)
(***************************************************************************)
Enter(s, state) ==
  /\ lifecycle' = [lifecycle EXCEPT ![s] = state]
  /\ later' = [c \in Sprints |->
       IF c # s /\ lifecycle[c] = "completed" THEN later[c] \cup {s} ELSE later[c]]

(* Arm and resume: one Sprint is armed at a time, on shells nothing is left of. *)
Arm(s) ==
  /\ lifecycle[s] \in {"prepared", "paused"}
  /\ \A b \in Sprints : lifecycle[b] # "armed"
  /\ Unresolved(Members[s]) = {}
  /\ Enter(s, "armed")
  /\ UNCHANGED <<rows, notices, work, lock, launch, disk, budget>>

Leave(s, state) ==
  /\ lifecycle[s] \in (IF state = "paused" THEN {"armed"} ELSE {"prepared", "armed", "paused"})
  /\ Enter(s, state)
  /\ UNCHANGED <<rows, notices, work, lock, launch, disk, budget>>

Scheduled(s) ==
  [t \in Target |-> IF t \in Targets(s) THEN Unclaimed ELSE rows[t]]

Complete(s) ==
  /\ lifecycle[s] = "armed" /\ Members[s] # {}
  /\ Enter(s, "completed")
  /\ rows' = Scheduled(s)
  /\ UNCHANGED <<notices, work, lock, launch, disk, budget>>

(* recover(adopt_legacy): a Sprint completed before there was a cleanup. *)
Adopt(s) ==
  /\ lifecycle[s] = "completed" /\ Members[s] # {}
  /\ \A t \in Targets(s) : rows[t].state = "none"
  /\ rows' = Scheduled(s)
  /\ UNCHANGED <<board, notices, work, lock, launch, disk, budget>>

(* recover: every failed target of the Sprint is due again, its attempts kept. *)
Retry(s) ==
  /\ \E t \in Targets(s) : rows[t].state = "failed"
  /\ retries < MaxRetries /\ retries' = retries + 1
  /\ rows' = [t \in Target |->
                IF t \in Targets(s) /\ rows[t].state = "failed"
                  THEN [state |-> "pending", gen |-> rows[t].gen,
                        attempts |-> rows[t].attempts, lease |-> "none"]
                  ELSE rows[t]]
  /\ UNCHANGED <<board, notices, work, lock, launch, disk, faults>>

(***************************************************************************)
(* Claims: SprintCleanupTargetStore.                                       *)
(***************************************************************************)
WorktreesDone(s) == \A sh \in Members[s] : rows[<<s, sh>>].state = "succeeded"

(* Seeded fault: nobody takes over a claim that ran out. *)
DueWhilePending(t) == rows[t].state = "pending" /\ rows[t].lease # "held"

Due(t) ==
  \/ rows[t].state = "pending" /\ rows[t].lease # "held"
  \/ rows[t].state = "running" /\ rows[t].lease = "over"

Claimable(t, w) ==
  /\ Due(t) /\ lifecycle[t[1]] = "completed"
  /\ w # Pulse => t[2] = w[2]
  /\ t[2] = Artifacts => WorktreesDone(t[1])

(* Seeded fault: what was begun is finished first. *)
RankBegun(t) ==
  <<IF t[2] = Artifacts THEN 1 ELSE 0, 0 - rows[t].gen, 0 - rows[t].attempts, t[1]>>

(* Worktrees first; of those the least claimed, the most attempted, the oldest Sprint. *)
Rank(t) ==
  <<IF t[2] = Artifacts THEN 1 ELSE 0, rows[t].gen, 0 - rows[t].attempts, t[1]>>

Precedes(t, v) ==
  \E i \in 1..4 : Rank(t)[i] < Rank(v)[i] /\ \A j \in 1..(i - 1) : Rank(t)[j] = Rank(v)[j]

Foremost(w) ==
  {t \in Target : Claimable(t, w) /\ \A v \in Target : Claimable(v, w) => ~Precedes(v, t)}

Put(t, state, attempts, lease) ==
  rows' = [rows EXCEPT ![t] =
             [state |-> state, gen |-> rows[t].gen, attempts |-> attempts, lease |-> lease]]

Take(w, t) ==
  /\ t \in Foremost(w) /\ rows[t].gen < MaxClaims
  /\ rows' = [rows EXCEPT ![t] = [state |-> "running", gen |-> rows[t].gen + 1,
                                  attempts |-> rows[t].attempts, lease |-> "held"]]
  /\ work' = [work EXCEPT ![w] = [at |-> "locking", target |-> t, gen |-> rows[t].gen + 1]]
  /\ UNCHANGED <<board, notices, lock, disk, budget>>

PulseClaims(t) == work[Pulse].at = "idle" /\ Take(Pulse, t) /\ UNCHANGED launch

(* _current_claim_row: what every write of a worker is fenced by. *)
Current(w) ==
  LET row == rows[work[w].target]
  IN  row.state = "running" /\ row.gen = work[w].gen /\ row.lease = "held"

(* A backoff ends, or the lease of a worker that is gone. *)
Holder(t, w) == work[w].target = t /\ work[w].gen = rows[t].gen

Elapse(t) ==
  /\ rows[t].lease = "held"
  /\ IF \E w \in Workers : Holder(t, w)
       THEN faults < MaxFaults /\ faults' = faults + 1  \* the worker was too slow
       ELSE UNCHANGED faults
  /\ Put(t, rows[t].state, rows[t].attempts, "over")
  /\ UNCHANGED <<board, notices, work, lock, launch, disk, retries>>

(***************************************************************************)
(* The work: SprintCleanupExecutor.execute.                                *)
(***************************************************************************)
Doing(w, stage) == work[w].at = stage
Slot(w) == work[w].target[2]

Becomes(w, stage) ==
  work' = [work EXCEPT ![w] = [at |-> stage, target |-> work[w].target, gen |-> work[w].gen]]

Go(w, stage) == Becomes(w, stage) /\ UNCHANGED lock

(* An exception, or a return, leaves the repository lock before anything else. *)
Raise(w, stage) == Becomes(w, stage) /\ lock' = {}

(* Seeded fault: whoever returns unlocks the file. *)
ReturnUnlocking(w) == work' = [work EXCEPT ![w] = NoWork] /\ lock' = {}

Return(w) == work' = [work EXCEPT ![w] = NoWork] /\ lock' = lock \ {w}

Lock(w) ==
  /\ Doing(w, "locking")
  /\ IF lock = {} THEN Becomes(w, "validating") /\ lock' = {w} ELSE Go(w, "waiting")
  /\ UNCHANGED <<board, rows, notices, launch, disk, budget>>

(* The slot is in use: a harness in the worktree, worktrees before the artifacts. *)
InUse(w) ==
  IF Slot(w) = Artifacts THEN ~WorktreesDone(work[w].target[1]) ELSE Live(Slot(w), w)

(* Seeded fault: a later Sprint counts when it has ended. *)
OutlivedByEnded(t) ==
  \E b \in later[t[1]] : lifecycle[b] \in {"completed", "aborted"} /\ t[2] \in Members[b]

(* A later Sprint has used the shell: its work is not this Sprint's to reset. *)
Outlived(t) ==
  \/ lifecycle[t[1]] # "completed"
  \/ \E b \in later[t[1]] : lifecycle[b] # "prepared" /\ t[2] \in Members[b]

Validate(w) ==
  /\ \E then \in {<<"validating", "recording">>, <<"revalidating", "beginning">>} :
       /\ Doing(w, then[1])
       /\ \/ ~Current(w) /\ Raise(w, "unsafe")
          \/ Current(w) /\ InUse(w) /\ Raise(w, "waiting")
          \/ Current(w) /\ ~InUse(w) /\ Outlived(work[w].target) /\ Raise(w, "unsafe")
          \/ Current(w) /\ ~InUse(w) /\ ~Outlived(work[w].target) /\ Go(w, then[2])
  /\ UNCHANGED <<board, rows, notices, launch, disk, budget>>

(* origin/main is fetched and what will be lost is recorded, under the fence. *)
Record(w) ==
  /\ Doing(w, "recording")
  /\ IF Current(w) THEN Go(w, "revalidating") ELSE Return(w)
  /\ UNCHANGED <<board, rows, notices, launch, disk, budget>>

Begin(w) ==
  /\ Doing(w, "beginning")
  /\ IF Current(w)
       THEN /\ Put(work[w].target, "running", rows[work[w].target].attempts + 1, "held")
            /\ Go(w, "resetting")
       ELSE Raise(w, "unsafe") /\ UNCHANGED rows
  /\ UNCHANGED <<board, notices, launch, disk, budget>>

(* The first command that destroys; nothing stands between it and begin_attempt. *)
Reset(w) ==
  /\ Doing(w, "resetting")
  /\ IF Slot(w) = Artifacts
       THEN artifacts' = artifacts \ {work[w].target[1]} /\ UNCHANGED tree /\ Go(w, "finishing")
       ELSE tree' = [tree EXCEPT ![Slot(w)] = "half"] /\ UNCHANGED artifacts /\ Go(w, "restoring")
  /\ UNCHANGED <<board, rows, notices, launch, budget>>

(* The commands that follow, the claim renewed before each. *)
Restore(w) ==
  /\ Doing(w, "restoring")
  /\ IF Current(w)
       THEN tree' = [tree EXCEPT ![Slot(w)] = "clean"] /\ Go(w, "checking")
       ELSE Raise(w, "unsafe") /\ UNCHANGED tree
  /\ UNCHANGED <<board, rows, notices, launch, artifacts, budget>>

Check(w) ==
  /\ Doing(w, "checking")
  /\ \/ ~Current(w) /\ Raise(w, "unsafe")
     \/ Current(w) /\ tree[Slot(w)] # "clean" /\ Raise(w, "failing")
     \/ Current(w) /\ tree[Slot(w)] = "clean" /\ Go(w, "finishing")
  /\ UNCHANGED <<board, rows, notices, launch, disk, budget>>

(* mark_succeeded, and the announcement when it was the Sprint's last target. *)
(* Seeded fault: the artifacts are not waited for. *)
LastWorktreeOf(t) ==
  \A v \in Targets(t[1]) \ {t} : v[2] # Artifacts => rows[v].state = "succeeded"

LastOf(t) == \A v \in Targets(t[1]) \ {t} : rows[v].state = "succeeded"

Finish(w) ==
  /\ Doing(w, "finishing")
  /\ LET t == work[w].target
     IN  IF Current(w)
           THEN /\ Put(t, "succeeded", rows[t].attempts, "none")
                /\ notices' = [notices EXCEPT ![t[1]] = @ + (IF LastOf(t) THEN 1 ELSE 0)]
           ELSE UNCHANGED <<rows, notices>>
  /\ Return(w)
  /\ UNCHANGED <<board, launch, disk, budget>>

(* What raised is written after the lock is gone: release_waiting, fail_safety,
   fail_mutation. *)
Report(w) ==
  /\ \E stage \in {"waiting", "unsafe", "failing"} :
       /\ Doing(w, stage)
       /\ LET t == work[w].target
              again == stage = "waiting" \/ (stage = "failing" /\ rows[t].attempts < MaxAttempts)
          IN  IF Current(w)
                THEN IF again THEN Put(t, "pending", rows[t].attempts, "held")
                              ELSE Put(t, "failed", rows[t].attempts, "none")
                ELSE UNCHANGED rows
  /\ Return(w)
  /\ UNCHANGED <<board, notices, launch, disk, budget>>

(* Git, a probe or an identity check fails. *)
Fault(w) ==
  /\ faults < MaxFaults /\ faults' = faults + 1
  /\ \/ work[w].at \in {"validating", "revalidating", "restoring"} /\ Raise(w, "unsafe")
     \/ work[w].at \in {"recording", "resetting", "restoring", "checking"} /\ Raise(w, "failing")
  /\ UNCHANGED <<board, rows, notices, launch, disk, retries>>

(* The process dies; its file lock goes with it, its claim stays.  The run of a
   turn is still leased, and is launched again. *)
Crash(w) ==
  /\ work[w].at # "idle"
  /\ faults < MaxFaults /\ faults' = faults + 1
  /\ Return(w)
  /\ launch' = IF w = Pulse THEN launch
               ELSE [launch EXCEPT ![w] = IF w[1] = "turn" THEN "asked" ELSE "none"]
  /\ UNCHANGED <<board, rows, notices, disk, retries>>

(***************************************************************************)
(* Launches: cleanup_before_launch, and the harness after it.              *)
(***************************************************************************)
Move(l, from, to) == launch[l] = from /\ launch' = [launch EXCEPT ![l] = to]

Ask(l) ==
  Move(l, "none", "asked") /\ UNCHANGED <<board, rows, notices, work, lock, disk, budget>>

Look(l) ==
  /\ Move(l, "asked", IF Unresolved({l[2]}) = {} THEN "cleared" ELSE "cleaning")
  /\ UNCHANGED <<board, rows, notices, work, lock, disk, budget>>

LaunchClaims(l, t) == Move(l, "cleaning", "again") /\ Take(l, t)

NothingToClaim(l) ==
  /\ \A t \in Target : ~Claimable(t, l)
  /\ Move(l, "cleaning", "again")
  /\ UNCHANGED <<board, rows, notices, work, lock, disk, budget>>

LookAgain(l) ==
  /\ work[l].at = "idle"
  /\ Move(l, "again", IF Unresolved({l[2]}) = {} THEN "cleared" ELSE "none")
  /\ UNCHANGED <<board, rows, notices, work, lock, disk, budget>>

Start(l) ==
  Move(l, "cleared", "running") /\ UNCHANGED <<board, rows, notices, work, lock, disk, budget>>

Edit(l) ==
  /\ launch[l] = "running" /\ tree[l[2]] = "clean"
  /\ tree' = [tree EXCEPT ![l[2]] = "dirty"]
  /\ UNCHANGED <<board, rows, notices, work, lock, launch, artifacts, budget>>

(* The harness ends, or the launch fails for a reason of its own. *)
End(l) ==
  /\ launch[l] # "none" /\ work[l].at = "idle"
  /\ Move(l, launch[l], "none")
  /\ UNCHANGED <<board, rows, notices, work, lock, disk, budget>>

(***************************************************************************)
(* The specification.                                                      *)
(***************************************************************************)
Init ==
  /\ \E legacy \in SUBSET Sprints :  \* completed, in this order, before there was a cleanup
       /\ lifecycle = [s \in Sprints |-> IF s \in legacy THEN "completed" ELSE "prepared"]
       /\ later = [s \in Sprints |-> {b \in legacy : s \in legacy /\ b > s}]
  /\ rows = [t \in Target |-> NoRow] /\ notices = [s \in Sprints |-> 0]
  /\ work = [w \in Workers |-> NoWork] /\ lock = {}
  /\ launch = [l \in Launchers |-> "none"]
  /\ tree = [sh \in Shells |-> "dirty"] /\ artifacts = Sprints
  /\ faults = 0 /\ retries = 0

Lifecycle(s) ==
  Arm(s) \/ Leave(s, "paused") \/ Leave(s, "aborted") \/ Complete(s) \/ Adopt(s) \/ Retry(s)

Step(w) ==
  Lock(w) \/ Validate(w) \/ Record(w) \/ Begin(w) \/ Reset(w) \/ Restore(w) \/ Check(w)
    \/ Finish(w) \/ Report(w)

LaunchStep(l) ==
  Look(l) \/ NothingToClaim(l) \/ LookAgain(l) \/ Start(l) \/ \E t \in Target : LaunchClaims(l, t)

Next ==
  \/ \E s \in Sprints : Lifecycle(s)
  \/ \E t \in Target : PulseClaims(t) \/ Elapse(t)
  \/ \E w \in Workers : Step(w) \/ Fault(w) \/ Crash(w)
  \/ \E l \in Launchers : LaunchStep(l) \/ Ask(l) \/ Edit(l) \/ End(l)

Spec == Init /\ [][Next]_vars

(* The runtime's thread runs again and again, a worker and a launch come to their
   end, time passes.  Nobody has to ask for a launch, or to leave a worktree. *)
FairSpec ==
  /\ Spec
  /\ WF_vars(\E t \in Target : PulseClaims(t))
  /\ \A w \in Workers : WF_vars(Step(w))
  /\ \A t \in Target : WF_vars(Elapse(t))
  /\ \A l \in Launchers : WF_vars(LaunchStep(l))
=============================================================================
