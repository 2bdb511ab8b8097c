------------------------- MODULE SprintCleanupProofs -------------------------
(***************************************************************************)
(* Why the cleanup is safe for every number of Sprints, shells, launches   *)
(* and failures: what a worker found out under the repository lock about   *)
(* its target stays true while it holds the lock.  A target is open from   *)
(* its schedule to its success, and only the holder of the lock succeeds;  *)
(* an open target keeps launches and Sprints away from its shell.          *)
(***************************************************************************)
EXTENDS CleanupProperties, TLAPS

Open(t) == rows[t].state \notin {"none", "succeeded"}

(* Past its first validation a worker acts on what it found out. *)
Past == Locked \ {"validating"}

(* What validation finds out about a target. *)
Entitled(t) ==
  /\ t \in Target
  /\ Open(t)
  /\ lifecycle[t[1]] = "completed"
  /\ t[2] \in Shells /\ <<"turn", t[2]>> \in Launchers
       => launch[<<"turn", t[2]>>] \notin {"cleared", "running"}
  /\ \A b \in Sprints : b # t[1] /\ t[2] \in Members[b] => lifecycle[b] # "armed"
  /\ t[2] = Artifacts => WorktreesDone(t[1])

WorkerOK(w) ==
  /\ work[w].at # "idle" => work[w].target \in Target
  /\ work[w].at # "idle" /\ w # Pulse => launch[w] = "again"
  /\ work[w].at \in Locked => lock = {w}
  /\ work[w].at \in Past => Entitled(work[w].target)
  /\ work[w].at \in {"checking", "finishing"} /\ work[w].target[2] \in Shells
       => tree[work[w].target[2]] # "half"

WorkersOK == \A w \in Workers : WorkerOK(w)

(* The order of the Sprints, and all targets of a Sprint or none. *)
OrderOK ==
  /\ \A s, b \in Sprints : lifecycle[s] = "completed" /\ lifecycle[b] = "armed" => b \in later[s]
  /\ \A s, b \in Sprints : lifecycle[s] = "armed" /\ lifecycle[b] = "armed" => s = b

Scheduling ==
  \A s \in Sprints :
    \/ \A t \in Target : t[1] = s => rows[t].state = "none"
    \/ /\ lifecycle[s] = "completed"
       /\ \A t \in Target : t[1] = s => (rows[t].state # "none" <=> t \in Targets(s))

IInv ==
  /\ TypeOK /\ WorkersOK /\ OrderOK /\ Scheduling
  /\ HalfResetIsFenced /\ ArtifactsLast /\ AnnouncedOnce

(***************************************************************************)
(* Types.                                                                  *)
(***************************************************************************)
LEMMA TargetFacts ==
  /\ \A t \in Target : t[1] \in Sprints /\ t[2] \in Shells \cup {Artifacts} /\ t = <<t[1], t[2]>>
  /\ \A s \in Sprints, x \in Shells \cup {Artifacts} : <<s, x>> \in Target
  /\ \A s \in Sprints : Targets(s) \subseteq Target /\ Members[s] \subseteq Shells
  /\ \A s \in Sprints : \A t \in Targets(s) : t[1] = s
  /\ \A s \in Sprints : <<s, Artifacts>> \in Targets(s) /\ Artifacts \notin Members[s]
  /\ 0 \notin Sprints
  BY CleanupConstants DEF Target, Targets

LEMMA WorkerFacts == Pulse \in Workers /\ Launchers \subseteq Workers /\ Pulse \notin Launchers
  BY CleanupConstants DEF Workers

(* One row put in place keeps the table a table. *)
LEMMA PutRow ==
  ASSUME rows \in [Target -> Row], NEW t \in Target, NEW row \in Row,
         rows' = [rows EXCEPT ![t] = row]
  PROVE  /\ rows' \in [Target -> Row] /\ rows'[t] = row
         /\ \A v \in Target \ {t} : rows'[v] = rows[v]
  OBVIOUS

LEMMA PutWork ==
  ASSUME work \in [Workers -> Work], NEW w \in Workers, NEW item \in Work,
         work' = [work EXCEPT ![w] = item]
  PROVE  /\ work' \in [Workers -> Work] /\ work'[w] = item
         /\ \A v \in Workers \ {w} : work'[v] = work[v]
  OBVIOUS

LEMMA NoWorkIsWork == NoWork \in Work
  BY DEF NoWork, Work, Stages, Locked

LEMMA BecomesTyped ==
  ASSUME work \in [Workers -> Work], NEW w \in Workers, NEW stage \in Stages, Becomes(w, stage)
  PROVE  /\ work' \in [Workers -> Work]
         /\ work'[w].at = stage /\ work'[w].target = work[w].target /\ work'[w].gen = work[w].gen
         /\ \A v \in Workers \ {w} : work'[v] = work[v]
  <1> DEFINE item == [at |-> stage, target |-> work[w].target, gen |-> work[w].gen]
  <1>1. item \in Work
    BY DEF Work
  <1>2. work' = [work EXCEPT ![w] = item]
    BY DEF Becomes
  <1>3. item.at = stage /\ item.target = work[w].target /\ item.gen = work[w].gen
    OBVIOUS
  <1> HIDE DEF item
  <1> QED
    BY <1>1, <1>2, <1>3, PutWork

LEMMA ReturnTyped ==
  ASSUME work \in [Workers -> Work], NEW w \in Workers, Return(w)
  PROVE  /\ work' \in [Workers -> Work] /\ work'[w] = NoWork /\ lock' = lock \ {w}
         /\ \A v \in Workers \ {w} : work'[v] = work[v]
  BY NoWorkIsWork, PutWork DEF Return

(* A row put back under its generation, and a claim. *)
LEMMA PutTyped ==
  ASSUME rows \in [Target -> Row], NEW t \in Target, NEW attempts \in Nat,
         NEW state \in {"none", "pending", "running", "succeeded", "failed"},
         NEW lease \in {"none", "held", "over"}, Put(t, state, attempts, lease)
  PROVE  /\ rows' \in [Target -> Row] /\ rows'[t].state = state
         /\ \A v \in Target \ {t} : rows'[v] = rows[v]
  <1> DEFINE row == [state |-> state, gen |-> rows[t].gen, attempts |-> attempts, lease |-> lease]
  <1>1. row \in Row
    BY DEF Row
  <1>2. rows' = [rows EXCEPT ![t] = row]
    BY DEF Put
  <1>3. row.state = state
    OBVIOUS
  <1> HIDE DEF row
  <1> QED
    BY <1>1, <1>2, <1>3, PutRow

LEMMA TakeTyped ==
  ASSUME TypeOK, NEW w \in Workers, NEW t \in Target, Take(w, t)
  PROVE  /\ rows' \in [Target -> Row] /\ rows'[t].state = "running"
         /\ \A v \in Target \ {t} : rows'[v] = rows[v]
         /\ work' \in [Workers -> Work]
         /\ work'[w].at = "locking" /\ work'[w].target = t
         /\ \A v \in Workers \ {w} : work'[v] = work[v]
         /\ rows[t].state \in {"pending", "running"}
  <1> DEFINE row == [state |-> "running", gen |-> rows[t].gen + 1,
                     attempts |-> rows[t].attempts, lease |-> "held"]
             item == [at |-> "locking", target |-> t, gen |-> rows[t].gen + 1]
  <1>1. rows \in [Target -> Row] /\ rows[t].gen + 1 \in Nat /\ rows[t].attempts \in Nat
    BY DEF TypeOK, Row
  <1>2. row \in Row /\ row.state = "running"
    BY <1>1 DEF Row
  <1>3. item \in Work /\ item.at = "locking" /\ item.target = t
    BY <1>1 DEF Work, Stages, Target
  <1>4. rows' = [rows EXCEPT ![t] = row] /\ work' = [work EXCEPT ![w] = item]
    BY DEF Take
  <1>5. rows[t].state \in {"pending", "running"}
    BY DEF Take, Foremost, Claimable, Due
  <1>6. work \in [Workers -> Work]
    BY DEF TypeOK
  <1> HIDE DEF row, item
  <1>7. /\ rows' \in [Target -> Row] /\ rows'[t] = row
        /\ \A v \in Target \ {t} : rows'[v] = rows[v]
    BY <1>1, <1>2, <1>4, PutRow
  <1>8. /\ work' \in [Workers -> Work] /\ work'[w] = item
        /\ \A v \in Workers \ {w} : work'[v] = work[v]
    BY <1>3, <1>4, <1>6, PutWork
  <1> QED
    BY <1>2, <1>3, <1>5, <1>7, <1>8

(* What a step of a worker does to its stage and to the lock: the lock is taken only
   when it is free, and left by its holder alone. *)
Outcome(w) ==
  /\ work[w].at # "idle"
  /\ \/ \E stage \in Stages : Go(w, stage) /\ (stage \in Locked => work[w].at \in Locked)
     \/ \E stage \in {"waiting", "unsafe", "failing"} : Raise(w, stage) /\ work[w].at \in Locked
     \/ Return(w)
     \/ Becomes(w, "validating") /\ lock = {} /\ lock' = {w}

LEMMA StepOutcome ==
  ASSUME NEW w \in Workers, Step(w) \/ Fault(w) \/ Crash(w)
  PROVE  Outcome(w)
  <1> USE DEF Outcome, Doing, Locked, Stages
  <1>1. CASE Lock(w)
    BY <1>1 DEF Lock, Go
  <1>2. CASE Validate(w)
    BY <1>2 DEF Validate
  <1>3. CASE Record(w)
    BY <1>3 DEF Record
  <1>4. CASE Begin(w)
    BY <1>4 DEF Begin
  <1>5. CASE Reset(w)
    BY <1>5 DEF Reset
  <1>6. CASE Restore(w)
    BY <1>6 DEF Restore
  <1>7. CASE Check(w)
    BY <1>7 DEF Check
  <1>8. CASE Finish(w)
    BY <1>8 DEF Finish
  <1>9. CASE Report(w)
    BY <1>9 DEF Report
  <1>10. CASE Fault(w)
    BY <1>10 DEF Fault
  <1>11. CASE Crash(w)
    BY <1>11 DEF Crash
  <1> QED
    BY <1>1, <1>2, <1>3, <1>4, <1>5, <1>6, <1>7, <1>8, <1>9, <1>10, <1>11 DEF Step

LEMMA WorkStep ==
  ASSUME TypeOK, WorkersOK, NEW w \in Workers, Outcome(w)
  PROVE  /\ work' \in [Workers -> Work]
         /\ lock' \in {{}} \cup {{v} : v \in Workers}
         /\ \A v \in Workers \ {w} : work'[v] = work[v]
         /\ work[w].at # "idle" /\ work[w].target \in Target
         /\ work'[w].at # "idle" => work'[w].target = work[w].target
         /\ \A v \in Workers \ {w} : work[v].at \in Locked => lock' = {v}
         /\ work'[w].at \in Locked => lock' = {w}
  <1>0. /\ work[w].at \in Locked => lock = {w}
        /\ \A v \in Workers \ {w} : work[v].at \in Locked => lock = {v}
        /\ work[w].at # "idle" /\ work[w].target \in Target
        /\ NoWork.at = "idle" /\ "idle" \notin Locked
        /\ work \in [Workers -> Work] /\ lock \in {{}} \cup {{v} : v \in Workers}
    BY DEF WorkersOK, WorkerOK, NoWork, Locked, Outcome, TypeOK
  <1>1. CASE \E stage \in Stages : Go(w, stage) /\ (stage \in Locked => work[w].at \in Locked)
    <2>1. PICK stage \in Stages : Go(w, stage) /\ (stage \in Locked => work[w].at \in Locked)
      BY <1>1
    <2>2. lock' = lock /\ Becomes(w, stage)
      BY <2>1 DEF Go
    <2> QED
      BY <1>0, <2>1, <2>2, BecomesTyped
  <1>2. CASE \E stage \in {"waiting", "unsafe", "failing"} :
               Raise(w, stage) /\ work[w].at \in Locked
    <2>1. PICK stage \in {"waiting", "unsafe", "failing"} :
            Raise(w, stage) /\ work[w].at \in Locked
      BY <1>2
    <2>2. lock' = {} /\ Becomes(w, stage) /\ stage \in Stages /\ stage \notin Locked
      BY <2>1 DEF Raise, Stages, Locked
    <2>3. \A v \in Workers \ {w} : work[v].at \notin Locked
      BY <1>0, <2>1
    <2> QED
      BY <1>0, <2>2, <2>3, BecomesTyped
  <1>3. CASE Return(w)
    <2>1. lock' = lock \ {w}
      BY <1>3 DEF Return
    <2> QED
      BY <1>0, <1>3, <2>1, ReturnTyped
  <1>4. CASE Becomes(w, "validating") /\ lock = {} /\ lock' = {w}
    <2>1. "validating" \in Stages
      BY DEF Stages, Locked
    <2> QED
      BY <1>0, <1>4, <2>1, BecomesTyped
  <1> QED
    BY <1>1, <1>2, <1>3, <1>4 DEF Outcome

(* Which targets are scheduled, and which are done. *)
Steady ==
  \A t \in Target :
    /\ rows'[t].state = "none" <=> rows[t].state = "none"
    /\ rows'[t].state = "succeeded" <=> rows[t].state = "succeeded"

LEMMA TakeSteady ==
  ASSUME TypeOK, NEW w \in Workers, NEW t \in Target, Take(w, t)
  PROVE  Steady
  BY TakeTyped DEF Steady

(* A worker writes its row under the fence, so the row is running. *)
LEMMA PutSteady ==
  ASSUME TypeOK, NEW t \in Target, rows[t].state \notin {"none", "succeeded"},
         NEW attempts \in Nat, NEW state \in {"pending", "running", "failed"},
         NEW lease \in {"none", "held", "over"}, Put(t, state, attempts, lease)
  PROVE  rows' \in [Target -> Row] /\ Steady
  <1>1. rows \in [Target -> Row] /\ state \notin {"none", "succeeded"}
    BY DEF TypeOK
  <1>2. /\ rows' \in [Target -> Row] /\ rows'[t].state = state
        /\ \A v \in Target \ {t} : rows'[v] = rows[v]
    BY <1>1, PutTyped
  <1> QED
    BY <1>1, <1>2 DEF Steady

LEMMA ElapseSteady ==
  ASSUME TypeOK, NEW t \in Target, Elapse(t)
  PROVE  rows' \in [Target -> Row] /\ Steady
  <1>1. rows \in [Target -> Row] /\ rows[t] \in Row
    BY DEF TypeOK
  <1>2. rows[t].state \in {"none", "pending", "running", "succeeded", "failed"}
        /\ rows[t].attempts \in Nat
    BY <1>1 DEF Row
  <1>3. Put(t, rows[t].state, rows[t].attempts, "over")
    BY DEF Elapse
  <1>4. /\ rows' \in [Target -> Row] /\ rows'[t].state = rows[t].state
        /\ \A v \in Target \ {t} : rows'[v] = rows[v]
    BY <1>1, <1>2, <1>3, PutTyped
  <1> QED
    BY <1>4 DEF Steady

LEMMA RetrySteady ==
  ASSUME TypeOK, NEW s \in Sprints, Retry(s)
  PROVE  rows' \in [Target -> Row] /\ Steady
  <1> DEFINE Again(t) == [state |-> "pending", gen |-> rows[t].gen,
                          attempts |-> rows[t].attempts, lease |-> "none"]
  <1>1. \A t \in Target : rows[t] \in Row
    BY DEF TypeOK
  <1>2. \A t \in Target : Again(t) \in Row /\ Again(t).state = "pending"
    BY <1>1 DEF Row
  <1>3. rows' = [t \in Target |->
          IF t \in Targets(s) /\ rows[t].state = "failed" THEN Again(t) ELSE rows[t]]
    BY DEF Retry
  <1> HIDE DEF Again
  <1> QED
    BY <1>1, <1>2, <1>3 DEF Steady

LEMMA WorkerRows ==
  ASSUME TypeOK, NEW w \in Workers, Step(w) \/ Fault(w) \/ Crash(w), ~Finish(w),
         work[w].target \in Target
  PROVE  rows' \in [Target -> Row] /\ Steady
  <1> DEFINE t == work[w].target
  <1>1. rows \in [Target -> Row] /\ rows[t] \in Row
    BY DEF TypeOK
  <1>2. rows[t].attempts \in Nat /\ rows[t].attempts + 1 \in Nat
    BY <1>1 DEF Row
  <1>3. ASSUME UNCHANGED rows PROVE rows' \in [Target -> Row] /\ Steady
    BY <1>1, <1>3 DEF Steady
  <1>4. Current(w) => rows[t].state \notin {"none", "succeeded"}
    BY DEF Current
  <1>5. CASE Begin(w)
    <2>1. CASE Current(w)
      <3>1. Put(t, "running", rows[t].attempts + 1, "held")
        BY <1>5, <2>1 DEF Begin
      <3> QED
        BY <1>2, <1>4, <2>1, <3>1, PutSteady
    <2> QED
      BY <1>3, <1>5, <2>1 DEF Begin
  <1>6. CASE Report(w)
    <2>1. \/ UNCHANGED rows
          \/ Current(w) /\ Put(t, "pending", rows[t].attempts, "held")
          \/ Current(w) /\ Put(t, "failed", rows[t].attempts, "none")
      BY <1>6 DEF Report
    <2>2. t \in Target
      OBVIOUS
    <2>3. CASE UNCHANGED rows
      BY <1>3, <2>3
    <2>4. CASE Current(w) /\ Put(t, "pending", rows[t].attempts, "held")
      BY <1>2, <1>4, <2>2, <2>4, PutSteady
    <2>5. CASE Current(w) /\ Put(t, "failed", rows[t].attempts, "none")
      BY <1>2, <1>4, <2>2, <2>5, PutSteady
    <2> QED
      BY <2>1, <2>3, <2>4, <2>5
  <1>7. CASE ~Begin(w) /\ ~Report(w)
    BY <1>3, <1>7 DEF Step, Lock, Validate, Record, Reset, Restore, Check, Fault, Crash
  <1> QED
    BY <1>5, <1>6, <1>7

LEMMA ScheduledRows ==
  ASSUME TypeOK, NEW s \in Sprints, rows' = Scheduled(s)
  PROVE  /\ rows' \in [Target -> Row]
         /\ \A t \in Target \ Targets(s) : rows'[t] = rows[t]
         /\ \A t \in Targets(s) : rows'[t].state = "pending"
  <1>1. Unclaimed \in Row /\ Unclaimed.state = "pending"
    BY DEF Unclaimed, Row
  <1>2. \A t \in Target : rows[t] \in Row
    BY DEF TypeOK
  <1>3. \A t \in Targets(s) : t \in Target
    BY TargetFacts
  <1> QED
    BY <1>1, <1>2, <1>3 DEF Scheduled

LEMMA FinishRows ==
  ASSUME TypeOK, NEW w \in Workers, Finish(w), work[w].target \in Target
  PROVE  /\ rows' \in [Target -> Row]
         /\ \A t \in Target \ {work[w].target} : rows'[t] = rows[t]
         /\ Current(w) => rows'[work[w].target].state = "succeeded"
         /\ ~Current(w) => UNCHANGED <<rows, notices>>
  <1> DEFINE t == work[w].target
  <1>1. rows \in [Target -> Row] /\ rows[t] \in Row /\ t \in Target
    BY DEF TypeOK
  <1>2. rows[t].attempts \in Nat
    BY <1>1 DEF Row
  <1>3. Current(w) => Put(t, "succeeded", rows[t].attempts, "none")
    BY DEF Finish
  <1>4. ~Current(w) => UNCHANGED <<rows, notices>>
    BY DEF Finish
  <1>5. CASE Current(w)
    BY <1>1, <1>2, <1>3, <1>5, PutTyped
  <1> QED
    BY <1>1, <1>4, <1>5

LEMMA MoveTyped ==
  ASSUME TypeOK, NEW l \in Launchers, NEW from,
         NEW to \in {"none", "asked", "cleaning", "again", "cleared", "running"}, Move(l, from, to)
  PROVE  /\ launch' \in [Launchers -> {"none", "asked", "cleaning", "again", "cleared", "running"}]
         /\ launch[l] = from /\ launch'[l] = to
         /\ \A k \in Launchers \ {l} : launch'[k] = launch[k]
  BY DEF TypeOK, Move

LEMMA EnterTyped ==
  ASSUME TypeOK, NEW s \in Sprints,
         NEW state \in {"prepared", "armed", "paused", "completed", "aborted"},
         Enter(s, state)
  PROVE  /\ lifecycle' \in [Sprints -> {"prepared", "armed", "paused", "completed", "aborted"}]
         /\ later' \in [Sprints -> SUBSET Sprints]
         /\ lifecycle'[s] = state
         /\ \A b \in Sprints \ {s} : lifecycle'[b] = lifecycle[b]
         /\ \A b \in Sprints : later[b] \subseteq later'[b]
         /\ \A b \in Sprints \ {s} : lifecycle[b] = "completed" => s \in later'[b]
  BY DEF TypeOK, Enter

LEMMA TypeLifecycle ==
  ASSUME TypeOK, NEW s \in Sprints, Lifecycle(s)
  PROVE  TypeOK'
  <1>1. CASE Arm(s)
    <2>1. Enter(s, "armed") /\ UNCHANGED <<rows, notices, work, lock, launch, disk, budget>>
      BY <1>1 DEF Arm
    <2> QED
      BY <2>1, EnterTyped DEF TypeOK, disk, budget
  <1>2. ASSUME NEW state \in {"paused", "aborted"}, Leave(s, state) PROVE TypeOK'
    <2>1. Enter(s, state) /\ UNCHANGED <<rows, notices, work, lock, launch, disk, budget>>
      BY <1>2 DEF Leave
    <2> QED
      BY <2>1, EnterTyped DEF TypeOK, disk, budget
  <1>3. CASE Complete(s)
    <2>1. /\ Enter(s, "completed") /\ rows' = Scheduled(s)
          /\ UNCHANGED <<notices, work, lock, launch, disk, budget>>
      BY <1>3 DEF Complete
    <2> QED
      BY <2>1, EnterTyped, ScheduledRows DEF TypeOK, disk, budget
  <1>4. CASE Adopt(s)
    <2>1. rows' = Scheduled(s) /\ UNCHANGED <<board, notices, work, lock, launch, disk, budget>>
      BY <1>4 DEF Adopt
    <2> QED
      BY <2>1, ScheduledRows DEF TypeOK, board, disk, budget
  <1>5. CASE Retry(s)
    <2>1. retries' = retries + 1 /\ UNCHANGED <<board, notices, work, lock, launch, disk, faults>>
      BY <1>5 DEF Retry
    <2> QED
      BY <1>5, <2>1, RetrySteady DEF TypeOK, board, disk
  <1> QED
    BY <1>1, <1>2, <1>3, <1>4, <1>5 DEF Lifecycle

LEMMA TypeClaim ==
  ASSUME TypeOK, NEW t \in Target,
         PulseClaims(t) \/ (\E l \in Launchers : LaunchClaims(l, t))
  PROVE  TypeOK'
  <1>1. CASE PulseClaims(t)
    <2>1. Take(Pulse, t) /\ UNCHANGED launch
      BY <1>1 DEF PulseClaims
    <2>2. UNCHANGED <<board, notices, lock, disk, budget>>
      BY <2>1 DEF Take
    <2> QED
      BY <2>1, <2>2, TakeTyped, WorkerFacts DEF TypeOK, board, disk, budget
  <1>2. CASE \E l \in Launchers : LaunchClaims(l, t)
    <2>1. PICK l \in Launchers : LaunchClaims(l, t)
      BY <1>2
    <2>2. Take(l, t) /\ Move(l, "cleaning", "again")
      BY <2>1 DEF LaunchClaims
    <2>3. UNCHANGED <<board, notices, lock, disk, budget>>
      BY <2>2 DEF Take
    <2> QED
      BY <2>2, <2>3, TakeTyped, MoveTyped, WorkerFacts DEF TypeOK, board, disk, budget
  <1> QED
    BY <1>1, <1>2

LEMMA TypeElapse ==
  ASSUME TypeOK, NEW t \in Target, Elapse(t)
  PROVE  TypeOK'
  <1>1. rows' \in [Target -> Row]
    BY ElapseSteady
  <1>2. /\ faults' = faults + 1 \/ faults' = faults
        /\ UNCHANGED <<board, notices, work, lock, launch, disk, retries>>
    BY DEF Elapse
  <1> QED
    BY <1>1, <1>2 DEF TypeOK, board, disk

LEMMA TypeWorker ==
  ASSUME TypeOK, WorkersOK, NEW w \in Workers, Step(w) \/ Fault(w) \/ Crash(w)
  PROVE  TypeOK'
  <1>1. /\ work' \in [Workers -> Work] /\ lock' \in {{}} \cup {{v} : v \in Workers}
        /\ work[w].target \in Target
    BY StepOutcome, WorkStep
  <1>2. rows' \in [Target -> Row]
    BY <1>1, WorkerRows, FinishRows
  <1>3. CASE Finish(w)
    <2>1. /\ UNCHANGED <<board, launch, disk, budget>>
          /\ \/ UNCHANGED notices
             \/ notices' = [notices EXCEPT ![work[w].target[1]] =
                              @ + (IF LastOf(work[w].target) THEN 1 ELSE 0)]
      BY <1>3 DEF Finish
    <2>2. notices' \in [Sprints -> Nat]
      BY <2>1 DEF TypeOK
    <2> QED
      BY <1>1, <1>2, <2>1, <2>2 DEF TypeOK, board, disk, budget
  <1>4. CASE Reset(w) \/ Restore(w)
    <2>1. /\ UNCHANGED <<board, notices, launch, budget>>
          /\ tree' \in [Shells -> {"clean", "dirty", "half"}] /\ artifacts' \subseteq Sprints
      BY <1>4 DEF Reset, Restore, TypeOK
    <2> QED
      BY <1>1, <1>2, <2>1 DEF TypeOK, board, budget
  <1>5. CASE Fault(w)
    <2>1. faults' = faults + 1 /\ UNCHANGED <<board, notices, launch, disk, retries>>
      BY <1>5 DEF Fault
    <2> QED
      BY <1>1, <1>2, <2>1 DEF TypeOK, board, disk
  <1>6. CASE Crash(w)
    <2>1. faults' = faults + 1 /\ UNCHANGED <<board, notices, disk, retries>>
      BY <1>6 DEF Crash
    <2>2. launch' \in [Launchers -> {"none", "asked", "cleaning", "again", "cleared", "running"}]
      BY <1>6 DEF Crash, TypeOK
    <2> QED
      BY <1>1, <1>2, <2>1, <2>2 DEF TypeOK, board, disk
  <1>7. CASE Lock(w) \/ Validate(w) \/ Record(w) \/ Begin(w) \/ Check(w) \/ Report(w)
    <2>1. UNCHANGED <<board, notices, launch, disk, budget>>
      BY <1>7 DEF Lock, Validate, Record, Begin, Check, Report
    <2> QED
      BY <1>1, <1>2, <2>1 DEF TypeOK, board, disk, budget
  <1> QED
    BY <1>3, <1>4, <1>5, <1>6, <1>7 DEF Step

(* What a launch does by itself: it moves on, and nothing else. *)
LaunchMoves(l) == Look(l) \/ NothingToClaim(l) \/ LookAgain(l) \/ Start(l) \/ Ask(l) \/ End(l)

LEMMA LaunchFrame ==
  ASSUME TypeOK, NEW l \in Launchers, LaunchMoves(l)
  PROVE  /\ launch' \in [Launchers -> {"none", "asked", "cleaning", "again", "cleared", "running"}]
         /\ \A k \in Launchers \ {l} : launch'[k] = launch[k]
         /\ UNCHANGED <<board, rows, notices, work, lock, disk, budget>>
         /\ launch[l] = "again" => work[l].at = "idle"
         /\ launch'[l] \in {"cleared", "running"} =>
              Unresolved({l[2]}) = {} \/ launch[l] = "cleared"
  <1>1. CASE Look(l)
    BY <1>1, MoveTyped DEF Look
  <1>2. CASE NothingToClaim(l)
    BY <1>2, MoveTyped DEF NothingToClaim
  <1>3. CASE LookAgain(l)
    BY <1>3, MoveTyped DEF LookAgain
  <1>4. CASE Start(l)
    BY <1>4, MoveTyped DEF Start
  <1>5. CASE Ask(l)
    BY <1>5, MoveTyped DEF Ask
  <1>6. CASE End(l)
    BY <1>6, MoveTyped DEF End
  <1> QED
    BY <1>1, <1>2, <1>3, <1>4, <1>5, <1>6 DEF LaunchMoves

LEMMA TypeLaunch ==
  ASSUME TypeOK, NEW l \in Launchers, LaunchMoves(l) \/ Edit(l)
  PROVE  TypeOK'
  <1>1. CASE LaunchMoves(l)
    BY <1>1, LaunchFrame DEF TypeOK, board, disk, budget
  <1>2. CASE Edit(l)
    BY <1>2 DEF Edit, TypeOK, board, budget
  <1> QED
    BY <1>1, <1>2

(***************************************************************************)
(* What a worker found out stays true.                                     *)
(***************************************************************************)
LEMMA SteadyFacts ==
  ASSUME Steady
  PROVE  /\ \A t \in Target : Open(t) <=> Open(t)'
         /\ \A s \in Sprints : WorktreesDone(s) <=> WorktreesDone(s)'
  BY TargetFacts DEF Steady, Open, WorktreesDone

LEMMA EntitledFrame ==
  ASSUME NEW t, Entitled(t), Steady, UNCHANGED <<lifecycle, launch>>
  PROVE  Entitled(t)'
  BY SteadyFacts, TargetFacts DEF Entitled

LEMMA UnchangedSteady ==
  ASSUME UNCHANGED rows
  PROVE  Steady
  BY DEF Steady

LEMMA EntitledLifecycle ==
  ASSUME IInv, NEW s \in Sprints, Lifecycle(s), NEW t, Entitled(t)
  PROVE  Entitled(t)'
  <1>0. TypeOK /\ t \in Target /\ t[1] \in Sprints /\ t[2] \in Shells \cup {Artifacts}
    BY TargetFacts DEF IInv, Entitled
  <1>1. CASE Arm(s)
    <2>1. /\ Enter(s, "armed") /\ UNCHANGED <<rows, launch>>
          /\ lifecycle[s] \in {"prepared", "paused"} /\ Unresolved(Members[s]) = {}
      BY <1>1 DEF Arm
    <2>2. lifecycle'[t[1]] = "completed"
      BY <1>0, <2>1, EnterTyped DEF Entitled
    <2>3. t[2] \notin Members[s]
      BY <1>0, <2>1 DEF Unresolved, Entitled, Open
    <2>4. \A b \in Sprints : b # t[1] /\ t[2] \in Members[b] => lifecycle'[b] # "armed"
      BY <1>0, <2>1, <2>3, EnterTyped DEF Entitled
    <2> QED
      BY <2>1, <2>2, <2>4 DEF Entitled, Open, WorktreesDone
  <1>2. ASSUME NEW state \in {"paused", "aborted"}, Leave(s, state) PROVE Entitled(t)'
    <2>1. /\ Enter(s, state) /\ UNCHANGED <<rows, launch>>
          /\ lifecycle[s] \in {"prepared", "armed", "paused"}
      BY <1>2 DEF Leave
    <2>2. lifecycle'[t[1]] = "completed"
      BY <1>0, <2>1, EnterTyped DEF Entitled
    <2>3. \A b \in Sprints : b # t[1] /\ t[2] \in Members[b] => lifecycle'[b] # "armed"
      BY <1>0, <2>1, EnterTyped DEF Entitled
    <2> QED
      BY <2>1, <2>2, <2>3 DEF Entitled, Open, WorktreesDone
  <1>3. CASE Complete(s)
    <2>1. /\ Enter(s, "completed") /\ rows' = Scheduled(s) /\ UNCHANGED launch
          /\ lifecycle[s] = "armed"
      BY <1>3 DEF Complete
    <2>2. s # t[1] /\ lifecycle'[t[1]] = "completed"
      BY <1>0, <2>1, EnterTyped DEF Entitled
    <2>3. \A b \in Sprints : b # t[1] /\ t[2] \in Members[b] => lifecycle'[b] # "armed"
      BY <1>0, <2>1, EnterTyped DEF Entitled
    <2>4. \A v \in Target : v[1] # s => rows'[v] = rows[v]
      BY <1>0, <2>1, ScheduledRows, TargetFacts
    <2>5. \A sh \in Members[t[1]] : rows'[<<t[1], sh>>] = rows[<<t[1], sh>>]
      BY <1>0, <2>2, <2>4, TargetFacts
    <2> QED
      BY <1>0, <2>1, <2>2, <2>3, <2>4, <2>5 DEF Entitled, Open, WorktreesDone
  <1>4. CASE Adopt(s)
    <2>1. /\ \A v \in Targets(s) : rows[v].state = "none"
          /\ rows' = Scheduled(s) /\ UNCHANGED <<lifecycle, launch>>
      BY <1>4 DEF Adopt, board
    <2>2. s # t[1]
      BY <1>0, <2>1, TargetFacts DEF IInv, Scheduling, Entitled, Open
    <2>3. \A v \in Target : v[1] # s => rows'[v] = rows[v]
      BY <1>0, <2>1, ScheduledRows, TargetFacts
    <2>4. \A sh \in Members[t[1]] : rows'[<<t[1], sh>>] = rows[<<t[1], sh>>]
      BY <1>0, <2>2, <2>3, TargetFacts
    <2> QED
      BY <1>0, <2>1, <2>2, <2>3, <2>4 DEF Entitled, Open, WorktreesDone
  <1>5. CASE Retry(s)
    <2>1. UNCHANGED <<lifecycle, launch>>
      BY <1>5 DEF Retry, board
    <2> QED
      BY <1>0, <1>5, <2>1, RetrySteady, EntitledFrame
  <1> QED
    BY <1>1, <1>2, <1>3, <1>4, <1>5 DEF Lifecycle

(* A launch that moves past its look found nothing open for its shell. *)
LEMMA EntitledLaunch ==
  ASSUME TypeOK, NEW l \in Launchers, LaunchMoves(l), NEW t, Entitled(t)
  PROVE  Entitled(t)'
  <1>1. UNCHANGED <<rows, lifecycle>>
    BY LaunchFrame DEF board
  <1>2. ASSUME t[2] \in Shells, <<"turn", t[2]>> \in Launchers
        PROVE  launch'[<<"turn", t[2]>>] \notin {"cleared", "running"}
    <2>1. launch[<<"turn", t[2]>>] \notin {"cleared", "running"}
      BY <1>2 DEF Entitled
    <2>2. CASE l = <<"turn", t[2]>>
      <3>1. l[2] = t[2] /\ t \in Unresolved({l[2]})
        BY <2>2 DEF Entitled, Open, Unresolved
      <3> QED
        BY <2>1, <2>2, <3>1, LaunchFrame
    <2>3. CASE l # <<"turn", t[2]>>
      BY <1>2, <2>1, <2>3, LaunchFrame
    <2> QED
      BY <2>2, <2>3
  <1> QED
    BY <1>1, <1>2 DEF Entitled, Open, WorktreesDone

LEMMA EntitledClaim ==
  ASSUME TypeOK, NEW w \in Workers, NEW v \in Target, Take(w, v),
         \/ UNCHANGED launch
         \/ w \in Launchers /\ Move(w, "cleaning", "again"),
         NEW t, Entitled(t)
  PROVE  Entitled(t)'
  <1>1. Steady /\ UNCHANGED lifecycle
    BY TakeSteady DEF Take, board
  <1>2. ASSUME t[2] \in Shells, <<"turn", t[2]>> \in Launchers
        PROVE  launch'[<<"turn", t[2]>>] \notin {"cleared", "running"}
    <2>1. CASE UNCHANGED launch
      BY <1>2, <2>1 DEF Entitled
    <2>2. CASE w \in Launchers /\ Move(w, "cleaning", "again")
      <3>1. /\ launch'[w] = "again"
            /\ \A k \in Launchers \ {w} : launch'[k] = launch[k]
        BY <2>2, MoveTyped
      <3> QED
        BY <1>2, <3>1 DEF Entitled
    <2> QED
      BY <2>1, <2>2
  <1>3. t[1] \in Sprints /\ t \in Target
    BY TargetFacts DEF Entitled
  <1> QED
    BY <1>1, <1>2, <1>3, SteadyFacts DEF Entitled

LEMMA EntitledWorker ==
  ASSUME IInv, NEW w \in Workers, Step(w) \/ Fault(w) \/ Crash(w), ~Finish(w),
         NEW t, Entitled(t)
  PROVE  Entitled(t)'
  <1>1. TypeOK /\ work[w].target \in Target
    BY StepOutcome, WorkStep DEF IInv
  <1>2. Steady
    BY <1>1, WorkerRows
  <1>3. UNCHANGED lifecycle
    BY DEF Step, Lock, Validate, Record, Begin, Reset, Restore, Check, Report, Fault, Crash, board
  <1>4. CASE Crash(w)
    <2>1. \A l \in Launchers : launch'[l] = launch[l] \/ launch'[l] \in {"asked", "none"}
      BY <1>1, <1>4 DEF Crash, TypeOK
    <2>2. t[1] \in Sprints /\ t \in Target
      BY TargetFacts DEF Entitled
    <2> QED
      BY <1>2, <1>3, <2>1, <2>2, SteadyFacts DEF Entitled
  <1>5. CASE ~Crash(w)
    <2>1. UNCHANGED launch
      BY <1>5 DEF Step, Lock, Validate, Record, Begin, Reset, Restore, Check, Report, Fault
    <2> QED
      BY <1>2, <1>3, <2>1, EntitledFrame
  <1> QED
    BY <1>4, <1>5

LEMMA WorkersFrame ==
  ASSUME WorkersOK, UNCHANGED <<work, lock, launch, tree>>,
         \A t : Entitled(t) => Entitled(t)'
  PROVE  WorkersOK'
  BY DEF WorkersOK, WorkerOK

LEMMA WorkersLifecycle ==
  ASSUME IInv, NEW s \in Sprints, Lifecycle(s)
  PROVE  WorkersOK'
  <1>1. UNCHANGED <<work, lock, launch, tree>>
    BY DEF Lifecycle, Arm, Leave, Complete, Adopt, Retry, disk
  <1>2. \A t : Entitled(t) => Entitled(t)'
    BY EntitledLifecycle
  <1>3. WorkersOK
    BY DEF IInv
  <1> QED
    BY <1>1, <1>2, <1>3, WorkersFrame

LEMMA WorkersElapse ==
  ASSUME IInv, NEW v \in Target, Elapse(v)
  PROVE  WorkersOK'
  <1>1. TypeOK /\ WorkersOK /\ UNCHANGED <<work, lock, launch, tree, lifecycle>>
    BY DEF Elapse, IInv, disk, board
  <1>2. Steady
    BY <1>1, ElapseSteady
  <1>3. \A t : Entitled(t) => Entitled(t)'
    BY <1>1, <1>2, EntitledFrame
  <1> QED
    BY <1>1, <1>3, WorkersFrame

LEMMA WorkersLaunch ==
  ASSUME IInv, NEW l \in Launchers, LaunchMoves(l) \/ Edit(l)
  PROVE  WorkersOK'
  <1>0. TypeOK /\ WorkersOK
    BY DEF IInv
  <1>1. CASE LaunchMoves(l)
    <2>1. /\ UNCHANGED <<work, lock, tree>>
          /\ \A k \in Launchers \ {l} : launch'[k] = launch[k]
          /\ launch[l] = "again" => work[l].at = "idle"
      BY <1>0, <1>1, LaunchFrame DEF disk
    <2>2. \A t : Entitled(t) => Entitled(t)'
      BY <1>0, <1>1, EntitledLaunch
    <2>3. ASSUME NEW w \in Workers, work[w].at # "idle", w # Pulse PROVE launch'[w] = "again"
      BY <1>0, <2>1, <2>3, WorkerFacts DEF WorkersOK, WorkerOK, Workers
    <2> QED
      BY <1>0, <2>1, <2>2, <2>3 DEF WorkersOK, WorkerOK
  <1>2. CASE Edit(l)
    <2>1. /\ UNCHANGED <<rows, lifecycle, work, lock, launch>>
          /\ tree' = [tree EXCEPT ![l[2]] = "dirty"]
      BY <1>2 DEF Edit, board
    <2>2. \A sh \in Shells : tree[sh] # "half" => tree'[sh] # "half"
      BY <1>0, <2>1 DEF TypeOK
    <2>3. \A t : Entitled(t) => Entitled(t)'
      BY <2>1, UnchangedSteady, EntitledFrame
    <2> QED
      BY <1>0, <2>1, <2>2, <2>3 DEF WorkersOK, WorkerOK
  <1> QED
    BY <1>1, <1>2

LEMMA WorkersClaim ==
  ASSUME IInv, NEW w \in Workers, NEW v \in Target, Take(w, v), work[w].at = "idle",
         \/ w = Pulse /\ UNCHANGED launch
         \/ w \in Launchers /\ Move(w, "cleaning", "again")
  PROVE  WorkersOK'
  <1>0. TypeOK /\ WorkersOK /\ UNCHANGED <<lock, tree>>
    BY DEF IInv, Take, disk
  <1>1. /\ work'[w].at = "locking" /\ work'[w].target = v
        /\ \A u \in Workers \ {w} : work'[u] = work[u]
    BY <1>0, TakeTyped
  <1>2. \A t : Entitled(t) => Entitled(t)'
    BY <1>0, EntitledClaim
  <1>3. /\ w # Pulse => launch'[w] = "again"
        /\ \A u \in Launchers \ {w} : launch'[u] = launch[u]
    BY <1>0, MoveTyped, WorkerFacts
  <1>4. "locking" \notin Locked /\ Past \subseteq Locked
    BY DEF Locked, Past
  <1>5. ASSUME NEW u \in Workers \ {w} PROVE WorkerOK(u)'
    BY <1>0, <1>1, <1>2, <1>3, WorkerFacts DEF WorkersOK, WorkerOK, Workers
  <1>6. WorkerOK(w)'
    BY <1>0, <1>1, <1>3, <1>4 DEF WorkerOK
  <1> QED
    BY <1>5, <1>6 DEF WorkersOK

(* Validation: what it read is what the worker is entitled by. *)
LEMMA Validated ==
  ASSUME IInv, NEW w \in Workers, work[w].target \in Target, work[w].at # "idle",
         Current(w), ~InUse(w), ~Outlived(work[w].target)
  PROVE  Entitled(work[w].target)
  <1> DEFINE t == work[w].target
  <1>1. /\ t \in Target /\ t[1] \in Sprints /\ t[2] \in Shells \cup {Artifacts}
        /\ TypeOK /\ WorkersOK /\ OrderOK
    BY TargetFacts DEF IInv
  <1>2. Open(t)
    BY DEF Open, Current
  <1>3. lifecycle[t[1]] = "completed"
    BY DEF Outlived
  <1>4. ASSUME t[2] \in Shells, <<"turn", t[2]>> \in Launchers
        PROVE  launch[<<"turn", t[2]>>] \notin {"cleared", "running"}
    <2>1. CASE w = <<"turn", t[2]>>
      BY <1>1, <1>4, <2>1, WorkerFacts DEF WorkersOK, WorkerOK
    <2>2. CASE w # <<"turn", t[2]>>
      BY <1>1, <1>4, <2>2, TargetFacts, CleanupConstants DEF InUse, Slot, Live
    <2> QED
      BY <2>1, <2>2
  <1>5. \A b \in Sprints : b # t[1] /\ t[2] \in Members[b] => lifecycle[b] # "armed"
    BY <1>1, <1>3 DEF OrderOK, Outlived
  <1>6. t[2] = Artifacts => WorktreesDone(t[1])
    BY DEF InUse, Slot
  <1> QED
    BY <1>1, <1>2, <1>3, <1>4, <1>5, <1>6 DEF Entitled

(* A worker gets past validation by validation only. *)
LEMMA EntersPast ==
  ASSUME TypeOK, NEW w \in Workers, Step(w) \/ Fault(w) \/ Crash(w), work'[w].at \in Past
  PROVE  /\ ~Finish(w) /\ ~Crash(w)
         /\ \/ work[w].at \in Past
            \/ Current(w) /\ ~InUse(w) /\ ~Outlived(work[w].target)
  <1>0. /\ work \in [Workers -> Work] /\ NoWork.at = "idle" /\ "idle" \notin Past
        /\ {"waiting", "unsafe", "failing", "validating"} \subseteq Stages
        /\ {"waiting", "unsafe", "failing", "validating"} \cap Past = {}
    BY DEF TypeOK, NoWork, Past, Locked, Stages
  <1>1. ~Return(w)
    BY <1>0, ReturnTyped
  <1>2. \A stage \in {"waiting", "unsafe", "failing", "validating"} : ~Becomes(w, stage)
    BY <1>0, BecomesTyped
  <1>3. \A stage \in {"waiting", "unsafe", "failing"} : ~Raise(w, stage) /\ ~Go(w, stage)
    BY <1>2 DEF Raise, Go
  <1>4. ~Lock(w)
    BY <1>2, <1>3 DEF Lock
  <1>5. ~Finish(w) /\ ~Report(w) /\ ~Crash(w)
    BY <1>1 DEF Finish, Report, Crash
  <1>6. ~Fault(w)
    BY <1>3 DEF Fault
  <1>7. Validate(w) => Current(w) /\ ~InUse(w) /\ ~Outlived(work[w].target)
    BY <1>3 DEF Validate
  <1>8. Record(w) \/ Begin(w) \/ Reset(w) \/ Restore(w) \/ Check(w) => work[w].at \in Past
    BY DEF Record, Begin, Reset, Restore, Check, Doing, Past, Locked
  <1> QED
    BY <1>4, <1>5, <1>6, <1>7, <1>8 DEF Step

(* Only the holder of the lock touches a worktree, and it reports one it left whole. *)
LEMMA TreeStep ==
  ASSUME TypeOK, NEW w \in Workers, Step(w) \/ Fault(w) \/ Crash(w)
  PROVE  /\ work[w].at \notin Locked => UNCHANGED <<tree, artifacts>>
         /\ work'[w].at \in {"checking", "finishing"} /\ work[w].target[2] \in Shells
              => tree'[work[w].target[2]] = "clean"
  <1> USE DEF Locked, Stages, Doing
  <1>0. /\ work \in [Workers -> Work] /\ tree \in [Shells -> {"clean", "dirty", "half"}]
        /\ NoWork.at = "idle" /\ Artifacts \notin Shells
    BY CleanupConstants DEF TypeOK, NoWork
  <1>1. Return(w) => work'[w].at = "idle"
    BY <1>0, ReturnTyped
  <1>2. \A stage \in Stages : Becomes(w, stage) => work'[w].at = stage
    BY <1>0, BecomesTyped
  <1> USE DEF Go, Raise
  <1>3. CASE Lock(w) \/ Validate(w) \/ Record(w) \/ Begin(w)
    BY <1>1, <1>2, <1>3 DEF Lock, Validate, Record, Begin, disk
  <1>4. CASE Reset(w)
    BY <1>0, <1>2, <1>4 DEF Reset, Slot
  <1>5. CASE Restore(w)
    BY <1>0, <1>2, <1>5 DEF Restore, Slot
  <1>6. CASE Check(w)
    BY <1>0, <1>2, <1>6 DEF Check, Slot, disk
  <1>7. CASE Finish(w) \/ Report(w) \/ Crash(w)
    BY <1>1, <1>7 DEF Finish, Report, Crash, disk
  <1>8. CASE Fault(w)
    BY <1>2, <1>8 DEF Fault, disk
  <1> QED
    BY <1>3, <1>4, <1>5, <1>6, <1>7, <1>8 DEF Step

LEMMA WorkersWorker ==
  ASSUME IInv, NEW w \in Workers, Step(w) \/ Fault(w) \/ Crash(w)
  PROVE  WorkersOK'
  <1>0. TypeOK /\ WorkersOK
    BY DEF IInv
  <1>1. /\ \A v \in Workers \ {w} : work'[v] = work[v]
        /\ work[w].at # "idle" /\ work[w].target \in Target
        /\ work'[w].at # "idle" => work'[w].target = work[w].target
        /\ \A v \in Workers \ {w} : work[v].at \in Locked => lock' = {v}
        /\ work'[w].at \in Locked => lock' = {w}
    BY <1>0, StepOutcome, WorkStep
  <1>2. /\ \A v \in Launchers \ {w} : launch'[v] = launch[v]
        /\ UNCHANGED launch \/ work'[w].at = "idle"
    <2>1. CASE Crash(w)
      <3>1. Return(w) /\ NoWork.at = "idle" /\ work \in [Workers -> Work]
        BY <1>0, <2>1 DEF Crash, NoWork, TypeOK
      <3>2. work'[w].at = "idle"
        BY <3>1, ReturnTyped
      <3> QED
        BY <1>0, <2>1, <3>2 DEF Crash, TypeOK
    <2>2. CASE ~Crash(w)
      BY <2>2 DEF Step, Lock, Validate, Record, Begin, Reset, Restore, Check, Finish, Report, Fault
    <2> QED
      BY <2>1, <2>2
  <1>3. /\ {"checking", "finishing"} \subseteq Locked /\ Past \subseteq Locked
        /\ Finish(w) => work[w].at \in Locked
    BY DEF Locked, Past, Finish, Doing
  <1>4. ASSUME NEW v \in Workers \ {w} PROVE WorkerOK(v)'
    <2>1. work'[v] = work[v] /\ WorkerOK(v) /\ (v # Pulse => launch'[v] = launch[v])
      BY <1>0, <1>1, <1>2 DEF WorkersOK, Workers
    <2>2. CASE work[v].at \in Locked
      <3>1. work[w].at \notin Locked
        BY <1>0, <2>2 DEF WorkersOK, WorkerOK
      <3>2. UNCHANGED tree /\ ~Finish(w)
        BY <1>0, <1>3, <3>1, TreeStep
      <3>3. \A t : Entitled(t) => Entitled(t)'
        BY <3>2, EntitledWorker
      <3>4. lock' = {v}
        BY <1>1, <2>2
      <3> QED
        BY <2>1, <3>2, <3>3, <3>4 DEF WorkerOK
    <2>3. CASE work[v].at \notin Locked
      BY <1>3, <2>1, <2>3 DEF WorkerOK
    <2> QED
      BY <2>2, <2>3
  <1>5. WorkerOK(w)'
    <2>0. "idle" \notin Past /\ "idle" \notin Locked
      BY DEF Past, Locked
    <2>1. work'[w].at \in Past
            => Entitled(work[w].target) /\ (\A t : Entitled(t) => Entitled(t)')
      <3>1. SUFFICES ASSUME work'[w].at \in Past
                     PROVE  Entitled(work[w].target) /\ \A t : Entitled(t) => Entitled(t)'
        OBVIOUS
      <3>2. /\ ~Finish(w)
            /\ \/ work[w].at \in Past
               \/ Current(w) /\ ~InUse(w) /\ ~Outlived(work[w].target)
        BY <1>0, <3>1, EntersPast
      <3>3. Entitled(work[w].target)
        BY <1>0, <1>1, <3>2, Validated DEF WorkersOK, WorkerOK
      <3> QED
        BY <3>2, <3>3, EntitledWorker
    <2>2. work'[w].at \in {"checking", "finishing"} /\ work'[w].target[2] \in Shells
            => tree'[work'[w].target[2]] # "half"
      <3>1. "idle" \notin {"checking", "finishing"}
        OBVIOUS
      <3> QED
        BY <1>0, <1>1, <3>1, TreeStep
    <2>3. work'[w].at # "idle" /\ w # Pulse => launch'[w] = "again"
      BY <1>0, <1>1, <1>2 DEF WorkersOK, WorkerOK
    <2> QED
      BY <1>1, <2>0, <2>1, <2>2, <2>3 DEF WorkerOK
  <1> QED
    BY <1>4, <1>5 DEF WorkersOK

(***************************************************************************)
(* The other parts of the invariant.                                       *)
(***************************************************************************)
LEMMA SchedulingFrame ==
  ASSUME Scheduling, Steady,
         \A s \in Sprints : lifecycle[s] = "completed" => lifecycle'[s] = "completed"
  PROVE  Scheduling'
  BY DEF Scheduling, Steady

LEMMA FencedFrame ==
  ASSUME HalfResetIsFenced, Steady, \A sh \in Shells : tree'[sh] = "half" => tree[sh] = "half"
  PROVE  HalfResetIsFenced'
  BY DEF HalfResetIsFenced, Steady, Unresolved

LEMMA ArtifactsFrame ==
  ASSUME ArtifactsLast, Steady, UNCHANGED artifacts
  PROVE  ArtifactsLast'
  BY TargetFacts DEF ArtifactsLast, Steady

LEMMA AnnouncedFrame ==
  ASSUME AnnouncedOnce, Steady, UNCHANGED notices
  PROVE  AnnouncedOnce'
  <1>1. \A s \in Sprints : \A t \in Targets(s) :
          rows'[t].state = "succeeded" <=> rows[t].state = "succeeded"
    BY TargetFacts DEF Steady
  <1> QED
    BY <1>1 DEF AnnouncedOnce

(* A Sprint of which nothing was scheduled is scheduled whole. *)
LEMMA ScheduledInv ==
  ASSUME IInv, NEW s \in Sprints, rows' = Scheduled(s), Members[s] # {},
         \A t \in Target : t[1] = s => rows[t].state = "none",
         lifecycle'[s] = "completed", \A b \in Sprints \ {s} : lifecycle'[b] = lifecycle[b],
         UNCHANGED <<notices, disk>>
  PROVE  /\ Scheduling' /\ HalfResetIsFenced' /\ ArtifactsLast' /\ AnnouncedOnce'
  <1>1. /\ \A t \in Target \ Targets(s) : rows'[t] = rows[t]
        /\ \A t \in Targets(s) : rows'[t].state = "pending"
    BY ScheduledRows DEF IInv
  <1>2. \A t \in Target : t[1] # s => rows'[t] = rows[t]
    BY <1>1, TargetFacts
  <1>3. Scheduling'
    BY <1>1, <1>2 DEF IInv, Scheduling
  <1>4. HalfResetIsFenced'
    <2>1. \A t \in Target : Open(t) => Open(t)'
      BY <1>1 DEF Open
    <2>2. HalfResetIsFenced /\ UNCHANGED tree
      BY DEF IInv, disk
    <2> QED
      BY <2>1, <2>2 DEF HalfResetIsFenced, Unresolved, Open
  <1>5. ArtifactsLast'
    <2>1. ArtifactsLast /\ UNCHANGED artifacts
      BY DEF IInv, disk
    <2>2. s \in artifacts
      <3>1. PICK sh \in Members[s] : TRUE
        OBVIOUS
      <3>2. <<s, sh>> \in Target /\ <<s, sh>>[1] = s
        BY <3>1, TargetFacts
      <3>3. rows[<<s, sh>>].state = "none"
        BY <3>2
      <3> QED
        BY <2>1, <3>1, <3>3 DEF ArtifactsLast
    <2>3. \A b \in Sprints \ {s} : \A sh \in Members[b] : rows'[<<b, sh>>] = rows[<<b, sh>>]
      BY <1>2, TargetFacts
    <2> QED
      BY <2>1, <2>2, <2>3 DEF ArtifactsLast
  <1>6. AnnouncedOnce'
    <2>1. AnnouncedOnce /\ UNCHANGED notices
      BY DEF IInv
    <2>2. <<s, Artifacts>> \in Targets(s) /\ rows[<<s, Artifacts>>].state = "none"
      BY TargetFacts
    <2>3. notices[s] = 0
      BY <2>1, <2>2 DEF AnnouncedOnce
    <2>4. rows'[<<s, Artifacts>>].state # "succeeded"
      BY <1>1, <2>2
    <2>5. \A b \in Sprints \ {s} : \A t \in Targets(b) : rows'[t] = rows[t]
      BY <1>2, TargetFacts
    <2> QED
      BY <2>1, <2>2, <2>3, <2>4, <2>5 DEF AnnouncedOnce
  <1> QED
    BY <1>3, <1>4, <1>5, <1>6

LEMMA RestLifecycle ==
  ASSUME IInv, NEW s \in Sprints, Lifecycle(s)
  PROVE  /\ OrderOK' /\ Scheduling' /\ HalfResetIsFenced' /\ ArtifactsLast' /\ AnnouncedOnce'
  <1>0. /\ TypeOK /\ OrderOK /\ Scheduling /\ HalfResetIsFenced /\ ArtifactsLast
        /\ AnnouncedOnce
    BY DEF IInv
  <1>1. ASSUME NEW state \in {"armed", "paused", "aborted"}, Enter(s, state),
               lifecycle[s] # "completed", UNCHANGED <<rows, notices, disk>>
        PROVE  Scheduling' /\ HalfResetIsFenced' /\ ArtifactsLast' /\ AnnouncedOnce'
    <2>1. Steady /\ UNCHANGED <<tree, artifacts, notices>>
      BY <1>1, UnchangedSteady DEF disk
    <2>2. \A b \in Sprints : lifecycle[b] = "completed" => lifecycle'[b] = "completed"
      BY <1>0, <1>1, EnterTyped
    <2> QED
      BY <1>0, <2>1, <2>2, SchedulingFrame, FencedFrame, ArtifactsFrame, AnnouncedFrame
  <1>2. CASE Arm(s)
    <2>1. /\ Enter(s, "armed") /\ UNCHANGED <<rows, notices, disk>>
          /\ lifecycle[s] # "completed" /\ \A b \in Sprints : lifecycle[b] # "armed"
      BY <1>2 DEF Arm
    <2>2. OrderOK'
      BY <1>0, <2>1, EnterTyped DEF OrderOK
    <2> QED
      BY <1>1, <2>1, <2>2
  <1>3. ASSUME NEW state \in {"paused", "aborted"}, Leave(s, state)
        PROVE  /\ OrderOK' /\ Scheduling' /\ HalfResetIsFenced' /\ ArtifactsLast'
               /\ AnnouncedOnce'
    <2>1. /\ Enter(s, state) /\ UNCHANGED <<rows, notices, disk>>
          /\ lifecycle[s] # "completed"
      BY <1>3 DEF Leave
    <2>2. OrderOK'
      BY <1>0, <2>1, EnterTyped DEF OrderOK
    <2> QED
      BY <1>1, <2>1, <2>2
  <1>4. CASE Complete(s)
    <2>1. /\ Enter(s, "completed") /\ rows' = Scheduled(s) /\ UNCHANGED <<notices, disk>>
          /\ lifecycle[s] = "armed" /\ Members[s] # {}
      BY <1>4 DEF Complete
    <2>2. OrderOK'
      BY <1>0, <2>1, EnterTyped DEF OrderOK
    <2>3. \A t \in Target : t[1] = s => rows[t].state = "none"
      BY <1>0, <2>1 DEF Scheduling
    <2>4. lifecycle'[s] = "completed" /\ \A b \in Sprints \ {s} : lifecycle'[b] = lifecycle[b]
      BY <1>0, <2>1, EnterTyped
    <2> QED
      BY <2>1, <2>2, <2>3, <2>4, ScheduledInv
  <1>5. CASE Adopt(s)
    <2>1. /\ rows' = Scheduled(s) /\ UNCHANGED <<lifecycle, later, notices, disk>>
          /\ lifecycle[s] = "completed" /\ Members[s] # {}
          /\ \A t \in Targets(s) : rows[t].state = "none"
      BY <1>5 DEF Adopt, board
    <2>2. OrderOK'
      BY <1>0, <2>1 DEF OrderOK
    <2>3. \A t \in Target : t[1] = s => rows[t].state = "none"
      BY <1>0, <2>1, TargetFacts DEF Scheduling
    <2> QED
      BY <2>1, <2>2, <2>3, ScheduledInv
  <1>6. CASE Retry(s)
    <2>1. UNCHANGED <<lifecycle, later, notices, tree, artifacts>>
      BY <1>6 DEF Retry, board, disk
    <2>2. OrderOK'
      BY <1>0, <2>1 DEF OrderOK
    <2>3. Steady
      BY <1>0, <1>6, RetrySteady
    <2> QED
      BY <1>0, <2>1, <2>2, <2>3, SchedulingFrame, FencedFrame, ArtifactsFrame, AnnouncedFrame
  <1> QED
    BY <1>2, <1>3, <1>4, <1>5, <1>6 DEF Lifecycle

(* Every step of the others that leaves the schedule and the disk as they are. *)
LEMMA RestFrame ==
  ASSUME IInv, Steady, UNCHANGED <<lifecycle, later, notices, artifacts>>,
         \A sh \in Shells : tree'[sh] = "half" => tree[sh] = "half"
  PROVE  /\ OrderOK' /\ Scheduling' /\ HalfResetIsFenced' /\ ArtifactsLast' /\ AnnouncedOnce'
  <1>0. OrderOK /\ Scheduling /\ HalfResetIsFenced /\ ArtifactsLast /\ AnnouncedOnce
    BY DEF IInv
  <1>1. OrderOK'
    BY <1>0 DEF OrderOK
  <1> QED
    BY <1>0, <1>1, SchedulingFrame, FencedFrame, ArtifactsFrame, AnnouncedFrame

(* The holder of the lock succeeds with a target that was open. *)
LEMMA RestFinish ==
  ASSUME IInv, NEW w \in Workers, Finish(w), work[w].target \in Target, Current(w)
  PROVE  /\ OrderOK' /\ Scheduling' /\ HalfResetIsFenced' /\ ArtifactsLast' /\ AnnouncedOnce'
  <1> DEFINE t == work[w].target
  <1>0. /\ TypeOK /\ WorkersOK /\ OrderOK /\ Scheduling /\ HalfResetIsFenced /\ ArtifactsLast
        /\ AnnouncedOnce /\ t \in Target /\ t[1] \in Sprints
    BY TargetFacts DEF IInv
  <1>1. /\ \A v \in Target \ {t} : rows'[v] = rows[v]
        /\ rows'[t].state = "succeeded" /\ rows[t].state = "running"
    BY <1>0, FinishRows DEF Current
  <1>2. /\ UNCHANGED <<lifecycle, later, tree, artifacts>>
        /\ notices' = [notices EXCEPT ![t[1]] = @ + (IF LastOf(t) THEN 1 ELSE 0)]
        /\ t[2] \in Shells => tree[t[2]] # "half"
    BY <1>0 DEF Finish, Doing, WorkersOK, WorkerOK, board, disk
  <1>3. t \in Targets(t[1])
    BY <1>0, <1>1 DEF Scheduling
  <1>4. LastOf(t) <=> \A v \in Targets(t[1]) : rows'[v].state = "succeeded"
    BY <1>0, <1>1, <1>3, TargetFacts DEF LastOf
  <1>5. \A s \in Sprints \ {t[1]} : \A v \in Targets(s) : rows'[v] = rows[v]
    BY <1>0, <1>1, TargetFacts
  <1> HIDE DEF t
  <1>6. OrderOK'
    BY <1>0, <1>2 DEF OrderOK
  <1>7. Scheduling'
    BY <1>0, <1>1, <1>2 DEF Scheduling
  <1>8. HalfResetIsFenced'
    BY <1>0, <1>1, <1>2 DEF HalfResetIsFenced, Unresolved
  <1>9. ArtifactsLast'
    BY <1>0, <1>1, <1>2, TargetFacts DEF ArtifactsLast
  <1>10. AnnouncedOnce'
    <2>1. notices \in [Sprints -> Nat]
      BY <1>0 DEF TypeOK
    <2>2. notices[t[1]] = 0
      BY <1>0, <1>1, <1>3 DEF AnnouncedOnce
    <2>3. notices'[t[1]] = IF LastOf(t) THEN 1 ELSE 0
      BY <1>0, <1>2, <2>1, <2>2
    <2>4. \A s \in Sprints \ {t[1]} : notices'[s] = notices[s]
      BY <1>2, <2>1
    <2> QED
      BY <1>0, <1>4, <1>5, <2>3, <2>4 DEF AnnouncedOnce
  <1> QED
    BY <1>6, <1>7, <1>8, <1>9, <1>10

LEMMA RestReset ==
  ASSUME IInv, NEW w \in Workers, Reset(w)
  PROVE  /\ OrderOK' /\ Scheduling' /\ HalfResetIsFenced' /\ ArtifactsLast' /\ AnnouncedOnce'
  <1> DEFINE t == work[w].target
  <1>0. /\ TypeOK /\ WorkersOK /\ OrderOK /\ Scheduling /\ HalfResetIsFenced /\ ArtifactsLast
        /\ AnnouncedOnce
    BY DEF IInv
  <1>1. Entitled(t) /\ t \in Target
    BY <1>0 DEF Reset, Doing, Past, Locked, WorkersOK, WorkerOK, Entitled
  <1>2. UNCHANGED <<lifecycle, later, rows, notices>>
    BY DEF Reset, board
  <1>3. Steady
    BY <1>2, UnchangedSteady
  <1>4. OrderOK'
    BY <1>0, <1>2 DEF OrderOK
  <1>5. Scheduling' /\ AnnouncedOnce'
    BY <1>0, <1>2, <1>3, SchedulingFrame, AnnouncedFrame
  <1>6. CASE Slot(w) = Artifacts
    <2>1. artifacts' = artifacts \ {t[1]} /\ UNCHANGED tree /\ t[2] = Artifacts
      BY <1>6 DEF Reset, Slot
    <2>2. HalfResetIsFenced'
      BY <1>0, <1>3, <2>1, FencedFrame
    <2>3. ArtifactsLast'
      BY <1>0, <1>1, <1>2, <2>1 DEF ArtifactsLast, Entitled, WorktreesDone
    <2> QED
      BY <1>4, <1>5, <2>2, <2>3
  <1>7. CASE Slot(w) # Artifacts
    <2>1. tree' = [tree EXCEPT ![t[2]] = "half"] /\ UNCHANGED artifacts
      BY <1>7 DEF Reset, Slot
    <2>2. HalfResetIsFenced'
      BY <1>0, <1>1, <1>2, <2>1 DEF HalfResetIsFenced, Entitled, Open, Unresolved, TypeOK
    <2>3. ArtifactsLast'
      BY <1>0, <1>3, <2>1, ArtifactsFrame
    <2> QED
      BY <1>4, <1>5, <2>2, <2>3
  <1> QED
    BY <1>6, <1>7

LEMMA RestWorker ==
  ASSUME IInv, NEW w \in Workers, Step(w) \/ Fault(w) \/ Crash(w)
  PROVE  /\ OrderOK' /\ Scheduling' /\ HalfResetIsFenced' /\ ArtifactsLast' /\ AnnouncedOnce'
  <1>0. TypeOK /\ WorkersOK /\ work[w].target \in Target
    BY StepOutcome, WorkStep DEF IInv
  <1>1. UNCHANGED <<lifecycle, later>>
    BY DEF Step, Lock, Validate, Record, Begin, Reset, Restore, Check, Finish, Report, Fault,
           Crash, board
  <1>2. CASE Finish(w)
    <2>1. CASE Current(w)
      BY <1>0, <1>2, <2>1, RestFinish
    <2>2. CASE ~Current(w)
      <3>1. UNCHANGED <<rows, notices, tree, artifacts>>
        BY <1>2, <2>2 DEF Finish, disk
      <3> QED
        BY <1>1, <3>1, UnchangedSteady, RestFrame
    <2> QED
      BY <2>1, <2>2
  <1>3. CASE Reset(w)
    BY <1>3, RestReset
  <1>4. CASE ~Finish(w) /\ ~Reset(w)
    <2>1. Steady
      BY <1>0, <1>4, WorkerRows
    <2>2. /\ UNCHANGED <<notices, artifacts>>
          /\ \/ UNCHANGED tree
             \/ tree' = [tree EXCEPT ![Slot(w)] = "clean"]
      BY <1>4 DEF Step, Lock, Validate, Record, Begin, Restore, Check, Report, Fault, Crash, disk
    <2>3. \A sh \in Shells : tree'[sh] = "half" => tree[sh] = "half"
      BY <1>0, <2>2 DEF TypeOK
    <2> QED
      BY <1>1, <2>1, <2>2, <2>3, RestFrame
  <1> QED
    BY <1>2, <1>3, <1>4

(***************************************************************************)
(* The invariant, and what follows from it.                                *)
(***************************************************************************)
LEMMA Initially == Init => IInv
  <1> SUFFICES ASSUME Init PROVE IInv
    OBVIOUS
  <1>1. /\ lifecycle \in [Sprints -> {"prepared", "completed"}]
        /\ later \in [Sprints -> SUBSET Sprints]
    <2>1. PICK legacy \in SUBSET Sprints :
            /\ lifecycle = [s \in Sprints |-> IF s \in legacy THEN "completed" ELSE "prepared"]
            /\ later = [s \in Sprints |-> {b \in legacy : s \in legacy /\ b > s}]
      BY DEF Init
    <2> QED
      BY <2>1
  <1>2. /\ \A t \in Target : rows[t] = NoRow /\ rows[t].state = "none"
        /\ \A w \in Workers : work[w] = NoWork /\ work[w].at = "idle"
        /\ lock = {} /\ launch = [l \in Launchers |-> "none"]
        /\ tree = [sh \in Shells |-> "dirty"] /\ artifacts = Sprints
        /\ notices = [s \in Sprints |-> 0] /\ faults = 0 /\ retries = 0
    BY DEF Init, NoRow, NoWork
  <1>3. TypeOK
    <2>1. NoRow \in Row
      BY DEF NoRow, Row
    <2>2. rows \in [Target -> Row] /\ work \in [Workers -> Work]
      BY <2>1, NoWorkIsWork DEF Init
    <2> QED
      BY <1>1, <1>2, <2>2 DEF TypeOK
  <1>4. WorkersOK
    BY <1>2 DEF WorkersOK, WorkerOK, Past, Locked
  <1>5. OrderOK
    BY <1>1 DEF OrderOK
  <1>6. Scheduling
    BY <1>2 DEF Scheduling
  <1>7. HalfResetIsFenced /\ ArtifactsLast
    BY <1>2 DEF HalfResetIsFenced, ArtifactsLast
  <1>8. AnnouncedOnce
    BY <1>2, TargetFacts DEF AnnouncedOnce
  <1> QED
    BY <1>3, <1>4, <1>5, <1>6, <1>7, <1>8 DEF IInv

LEMMA ClaimKeeps ==
  ASSUME IInv, NEW w \in Workers, NEW t \in Target, Take(w, t), work[w].at = "idle",
         \/ w = Pulse /\ UNCHANGED launch
         \/ w \in Launchers /\ Move(w, "cleaning", "again"),
         TypeOK'
  PROVE  IInv'
  <1>1. Steady /\ UNCHANGED <<lifecycle, later, notices, tree, artifacts>>
    BY TakeSteady DEF IInv, Take, board, disk
  <1>2. /\ OrderOK' /\ Scheduling' /\ HalfResetIsFenced' /\ ArtifactsLast' /\ AnnouncedOnce'
    BY <1>1, RestFrame
  <1>3. WorkersOK'
    BY WorkersClaim
  <1> QED
    BY <1>2, <1>3 DEF IInv

LEMMA Kept == IInv /\ [Next]_vars => IInv'
  <1> SUFFICES ASSUME IInv, [Next]_vars PROVE IInv'
    OBVIOUS
  <1>0. TypeOK /\ WorkersOK
    BY DEF IInv
  <1>1. ASSUME NEW s \in Sprints, Lifecycle(s) PROVE IInv'
    BY <1>0, <1>1, TypeLifecycle, WorkersLifecycle, RestLifecycle DEF IInv
  <1>2. ASSUME NEW t \in Target, PulseClaims(t) PROVE IInv'
    <2>1. Take(Pulse, t) /\ UNCHANGED launch /\ work[Pulse].at = "idle"
      BY <1>2 DEF PulseClaims
    <2> QED
      BY <1>0, <1>2, <2>1, TypeClaim, ClaimKeeps, WorkerFacts
  <1>3. ASSUME NEW t \in Target, Elapse(t) PROVE IInv'
    <2>1. UNCHANGED <<lifecycle, later, notices, tree, artifacts>>
      BY <1>3 DEF Elapse, board, disk
    <2>2. /\ OrderOK' /\ Scheduling' /\ HalfResetIsFenced' /\ ArtifactsLast' /\ AnnouncedOnce'
      BY <1>0, <1>3, <2>1, ElapseSteady, RestFrame
    <2> QED
      BY <1>0, <1>3, <2>2, TypeElapse, WorkersElapse DEF IInv
  <1>4. ASSUME NEW w \in Workers, Step(w) \/ Fault(w) \/ Crash(w) PROVE IInv'
    BY <1>0, <1>4, TypeWorker, WorkersWorker, RestWorker DEF IInv
  <1>5. ASSUME NEW l \in Launchers, LaunchMoves(l) \/ Edit(l) PROVE IInv'
    <2>1. UNCHANGED <<lifecycle, later, rows, notices, artifacts>>
      BY <1>0, <1>5, LaunchFrame DEF Edit, board, disk
    <2>2. \A sh \in Shells : tree'[sh] = "half" => tree[sh] = "half"
      BY <1>0, <1>5, LaunchFrame DEF Edit, disk, TypeOK
    <2>3. /\ OrderOK' /\ Scheduling' /\ HalfResetIsFenced' /\ ArtifactsLast' /\ AnnouncedOnce'
      BY <2>1, <2>2, UnchangedSteady, RestFrame
    <2> QED
      BY <1>0, <1>5, <2>3, TypeLaunch, WorkersLaunch DEF IInv
  <1>6. ASSUME NEW l \in Launchers, NEW t \in Target, LaunchClaims(l, t) PROVE IInv'
    <2>1. Take(l, t) /\ Move(l, "cleaning", "again") /\ launch[l] = "cleaning"
      BY <1>6 DEF LaunchClaims, Move
    <2>2. l \in Workers /\ l # Pulse
      BY WorkerFacts
    <2>3. work[l].at = "idle"
      BY <1>0, <2>1, <2>2 DEF WorkersOK, WorkerOK
    <2> QED
      BY <1>0, <1>6, <2>1, <2>2, <2>3, TypeClaim, ClaimKeeps
  <1>7. CASE UNCHANGED vars
    <2>1. UNCHANGED <<lifecycle, later, rows, notices, work, lock, launch, tree, artifacts,
                      faults, retries>>
      BY <1>7 DEF vars, board, disk, budget
    <2>2. /\ OrderOK' /\ Scheduling' /\ HalfResetIsFenced' /\ ArtifactsLast' /\ AnnouncedOnce'
      BY <2>1, UnchangedSteady, RestFrame
    <2>3. \A t : Entitled(t) => Entitled(t)'
      BY <2>1, UnchangedSteady, EntitledFrame
    <2>4. WorkersOK'
      BY <1>0, <2>1, <2>3, WorkersFrame
    <2>5. TypeOK'
      BY <1>0, <2>1 DEF TypeOK
    <2> QED
      BY <2>2, <2>4, <2>5 DEF IInv
  <1> QED
    BY <1>1, <1>2, <1>3, <1>4, <1>5, <1>6, <1>7 DEF Next, LaunchStep, LaunchMoves

LEMMA Invariantly == Spec => []IInv
  BY Initially, Kept, PTL DEF Spec

(* Types hold for every number of Sprints, shells and launches. *)
THEOREM CleanupTypes == Spec => []TypeOK
  <1>1. IInv => TypeOK
    BY DEF IInv
  <1> QED
    BY <1>1, Invariantly, PTL

LEMMA DestroyerIsEntitled ==
  ASSUME IInv, NEW w \in Workers, NEW t, Destroying(w, t)
  PROVE  Entitled(t)
  BY DEF IInv, WorkersOK, WorkerOK, Destroying, Past, Locked

(* SprintCleanupExecutor never resets a worktree under a turn, although it probes
   before the fetch: a launch waits for every target of its shell. *)
THEOREM TurnsAreUndisturbed == Spec => []TurnUndisturbed
  <1>1. IInv => TurnUndisturbed
    BY DestroyerIsEntitled DEF TurnUndisturbed, Entitled
  <1> QED
    BY <1>1, Invariantly, PTL

(* Nor under a newer Sprint: arming needs the shells' targets to be done, and an
   armed Sprint outlives the older one in _validate_under_lock. *)
THEOREM NewerSprintsAreSafe == Spec => []NewerSprintSafe
  <1>1. ASSUME IInv, NEW w \in Workers, NEW s \in Sprints, NEW b \in Sprints, NEW sh \in Shells,
               Destroying(w, <<s, sh>>), b # s, sh \in Members[b]
        PROVE  lifecycle[b] # "armed"
    <2>1. Entitled(<<s, sh>>) /\ <<s, sh>>[1] = s /\ <<s, sh>>[2] = sh
      BY <1>1, DestroyerIsEntitled
    <2> QED
      BY <1>1, <2>1 DEF Entitled
  <1>2. IInv => NewerSprintSafe
    BY <1>1 DEF NewerSprintSafe
  <1> QED
    BY <1>2, Invariantly, PTL

(* The repository lock, and not the lease, keeps two workers apart. *)
THEOREM DestroyersAreAlone == Spec => []OneDestroyer
  <1>1. IInv => OneDestroyer
    BY DEF IInv, WorkersOK, WorkerOK, OneDestroyer, Locked
  <1> QED
    BY <1>1, Invariantly, PTL

(* A worktree left half reset is kept from launches and Sprints by an open target. *)
THEOREM HalfResetsAreFenced == Spec => []HalfResetIsFenced
  <1>1. IInv => HalfResetIsFenced
    BY DEF IInv
  <1> QED
    BY <1>1, Invariantly, PTL

(* _delete_artifacts comes after every worktree of the Sprint was reset. *)
THEOREM ArtifactsAreLast == Spec => []ArtifactsLast
  <1>1. IInv => ArtifactsLast
    BY DEF IInv
  <1> QED
    BY <1>1, Invariantly, PTL

(* _publish_terminal_receipt announces a Sprint's cleanup exactly when the last of
   its targets succeeds. *)
THEOREM CleanupIsAnnouncedOnce == Spec => []AnnouncedOnce
  <1>1. IInv => AnnouncedOnce
    BY DEF IInv
  <1> QED
    BY <1>1, Invariantly, PTL
=============================================================================
