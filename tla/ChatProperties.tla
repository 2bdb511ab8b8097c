------------------------------ MODULE ChatProperties ------------------------------
(***************************************************************************)
(* What BrowserChats guarantees: its type invariant, safety invariants,    *)
(* action properties, the refinement of TurnQueue, and liveness under the  *)
(* fairness of the broker's threads and of the reaper.                     *)
(***************************************************************************)
EXTENDS BrowserChats, StoreProperties

(* Every variable stays in the set the tables, the CHECK constraints and the
   threads of the code give it. *)
TypeOK ==
  /\ StoreTypeOK
  /\ sent \in [MessageId -> Nat]
  /\ procs \in [RunId -> Process]
  /\ brokers \in [Brokers -> [state : {"new", "up", "down"}, wake : BOOLEAN]]
  /\ workers \in [Brokers -> [RunId -> Worker]]
  /\ reaper \in Aim
  /\ creating \subseteq Chats
  /\ faults \in 0..MaxFaults /\ acts \in 0..MaxActs

-----------------------------------------------------------------------------
(* Prompts. *)

(* No prompt is given to a harness twice, whatever crashes, whichever lease is
   taken over and however late its first worker wakes up: the broker's recovery
   rule, "a leased run has not crossed the native-dispatch boundary", holds
   together with mark_starting's test of state and owner. *)
AtMostOnceDispatch == \A m \in MessageId : sent[m] <= 1

(* Why.  A prompt that was not sent yet is at one of three places: it waits in
   the outbox, ... *)
WaitingIsUnsent == \A m \in MessageId : msgs[m].outbox # "dispatched" => sent[m] = 0

(* ... its first run is leased, ... *)
LeasedIsUnsent == \A r \in RunId : runs[r].state = "leased"
  => runs[r].attempt = 1 /\ sent[runs[r].msg] = 0

(* ... or a worker that marked that run starting is about to launch it. *)
LaunchIsUnsent == \A b \in Brokers, r \in RunId : workers[b][r].pc = "launch"
  => /\ runs[r].state \notin {NoRow, "leased"}
     /\ runs[r].attempt = 1 /\ sent[runs[r].msg] = 0

(* One worker launches a prompt, which has one first attempt, although a broker
   that adopts a leased run and the worker it took the run from may both hold
   it. *)
OneLauncher == \A b, o \in Brokers, r, q \in RunId :
  workers[b][r].pc = "launch" /\ workers[o][q].pc = "launch"
    /\ runs[r].msg = runs[q].msg => b = o /\ r = q

(* Whatever step comes next, it does not send a prompt that was sent. *)
FreshPrompts == /\ WaitingIsUnsent /\ LeasedIsUnsent /\ LaunchIsUnsent
                /\ OneFirstAttempt /\ OneLauncher

-----------------------------------------------------------------------------
(* Runs and processes. *)

(* One server at a time: it binds its port before it starts its broker, so an
   old broker is gone when the next one starts.  It may crash, stall, find the
   database busy and be started again. *)
OneBrokerUp == \A b, o \in Brokers : Up(b) /\ Up(o) => b = o
ServedSpec  == Init /\ [][Next /\ OneBrokerUp']_vars

(* One harness process in the worktree, under one server at a time: the
   preparer's look at /proc and the launch are two steps, and the link, the
   chat, the run and the server itself may go away between them. *)
OneHarness == \A p, q \in RunId : Alive(p) /\ Alive(q) => p = q

(* Final states are final: the broker and the reaper may both finish a run, and
   a prompt may be cancelled by its chat while they do. *)
FinalStatesAreFinal == [][FinalKept]_vars

-----------------------------------------------------------------------------
(* The registry. *)

(* The reaper never signals the process that the registry links at that moment,
   although it looks, signals and records in three separate steps. *)
ReaperSparesLinked == [][reaper # NotAiming /\ reaper'.struck => ~Linked(reaper.pid)]_vars

-----------------------------------------------------------------------------
(* The queue of prompts that the user sees. *)

TurnNow == IF \E r \in RunId : Live(r)
             THEN runs[CHOOSE r \in RunId : Live(r)].msg ELSE 0

Queue == INSTANCE TurnQueue WITH
  chat   <- [m \in MessageId |-> msgs[m].chat],
  status <- [m \in MessageId |-> msgs[m].state],
  turn   <- TurnNow,
  given  <- sent

(* Brokers, leases, lingering processes, closes and the reaper implement the
   plain queue of TurnQueue. *)
ImplementsTurnQueue == Queue!QueueSpec

-----------------------------------------------------------------------------
(* Fairness: the threads of the server take their steps.  An adapter need not
   report a result, break its stream or find the database busy. *)

WorkerProgress(b, r) ==
  \/ Activate(b, r) \/ Prepare(b, r) \/ Bind(b, r) \/ Mark(b, r) \/ Launch(b, r)
  \/ Record(b, r) \/ Orphaned(b, r) \/ Release(b, r) \/ StreamEnds(b, r)
  \/ \E o \in TerminalRunStates : Reconcile(b, r, o)
  \/ FinishFailed(b, r) \/ FinishUnknown(b, r)

BrokerFairness ==
  /\ \A b \in Brokers : /\ WF_vars(StartBroker(b))
                        /\ WF_vars(Dispatch(b) \/ NothingToDispatch(b))
  /\ \A b \in Brokers, r \in RunId : /\ WF_vars(Recover(b, r))
                                     /\ WF_vars(WorkerProgress(b, r))
  /\ \A r \in RunId : WF_vars(Expire(r))

ReaperFairness ==
  /\ WF_vars(Strike) /\ WF_vars(Settle)
  /\ \A r \in RunId : WF_vars(TakeAim(r)) /\ WF_vars(ReapGone(r))

(* Every harness process ends by itself. *)
EndingFairness == \A p \in RunId : WF_vars(ProcessExits(p))

EndingSpec == Spec /\ BrokerFairness /\ ReaperFairness /\ EndingFairness
ReaperSpec == Spec /\ ReaperFairness

(* An accepted prompt is dispatched and ends, if harness processes end.  It may
   stay queued only in a chat whose last turn failed (the next send moves it)
   or, in the model, when the table of runs is full. *)
EveryPromptEnds ==
  \A m \in MessageId :
    msgs[m].state \in {"queued", "running"}
      ~> \/ msgs[m].state \in TerminalMessageStates
         \/ /\ msgs[m].state = "queued"
            /\ chats[msgs[m].chat].state = "error" \/ runs[MaxRun].state # NoRow

(* A process that the registry does not link and that the reaper may act on is
   gone in the end, though it ignores every polite signal: each rung of the
   ladder is recorded and the next one is taken. *)
ReaperEndsStrays ==
  \A r \in RunId :
    Eligible(r, runs[r].pid) /\ Alive(runs[r].pid)
      ~> ~(Eligible(r, runs[r].pid) /\ Alive(runs[r].pid))
=============================================================================
