------------------------------- MODULE BrowserChats -------------------------------
(***************************************************************************)
(* Browser conversations of one shell: the API handlers, the conversation  *)
(* broker with one worker thread per run, the reaper and the activity      *)
(* monitor, interleaved over the tables of ConversationStore, and the      *)
(* native harness processes that the workers launch.                       *)
(*                                                                         *)
(* A worker is modelled from the durable claim to its last transaction.    *)
(* Between two of its steps anything else may happen: that is where the    *)
(* code reads state before a transaction and uses it after.                *)
(***************************************************************************)
EXTENDS ConversationStore

CONSTANTS
  MaxDefer,     \* deferrals before a broker gives a run up (120 in the code)
  MaxFaults,    \* crashes, stalled leases and busy databases, together
  MaxActs       \* closes, stops and displacements, together

ASSUME ChatConstants == MaxDefer \in Nat /\ MaxFaults \in Nat /\ MaxActs \in Nat

VARIABLES
  sent,      \* message -> how often its prompt was given to an adapter
  procs,     \* pid -> the native process: its state, and whether it was told to stop
  brokers,   \* owner -> new, up or down, and its wake event
  workers,   \* owner -> run -> the worker thread that executes the run
  reaper,    \* the candidate the reaper signals, and whether it has
  creating,  \* chats between the two transactions of their creation
  faults, acts

vars == <<chats, slot, msgs, runs, sent, procs, brokers, workers, reaper,
          creating, faults, acts>>

-----------------------------------------------------------------------------
(* A worker thread.  Before Activate its pc is the run state the claim or the
   adoption read; after it, the step the thread is about to make. *)

WorkerStep == {"idle", "leased", "starting", "running",
               "prepare", "bind", "mark", "launch", "record",
               "stream", "linger", "release", "reconcile", "failed", "unknown"}

Worker == [pc   : WorkerStep,
           run  : 0..MaxRun,     \* active.run_id: the run or its continuation
           pid  : Pid,           \* the process it observes
           held : {NoRow} \cup TerminalRunStates,   \* the pending terminal
           attached : BOOLEAN,   \* observes through the transcript, not a pipe
           stop  : BOOLEAN,      \* active.interrupt_requested
           defers : 0..MaxDefer]

IdleWorker == [pc |-> "idle", run |-> 0, pid |-> 0, held |-> NoRow,
               attached |-> FALSE, stop |-> FALSE, defers |-> 0]

Process == [state : {NoRow, "alive", "gone"}, told : BOOLEAN]

Aim == [run : 0..MaxRun, pid : Pid, struck : BOOLEAN]
NotAiming == [run |-> 0, pid |-> 0, struck |-> FALSE]

Init ==
  /\ StoreInit
  /\ sent = [m \in MessageId |-> 0]
  /\ procs = [p \in RunId |-> [state |-> NoRow, told |-> FALSE]]
  /\ brokers = [b \in Brokers |-> [state |-> "new", wake |-> FALSE]]
  /\ workers = [b \in Brokers |-> [r \in RunId |-> IdleWorker]]
  /\ reaper = NotAiming
  /\ creating = {}
  /\ faults = 0 /\ acts = 0

Up(b)    == brokers[b].state = "up"
Alive(p) == p # 0 /\ procs[p].state = "alive"

(* Seeded fault: the registry is believed instead of /proc. *)
OccupiedByLink == Alive(slot.pid)

Occupied == \E p \in RunId : Alive(p)      \* /proc shows a harness in the worktree

(* The entries of a broker's _active map. *)
InFlight(b, r) == workers[b][r].pc \notin {"idle", "leased", "starting", "running"}

(* commit notification of the in-process broker *)
Notify == brokers' = [b \in Brokers |-> [brokers[b] EXCEPT !.wake = @ \/ Up(b)]]

At(b, r, step) == Up(b) /\ workers[b][r].pc = step
Goto(b, r, step) == workers' = [workers EXCEPT ![b][r].pc = step]

(* Seeded fault: the dispatcher is not told that the worker is done. *)
LeaveQuietly(b, r, defers) ==
  /\ workers' = [workers EXCEPT ![b][r] = [IdleWorker EXCEPT !.defers = defers]]
  /\ UNCHANGED brokers

(* The thread ends: _deactivate, which wakes the dispatcher.  Only the count of
   deferrals outlives it, in the broker. *)
Leave(b, r, defers) ==
  /\ workers' = [workers EXCEPT ![b][r] = [IdleWorker EXCEPT !.defers = defers]]
  /\ brokers' = [brokers EXCEPT ![b].wake = TRUE]

Tell(ps) == procs' = [p \in RunId |->
              IF p \in ps /\ Alive(p) THEN [procs[p] EXCEPT !.told = TRUE] ELSE procs[p]]

-----------------------------------------------------------------------------
(* The API. *)

BeginCreate(c) ==
  /\ chats[c].state = NoRow /\ c \notin creating
  /\ slot.chat = NoChat => ~Occupied
  /\ CloseActiveForCreate
  /\ creating' = creating \cup {c}
  /\ UNCHANGED <<sent, procs, brokers, workers, reaper, faults, acts>>

EndCreate(c) ==
  /\ c \in creating
  /\ creating' = creating \ {c}
  /\ RegisterChat(c) \/ (slot.chat # NoChat /\ UNCHANGED storeVars)
  /\ UNCHANGED <<sent, procs, brokers, workers, reaper, faults, acts>>

Send(c) ==
  /\ \E m \in MessageId :
       \/ AcceptMessage(m, c)
       \/ ReopenWithMessage(m, c) /\ (slot.chat = NoChat => ~Occupied)
  /\ Notify
  /\ UNCHANGED <<sent, procs, workers, reaper, creating, faults, acts>>

Close(c) ==
  /\ acts < MaxActs /\ acts' = acts + 1
  /\ CloseByUser(c)
  /\ UNCHANGED <<sent, procs, brokers, workers, reaper, creating, faults>>

(* broker.interrupt: the worker that executes the run is told, and passes the
   interrupt on when it knows its process; a run without a worker in the
   process that serves the request only gets the event. *)
Executes(b, q, r) == Up(b) /\ InFlight(b, q) /\ r \in {q, workers[b][q].run}

Deliver(b, q) ==
  /\ RequestInterrupt(workers[b][q].run)
  /\ workers' = [workers EXCEPT ![b][q].stop = TRUE]
  /\ Tell({workers[b][q].pid})
  /\ Notify

Interrupt(r) ==
  \/ \E b \in Brokers, q \in RunId : Executes(b, q, r) /\ Deliver(b, q)
  \/ /\ \E b \in Brokers : /\ Up(b) \/ \A o \in Brokers : ~Up(o)
                           /\ \A q \in RunId : ~Executes(b, q, r)
     /\ RequestInterrupt(r)
     /\ IF Live(r) THEN Notify ELSE UNCHANGED brokers
     /\ UNCHANGED <<workers, procs>>

(* Stop prefers the live run of the chat; only without one, and only while the
   chat shows no work, does it signal the process that lingers. *)
Stop(c) ==
  /\ acts < MaxActs /\ acts' = acts + 1
  /\ \/ \E r \in RunId : Live(r) /\ ChatOf(r) = c /\ ~runs[r].stop /\ Interrupt(r)
     \/ /\ \A r \in RunId : Live(r) => ChatOf(r) # c
        /\ slot.chat = c /\ Alive(slot.pid) /\ ~Working(c)
        /\ \E r \in RunId : ChatOf(r) = c /\ runs[r].pid = slot.pid
        /\ Tell({slot.pid})
        /\ UNCHANGED <<storeVars, workers, brokers>>
  /\ UNCHANGED <<sent, reaper, creating, faults>>

-----------------------------------------------------------------------------
(* Displacement of the active chat. *)

(* The activity monitor: silence of a recorded live turn past the ceiling. *)
DisplaceInactive ==
  /\ acts < MaxActs /\ acts' = acts + 1
  /\ \E r \in RunId : /\ Live(r) /\ ChatOf(r) = slot.chat
                      /\ Linked(runs[r].pid)
  /\ Displace
  /\ UNCHANGED <<sent, procs, brokers, workers, reaper, creating, faults>>

(* A "new" wake message: the registry names no live process, so the chat goes
   and the wake creates its own. *)
DisplaceForWake ==
  /\ acts < MaxActs /\ acts' = acts + 1
  /\ ~Alive(slot.pid)
  /\ Displace
  /\ \E c \in Chats : /\ chats[c].state = NoRow /\ c \notin creating
                      /\ creating' = creating \cup {c}
  /\ UNCHANGED <<sent, procs, brokers, workers, reaper, faults>>

-----------------------------------------------------------------------------
(* The broker's own thread. *)

StartBroker(b) ==
  /\ brokers[b].state = "new"
  /\ brokers' = [brokers EXCEPT ![b] = [state |-> "up", wake |-> TRUE]]
  /\ UNCHANGED <<storeVars, sent, procs, workers, reaper, creating, faults, acts>>

CrashBroker(b) ==
  /\ Up(b) /\ faults < MaxFaults /\ faults' = faults + 1
  /\ brokers' = [brokers EXCEPT ![b] = [state |-> "down", wake |-> FALSE]]
  /\ workers' = [workers EXCEPT ![b] = [r \in RunId |-> IdleWorker]]
  /\ UNCHANGED <<storeVars, sent, procs, reaper, creating, acts>>

Dispatch(b) ==
  /\ Up(b) /\ brokers[b].wake
  /\ \E m \in MessageId, r \in RunId :
       /\ ClaimNext(m, r, b)
       /\ workers' = [workers EXCEPT ![b][r] = [IdleWorker EXCEPT !.pc = "leased", !.run = r]]
  /\ UNCHANGED <<sent, procs, brokers, reaper, creating, faults, acts>>

NothingToDispatch(b) ==
  /\ Up(b) /\ brokers[b].wake
  /\ \A m \in MessageId : ~Claimable(m)
  /\ brokers' = [brokers EXCEPT ![b].wake = FALSE]
  /\ UNCHANGED <<storeVars, sent, procs, workers, reaper, creating, faults, acts>>

(* Seeded fault: recovery hands an uncertain dispatch out as a fresh lease. *)
RecoverAsFresh(b, r) ==
  /\ Up(b)
  /\ Live(r) /\ runs[r].expired
  /\ runs' = [runs EXCEPT ![r] = [@ EXCEPT !.owner = b, !.expired = FALSE,
                                           !.state = "leased", !.archived = FALSE]]
  /\ workers' = [workers EXCEPT ![b][r] = [IdleWorker EXCEPT !.pc = "leased", !.run = r]]
  /\ UNCHANGED <<chats, slot, msgs, sent, procs, brokers, reaper, creating, faults, acts>>

(* _activate refuses a run whose worker is still there: its lease is renewed. *)
Recover(b, r) ==
  /\ Up(b)
  /\ AdoptRun(r, b)
  /\ workers' = IF workers[b][r].pc # "idle" THEN workers
                ELSE [workers EXCEPT ![b][r] =
                       [@ EXCEPT !.pc = runs[r].state, !.run = r, !.pid = runs[r].pid,
                                 !.stop = runs[r].stop]]
  /\ UNCHANGED <<sent, procs, brokers, reaper, creating, faults, acts>>

Heartbeat(b) ==
  /\ Up(b)
  /\ RenewRuns({workers[b][r].run : r \in {q \in RunId : InFlight(b, q)}}, b)
  /\ runs' # runs
  /\ UNCHANGED <<sent, procs, brokers, workers, reaper, creating, faults, acts>>

(* A lease runs out when nobody renews it, and then it should; the lease of a
   run that its owner still executes runs out only when that broker stalls. *)
Attended(r) == \E b \in Brokers, q \in RunId :
  Up(b) /\ workers[b][q].pc # "idle" /\ workers[b][q].run = r /\ runs[r].owner = b

Expire(r) ==
  /\ ~Attended(r)
  /\ LeaseExpires(r)
  /\ UNCHANGED <<sent, procs, brokers, workers, reaper, creating, faults, acts>>

Stall(r) ==
  /\ Attended(r)
  /\ faults < MaxFaults /\ faults' = faults + 1
  /\ LeaseExpires(r)
  /\ UNCHANGED <<sent, procs, brokers, workers, reaper, creating, acts>>

-----------------------------------------------------------------------------
(* A worker thread, up to the launch of the native process. *)

(* The thread enters _active.  A run adopted in mid-dispatch is uncertain; one
   adopted while running is observed through its transcript if its recorded
   process is still there. *)
Activate(b, r) ==
  LET w == workers[b][r] IN
  /\ Up(b)
  /\ \/ w.pc = "leased" /\ Goto(b, r, "prepare") /\ UNCHANGED procs
     \/ w.pc = "starting" /\ Goto(b, r, "unknown") /\ UNCHANGED procs
     \/ /\ w.pc = "running" /\ Alive(w.pid)
        /\ workers' = [workers EXCEPT ![b][r].pc = "stream", ![b][r].attached = TRUE]
        /\ Tell(IF w.stop THEN {w.pid} ELSE {})
     \/ /\ w.pc = "running" /\ ~Alive(w.pid)
        /\ workers' = [workers EXCEPT ![b][r].pc = "reconcile", ![b][r].attached = TRUE]
        /\ UNCHANGED procs
  /\ UNCHANGED <<storeVars, sent, brokers, reaper, creating, faults, acts>>

(* shell_liveness attributes a process to a chat by the rows that name it. *)
NamedBy(p, c) == \/ slot.pid = p /\ slot.chat = c
                 \/ \E r \in RunId : runs[r].pid = p /\ ChatOf(r) = c

OwnTurnLingers(c) ==
  Occupied /\ \A p \in RunId : Alive(p) => NamedBy(p, c)

(* Seeded fault: the bound on deferrals is off by one. *)
MayDeferOnceMore(w) == w.defers <= MaxDefer

MayDefer(w) == w.defers < MaxDefer

(* The launch preparer's last look at the worktree: it goes on over nothing
   alive, waits behind this chat's own process, and refuses any other.  It may
   also refuse for reasons of its own. *)
Prepare(b, r) ==
  LET w == workers[b][r]
      waits == OwnTurnLingers(ChatOf(r)) /\ MayDefer(w)
  IN /\ At(b, r, "prepare")
     /\ \/ /\ ~Occupied
           /\ Goto(b, r, "bind") /\ UNCHANGED <<storeVars, brokers>>
        \/ /\ waits /\ DeferRun(r, b)
           /\ Leave(b, r, w.defers + 1)
        \/ /\ waits /\ runs[r].state # "leased"
           /\ Goto(b, r, "unknown") /\ UNCHANGED <<storeVars, brokers>>
        \/ /\ ~waits
           /\ Goto(b, r, "failed") /\ UNCHANGED <<storeVars, brokers>>
     /\ UNCHANGED <<sent, procs, reaper, creating, faults, acts>>

Bind(b, r) ==
  /\ At(b, r, "bind")
  /\ \/ /\ BindArchive(r, b)
        /\ \E next \in {"mark", "failed"} :
             workers' = [workers EXCEPT ![b][r].pc = next, ![b][r].defers = 0]
     \/ /\ ~CanBind(r, b)
        /\ Goto(b, r, "failed") /\ UNCHANGED storeVars
  /\ UNCHANGED <<sent, procs, brokers, reaper, creating, faults, acts>>

Mark(b, r) ==
  /\ At(b, r, "mark")
  /\ \/ MarkStarting(r, b) /\ Goto(b, r, "launch")
     \/ /\ ~CanStart(r, b)
        /\ Goto(b, r, "unknown") /\ UNCHANGED storeVars
  /\ UNCHANGED <<sent, procs, brokers, reaper, creating, faults, acts>>

(* The adapter takes the prompt.  When it raises, the prompt may be gone. *)
Launch(b, r) ==
  /\ At(b, r, "launch")
  /\ sent' = [sent EXCEPT ![runs[r].msg] = @ + 1]
  /\ \/ /\ procs' = [procs EXCEPT ![r] = [state |-> "alive", told |-> FALSE]]
        /\ workers' = [workers EXCEPT ![b][r].pc = "record", ![b][r].pid = r]
     \/ UNCHANGED procs /\ Goto(b, r, "unknown")
  /\ UNCHANGED <<storeVars, brokers, reaper, creating, faults, acts>>

Record(b, r) ==
  LET p == IF Alive(r) THEN r ELSE 0 IN
  /\ At(b, r, "record")
  /\ \/ /\ MarkNativeStarted(r, b, p)
        /\ Goto(b, r, "stream")
        /\ Tell(IF workers[b][r].stop THEN {r} ELSE {})
     \/ /\ ~CanRecord(r, b)
        /\ Goto(b, r, "unknown") /\ UNCHANGED <<storeVars, procs>>
  /\ UNCHANGED <<sent, brokers, reaper, creating, faults, acts>>

-----------------------------------------------------------------------------
(* A worker thread that observes its process. *)

(* finish_run answers False for a run that is final, and raises when the
   outcome is no legal move. *)
FinishOrSkip(q, outcome, keepLink, exited) ==
  \/ FinishRun(q, outcome, keepLink, exited)
  \/ ~Live(q) /\ UNCHANGED storeVars

FinishRefused(q, outcome) ==
  Live(q) /\ ~FinishLegal(q, outcome) /\ UNCHANGED storeVars

(* A failure of a run that was asked to stop counts as its interruption. *)
HeldOutcome(w) == IF w.held = "failed" /\ w.stop THEN "cancelled" ELSE w.held

(* The adapter yields a terminal event: it is held, and a later one wins. *)
Result(b, r) ==
  LET w == workers[b][r] IN
  /\ Up(b) /\ w.pc \in {"stream", "linger"}
  /\ w.attached => ~Alive(w.pid)
  /\ \E o \in {"succeeded", "failed", "cancelled"} :
       /\ o = "cancelled" => procs[w.pid].told
       /\ workers' = [workers EXCEPT ![b][r].held = o]
  /\ UNCHANGED <<storeVars, sent, procs, brokers, reaper, creating, faults, acts>>

(* Output for a run that somebody else finished ends its worker. *)
Orphaned(b, r) ==
  /\ At(b, r, "stream")
  /\ ~Live(workers[b][r].run)
  /\ Leave(b, r, workers[b][r].defers)
  /\ UNCHANGED <<storeVars, sent, procs, reaper, creating, faults, acts>>

(* A result was held and the process stays silent past the grace window: the
   turn is finished, the process keeps its link. *)
Linger(b, r) ==
  LET w == workers[b][r] IN
  /\ At(b, r, "stream")
  /\ ~w.attached /\ w.held # NoRow /\ Alive(w.pid)
  /\ \/ /\ FinishOrSkip(w.run, HeldOutcome(w), TRUE, FALSE)
        /\ workers' = [workers EXCEPT ![b][r].pc = "linger", ![b][r].held = NoRow]
     \/ /\ FinishRefused(w.run, HeldOutcome(w))
        /\ Goto(b, r, "unknown")
  /\ UNCHANGED <<sent, procs, brokers, reaper, creating, faults, acts>>

(* Output after a lingering finish. *)
Resume(b, r) ==
  LET w == workers[b][r] IN
  /\ At(b, r, "linger")
  /\ \/ \E next \in RunId :
          /\ OpenContinuation(w.run, next, b)
          /\ workers' = [workers EXCEPT ![b][r].pc = "stream", ![b][r].run = next]
          /\ UNCHANGED brokers
     \/ /\ chats[ChatOf(w.run)].state # "closed" /\ ~ContinuationLegal(w.run)
        /\ Goto(b, r, "unknown")
        /\ UNCHANGED <<storeVars, brokers>>
     \/ /\ chats[ChatOf(w.run)].state = "closed"
        /\ Leave(b, r, w.defers)
        /\ UNCHANGED storeVars
  /\ UNCHANGED <<sent, procs, reaper, creating, faults, acts>>

(* The stream ends with the process (exited), or breaks in mid-flight. *)
EndOfStream(b, r, exited) ==
  LET w == workers[b][r] IN
  /\ \/ /\ At(b, r, "linger")
        /\ Goto(b, r, "release")
        /\ UNCHANGED <<storeVars, brokers>>
     \/ /\ At(b, r, "stream") /\ w.held # NoRow
        /\ \/ FinishOrSkip(w.run, HeldOutcome(w), FALSE, exited) /\ Leave(b, r, w.defers)
           \/ /\ FinishRefused(w.run, HeldOutcome(w))
              /\ Goto(b, r, "unknown") /\ UNCHANGED brokers
     \/ /\ At(b, r, "stream") /\ w.held = NoRow
        /\ \E next \in {"reconcile"} \cup (IF exited THEN {} ELSE {"unknown"}) :
             Goto(b, r, next)
        /\ UNCHANGED <<storeVars, brokers>>
  /\ UNCHANGED <<sent, procs, reaper, creating, faults, acts>>

StreamEnds(b, r)   == ~Alive(workers[b][r].pid) /\ EndOfStream(b, r, TRUE)
StreamBreaks(b, r) == EndOfStream(b, r, FALSE)

Release(b, r) ==
  /\ At(b, r, "release")
  /\ ReleaseProcessLink(workers[b][r].run)
  /\ Leave(b, r, workers[b][r].defers)
  /\ UNCHANGED <<sent, procs, reaper, creating, faults, acts>>

(* reconcile answers an outcome; while it answers "running" the loop only
   renews the lease. *)
Reconcile(b, r, outcome) ==
  LET w == workers[b][r] IN
  /\ At(b, r, "reconcile")
  /\ outcome = "cancelled" => w.stop
  /\ \/ FinishOrSkip(w.run, outcome, FALSE, FALSE) /\ Leave(b, r, w.defers)
     \/ FinishRefused(w.run, outcome) /\ Goto(b, r, "unknown") /\ UNCHANGED brokers
  /\ UNCHANGED <<sent, procs, reaper, creating, faults, acts>>

(* A refusal proved to precede dispatch fails the run; when even that is no
   legal move, the thread's last handler tries the uncertain outcome. *)
FinishFailed(b, r) ==
  LET w == workers[b][r] IN
  /\ At(b, r, "failed")
  /\ \/ FinishOrSkip(w.run, "failed", FALSE, FALSE) /\ Leave(b, r, 0)
     \/ FinishRefused(w.run, "failed") /\ Goto(b, r, "unknown") /\ UNCHANGED brokers
  /\ UNCHANGED <<sent, procs, reaper, creating, faults, acts>>

FinishUnknown(b, r) ==
  LET w == workers[b][r] IN
  /\ At(b, r, "unknown")
  /\ FinishOrSkip(w.run, "unknown", FALSE, FALSE) \/ FinishRefused(w.run, "unknown")
  /\ Leave(b, r, w.defers)
  /\ UNCHANGED <<sent, procs, reaper, creating, faults, acts>>

(* The database stays busy past every retry of the worker's next write. *)
Busy(b, r) ==
  LET w == workers[b][r] IN
  /\ Up(b) /\ faults < MaxFaults /\ faults' = faults + 1
  /\ \/ w.pc \in {"prepare", "bind"} /\ Goto(b, r, "failed") /\ UNCHANGED brokers
     \/ w.pc \in {"mark", "record"} /\ Goto(b, r, "unknown") /\ UNCHANGED brokers
     \/ w.pc = "stream" /\ Goto(b, r, "reconcile") /\ UNCHANGED brokers
     \/ /\ w.pc \in {"linger", "release", "reconcile", "failed", "unknown"}
        /\ Leave(b, r, w.defers)
  /\ UNCHANGED <<storeVars, sent, procs, reaper, creating, acts>>

-----------------------------------------------------------------------------
(* The native process, and the reaper's ladder. *)

ProcessExits(p) ==
  /\ Alive(p)
  /\ procs' = [procs EXCEPT ![p].state = "gone"]
  /\ UNCHANGED <<storeVars, sent, brokers, workers, reaper, creating, faults, acts>>

ReapGone(r) ==
  /\ reaper = NotAiming
  /\ ~Alive(runs[r].pid)
  /\ FinishInterrupted(r, runs[r].pid)
  /\ UNCHANGED <<sent, procs, brokers, workers, reaper, creating, faults, acts>>

(* The ladder's step for a candidate begins by reading that it is eligible ... *)
TakeAim(r) ==
  /\ reaper = NotAiming
  /\ Eligible(r, runs[r].pid) /\ Alive(runs[r].pid)
  /\ reaper' = [run |-> r, pid |-> runs[r].pid, struck |-> FALSE]
  /\ UNCHANGED <<storeVars, sent, procs, brokers, workers, creating, faults, acts>>

(* ... then signals the recorded process: an interrupt, SIGTERM, SIGKILL ... *)
Strike ==
  LET r == reaper.run IN
  /\ reaper # NotAiming /\ ~reaper.struck
  /\ reaper' = [reaper EXCEPT !.struck = TRUE]
  /\ \/ runs[r].signal = "none" /\ Interrupt(r)
     \/ /\ runs[r].signal = "interrupt"
        /\ Tell({reaper.pid}) /\ UNCHANGED <<storeVars, workers, brokers>>
     \/ /\ runs[r].signal = "SIGTERM"
        /\ procs' = [procs EXCEPT ![reaper.pid].state = "gone"]
        /\ UNCHANGED <<storeVars, workers, brokers>>
  /\ UNCHANGED <<sent, creating, faults, acts>>

(* ... and records the rung, if the run is still its to act on. *)
Settle ==
  LET r == reaper.run IN
  /\ reaper # NotAiming /\ reaper.struck
  /\ reaper' = NotAiming
  /\ \/ runs[r].signal = "none" /\ RecordSignal(r, reaper.pid, "interrupt")
     \/ runs[r].signal = "interrupt" /\ RecordSignal(r, reaper.pid, "SIGTERM")
     \/ /\ \/ runs[r].signal = "SIGTERM"
           \/ runs[r].signal = "interrupt" /\ ~Alive(reaper.pid)   \* found no group
        /\ FinishInterrupted(r, reaper.pid)
     \/ ~Eligible(r, reaper.pid) /\ UNCHANGED storeVars
  /\ UNCHANGED <<sent, procs, brokers, workers, creating, faults, acts>>

-----------------------------------------------------------------------------
WorkerNext(b, r) ==
  \/ Activate(b, r) \/ Prepare(b, r) \/ Bind(b, r) \/ Mark(b, r) \/ Launch(b, r)
  \/ Record(b, r) \/ Result(b, r) \/ Orphaned(b, r) \/ Linger(b, r) \/ Resume(b, r)
  \/ StreamEnds(b, r) \/ StreamBreaks(b, r) \/ Release(b, r)
  \/ \E o \in TerminalRunStates : Reconcile(b, r, o)
  \/ FinishFailed(b, r) \/ FinishUnknown(b, r) \/ Busy(b, r)

BrokerNext(b) ==
  \/ StartBroker(b) \/ CrashBroker(b) \/ Dispatch(b) \/ NothingToDispatch(b)
  \/ Heartbeat(b)
  \/ \E r \in RunId : Recover(b, r) \/ WorkerNext(b, r)

ApiNext == \E c \in Chats :
  BeginCreate(c) \/ EndCreate(c) \/ Send(c) \/ Close(c) \/ Stop(c)

ReaperNext == Strike \/ Settle \/ \E r \in RunId : ReapGone(r) \/ TakeAim(r)

Next ==
  \/ ApiNext
  \/ DisplaceInactive \/ DisplaceForWake
  \/ \E b \in Brokers : BrokerNext(b)
  \/ \E r \in RunId : Expire(r) \/ Stall(r) \/ ProcessExits(r)
  \/ ReaperNext

Spec == Init /\ [][Next]_vars
=============================================================================
