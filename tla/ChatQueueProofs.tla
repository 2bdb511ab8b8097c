----------------------------- MODULE ChatQueueProofs -----------------------------
(***************************************************************************)
(* Theorems about BrowserChats under one server at a time (ServedSpec),    *)
(* however often it crashes and starts again: one harness process in the   *)
(* worktree, and the refinement of TurnQueue.                              *)
(***************************************************************************)
EXTENDS BrowserChatsProofs

(* What a step of one worker thread makes of its row. *)
Moves(b, r) ==
  LET w == workers[b][r]
      x == workers'[b][r]
  IN \/ x.pc = "idle"
     \/ /\ x.run = w.run
        /\ \/ w.pc = "leased" /\ x.pc = "prepare" /\ UNCHANGED <<storeVars, procs>>
           \/ w.pc = "prepare" /\ x.pc = "bind" /\ ~Occupied /\ UNCHANGED <<storeVars, procs>>
           \/ w.pc = "bind" /\ x.pc = "mark" /\ BindArchive(r, b) /\ UNCHANGED procs
           \/ w.pc = "mark" /\ x.pc = "launch" /\ MarkStarting(r, b) /\ UNCHANGED procs
           \/ x.pc = "record" /\ Launch(b, r)
           \/ x.pc \in {"stream", "linger"} /\ w.pc \in {"running", "record", "stream", "linger"}
           \/ x.pc \in {"release", "reconcile", "failed", "unknown"}
     \/ /\ w.pc = "linger" /\ x.pc = "stream" /\ x.run \in RunId
        /\ OpenContinuation(w.run, x.run, b)

LEMMA RowIs ==
  ASSUME TypeInv, NEW b \in Brokers, NEW r \in RunId, NEW x, RowBecomes(b, r, x)
  PROVE workers'[b][r] = x
BY RowUpdate DEF RowBecomes, TypeInv, TypeOK, WorkerTables

LEMMA GotoRow ==
  ASSUME TypeInv, NEW b \in Brokers, NEW r \in RunId, NEW step, Goto(b, r, step)
  PROVE workers'[b][r].pc = step /\ workers'[b][r].run = workers[b][r].run
<1> DEFINE x == [workers[b][r] EXCEPT !.pc = step]
<1>1. RowBecomes(b, r, x)
  BY DEF Goto, RowBecomes
<1>2. x.pc = step /\ x.run = workers[b][r].run
  BY RowFields DEF TypeInv, TypeOK
<1> HIDE DEF x
<1> QED
  BY <1>1, <1>2, RowIs

LEMMA LeaveRow ==
  ASSUME TypeInv, NEW b \in Brokers, NEW r \in RunId, NEW defers, Leave(b, r, defers)
  PROVE workers'[b][r].pc = "idle"
<1> DEFINE x == [IdleWorker EXCEPT !.defers = defers]
<1>1. RowBecomes(b, r, x)
  BY DEF Leave, RowBecomes
<1>2. x.pc = "idle"
  BY DEF IdleWorker
<1> HIDE DEF x
<1> QED
  BY <1>1, <1>2, RowIs

(* The moves that set another field of the row with the step. *)
RowMoves(b, r, step, v) ==
  \/ workers' = [workers EXCEPT ![b][r].pc = step, ![b][r].attached = v]
  \/ workers' = [workers EXCEPT ![b][r].pc = step, ![b][r].pid = v]
  \/ workers' = [workers EXCEPT ![b][r].pc = step, ![b][r].held = v]
  \/ workers' = [workers EXCEPT ![b][r].pc = step, ![b][r].defers = v]

RowResumes(b, r, next) ==
  workers' = [workers EXCEPT ![b][r].pc = "stream", ![b][r].run = next]

LEMMA MoveRows ==
  ASSUME TypeInv, NEW b \in Brokers, NEW r \in RunId, NEW step \in WorkerStep, NEW v,
         RowMoves(b, r, step, v)
  PROVE workers'[b][r].pc = step /\ workers'[b][r].run = workers[b][r].run
<1> DEFINE w == workers[b][r]
<1>w. w \in Worker /\ workers \in [Brokers -> [RunId -> Worker]]
  BY DEF TypeInv, TypeOK
<1>1. ASSUME NEW x, RowBecomes(b, r, x), x.pc = step /\ x.run = w.run
      PROVE workers'[b][r].pc = step /\ workers'[b][r].run = workers[b][r].run
  BY <1>1, RowIs
<1>2. CASE workers' = [workers EXCEPT ![b][r].pc = step, ![b][r].attached = v]
  <2> DEFINE x == [w EXCEPT !.pc = step, !.attached = v]
  <2>1. RowBecomes(b, r, x)
    BY <1>w, <1>2 DEF RowBecomes
  <2>2. x.pc = step /\ x.run = w.run
    BY <1>w, TwoFields
  <2> HIDE DEF x
  <2> QED
    BY <1>1, <2>1, <2>2
<1>3. CASE workers' = [workers EXCEPT ![b][r].pc = step, ![b][r].pid = v]
  <2> DEFINE x == [w EXCEPT !.pc = step, !.pid = v]
  <2>1. RowBecomes(b, r, x)
    BY <1>w, <1>3 DEF RowBecomes
  <2>2. x.pc = step /\ x.run = w.run
    BY <1>w, TwoFields
  <2> HIDE DEF x
  <2> QED
    BY <1>1, <2>1, <2>2
<1>4. CASE workers' = [workers EXCEPT ![b][r].pc = step, ![b][r].held = v]
  <2> DEFINE x == [w EXCEPT !.pc = step, !.held = v]
  <2>1. RowBecomes(b, r, x)
    BY <1>w, <1>4 DEF RowBecomes
  <2>2. x.pc = step /\ x.run = w.run
    BY <1>w, TwoFields
  <2> HIDE DEF x
  <2> QED
    BY <1>1, <2>1, <2>2
<1>5. CASE workers' = [workers EXCEPT ![b][r].pc = step, ![b][r].defers = v]
  <2> DEFINE x == [w EXCEPT !.pc = step, !.defers = v]
  <2>1. RowBecomes(b, r, x)
    BY <1>w, <1>5 DEF RowBecomes
  <2>2. x.pc = step /\ x.run = w.run
    BY <1>w, TwoFields
  <2> HIDE DEF x
  <2> QED
    BY <1>1, <2>1, <2>2
<1> QED
  BY <1>2, <1>3, <1>4, <1>5 DEF RowMoves

LEMMA ResumedRow ==
  ASSUME TypeInv, NEW b \in Brokers, NEW r \in RunId, NEW next,
         RowResumes(b, r, next)
  PROVE workers'[b][r].pc = "stream" /\ workers'[b][r].run = next
<1> DEFINE w == workers[b][r]
           x == [w EXCEPT !.pc = "stream", !.run = next]
<1>w. w \in Worker /\ workers \in [Brokers -> [RunId -> Worker]]
  BY DEF TypeInv, TypeOK
<1>1. x.pc = "stream" /\ x.run = next
  BY <1>w, TwoFields, WorkerStepNames
<1>2. RowBecomes(b, r, x)
  BY <1>w DEF RowBecomes, RowResumes
<1> HIDE DEF x
<1> QED
  BY <1>1, <1>2, RowIs

LEMMA WorkerMoves ==
  ASSUME TypeInv, NEW b \in Brokers, NEW r \in RunId, WorkerNext(b, r)
  PROVE Moves(b, r)
<1> DEFINE w == workers[b][r]
           Last == {"release", "reconcile", "failed", "unknown"}
<1>1. CASE \E step \in Last : Goto(b, r, step)
  BY <1>1, GotoRow DEF Moves
<1>2. CASE \E defers : Leave(b, r, defers)
  BY <1>2, LeaveRow DEF Moves
<1>3. CASE Activate(b, r)
  <2>1. CASE w.pc = "leased" /\ Goto(b, r, "prepare") /\ UNCHANGED procs
    BY <1>3, <2>1, GotoRow DEF Moves, Activate
  <2>2. CASE /\ w.pc = "running"
             /\ workers' = [workers EXCEPT ![b][r].pc = "stream", ![b][r].attached = TRUE]
    <3>m. RowMoves(b, r, "stream", TRUE)
      BY ONLY <2>2 DEF RowMoves
    <3>1. workers'[b][r].pc = "stream" /\ workers'[b][r].run = w.run
      BY <3>m, MoveRows, WorkerStepNames
    <3>2. w.pc = "running"
      BY <2>2
    <3> QED
      BY ONLY <3>1, <3>2 DEF Moves
  <2>3. CASE workers' = [workers EXCEPT ![b][r].pc = "reconcile", ![b][r].attached = TRUE]
    <3>m. RowMoves(b, r, "reconcile", TRUE)
      BY ONLY <2>3 DEF RowMoves
    <3>1. workers'[b][r].pc = "reconcile" /\ workers'[b][r].run = w.run
      BY <3>m, MoveRows, WorkerStepNames
    <3> QED
      BY <3>1 DEF Moves
  <2> QED
    BY <1>1, <1>3, <2>1, <2>2, <2>3 DEF Activate
<1>4. CASE Prepare(b, r)
  <2>1. CASE ~Occupied /\ Goto(b, r, "bind") /\ UNCHANGED <<storeVars, brokers>>
    BY <1>4, <2>1, GotoRow DEF Moves, Prepare, At
  <2> QED
    BY <1>1, <1>2, <1>4, <2>1 DEF Prepare
<1>5. CASE Bind(b, r)
  <2>1. ASSUME NEW next \in {"mark", "failed"}, BindArchive(r, b),
               workers' = [workers EXCEPT ![b][r].pc = next, ![b][r].defers = 0]
        PROVE Moves(b, r)
    <3>s. next \in WorkerStep
      BY <2>1, WorkerStepNames
    <3>1. workers'[b][r].pc = next /\ workers'[b][r].run = w.run
      <4>1. RowMoves(b, r, next, 0)
        BY ONLY <2>1 DEF RowMoves
      <4> QED
        BY <3>s, <4>1, MoveRows
    <3>2. w.pc = "bind" /\ UNCHANGED procs /\ next \in {"mark", "failed"} /\ BindArchive(r, b)
      BY <1>5, <2>1 DEF Bind, At
    <3> QED
      BY ONLY <3>1, <3>2 DEF Moves
  <2> QED
    BY <1>1, <1>5, <2>1 DEF Bind
<1>6. CASE Mark(b, r)
  <2>1. CASE MarkStarting(r, b) /\ Goto(b, r, "launch")
    BY <1>6, <2>1, GotoRow DEF Moves, Mark, At
  <2> QED
    BY <1>1, <1>6, <2>1 DEF Mark
<1>7. CASE Launch(b, r)
  <2>1. CASE workers' = [workers EXCEPT ![b][r].pc = "record", ![b][r].pid = r]
    <3>m. RowMoves(b, r, "record", r)
      BY ONLY <2>1 DEF RowMoves
    <3>1. workers'[b][r].pc = "record" /\ workers'[b][r].run = w.run
      BY <3>m, MoveRows, WorkerStepNames
    <3> QED
      BY <1>7, <3>1 DEF Moves
  <2> QED
    BY <1>1, <1>7, <2>1 DEF Launch
<1>8. CASE Record(b, r)
  <2>1. CASE Goto(b, r, "stream")
    BY <1>8, <2>1, GotoRow DEF Moves, Record, At
  <2> QED
    BY <1>1, <1>8, <2>1 DEF Record
<1>9. CASE Result(b, r)
  <2>1. PICK o : workers' = [workers EXCEPT ![b][r].held = o]
    BY <1>9 DEF Result
  <2> DEFINE x == [w EXCEPT !.held = o]
  <2>2. x.pc = w.pc /\ x.run = w.run /\ w.pc \in {"stream", "linger"}
    BY <1>9, RowFields DEF Result, TypeInv, TypeOK
  <2>3. RowBecomes(b, r, x)
    BY <2>1 DEF RowBecomes
  <2>4. workers'[b][r] = x
    BY <2>3, RowIs
  <2> QED
    BY <2>2, <2>4 DEF Moves
<1>10. CASE Linger(b, r)
  <2>1. CASE workers' = [workers EXCEPT ![b][r].pc = "linger", ![b][r].held = NoRow]
    <3>m. RowMoves(b, r, "linger", NoRow)
      BY ONLY <2>1 DEF RowMoves
    <3>1. workers'[b][r].pc = "linger" /\ workers'[b][r].run = w.run
      BY <3>m, MoveRows, WorkerStepNames
    <3> QED
      BY <1>10, <3>1 DEF Moves, Linger, At
  <2> QED
    BY <1>1, <1>10, <2>1 DEF Linger
<1>11. CASE Resume(b, r)
  <2>1. ASSUME NEW next \in RunId, OpenContinuation(w.run, next, b),
               workers' = [workers EXCEPT ![b][r].pc = "stream", ![b][r].run = next]
        PROVE Moves(b, r)
    <3>1. workers'[b][r].pc = "stream" /\ workers'[b][r].run = next
      <4>1. RowResumes(b, r, next)
        BY ONLY <2>1 DEF RowResumes
      <4> QED
        BY <4>1, ResumedRow
    <3>2. w.pc = "linger" /\ next \in RunId /\ OpenContinuation(w.run, next, b)
      BY <1>11, <2>1 DEF Resume, At
    <3> QED
      BY ONLY <3>1, <3>2 DEF Moves
  <2> QED
    BY <1>1, <1>2, <1>11, <2>1 DEF Resume
<1>12. CASE Orphaned(b, r) \/ Release(b, r)
  BY <1>2, <1>12 DEF Orphaned, Release
<1>13. CASE StreamEnds(b, r) \/ StreamBreaks(b, r)
  BY <1>1, <1>2, <1>13 DEF StreamEnds, StreamBreaks, EndOfStream
<1>14. CASE \E o \in TerminalRunStates : Reconcile(b, r, o)
  BY <1>1, <1>2, <1>14 DEF Reconcile
<1>15. CASE FinishFailed(b, r) \/ FinishUnknown(b, r)
  BY <1>1, <1>2, <1>15 DEF FinishFailed, FinishUnknown
<1>16. CASE Busy(b, r)
  BY <1>1, <1>2, <1>16 DEF Busy
<1> QED
  BY <1>3, <1>4, <1>5, <1>6, <1>7, <1>8, <1>9, <1>10, <1>11, <1>12, <1>13, <1>14, <1>15,
     <1>16 DEF WorkerNext

(* Only a launch brings a process to life. *)
NoneRises == \A p \in RunId : procs'[p].state = "alive" => procs[p].state = "alive"

LEMMA TellRaisesNone ==
  ASSUME TypeInv, NEW ps, Tell(ps) PROVE NoneRises
<1> SUFFICES ASSUME NEW p \in RunId, procs'[p].state = "alive"
             PROVE procs[p].state = "alive"
  BY DEF NoneRises
<1>1. procs'[p] = IF p \in ps /\ Alive(p) THEN [procs[p] EXCEPT !.told = TRUE] ELSE procs[p]
  BY DEF Tell
<1> QED
  BY <1>1 DEF Alive

LEMMA ExitRaisesNone ==
  ASSUME TypeInv, NEW q, procs' = [procs EXCEPT ![q].state = "gone"] PROVE NoneRises
BY DEF NoneRises, TypeInv, TypeOK, Process

LEMMA InterruptRaisesNone ==
  ASSUME TypeInv, NEW r, Interrupt(r) PROVE NoneRises
BY TellRaisesNone DEF Interrupt, Deliver, NoneRises

LEMMA WorkerRaises ==
  ASSUME TypeInv, NEW b \in Brokers, NEW r \in RunId, WorkerNext(b, r), ~Launch(b, r)
  PROVE NoneRises
<1>1. CASE UNCHANGED procs
  BY <1>1 DEF NoneRises
<1>2. CASE Activate(b, r)
  BY <1>1, <1>2, TellRaisesNone DEF Activate
<1>3. CASE Record(b, r)
  BY <1>1, <1>3, TellRaisesNone DEF Record
<1> QED
  BY <1>1, <1>2, <1>3
     DEF WorkerNext, Prepare, Bind, Mark, Result, Orphaned, Linger, Resume, StreamEnds,
         StreamBreaks, EndOfStream, Release, Reconcile, FinishFailed, FinishUnknown, Busy

LEMMA LaunchRaises ==
  ASSUME TypeInv, NEW b \in Brokers, NEW r \in RunId, Launch(b, r),
         NEW p \in RunId, procs'[p].state = "alive", p # r
  PROVE procs[p].state = "alive"
BY DEF Launch, TypeInv, TypeOK

LEMMA NextRaises ==
  ASSUME TypeInv, Next, \A b \in Brokers, r \in RunId : ~Launch(b, r)
  PROVE NoneRises
<1>1. CASE UNCHANGED procs
  BY <1>1 DEF NoneRises
<1>2. CASE Interrupt(reaper.run) \/ \E r \in RunId : Interrupt(r)
  BY <1>2, InterruptRaisesNone
<1>3. ASSUME NEW b \in Brokers, BrokerNext(b) PROVE NoneRises
  BY <1>1, <1>3, WorkerRaises
     DEF BrokerNext, StartBroker, CrashBroker, Dispatch, NothingToDispatch, Heartbeat, Recover
<1>4. CASE Strike
  BY <1>2, <1>4, TellRaisesNone, ExitRaisesNone DEF Strike
<1>5. ASSUME NEW c \in Chats, Stop(c) PROVE NoneRises
  BY <1>2, <1>5, TellRaisesNone DEF Stop
<1>6. ASSUME NEW q \in RunId, ProcessExits(q) PROVE NoneRises
  BY <1>6, ExitRaisesNone DEF ProcessExits
<1> QED
  BY <1>1, <1>3, <1>4, <1>5, <1>6
     DEF Next, ApiNext, BeginCreate, EndCreate, Send, Close, DisplaceInactive,
         DisplaceForWake, Expire, Stall, ReaperNext, ReapGone, TakeAim, Settle

LEMMA NextAlive ==
  ASSUME TypeInv, Next, NEW p \in RunId, Alive(p)'
  PROVE Alive(p) \/ \E b \in Brokers : Launch(b, p)
<1>1. procs'[p].state = "alive" /\ p # 0
  BY DEF Alive
<1>2. CASE procs[p].state = "alive"
  BY <1>1, <1>2 DEF Alive
<1>3. CASE \E b \in Brokers, r \in RunId : Launch(b, r) /\ r # p
  BY <1>1, <1>2, <1>3, LaunchRaises
<1> QED
  BY <1>1, <1>2, <1>3, NextRaises DEF NoneRises

-----------------------------------------------------------------------------
(* What one server at a time adds.  The thread that holds a run before its
   launch is the only one that may change that run's state. *)

Unstarted(r) == runs[r].state \in {"leased", "starting"}

(* A broker that is not up runs no thread. *)
WorkersAreUp == \A b \in Brokers, r \in RunId : workers[b][r].pc # "idle" => Up(b)

(* Up to its launch a thread works on the run it was started for, in the state
   the thread left it in; later it may have gone on to a continuation. *)
WorkersHoldRuns == \A b \in Brokers, r \in RunId :
  LET w == workers[b][r] IN
    /\ w.pc \in {"leased", "prepare", "bind", "mark"} => w.run = r /\ runs[r].state = "leased"
    /\ w.pc \in {"starting", "launch"} => w.run = r /\ runs[r].state = "starting"
    /\ w.pc = "record" => w.run = r
    /\ w.pc # "idle" => w.run = r \/ runs[w.run].attempt >= 2

(* Only a first attempt is leased or started. *)
UnstartedIsFirst == \A r \in RunId : Unstarted(r) => runs[r].attempt = 1

LEMMA OthersKept ==
  ASSUME StoreTypeOK, NEW r \in RunId, NEW q \in RunId, q # r
  PROVE /\ \A outcome, keepLink, exited :
             FinishRun(r, outcome, keepLink, exited) => runs'[q] = runs[q]
        /\ \A b, p : MarkNativeStarted(r, b, p) => runs'[q] = runs[q]
        /\ \A p : FinishInterrupted(r, p) => runs'[q] = runs[q]
        /\ \A m, b : ClaimNext(m, r, b) => runs'[q] = runs[q]
        /\ \A o, b : OpenContinuation(o, r, b) => runs'[q] = runs[q]
BY DEF StoreTypeOK, FinishRun, MarkNativeStarted, FinishInterrupted, ClaimNext, OpenContinuation

LEMMA ReleaseStates ==
  ASSUME StoreTypeOK, NEW r, ReleaseProcessLink(r) PROVE StatesStay
BY DEF StoreTypeOK, Run, ReleaseProcessLink, StatesStay

LEMMA FinishStates ==
  ASSUME StoreTypeOK, NEW q \in RunId, NEW r \in RunId, NEW outcome \in TerminalRunStates,
         NEW keepLink, NEW exited,
         FinishOrSkip(r, outcome, keepLink, exited) \/ FinishRefused(r, outcome)
  PROVE runs'[q].state = runs[q].state \/ (q = r /\ runs'[q].state \in TerminalRunStates)
<1>1. CASE UNCHANGED runs
  BY <1>1
<1>2. CASE FinishRun(r, outcome, keepLink, exited)
  <2>1. PICK x, p, y : runs' = [runs EXCEPT ![r].state = outcome, ![r].pid = p, ![r].swept = y]
    BY <1>2 DEF FinishRun
  <2> QED
    BY <2>1, RunFinishedRows
<1> QED
  BY <1>1, <1>2 DEF FinishOrSkip, FinishRefused, storeVars

LEMMA WorkerMovesRuns ==
  ASSUME TypeInv, StoreInv, WorkersHoldRuns, UnstartedIsFirst,
         NEW b \in Brokers, NEW r \in RunId, WorkerNext(b, r), NEW q \in RunId, Unstarted(q)
  PROVE \/ runs'[q].state = runs[q].state
        \/ q = r /\ (Record(b, r) \/ runs'[q].state # "running")
<1> DEFINE w == workers[b][r]
           Goal == \/ runs'[q].state = runs[q].state
                   \/ q = r /\ (Record(b, r) \/ runs'[q].state # "running")
<1>t. StoreTypeOK /\ w \in Worker /\ runs[q].state # NoRow
  BY DEF TypeInv, TypeOK, Unstarted, NoRow
<1>w. w.pc # "idle" => w.run \in RunId /\ (w.run = r \/ w.run # q)
  BY ActorRuns DEF WorkersHoldRuns, UnstartedIsFirst
<1>1. CASE UNCHANGED storeVars
  BY <1>1 DEF storeVars
<1>2. CASE Prepare(b, r)
  BY <1>t, <1>1, <1>2, LightTransactions DEF Prepare, storeVars, StatesStay
<1>3. CASE Bind(b, r)
  BY <1>t, <1>1, <1>3, LightTransactions DEF Bind, StatesStay
<1>4. CASE Mark(b, r)
  BY <1>t, <1>1, <1>4, MarkStartingQuiet DEF Mark
<1>5. CASE Record(b, r)
  BY <1>t, <1>1, <1>5, OthersKept DEF Record, storeVars
<1>6. ASSUME NEW outcome \in TerminalRunStates, NEW keepLink, NEW exited, w.pc # "idle",
             FinishOrSkip(w.run, outcome, keepLink, exited) \/ FinishRefused(w.run, outcome)
      PROVE Goal
  <2>1. runs'[q].state = runs[q].state \/ (q = w.run /\ runs'[q].state \in TerminalRunStates)
    BY <1>t, <1>w, <1>6, FinishStates
  <2> QED
    BY <1>w, <1>6, <2>1 DEF TerminalRunStates
<1>7. w.held # NoRow => HeldOutcome(w) \in TerminalRunStates
  BY <1>t DEF Worker, HeldOutcome, TerminalRunStates
<1>8. CASE Linger(b, r)
  BY <1>6, <1>7, <1>8 DEF Linger, At
<1>9. CASE StreamEnds(b, r) \/ StreamBreaks(b, r)
  BY <1>1, <1>6, <1>7, <1>9 DEF StreamEnds, StreamBreaks, EndOfStream, At, storeVars
<1>10. CASE Resume(b, r)
  <2>1. ASSUME NEW next \in RunId, OpenContinuation(w.run, next, b) PROVE Goal
    <3>1. q # next
      BY <1>t, <2>1 DEF OpenContinuation, NextRun
    <3>2. runs'[q] = runs[q]
      BY <1>t, <2>1, <3>1, OthersKept
    <3> QED
      BY ONLY <3>2
  <2> QED
    BY <1>1, <1>10, <2>1 DEF Resume
<1>11. CASE Release(b, r)
  BY <1>t, <1>11, ReleaseStates DEF Release, StatesStay
<1>12. CASE \E o \in TerminalRunStates : Reconcile(b, r, o)
  BY <1>6, <1>12 DEF Reconcile, At
<1>13. CASE FinishFailed(b, r) \/ FinishUnknown(b, r)
  <2>1. "failed" \in TerminalRunStates /\ "unknown" \in TerminalRunStates
    BY DEF TerminalRunStates
  <2> QED
    BY <1>6, <1>13, <2>1 DEF FinishFailed, FinishUnknown, At
<1> QED
  BY <1>1, <1>2, <1>3, <1>4, <1>5, <1>8, <1>9, <1>10, <1>11, <1>12, <1>13
     DEF WorkerNext, Activate, Launch, Result, Orphaned, Busy

LEMMA InterruptStates ==
  ASSUME TypeInv, NEW r \in RunId, Interrupt(r) PROVE StatesStay
<1>1. ASSUME NEW b \in Brokers, NEW q \in RunId, Executes(b, q, r), Deliver(b, q)
      PROVE StatesStay
  <2>1. workers[b][q].run \in RunId
    BY <1>1, ActorRuns DEF Executes, InFlight
  <2> QED
    BY <1>1, <2>1, LightTransactions DEF Deliver, TypeInv, TypeOK
<1> QED
  BY <1>1, LightTransactions DEF Interrupt, TypeInv, TypeOK

LEMMA ReapedStates ==
  ASSUME StoreInv, NEW q \in RunId, Unstarted(q), NEW r \in RunId, NEW p, FinishInterrupted(r, p)
  PROVE runs'[q].state = runs[q].state
<1>1. runs[q].pid = 0
  BY DEF StoreInv, RowsOK, AttemptRows, Unstarted
<1>2. runs[r].pid # 0
  BY DEF FinishInterrupted, Eligible
<1> QED
  BY <1>1, <1>2, OthersKept DEF StoreInv

(* The state of a run that is not started yet changes only by its own thread. *)
LEMMA OnlyItsWorker ==
  ASSUME TypeInv, StoreInv, WorkersHoldRuns, UnstartedIsFirst, Next,
         NEW q \in RunId, Unstarted(q),
         \A b \in Brokers : ~WorkerNext(b, q)
  PROVE runs'[q].state = runs[q].state
<1> DEFINE Goal == runs'[q].state = runs[q].state
<1>t. StoreTypeOK /\ runs[q].state # NoRow
  BY DEF TypeInv, TypeOK, Unstarted, NoRow
<1>1. CASE UNCHANGED runs
  BY <1>1
<1>2. CASE StatesStay
  BY <1>2 DEF StatesStay
<1>3. ASSUME NEW b \in Brokers, BrokerNext(b) PROVE Goal
  <2>1. ASSUME NEW r \in RunId, WorkerNext(b, r) PROVE Goal
    BY <2>1, WorkerMovesRuns
  <2>2. CASE Dispatch(b)
    <3>1. PICK m \in MessageId, r \in RunId : ClaimNext(m, r, b)
      BY <2>2 DEF Dispatch
    <3>2. r # q
      BY <1>t, <3>1 DEF ClaimNext, NextRun
    <3> QED
      BY <1>t, <3>1, <3>2, OthersKept
  <2>3. CASE Heartbeat(b)
    BY <1>2, <1>t, <2>3, LightTransactions DEF Heartbeat
  <2>4. ASSUME NEW r \in RunId, Recover(b, r) PROVE Goal
    BY <1>2, <1>t, <2>4, LightTransactions DEF Recover
  <2> QED
    BY <1>1, <1>3, <2>1, <2>2, <2>3, <2>4
       DEF BrokerNext, StartBroker, CrashBroker, NothingToDispatch, storeVars
<1>4. ASSUME NEW c \in Chats, Stop(c) PROVE Goal
  BY <1>1, <1>2, <1>4, InterruptStates DEF Stop, storeVars
<1>5. ASSUME NEW c \in Chats, BeginCreate(c) \/ EndCreate(c) \/ Close(c) \/ Send(c) PROVE Goal
  BY <1>1, <1>5 DEF BeginCreate, EndCreate, Close, CloseActiveForCreate, RegisterChat,
                    CloseByUser, Send, AcceptMessage, ReopenWithMessage, QueueMessage, storeVars
<1>6. CASE DisplaceInactive \/ DisplaceForWake
  BY <1>1, <1>6 DEF DisplaceInactive, DisplaceForWake, Displace
<1>7. CASE \E r \in RunId : Expire(r) \/ Stall(r) \/ ProcessExits(r)
  BY <1>t, <1>1, <1>2, <1>7, LightTransactions DEF Expire, Stall, ProcessExits, storeVars
<1>8. ASSUME NEW r \in RunId, ReapGone(r) \/ TakeAim(r) PROVE Goal
  BY <1>1, <1>8, ReapedStates DEF ReapGone, TakeAim, storeVars
<1>9. CASE Strike
  BY <1>1, <1>2, <1>9, InterruptStates, ActorRuns DEF Strike, storeVars
<1>10. CASE Settle
  BY <1>t, <1>1, <1>2, <1>10, ActorRuns, LightTransactions, ReapedStates DEF Settle, storeVars
<1> QED
  BY <1>3, <1>4, <1>5, <1>6, <1>7, <1>8, <1>9, <1>10
     DEF Next, ApiNext, ReaperNext

(* A run's prompt and attempt are its own for good, and a finished run starts no
   more. *)
LEMMA RowsStay ==
  ASSUME TypeInv, OutboxOK, RunRows, Next, NEW r \in RunId, runs[r].state # NoRow
  PROVE /\ runs'[r].msg = runs[r].msg /\ runs'[r].attempt = runs[r].attempt
        /\ runs'[r].state # NoRow
        /\ runs'[r].state \in LiveRunStates => runs[r].state \in LiveRunStates
        /\ runs'[r].state = "leased" => runs[r].state = "leased"
        /\ runs'[r].state = "starting" => runs[r].state \in {"leased", "starting"}
<1>1. CASE ~Claims /\ ~Resumes
  BY <1>1, NextKept DEF RunsKept, RowKept
<1>2. CASE Claims
  BY <1>2, ClaimRow DEF NextRun, RunAdded
<1>3. CASE Resumes
  BY <1>3, ResumeRow DEF NextRun, RunAdded
<1> QED
  BY <1>1, <1>2, <1>3

(* The row of a thread that another actor steps over: it stays, it is cleared by
   a crash, or it is started for its own run in the state that the tables show. *)
RowStays(b, r) == /\ workers'[b][r].pc = workers[b][r].pc
                  /\ workers'[b][r].run = workers[b][r].run

RowStarts(b, r) == /\ workers'[b][r].pc = runs'[r].state
                   /\ runs'[r].state \in LiveRunStates
                   /\ workers'[b][r].run = r

LEMMA RecoverRows ==
  ASSUME TypeInv, NEW b \in Brokers, NEW r \in RunId, Recover(b, r),
         NEW o \in Brokers, NEW q \in RunId
  PROVE RowStays(o, q) \/ (o = b /\ q = r /\ RowStarts(o, q))
<1> DEFINE w == workers[b][r]
           x == [w EXCEPT !.pc = runs[r].state, !.run = r, !.pid = runs[r].pid,
                          !.stop = runs[r].stop]
<1>w. w \in Worker /\ workers \in WorkerTables /\ StoreTypeOK
  BY DEF TypeInv, TypeOK, WorkerTables
<1>1. CASE UNCHANGED workers
  BY <1>1 DEF RowStays
<1>2. CASE RowBecomes(b, r, x)
  <2>1. x.pc = runs[r].state /\ x.run = r
    BY <1>w DEF Worker
  <2>2. runs'[r].state = runs[r].state /\ runs[r].state \in LiveRunStates
    BY <1>w, LightTransactions DEF Recover, AdoptRun, Live, StatesStay
  <2> HIDE DEF x
  <2>3. workers'[o][q] = IF o = b /\ q = r THEN x ELSE workers[o][q]
    BY <1>w, <1>2, RowUpdate DEF RowBecomes
  <2> QED
    BY <2>1, <2>2, <2>3 DEF RowStays, RowStarts
<1> QED
  BY <1>1, <1>2 DEF Recover, RowBecomes

LEMMA DispatchRows ==
  ASSUME TypeInv, NEW b \in Brokers, Dispatch(b), NEW o \in Brokers, NEW q \in RunId
  PROVE RowStays(o, q) \/ (o = b /\ RowStarts(o, q))
<1>w. workers \in WorkerTables /\ StoreTypeOK
  BY DEF TypeInv, TypeOK, WorkerTables
<1>1. PICK m \in MessageId, r \in RunId :
        /\ ClaimNext(m, r, b)
        /\ workers' = [workers EXCEPT ![b][r] = [IdleWorker EXCEPT !.pc = "leased", !.run = r]]
  BY DEF Dispatch
<1> DEFINE x == [IdleWorker EXCEPT !.pc = "leased", !.run = r]
<1>2. x.pc = "leased" /\ x.run = r
  BY DEF IdleWorker
<1>3. runs'[r].state = "leased"
  <2>1. runs' = [runs EXCEPT ![r] = NewRun(m, 1, "leased", b, 0, FALSE)]
    BY <1>1 DEF ClaimNext
  <2>2. RunAdded(r, m, 1, "leased")
    BY ONLY <1>w, <2>1, NewRow
  <2> QED
    BY <2>2 DEF RunAdded
<1> HIDE DEF x
<1>4. workers'[o][q] = IF o = b /\ q = r THEN x ELSE workers[o][q]
  BY <1>w, <1>1, RowUpdate DEF x
<1> QED
  BY <1>2, <1>3, <1>4 DEF RowStays, RowStarts, LiveRunStates

LEMMA OtherRows ==
  ASSUME TypeInv, Next, NEW b \in Brokers, NEW r \in RunId, ~WorkerNext(b, r)
  PROVE \/ RowStays(b, r) \/ (RowStarts(b, r) /\ Up(b))
        \/ CrashBroker(b) /\ workers'[b][r].pc = "idle"
<1> DEFINE Goal == \/ RowStays(b, r) \/ (RowStarts(b, r) /\ Up(b))
                   \/ CrashBroker(b) /\ workers'[b][r].pc = "idle"
<1>1. CASE UNCHANGED workers
  BY <1>1 DEF RowStays
<1>2. ASSUME NEW q, Interrupt(q) PROVE Goal
  BY <1>2, InterruptKeepsSteps DEF RowStays
<1>3. ASSUME NEW o \in Brokers, BrokerNext(o) PROVE Goal
  <2>1. ASSUME NEW q \in RunId, WorkerNext(o, q) PROVE Goal
    <3>1. b # o \/ r # q
      BY <2>1
    <3>2. workers'[b][r] = workers[b][r]
      BY <2>1, <3>1, WorkerNextSteps DEF Steps
    <3> QED
      BY <3>2 DEF RowStays
  <2>2. CASE Dispatch(o)
    BY <2>2, DispatchRows DEF Dispatch
  <2>3. ASSUME NEW q \in RunId, Recover(o, q) PROVE Goal
    BY <2>3, RecoverRows DEF Recover
  <2>4. CASE CrashBroker(o)
    <3>1. workers' = [workers EXCEPT ![o] = [q \in RunId |-> IdleWorker]]
      BY <2>4 DEF CrashBroker
    <3>2. workers'[b][r] = IF b = o THEN IdleWorker ELSE workers[b][r]
      BY <3>1 DEF TypeInv, TypeOK
    <3> QED
      BY <2>4, <3>2 DEF RowStays, IdleWorker
  <2> QED
    BY <1>1, <1>3, <2>1, <2>2, <2>3, <2>4
       DEF BrokerNext, StartBroker, NothingToDispatch, Heartbeat
<1>4. CASE Strike
  BY <1>1, <1>2, <1>4 DEF Strike
<1>5. ASSUME NEW c \in Chats, Stop(c) PROVE Goal
  BY <1>1, <1>2, <1>5 DEF Stop
<1> QED
  BY <1>1, <1>3, <1>4, <1>5
     DEF Next, ApiNext, BeginCreate, EndCreate, Send, Close, DisplaceInactive,
         DisplaceForWake, Expire, Stall, ProcessExits, ReaperNext, ReapGone, TakeAim, Settle

-----------------------------------------------------------------------------
(* One harness process in the worktree. *)

(* From the preparer's look at /proc to the launch the worktree stays empty. *)
WindowIsEmpty == \A b \in Brokers, r \in RunId :
  workers[b][r].pc \in {"bind", "mark", "launch"} => ~Occupied

ServedInv == /\ OneBrokerUp /\ WorkersAreUp /\ WorkersHoldRuns /\ UnstartedIsFirst
             /\ WindowIsEmpty /\ OneHarness

(* A thread acts only for a broker that is up, and on a run that it holds. *)
LEMMA WorkerIsUp ==
  ASSUME NEW b \in Brokers, NEW r \in RunId, WorkerNext(b, r) PROVE Up(b)
BY DEF WorkerNext, Activate, Prepare, Bind, Mark, Launch, Record, Result, Orphaned, Linger,
       Resume, StreamEnds, StreamBreaks, EndOfStream, Release, Reconcile, FinishFailed,
       FinishUnknown, Busy, At

(* Another thread's step leaves a run alone before it is started. *)
LEMMA HeldState ==
  ASSUME TypeInv, StoreInv, ServedInv, Next, NEW b \in Brokers, NEW r \in RunId,
         workers[b][r].pc # "idle", Unstarted(r), ~WorkerNext(b, r)
  PROVE runs'[r].state = runs[r].state
<1>1. ASSUME NEW o \in Brokers, WorkerNext(o, r) PROVE FALSE
  BY <1>1, WorkerIsUp DEF ServedInv, OneBrokerUp, WorkersAreUp
<1> QED
  BY <1>1, OnlyItsWorker DEF ServedInv

(* A broker goes down only by a crash, which ends its threads. *)
BrokersStay == \A b \in Brokers : brokers'[b].state = brokers[b].state

LEMMA WakeStays ==
  ASSUME TypeInv,
         \/ Notify \/ \E b \in Brokers : \/ brokers' = [brokers EXCEPT ![b].wake = TRUE]
                                        \/ brokers' = [brokers EXCEPT ![b].wake = FALSE]
  PROVE BrokersStay
<1>b. brokers \in [Brokers -> [state : {"new", "up", "down"}, wake : BOOLEAN]]
  BY DEF TypeInv, TypeOK
<1>1. CASE Notify
  BY <1>b, <1>1 DEF Notify, BrokersStay
<1>2. ASSUME NEW b \in Brokers, NEW v, brokers' = [brokers EXCEPT ![b].wake = v]
      PROVE BrokersStay
  BY <1>b, <1>2 DEF BrokersStay
<1> QED
  BY <1>1, <1>2

LEMMA WorkerKeepsBrokers ==
  ASSUME TypeInv, NEW b \in Brokers, NEW r \in RunId, WorkerNext(b, r) PROVE BrokersStay
<1>1. CASE UNCHANGED brokers
  BY <1>1 DEF BrokersStay
<1>2. CASE \E defers : Leave(b, r, defers)
  BY <1>2, WakeStays DEF Leave
<1> QED
  BY <1>1, <1>2
     DEF WorkerNext, Activate, Prepare, Bind, Mark, Launch, Record, Result, Orphaned, Linger,
         Resume, StreamEnds, StreamBreaks, EndOfStream, Release, Reconcile, FinishFailed,
         FinishUnknown, Busy

LEMMA UpKept ==
  ASSUME TypeInv, Next, NEW b \in Brokers, Up(b)
  PROVE Up(b)' \/ (CrashBroker(b) /\ \A r \in RunId : workers'[b][r].pc = "idle")
<1> DEFINE Goal == Up(b)' \/ (CrashBroker(b) /\ \A r \in RunId : workers'[b][r].pc = "idle")
<1>1. CASE BrokersStay
  BY <1>1 DEF BrokersStay, Up
<1>2. CASE UNCHANGED brokers
  BY <1>2 DEF Up
<1>3. CASE Notify
  BY <1>1, <1>3, WakeStays
<1>4. ASSUME NEW r, Interrupt(r) PROVE Goal
  BY <1>2, <1>3, <1>4 DEF Interrupt, Deliver
<1>5. ASSUME NEW o \in Brokers, BrokerNext(o) PROVE Goal
  <2>1. CASE StartBroker(o)
    BY <2>1 DEF StartBroker, Up, TypeInv, TypeOK
  <2>2. CASE CrashBroker(o)
    <3>1. CASE o = b
      BY <2>2, <3>1 DEF CrashBroker, IdleWorker, TypeInv, TypeOK
    <3>2. CASE o # b
      BY <2>2, <3>2 DEF CrashBroker, Up, TypeInv, TypeOK
    <3> QED
      BY <3>1, <3>2
  <2>3. CASE NothingToDispatch(o)
    BY <1>1, <2>3, WakeStays DEF NothingToDispatch
  <2>4. ASSUME NEW r \in RunId, WorkerNext(o, r) PROVE Goal
    BY <1>1, <2>4, WorkerKeepsBrokers
  <2>5. CASE Dispatch(o) \/ Heartbeat(o) \/ \E r \in RunId : Recover(o, r)
    BY <1>2, <2>5 DEF Dispatch, Heartbeat, Recover
  <2> QED
    BY <1>5, <2>1, <2>2, <2>3, <2>4, <2>5 DEF BrokerNext
<1>6. CASE Strike
  BY <1>2, <1>4, <1>6 DEF Strike
<1>7. ASSUME NEW c \in Chats, Stop(c) PROVE Goal
  BY <1>2, <1>4, <1>7 DEF Stop
<1> QED
  BY <1>2, <1>3, <1>5, <1>6, <1>7
     DEF Next, ApiNext, BeginCreate, EndCreate, Send, Close, DisplaceInactive,
         DisplaceForWake, Expire, Stall, ProcessExits, ReaperNext, ReapGone, TakeAim, Settle

LEMMA WorkersAreUpKept ==
  ASSUME TypeInv, ServedInv, Next PROVE WorkersAreUp'
<1> SUFFICES ASSUME NEW b \in Brokers, NEW r \in RunId, workers'[b][r].pc # "idle"
             PROVE Up(b)'
  BY DEF WorkersAreUp
<1>1. Up(b)
  BY OtherRows, WorkerIsUp DEF ServedInv, WorkersAreUp, RowStays
<1> QED
  BY <1>1, UpKept

LEMMA WorkersHoldRunsKept ==
  ASSUME TypeInv, StoreInv, ServedInv, Next PROVE WorkersHoldRuns'
<1> SUFFICES ASSUME NEW b \in Brokers, NEW r \in RunId
             PROVE LET x == workers'[b][r] IN
                   /\ x.pc \in {"leased", "prepare", "bind", "mark"}
                        => x.run = r /\ runs'[r].state = "leased"
                   /\ x.pc \in {"starting", "launch"}
                        => x.run = r /\ runs'[r].state = "starting"
                   /\ x.pc = "record" => x.run = r
                   /\ x.pc # "idle" => x.run = r \/ runs'[x.run].attempt >= 2
  BY DEF WorkersHoldRuns
<1> DEFINE w == workers[b][r]
           x == workers'[b][r]
<1>h. /\ w.pc \in {"leased", "prepare", "bind", "mark"} => w.run = r /\ runs[r].state = "leased"
      /\ w.pc \in {"starting", "launch"} => w.run = r /\ runs[r].state = "starting"
      /\ w.pc = "record" => w.run = r
      /\ w.pc # "idle" => w.run = r \/ runs[w.run].attempt >= 2
  BY DEF ServedInv, WorkersHoldRuns
<1>t. StoreTypeOK /\ (w.pc # "idle" => w.run \in RunId)
  BY ActorRuns DEF TypeInv, TypeOK
<1>k. w.pc # "idle" /\ runs[w.run].attempt >= 2 => runs'[w.run].attempt >= 2
  BY <1>t, RowsStay, RunRowsHold DEF StoreInv, RowsOK, AttemptRows
<1>1. CASE RowStays(b, r) /\ ~WorkerNext(b, r)
  <2>1. w.pc # "idle" /\ Unstarted(r) => runs'[r].state = runs[r].state
    BY <1>1, HeldState
  <2> QED
    BY <1>1, <1>h, <1>k, <2>1 DEF RowStays, Unstarted
<1>2. CASE RowStarts(b, r)
  BY <1>2 DEF RowStarts, LiveRunStates
<1>3. CASE WorkerNext(b, r)
  <2>1. Moves(b, r)
    BY <1>3, WorkerMoves
  <2>2. w.pc # "idle"
    BY <1>3 DEF WorkerNext, Activate, Prepare, Bind, Mark, Launch, Record, Result, Orphaned,
                Linger, Resume, StreamEnds, StreamBreaks, EndOfStream, Release, Reconcile,
                FinishFailed, FinishUnknown, Busy, At
  <2>3. CASE x.run = w.run /\ UNCHANGED storeVars /\ (x.pc = "prepare" \/ x.pc = "bind")
             /\ w.pc \in {"leased", "prepare"}
    BY <1>h, <2>2, <2>3 DEF storeVars
  <2>4. CASE x.run = w.run /\ w.pc = "bind" /\ x.pc = "mark" /\ BindArchive(r, b)
    <3>1. runs'[r].state = "leased"
      BY <1>t, <2>4, LightTransactions DEF StatesStay, BindArchive, CanBind, Holds
    <3> QED
      BY <1>h, <2>4, <3>1
  <2>5. CASE x.run = w.run /\ w.pc = "mark" /\ x.pc = "launch" /\ MarkStarting(r, b)
    BY <1>t, <1>h, <2>5, MarkStartingQuiet
  <2>6. CASE x.run = w.run /\ x.pc = "record" /\ Launch(b, r)
    BY <1>h, <2>6 DEF Launch, At
  <2>7. CASE x.run = w.run /\ x.pc \in {"stream", "linger", "release", "reconcile", "failed", "unknown"}
    BY <1>h, <1>k, <2>2, <2>7
  <2>8. CASE x.pc = "stream" /\ x.run \in RunId /\ OpenContinuation(w.run, x.run, b)
    <3> DEFINE next == x.run
    <3>0. x.pc = "stream"
      BY <2>8
    <3>1. PICK a \in 2..MaxRun :
            runs' = [runs EXCEPT ![next] =
              NewRun(runs[w.run].msg, a, "running", b, runs[w.run].pid, runs[w.run].archived)]
      BY <2>8 DEF OpenContinuation
    <3> HIDE DEF next
    <3>2. RunAdded(next, runs[w.run].msg, a, "running")
      BY <1>t, <2>8, <3>1, NewRow DEF next
    <3>3. runs'[next].attempt >= 2
      <4>1. runs'[next].attempt = a
        BY ONLY <3>2 DEF RunAdded
      <4> QED
        BY ONLY <3>1, <4>1
    <3> QED
      BY ONLY <3>0, <3>3 DEF next
  <2> QED
    BY <2>1, <2>3, <2>4, <2>5, <2>6, <2>7, <2>8 DEF Moves
<1> QED
  BY <1>1, <1>2, <1>3, OtherRows

LEMMA UnstartedIsFirstKept ==
  ASSUME TypeInv, StoreInv, UnstartedIsFirst, Next PROVE UnstartedIsFirst'
<1> SUFFICES ASSUME NEW r \in RunId, runs'[r].state \in {"leased", "starting"}
             PROVE runs'[r].attempt = 1
  BY DEF UnstartedIsFirst, Unstarted
<1>1. OutboxOK /\ RunRows
  BY RunRowsHold
<1>2. CASE runs[r].state # NoRow
  BY <1>1, <1>2, RowsStay DEF UnstartedIsFirst, Unstarted
<1>3. CASE runs[r].state = NoRow
  <2>1. "leased" # NoRow /\ "starting" # NoRow
    BY DEF NoRow
  <2>2. CASE Claims
    BY <1>3, <2>1, <2>2, ClaimRow DEF RunAdded
  <2>3. CASE Resumes
    BY <1>3, <2>1, <2>3, ResumeRow DEF RunAdded
  <2>4. CASE ~Claims /\ ~Resumes
    BY <1>1, <1>3, <2>1, <2>4, NextKept DEF RunsKept, RowKept
  <2> QED
    BY <2>2, <2>3, <2>4
<1> QED
  BY <1>2, <1>3

(* A launch is of the one run that is live, by the one thread that holds it. *)
LEMMA LaunchIsAlone ==
  ASSUME StoreInv, ServedInv, NEW b \in Brokers, NEW r \in RunId, Launch(b, r)
  PROVE /\ ~Occupied /\ runs[r].state = "starting" /\ workers[b][r].pc = "launch"
        /\ \A o \in Brokers, q \in RunId : Launch(o, q) => q = r
        /\ \A o \in Brokers, q \in RunId :
             workers[o][q].pc \in {"bind", "mark", "launch"} => o = b /\ q = r
<1>1. \A o \in Brokers, q \in RunId :
        workers[o][q].pc \in {"bind", "mark", "launch"} => Up(o) /\ Live(q)
  BY DEF ServedInv, WorkersAreUp, WorkersHoldRuns, Live, LiveRunStates
<1>2. workers[b][r].pc = "launch" /\ Up(b) /\ Live(r)
  BY <1>1 DEF Launch, At
<1>3. \A o \in Brokers, q \in RunId :
        workers[o][q].pc \in {"bind", "mark", "launch"} => o = b /\ q = r
  BY <1>1, <1>2 DEF ServedInv, OneBrokerUp, StoreInv, RowsOK, OneTurnAtATime
<1>4. \A o \in Brokers, q \in RunId : Launch(o, q) => q = r
  BY <1>3 DEF Launch, At
<1> QED
  BY <1>2, <1>3, <1>4 DEF ServedInv, WindowIsEmpty, WorkersHoldRuns

LEMMA OneHarnessKept ==
  ASSUME TypeInv, StoreInv, ServedInv, Next PROVE OneHarness'
<1> SUFFICES ASSUME NEW p \in RunId, NEW q \in RunId, Alive(p)', Alive(q)' PROVE p = q
  BY DEF OneHarness
<1>1. /\ Alive(p) \/ \E b \in Brokers : Launch(b, p)
      /\ Alive(q) \/ \E b \in Brokers : Launch(b, q)
  BY NextAlive
<1>2. \A b \in Brokers, r \in RunId : Launch(b, r) =>
        /\ ~Alive(p) /\ ~Alive(q)
        /\ \A o \in Brokers, n \in RunId : Launch(o, n) => n = r
  BY LaunchIsAlone DEF Occupied
<1> QED
  BY <1>1, <1>2 DEF ServedInv, OneHarness

LEMMA WindowIsEmptyKept ==
  ASSUME TypeInv, StoreInv, ServedInv, Next PROVE WindowIsEmpty'
<1> SUFFICES ASSUME NEW b \in Brokers, NEW r \in RunId,
                    workers'[b][r].pc \in {"bind", "mark", "launch"},
                    NEW p \in RunId, Alive(p)'
             PROVE FALSE
  BY DEF WindowIsEmpty, Occupied
<1> DEFINE w == workers[b][r]
           x == workers'[b][r]
<1>1. CASE WorkerNext(b, r)
  <2>1. \/ w.pc = "prepare" /\ ~Occupied /\ UNCHANGED procs
        \/ w.pc \in {"bind", "mark"} /\ UNCHANGED procs
    BY <1>1, WorkerMoves DEF Moves
  <2>2. ~Occupied
    BY <2>1 DEF ServedInv, WindowIsEmpty
  <2> QED
    BY <2>1, <2>2 DEF Occupied, Alive
<1>2. CASE RowStays(b, r) /\ ~WorkerNext(b, r)
  <2>1. w.pc \in {"bind", "mark", "launch"} /\ ~Alive(p)
    BY <1>2 DEF RowStays, ServedInv, WindowIsEmpty, Occupied
  <2>2. PICK o \in Brokers : Launch(o, p)
    BY <2>1, NextAlive
  <2>3. o = b /\ p = r
    BY <2>1, <2>2, LaunchIsAlone
  <2> QED
    BY <1>2, <2>2, <2>3 DEF WorkerNext
<1>3. CASE RowStarts(b, r)
  BY <1>3 DEF RowStarts, LiveRunStates
<1> QED
  BY <1>1, <1>2, <1>3, OtherRows

(* The inductive invariant of one server at a time. *)
LEMMA ServedStep ==
  ASSUME DispatchInv, ServedInv, [Next /\ OneBrokerUp']_vars
  PROVE DispatchInv' /\ ServedInv'
<1>1. DispatchInv'
  BY DispatchStep
<1>2. CASE Next /\ OneBrokerUp'
  <2>1. TypeInv /\ StoreInv /\ UnstartedIsFirst /\ Next
    BY <1>2 DEF DispatchInv, ServedInv
  <2>2. WorkersAreUp' /\ WorkersHoldRuns' /\ UnstartedIsFirst' /\ OneHarness' /\ WindowIsEmpty'
    BY ONLY ServedInv, <2>1, WorkersAreUpKept, WorkersHoldRunsKept, UnstartedIsFirstKept,
       OneHarnessKept, WindowIsEmptyKept
  <2> QED
    BY <1>1, <1>2, <2>2 DEF ServedInv
<1>3. CASE UNCHANGED vars
  <2>1. UNCHANGED <<runs, workers, brokers, procs>>
    BY <1>3 DEF vars
  <2>2. OneBrokerUp' /\ WorkersAreUp'
    BY <2>1 DEF ServedInv, OneBrokerUp, WorkersAreUp, Up
  <2>3. WorkersHoldRuns' /\ UnstartedIsFirst'
    BY <2>1 DEF ServedInv, WorkersHoldRuns, UnstartedIsFirst, Unstarted
  <2>4. WindowIsEmpty' /\ OneHarness'
    BY <2>1 DEF ServedInv, WindowIsEmpty, OneHarness, Occupied, Alive
  <2> QED
    BY <1>1, <2>2, <2>3, <2>4 DEF ServedInv
<1> QED
  BY <1>1, <1>2, <1>3

LEMMA InitServed ==
  ASSUME Init PROVE DispatchInv /\ ServedInv
<1>1. OneBrokerUp /\ WorkersAreUp /\ WorkersHoldRuns /\ WindowIsEmpty
  BY DEF Init, OneBrokerUp, Up, WorkersAreUp, WorkersHoldRuns, WindowIsEmpty, IdleWorker
<1>2. UnstartedIsFirst
  BY DEF Init, StoreInit, NoRun, NoRow, UnstartedIsFirst, Unstarted
<1>3. OneHarness
  BY DEF Init, OneHarness, Alive, NoRow
<1> QED
  BY <1>1, <1>2, <1>3, InitDispatch DEF ServedInv

LEMMA ServedInvHolds == ServedSpec => [](DispatchInv /\ ServedInv)
BY InitServed, ServedStep, PTL DEF ServedSpec

(* prepare_native_run's look at /proc and the adapter's launch are two steps, yet
   under one server at a time no two harness processes share the worktree, however
   the server crashes and starts again between them. *)
THEOREM OneHarnessAlive == ServedSpec => []OneHarness
<1>1. ServedInv => OneHarness
  BY DEF ServedInv
<1> QED
  BY <1>1, ServedInvHolds, PTL

-----------------------------------------------------------------------------
(* What was handed over stays handed over: the prompt of a run that is running,
   and of a thread that is past its launch. *)
Handed(q) == runs[q].state # NoRow /\ sent[runs[q].msg] = 1

RunningIsHanded == \A r \in RunId : runs[r].state = "running" => Handed(r)

ThreadHanded(b, r) == Handed(workers[b][r].run)

PastIsHanded == \A b \in Brokers, r \in RunId :
  workers[b][r].pc \in {"running", "record", "stream", "linger"} => ThreadHanded(b, r)

HandedInv == RunningIsHanded /\ PastIsHanded

LEMMA HandedStays ==
  ASSUME DispatchInv, DispatchInv', Next, NEW q \in RunId, Handed(q) PROVE Handed(q)'
<1>1. runs[q].msg \in MessageId
  BY RunRefs DEF DispatchInv, StoreInv, Handed
<1>2. sent'[runs[q].msg] = 1
  <2>1. CASE UNCHANGED sent
    BY <2>1 DEF Handed
  <2>2. CASE \E b \in Brokers, r \in RunId : Launch(b, r)
    <3>1. sent'[runs[q].msg] \in {1, 2}
      BY <1>1, <2>2, RowTypes DEF Launch, Handed, DispatchInv
    <3> QED
      BY <1>1, <3>1 DEF DispatchInv, AtMostOnceDispatch
  <2> QED
    BY <2>1, <2>2, NextSent DEF DispatchInv
<1>3. runs'[q].msg = runs[q].msg /\ runs'[q].state # NoRow
  BY RowsStay, RunRowsHold DEF Handed, DispatchInv
<1> QED
  BY <1>2, <1>3 DEF Handed

(* A continuation is of a prompt that was handed over. *)
LEMMA ContinuedIsHanded ==
  ASSUME DispatchInv, DispatchInv', HandedInv, Next,
         NEW b \in Brokers, NEW r \in RunId, NEW next \in RunId, workers[b][r].pc = "linger",
         OpenContinuation(workers[b][r].run, next, b)
  PROVE Handed(next)'
<1>0. workers[b][r].run \in RunId /\ Handed(workers[b][r].run) /\ StoreTypeOK
  BY ActorRuns DEF DispatchInv, HandedInv, PastIsHanded, ThreadHanded, TypeInv, TypeOK
<1>1. PICK q \in RunId : q = workers[b][r].run /\ Handed(q)
  BY <1>0
<1>2. PICK a \in 2..MaxRun :
        runs' = [runs EXCEPT ![next] =
          NewRun(runs[q].msg, a, "running", b, runs[q].pid, runs[q].archived)]
  BY <1>1 DEF OpenContinuation
<1>3. runs[next].state = NoRow /\ q # next
  BY <1>1 DEF OpenContinuation, NextRun, Handed
<1>4. Handed(q)'
  BY <1>1, HandedStays
<1>5. RunAdded(next, runs[q].msg, a, "running")
  BY ONLY <1>0, <1>2, NewRow
<1> QED
  BY <1>3, <1>4, <1>5 DEF RunAdded, Handed, NoRow

LEMMA RunningIsHandedKept ==
  ASSUME DispatchInv, DispatchInv', ServedInv, HandedInv, Next PROVE RunningIsHanded'
<1> SUFFICES ASSUME NEW r \in RunId, runs'[r].state = "running" PROVE Handed(r)'
  BY DEF RunningIsHanded
<1>t. TypeInv /\ StoreInv /\ OutboxOK /\ RunRows /\ StoreTypeOK
  BY RunRowsHold DEF DispatchInv, TypeInv, TypeOK
<1>1. CASE runs[r].state = "running"
  BY <1>1, HandedStays DEF HandedInv, RunningIsHanded
<1>2. CASE Unstarted(r)
  <2>1. PICK b \in Brokers : WorkerNext(b, r)
    BY <1>t, <1>2, OnlyItsWorker DEF ServedInv, Unstarted
  <2>2. Record(b, r)
    BY <1>t, <1>2, <2>1, WorkerMovesRuns DEF ServedInv, Unstarted
  <2>3. workers[b][r].pc = "record" /\ workers[b][r].run = r
    BY <2>2 DEF Record, At, ServedInv, WorkersHoldRuns
  <2> QED
    BY <2>3, HandedStays DEF HandedInv, PastIsHanded, ThreadHanded
<1>3. CASE runs[r].state = NoRow
  <2>1. "running" # NoRow /\ "leased" # "running"
    BY DEF NoRow
  <2>2. CASE Claims
    BY <1>t, <1>3, <2>1, <2>2, ClaimRow DEF RunAdded
  <2>3. ASSUME NEW b \in Brokers, NEW q \in RunId, NEW next \in RunId,
               Resume(b, q), OpenContinuation(workers[b][q].run, next, b)
        PROVE Handed(r)'
    <3>1. CASE r = next
      BY <2>3, <3>1, ContinuedIsHanded DEF Resume, At
    <3>2. CASE r # next
      BY <1>t, <1>3, <2>1, <2>3, <3>2, OthersKept
    <3> QED
      BY <3>1, <3>2
  <2>4. CASE ~Claims /\ ~Resumes
    BY <1>t, <1>3, <2>1, <2>4, NextKept DEF RunsKept, RowKept
  <2> QED
    BY <2>2, <2>3, <2>4 DEF Resumes
<1>4. CASE runs[r].state \in TerminalRunStates
  BY <1>t, <1>4, RowsStay DEF TerminalRunStates, LiveRunStates, NoRow
<1>5. runs[r].state \in {NoRow} \cup RunStates
  BY <1>t DEF StoreTypeOK, Run
<1> QED
  BY <1>1, <1>2, <1>3, <1>4, <1>5, StateSets DEF Unstarted, TerminalRunStates

LEMMA LaunchHands ==
  ASSUME DispatchInv, ServedInv, NEW b \in Brokers, NEW r \in RunId, Launch(b, r)
  PROVE /\ workers[b][r].run = r /\ runs[r].state = "starting" /\ runs[r].msg \in MessageId
        /\ sent[runs[r].msg] = 0 /\ sent' = [sent EXCEPT ![runs[r].msg] = 1]
        /\ Handed(r)'
<1>1. workers[b][r].pc = "launch"
  BY DEF Launch, At
<1>2. /\ workers[b][r].run = r /\ runs[r].state = "starting" /\ runs[r].state # NoRow
      /\ sent[runs[r].msg] = 0
  BY <1>1 DEF ServedInv, WorkersHoldRuns, DispatchInv, FreshPrompts, LaunchIsUnsent
<1>3. runs[r].msg \in MessageId /\ sent \in [MessageId -> Nat]
  BY <1>2, RunRefs, RowTypes DEF DispatchInv, StoreInv
<1>4. sent' = [sent EXCEPT ![runs[r].msg] = 1]
  BY <1>2, <1>3 DEF Launch
<1>5. UNCHANGED runs
  BY DEF Launch, storeVars
<1> QED
  BY <1>2, <1>3, <1>4, <1>5 DEF Handed

LEMMA PastIsHandedKept ==
  ASSUME DispatchInv, DispatchInv', ServedInv, HandedInv, Next, RunningIsHanded'
  PROVE PastIsHanded'
<1> SUFFICES ASSUME NEW b \in Brokers, NEW r \in RunId,
                    workers'[b][r].pc \in {"running", "record", "stream", "linger"}
             PROVE ThreadHanded(b, r)'
  BY DEF PastIsHanded
<1> DEFINE w == workers[b][r]
           x == workers'[b][r]
<1>t. TypeInv /\ StoreInv /\ (w.pc # "idle" => w.run \in RunId)
  BY ActorRuns DEF DispatchInv
<1>0. ASSUME NEW q \in RunId, Handed(q)', x.run = q PROVE ThreadHanded(b, r)'
  BY <1>0 DEF Handed, ThreadHanded
<1>1. ASSUME w.pc \in {"running", "record", "stream", "linger"}, x.run = w.run
      PROVE ThreadHanded(b, r)'
  <2>1. w.run \in RunId /\ Handed(w.run)
    BY <1>t, <1>1 DEF HandedInv, PastIsHanded, ThreadHanded
  <2>2. PICK q \in RunId : q = w.run /\ Handed(q)
    BY <2>1
  <2>3. Handed(q)'
    BY <2>2, HandedStays
  <2> QED
    BY <1>0, <1>1, <2>2, <2>3
<1>2. CASE WorkerNext(b, r)
  <2>1. CASE x.run = w.run /\ Launch(b, r)
    BY <1>0, <2>1, LaunchHands DEF DispatchInv
  <2>2. CASE w.pc = "linger" /\ x.run \in RunId /\ OpenContinuation(w.run, x.run, b)
    <3>1. PICK next \in RunId : next = x.run /\ OpenContinuation(w.run, next, b)
      BY <2>2
    <3>2. Handed(next)'
      BY <2>2, <3>1, ContinuedIsHanded
    <3> QED
      BY <1>0, <3>1, <3>2
  <2>3. Moves(b, r)
    BY <1>t, <1>2, WorkerMoves
  <2> QED
    BY <1>1, <2>1, <2>2, <2>3 DEF Moves
<1>3. CASE RowStays(b, r)
  BY <1>1, <1>3 DEF RowStays
<1>4. CASE RowStarts(b, r)
  <2>1. runs'[r].state = "running" /\ x.run = r
    BY <1>4 DEF RowStarts, LiveRunStates
  <2>2. Handed(r)'
    BY <2>1 DEF RunningIsHanded
  <2> QED
    BY <1>0, <2>1, <2>2
<1> QED
  BY <1>t, <1>2, <1>3, <1>4, OtherRows

-----------------------------------------------------------------------------
(* The refinement of TurnQueue.  The turn is the prompt of the live run. *)

TurnOf(table) ==
  IF \E r \in RunId : table[r].state \in LiveRunStates
    THEN table[CHOOSE r \in RunId : table[r].state \in LiveRunStates].msg ELSE 0

LEMMA TurnOfTable ==
  ASSUME NEW table,
         \A r, q \in RunId : table[r].state \in LiveRunStates /\ table[q].state \in LiveRunStates
                               => r = q
  PROVE /\ \A r \in RunId : table[r].state \in LiveRunStates => TurnOf(table) = table[r].msg
        /\ (\A r \in RunId : table[r].state \notin LiveRunStates) => TurnOf(table) = 0
<1>1. ASSUME NEW r \in RunId, table[r].state \in LiveRunStates
      PROVE TurnOf(table) = table[r].msg
  <2> DEFINE q == CHOOSE q \in RunId : table[q].state \in LiveRunStates
  <2>1. q \in RunId /\ table[q].state \in LiveRunStates
    BY <1>1
  <2> HIDE DEF q
  <2>2. q = r
    BY <1>1, <2>1
  <2> QED
    BY <1>1, <2>2 DEF TurnOf, q
<1> QED
  BY <1>1 DEF TurnOf

LEMMA TurnNowIs ==
  ASSUME OneTurnAtATime, OneTurnAtATime'
  PROVE /\ \A r \in RunId : Live(r) => TurnNow = runs[r].msg
        /\ (\A r \in RunId : ~Live(r)) => TurnNow = 0
        /\ \A r \in RunId : Live(r)' => TurnNow' = runs'[r].msg
        /\ (\A r \in RunId : ~Live(r)') => TurnNow' = 0
<1>1. TurnNow = TurnOf(runs) /\ TurnNow' = TurnOf(runs')
  BY DEF TurnNow, TurnOf, Live
<1> QED
  BY <1>1, TurnOfTable DEF OneTurnAtATime, Live

QueueMoves == [Queue!QueueNext]_(Queue!queueVars)

(* The columns that the user's queue shows. *)
ChatShown   == [m \in MessageId |-> msgs[m].chat]
StatusShown == [m \in MessageId |-> msgs[m].state]
Shown(m)    == msgs'[m].chat = msgs[m].chat /\ msgs'[m].state = msgs[m].state

LEMMA PromptMoves ==
  ASSUME NEW m \in MessageId,
         \/ Queue!Begin(m) \/ Queue!Give(m) \/ Queue!End(m) \/ Queue!SpeakAgain(m)
         \/ \E c \in Chats : Queue!Submit(m, c)
  PROVE QueueMoves
BY DEF QueueMoves, Queue!QueueNext, Queue!Prompts, MessageId

LEMMA WithdrawMoves ==
  ASSUME NEW withdrawn \in SUBSET MessageId, Queue!Withdraw(withdrawn) PROVE QueueMoves
BY DEF QueueMoves, Queue!QueueNext, Queue!Prompts, MessageId

LEMMA QueueStays ==
  ASSUME UNCHANGED sent, TurnNow' = TurnNow, \A m \in MessageId : Shown(m)
  PROVE QueueMoves
BY DEF QueueMoves, Queue!queueVars, Shown

(* A transaction that leaves alone which run is live, and every prompt. *)
LEMMA TurnStays ==
  ASSUME StoreInv, StoreInv',
         \A r \in RunId : Live(r)' = Live(r) /\ runs'[r].msg = runs[r].msg
  PROVE TurnNow' = TurnNow
<1>1. OneTurnAtATime /\ OneTurnAtATime'
  BY DEF StoreInv, RowsOK
<1>2. CASE \E r \in RunId : Live(r)
  BY <1>1, <1>2, TurnNowIs
<1>3. CASE \A r \in RunId : ~Live(r)
  BY <1>1, <1>3, TurnNowIs
<1> QED
  BY <1>2, <1>3

LEMMA CancelMoves ==
  ASSUME StoreInv, StoreInv', UNCHANGED sent, UNCHANGED runs, NEW c, msgs' = CancelPending(c)
  PROVE QueueMoves
<1>1. TurnNow' = TurnNow
  BY TurnStays DEF Live
<1>2. \A m \in MessageId : IF m \in Pending(c)
                            THEN msgs'[m].chat = msgs[m].chat /\ msgs'[m].state = "cancelled"
                            ELSE Shown(m)
  BY CancelRows DEF StoreInv, Shown
<1>3. CASE Pending(c) = {}
  BY <1>1, <1>2, <1>3, QueueStays
<1>4. CASE Pending(c) # {}
  <2>1. PICK S \in SUBSET MessageId : S = Pending(c)
    BY DEF Pending
  <2>2. \A m \in S : msgs[m].state = "queued"
    BY <2>1 DEF Pending, StoreInv, RowsOK, MessageRows
  <2>3. ChatShown' = ChatShown
    BY <1>2 DEF ChatShown, Shown
  <2>4. StatusShown' = [m \in MessageId |-> IF m \in S THEN "cancelled" ELSE StatusShown[m]]
    BY <1>2, <2>1 DEF StatusShown, Shown
  <2>5. \A m \in S : StatusShown[m] = "queued"
    BY <2>2 DEF StatusShown
  <2>6. Queue!Withdraw(S)
    BY <1>1, <1>4, <2>1, <2>3, <2>4, <2>5
       DEF Queue!Withdraw, Queue!Prompts, MessageId, ChatShown, StatusShown
  <2> QED
    BY <2>6, WithdrawMoves
<1> QED
  BY <1>3, <1>4

LEMMA SubmitMoves ==
  ASSUME StoreInv, StoreInv', UNCHANGED sent, NEW m \in MessageId, NEW c \in Chats,
         QueueMessage(m, c)
  PROVE QueueMoves
<1>1. /\ msgs' = [msgs EXCEPT ![m] = [chat |-> c, state |-> "queued", outbox |-> "pending"]]
      /\ msgs[m].state = NoRow /\ \A n \in 1 .. m-1 : msgs[n].state # NoRow
      /\ UNCHANGED runs
  BY DEF QueueMessage, NextMessage
<1>2. TurnNow' = TurnNow
  BY <1>1, TurnStays DEF Live
<1>3. /\ \A n \in MessageId : n # m => msgs'[n] = msgs[n]
      /\ msgs'[m].chat = c /\ msgs'[m].state = "queued"
  BY <1>1 DEF StoreInv, StoreTypeOK
<1>4. \A n \in 1 .. m-1 : n \in MessageId
  BY StoreConstants DEF MessageId
<1>5. /\ ChatShown' = [ChatShown EXCEPT ![m] = c]
      /\ StatusShown' = [StatusShown EXCEPT ![m] = "queued"]
  BY <1>3 DEF ChatShown, StatusShown
<1>6. StatusShown[m] = "none" /\ \A n \in 1 .. m-1 : StatusShown[n] # "none"
  BY <1>1, <1>4 DEF StatusShown, NoRow
<1>7. Queue!Submit(m, c)
  BY <1>2, <1>5, <1>6 DEF Queue!Submit, ChatShown, StatusShown
<1> QED
  BY <1>7, PromptMoves

LEMMA QuietMoves ==
  ASSUME StoreInv, StoreInv', UNCHANGED sent, Quiet PROVE QueueMoves
<1>1. TurnNow' = TurnNow
  BY TurnStays DEF Quiet, RowQuiet, Live, LiveRunStates
<1> QED
  BY <1>1, QueueStays DEF Quiet, Shown

LEMMA ClaimMoves ==
  ASSUME StoreInv, StoreInv', UNCHANGED sent, NEW m \in MessageId, NEW r \in RunId, NEW b,
         ClaimNext(m, r, b)
  PROVE QueueMoves
<1>1. \A q \in RunId : ~Live(q)
  BY DEF ClaimNext, Claimable
<1>2. Live(r)' /\ runs'[r].msg = m
  BY ClaimNextRows DEF Live, LiveRunStates
<1>3. TurnNow = 0 /\ TurnNow' = m
  BY <1>1, <1>2, TurnNowIs DEF StoreInv, RowsOK
<1>4. \A n \in 1 .. m-1 : n \in MessageId
  BY StoreConstants DEF MessageId
<1>5. \A n \in 1 .. m-1 : msgs[n].chat = msgs[m].chat => msgs[n].state \in Queue!Done
  <2> SUFFICES ASSUME NEW n \in 1 .. m-1, msgs[n].chat = msgs[m].chat
               PROVE msgs[n].state \in Queue!Done
    OBVIOUS
  <2>1. ~Unfinished(n)
    BY DEF ClaimNext, Claimable
  <2>2. msgs[n].state \in {NoRow} \cup MessageStates
    BY <1>4 DEF StoreInv, StoreTypeOK, Message
  <2>3. msgs[n].state # NoRow
    BY <1>4, ClaimNextRows, StoreConstants DEF StoreInv, RowsOK, MessageRows
  <2> QED
    BY <2>1, <2>2, <2>3, StateSets DEF Unfinished, Queue!Done
<1>6. /\ ChatShown' = ChatShown
      /\ StatusShown' = [StatusShown EXCEPT ![m] = "running"]
  <2>1. \A n \in MessageId : /\ msgs'[n].chat = msgs[n].chat
                            /\ msgs'[n].state = IF n = m THEN "running" ELSE msgs[n].state
    BY ClaimNextRows
  <2> QED
    BY ONLY <2>1 DEF ChatShown, StatusShown
<1>7. /\ StatusShown[m] = "queued"
      /\ \A n \in 1 .. m-1 : ChatShown[n] = ChatShown[m] => StatusShown[n] \in Queue!Done
  BY <1>4, <1>5, ClaimNextRows DEF ChatShown, StatusShown
<1>8. Queue!Begin(m)
  BY <1>3, <1>6, <1>7 DEF Queue!Begin, ChatShown, StatusShown
<1> QED
  BY <1>8, PromptMoves

(* Whoever ends a run ends its prompt with it, if that has not ended before. *)
LEMMA EndMoves ==
  ASSUME StoreInv, StoreInv', UNCHANGED sent, NEW r \in RunId, NEW outcome \in TerminalRunStates,
         Live(r), Ended(r, outcome)
  PROVE QueueMoves
<1>1. OneTurnAtATime /\ OneTurnAtATime' /\ TurnRows
  BY DEF StoreInv, RowsOK
<1>2. \A q \in RunId : ~Live(q)'
  BY <1>1 DEF Ended, OneTurnAtATime, Live, LiveRunStates, TerminalRunStates
<1>3. runs[r].state # NoRow
  BY DEF Live, LiveRunStates, NoRow
<1>4. PICK m \in MessageId : m = runs[r].msg
  BY <1>3, RunRefs DEF StoreInv
<1>5. TurnNow = m /\ TurnNow' = 0
  BY <1>1, <1>2, <1>4, TurnNowIs
<1>6. msgs[m].state = "running" \/ msgs[m].state \in TerminalMessageStates
  BY <1>1, <1>3, <1>4 DEF TurnRows
<1>7. ChatShown' = ChatShown
  BY DEF ChatShown, Ended
<1>8. CASE msgs[m].state \in TerminalMessageStates
  <2>1. StatusShown' = StatusShown /\ StatusShown[m] \in Queue!Done
    BY <1>4, <1>8 DEF StatusShown, Ended, Queue!Done, TerminalMessageStates
  <2>2. Queue!End(m)
    BY <1>5, <1>7, <2>1 DEF Queue!End, ChatShown, StatusShown
  <2> QED
    BY <2>2, PromptMoves
<1>9. CASE msgs[m].state = "running"
  <2> DEFINE how == MessageOutcome(outcome)
  <2>1. how \in Queue!Done
    BY OutcomeTypes DEF Queue!Done, TerminalMessageStates
  <2>2. "running" \notin TerminalMessageStates
    BY DEF TerminalMessageStates
  <2>3. StatusShown' = [StatusShown EXCEPT ![m] = how] /\ StatusShown[m] = "running"
    BY <1>4, <1>9, <2>2 DEF StatusShown, Ended
  <2> HIDE DEF how
  <2>4. Queue!End(m)
    BY <1>5, <1>7, <2>1, <2>3 DEF Queue!End, ChatShown, StatusShown
  <2> QED
    BY <2>4, PromptMoves
<1> QED
  BY <1>6, <1>8, <1>9

LEMMA ContinueMoves ==
  ASSUME StoreInv, StoreInv', UNCHANGED sent, NEW r \in RunId, NEW next \in RunId, NEW b,
         OpenContinuation(r, next, b), Handed(next)'
  PROVE QueueMoves
<1> DEFINE m == runs[r].msg
<1>1. /\ \A q \in RunId : ~Live(q)
      /\ Live(next)' /\ runs'[next].msg = m /\ UNCHANGED msgs
      /\ m \in MessageId /\ msgs[m].state \in TerminalMessageStates
  BY OpenContinuationRows DEF Live, LiveRunStates
<1>2. sent[m] = 1
  BY <1>1 DEF Handed
<1> HIDE DEF m
<1>3. TurnNow = 0 /\ TurnNow' = m
  BY <1>1, TurnNowIs DEF StoreInv, RowsOK
<1>4. ChatShown' = ChatShown /\ StatusShown' = StatusShown /\ StatusShown[m] \in Queue!Done
  BY <1>1 DEF ChatShown, StatusShown, Queue!Done, TerminalMessageStates
<1>5. Queue!SpeakAgain(m)
  BY <1>2, <1>3, <1>4 DEF Queue!SpeakAgain, ChatShown, StatusShown
<1> QED
  BY <1>1, <1>5, PromptMoves

(* Every transaction is a step of the queue or shows nothing of it. *)
LEMMA StoreMoves ==
  ASSUME StoreInv, StoreInv', StoreNext, UNCHANGED sent, RunningIsHanded' PROVE QueueMoves
<1>t. StoreTypeOK
  BY DEF StoreInv
<1>1. CASE UNCHANGED runs /\ UNCHANGED msgs
  <2>1. TurnNow' = TurnNow
    BY <1>1, TurnStays DEF Live
  <2> QED
    BY <1>1, <2>1, QueueStays DEF Shown
<1>2. CASE ApiTransaction
  <2>1. CASE CloseActiveForCreate \/ \E c \in Chats : RegisterChat(c)
    BY <1>1, <2>1 DEF CloseActiveForCreate, RegisterChat
  <2>2. CASE Displace \/ \E c \in Chats : CloseByUser(c)
    BY <1>1, <2>2, CancelMoves DEF Displace, CloseByUser
  <2>3. CASE \E c \in Chats, m \in MessageId : AcceptMessage(m, c) \/ ReopenWithMessage(m, c)
    BY <2>3, SubmitMoves DEF AcceptMessage, ReopenWithMessage
  <2> QED
    BY <1>2, <2>1, <2>2, <2>3 DEF ApiTransaction
<1>3. ASSUME NEW b \in Brokers, NEW ids, RenewRuns(ids, b) PROVE QueueMoves
  <2>1. PICK r \in RunId : TRUE
    BY StoreConstants DEF RunId
  <2> QED
    BY <1>t, <1>3, <2>1, QuietTransactions, QuietMoves
<1>4. ASSUME NEW b \in Brokers, NEW r \in RunId,
             \/ AdoptRun(r, b) \/ DeferRun(r, b) \/ BindArchive(r, b) \/ MarkStarting(r, b)
      PROVE QueueMoves
  BY <1>t, <1>4, QuietTransactions, QuietMoves
<1>5. ASSUME NEW b, NEW r \in RunId, NEW p, MarkNativeStarted(r, b, p) PROVE QueueMoves
  <2>1. UNCHANGED msgs /\ runs[r].state = "starting"
    BY <1>5 DEF MarkNativeStarted, CanRecord, Holds
  <2>2. /\ \A q \in RunId : q # r => runs'[q] = runs[q]
        /\ runs'[r].msg = runs[r].msg /\ runs'[r].state = "running"
    BY <1>t, <1>5 DEF MarkNativeStarted, StoreTypeOK, Run
  <2>3. TurnNow' = TurnNow
    BY <2>1, <2>2, TurnStays DEF Live, LiveRunStates
  <2> QED
    BY <2>1, <2>3, QueueStays DEF Shown
<1>6. ASSUME NEW r \in RunId, ReleaseProcessLink(r) PROVE QueueMoves
  <2>1. /\ UNCHANGED msgs
        /\ \A q \in RunId : runs'[q].state = runs[q].state /\ runs'[q].msg = runs[q].msg
    BY <1>t, <1>6 DEF ReleaseProcessLink, StoreTypeOK, Run
  <2>2. TurnNow' = TurnNow
    BY <2>1, TurnStays DEF Live
  <2> QED
    BY <2>1, <2>2, QueueStays DEF Shown
<1>7. ASSUME NEW b \in Brokers, NEW r \in RunId, NEW next \in RunId, OpenContinuation(r, next, b)
      PROVE QueueMoves
  <2>1. Handed(next)'
    BY <1>7, OpenContinuationRows DEF RunningIsHanded
  <2> QED
    BY <1>7, <2>1, ContinueMoves
<1>8. CASE \E b \in Brokers : BrokerTransaction(b)
  BY <1>3, <1>4, <1>5, <1>6, <1>7, <1>8, ClaimMoves, FinishRunEnds, EndMoves
     DEF BrokerTransaction
<1>9. ASSUME NEW r \in RunId, NEW p, FinishInterrupted(r, p) PROVE QueueMoves
  BY <1>9, FinishInterruptedEnds, QuietMoves, EndMoves DEF TerminalRunStates
<1>10. CASE \E r \in RunId : ReaperTransaction(r) \/ RequestInterrupt(r) \/ LeaseExpires(r)
  BY <1>t, <1>9, <1>10, QuietTransactions, QuietMoves DEF ReaperTransaction
<1> QED
  BY <1>2, <1>8, <1>10 DEF StoreNext

(* The launch hands the prompt whose turn it is over. *)
LEMMA LaunchMoves ==
  ASSUME DispatchInv, DispatchInv', ServedInv, NEW b \in Brokers, NEW r \in RunId, Launch(b, r)
  PROVE QueueMoves
<1> DEFINE m == runs[r].msg
<1>1. /\ runs[r].state = "starting" /\ m \in MessageId /\ sent[m] = 0
      /\ sent' = [sent EXCEPT ![m] = 1] /\ UNCHANGED <<runs, msgs>>
  BY LaunchHands DEF Launch, storeVars
<1>2. OneTurnAtATime /\ OneTurnAtATime' /\ TurnRows /\ runs[r].attempt = 1
  BY <1>1 DEF DispatchInv, StoreInv, RowsOK, ServedInv, UnstartedIsFirst, Unstarted
<1>3. TurnNow = m /\ TurnNow' = m
  BY <1>1, <1>2, TurnNowIs DEF Live, LiveRunStates
<1>4. msgs[m].state = "running"
  BY <1>1, <1>2 DEF TurnRows, Live, LiveRunStates, NoRow
<1> HIDE DEF m
<1>5. ChatShown' = ChatShown /\ StatusShown' = StatusShown /\ StatusShown[m] = "running"
  BY <1>1, <1>4 DEF ChatShown, StatusShown
<1>6. Queue!Give(m)
  BY <1>1, <1>3, <1>5 DEF Queue!Give, ChatShown, StatusShown
<1> QED
  BY <1>1, <1>6, PromptMoves

LEMMA NextMoves ==
  ASSUME DispatchInv, DispatchInv', ServedInv, RunningIsHanded', Next PROVE QueueMoves
<1>1. CASE \E b \in Brokers, r \in RunId : Launch(b, r)
  BY <1>1, LaunchMoves
<1>2. CASE UNCHANGED sent /\ StoreNext
  BY <1>2, StoreMoves DEF DispatchInv
<1>3. CASE UNCHANGED sent /\ UNCHANGED storeVars
  <2>1. TurnNow' = TurnNow
    BY <1>3, TurnStays DEF storeVars, Live, DispatchInv
  <2> QED
    BY <1>3, <2>1, QueueStays DEF storeVars, Shown
<1> QED
  BY <1>1, <1>2, <1>3, NextSent, NextTransaction DEF Transaction, DispatchInv

LEMMA HandedStep ==
  ASSUME DispatchInv, DispatchInv', ServedInv, HandedInv, [Next /\ OneBrokerUp']_vars
  PROVE HandedInv' /\ QueueMoves
<1>1. CASE Next /\ OneBrokerUp'
  <2>1. RunningIsHanded'
    BY <1>1, RunningIsHandedKept
  <2>2. PastIsHanded'
    BY <1>1, <2>1, PastIsHandedKept
  <2> QED
    BY <1>1, <2>1, <2>2, NextMoves DEF HandedInv
<1>2. CASE UNCHANGED vars
  <2>1. UNCHANGED <<storeVars, runs, msgs, workers, sent>>
    BY <1>2 DEF vars, storeVars
  <2>2. HandedInv'
    BY <2>1 DEF HandedInv, RunningIsHanded, PastIsHanded, ThreadHanded, Handed
  <2>3. TurnNow' = TurnNow
    BY <2>1, TurnStays DEF DispatchInv, Live
  <2> QED
    BY <2>1, <2>2, <2>3, QueueStays DEF Shown
<1> QED
  BY <1>1, <1>2

LEMMA InitQueue ==
  ASSUME Init PROVE HandedInv /\ Queue!QueueInit
<1>1. HandedInv
  BY DEF Init, StoreInit, IdleWorker, NoRun, NoRow, HandedInv, RunningIsHanded, PastIsHanded
<1>2. TurnNow = 0
  BY DEF Init, StoreInit, TurnNow, Live, LiveRunStates, NoRun, NoRow
<1>3. /\ [m \in MessageId |-> msgs[m].chat] = [m \in Queue!Prompts |-> NoChat]
      /\ [m \in MessageId |-> msgs[m].state] = [m \in Queue!Prompts |-> "none"]
      /\ sent = [m \in Queue!Prompts |-> 0]
  BY DEF Init, StoreInit, NoMessage, NoRow, Queue!Prompts, MessageId
<1> QED
  BY <1>1, <1>2, <1>3 DEF Queue!QueueInit

(* The user's queue: one turn at a time, in the order of each chat, each prompt
   handed over at most once and spoken again only after it was, whatever the
   brokers, leases, lingering processes, closes and reaper steps of one server at a
   time do. *)
THEOREM ChatsImplementQueue == ServedSpec => ImplementsTurnQueue
<1>1. Init => DispatchInv /\ ServedInv /\ HandedInv /\ Queue!QueueInit
  BY InitServed, InitQueue
<1>2. DispatchInv /\ ServedInv /\ HandedInv /\ [Next /\ OneBrokerUp']_vars
        => (DispatchInv /\ ServedInv /\ HandedInv)' /\ [Queue!QueueNext]_(Queue!queueVars)
  BY ServedStep, HandedStep DEF QueueMoves
<1> QED
  BY <1>1, <1>2, PTL DEF ServedSpec, ImplementsTurnQueue, Queue!QueueSpec
=============================================================================
