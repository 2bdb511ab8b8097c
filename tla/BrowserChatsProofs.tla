-------------------------- MODULE BrowserChatsProofs --------------------------
(***************************************************************************)
(* Theorems about BrowserChats for every number of chats, prompts, runs    *)
(* and brokers and every bound.  Its types are kept.  Every step is one    *)
(* transaction on the tables or none, so what ConversationStore promises   *)
(* of them holds here.  The reaper spares the linked process, and a prompt *)
(* is handed to a harness at most once.                                    *)
(***************************************************************************)
EXTENDS ChatProperties, ConversationStoreProofs

WorkerTables  == [Brokers -> [RunId -> Worker]]
ProcessTables == [RunId -> Process]
BrokerTables  == [Brokers -> [state : {"new", "up", "down"}, wake : BOOLEAN]]

(* Updates of one field of a worker keep its type. *)
LEMMA WorkerRowTypes ==
  \A w \in Worker :
    /\ \A x \in WorkerStep : [w EXCEPT !.pc = x] \in Worker
    /\ \A x \in 0..MaxRun : [w EXCEPT !.run = x] \in Worker
    /\ \A x \in Pid : [w EXCEPT !.pid = x] \in Worker
    /\ \A x \in {NoRow} \cup TerminalRunStates : [w EXCEPT !.held = x] \in Worker
    /\ \A x \in 0..MaxDefer : [w EXCEPT !.defers = x] \in Worker
    /\ \A x \in BOOLEAN : [w EXCEPT !.attached = x] \in Worker
    /\ \A x \in BOOLEAN : [w EXCEPT !.stop = x] \in Worker
<1> TAKE w \in Worker
<1>1. \A x \in WorkerStep : [w EXCEPT !.pc = x] \in Worker
  BY DEF Worker
<1>2. \A x \in 0..MaxRun : [w EXCEPT !.run = x] \in Worker
  BY DEF Worker
<1>3. \A x \in Pid : [w EXCEPT !.pid = x] \in Worker
  BY DEF Worker
<1>4. \A x \in {NoRow} \cup TerminalRunStates : [w EXCEPT !.held = x] \in Worker
  BY DEF Worker
<1>5. \A x \in 0..MaxDefer : [w EXCEPT !.defers = x] \in Worker
  BY DEF Worker
<1>6. \A x \in BOOLEAN : [w EXCEPT !.attached = x] \in Worker
  BY Zenon DEF Worker
<1>7. \A x \in BOOLEAN : [w EXCEPT !.stop = x] \in Worker
  BY Zenon DEF Worker
<1> QED
  BY <1>1, <1>2, <1>3, <1>4, <1>5, <1>6, <1>7

(* ... and so does such an update in the table of all workers. *)
LEMMA WorkerFieldTypes ==
  ASSUME NEW f \in WorkerTables, NEW b \in Brokers, NEW r \in RunId
  PROVE
    /\ \A x \in WorkerStep : [f EXCEPT ![b][r].pc = x] \in WorkerTables
    /\ \A x \in 0..MaxRun : [f EXCEPT ![b][r].run = x] \in WorkerTables
    /\ \A x \in Pid : [f EXCEPT ![b][r].pid = x] \in WorkerTables
    /\ \A x \in {NoRow} \cup TerminalRunStates : [f EXCEPT ![b][r].held = x] \in WorkerTables
    /\ \A x \in 0..MaxDefer : [f EXCEPT ![b][r].defers = x] \in WorkerTables
    /\ \A x \in BOOLEAN : [f EXCEPT ![b][r].attached = x] \in WorkerTables
    /\ \A x \in BOOLEAN : [f EXCEPT ![b][r].stop = x] \in WorkerTables
    /\ \A x \in Worker : [f EXCEPT ![b][r] = x] \in WorkerTables
<1>1. f[b] \in [RunId -> Worker] /\ f[b][r] \in Worker
  BY DEF WorkerTables
<1>2. \A x \in Worker : [f EXCEPT ![b][r] = x] \in WorkerTables
  <2> TAKE x \in Worker
  <2>1. [f[b] EXCEPT ![r] = x] \in [RunId -> Worker]
    BY <1>1
  <2> QED
    BY <2>1 DEF WorkerTables
<1>3. \A x \in WorkerStep : [f EXCEPT ![b][r].pc = x] \in WorkerTables
  BY <1>1, <1>2, WorkerRowTypes
<1>4. \A x \in 0..MaxRun : [f EXCEPT ![b][r].run = x] \in WorkerTables
  BY <1>1, <1>2, WorkerRowTypes
<1>5. \A x \in Pid : [f EXCEPT ![b][r].pid = x] \in WorkerTables
  BY <1>1, <1>2, WorkerRowTypes
<1>6. \A x \in {NoRow} \cup TerminalRunStates : [f EXCEPT ![b][r].held = x] \in WorkerTables
  BY <1>1, <1>2, WorkerRowTypes
<1>7. \A x \in 0..MaxDefer : [f EXCEPT ![b][r].defers = x] \in WorkerTables
  BY <1>1, <1>2, WorkerRowTypes
<1>8. \A x \in BOOLEAN : [f EXCEPT ![b][r].attached = x] \in WorkerTables
  BY <1>1, <1>2, WorkerRowTypes
<1>9. \A x \in BOOLEAN : [f EXCEPT ![b][r].stop = x] \in WorkerTables
  BY <1>1, <1>2, WorkerRowTypes
<1> QED
  BY <1>2, <1>3, <1>4, <1>5, <1>6, <1>7, <1>8, <1>9

(* The step a worker goes to is one of its steps. *)
LEMMA GotoType ==
  ASSUME workers \in WorkerTables, NEW b \in Brokers, NEW r \in RunId, NEW step \in WorkerStep, Goto(b, r, step)
  PROVE workers' \in WorkerTables
BY WorkerFieldTypes DEF Goto

(* A thread that does not exist is represented by a well-typed worker. *)
LEMMA IdleWorkerType == IdleWorker \in Worker
<1>1. 0 \in 0..MaxRun /\ 0 \in Pid /\ "idle" \in WorkerStep /\ 0 \in 0..MaxDefer
  BY StoreConstants, ChatConstants DEF Pid, WorkerStep
<1> QED
  BY <1>1 DEF IdleWorker, Worker

(* A worker thread that ends leaves both tables well typed. *)
LEMMA LeaveType ==
  ASSUME workers \in WorkerTables, brokers \in BrokerTables,
         NEW b \in Brokers, NEW r \in RunId, NEW defers \in 0..MaxDefer, Leave(b, r, defers)
  PROVE workers' \in WorkerTables /\ brokers' \in BrokerTables
<1>1. [IdleWorker EXCEPT !.defers = defers] \in Worker
  BY IdleWorkerType, WorkerRowTypes
<1>2. workers' \in WorkerTables
  BY <1>1, WorkerFieldTypes DEF Leave
<1>3. brokers' \in BrokerTables
  BY Zenon DEF Leave, BrokerTables
<1> QED
  BY <1>2, <1>3

(* Waking every broker that is up keeps the type of the broker table. *)
LEMMA NotifyType ==
  ASSUME brokers \in BrokerTables, Notify PROVE brokers' \in BrokerTables
<1>1. \A b \in Brokers : (brokers[b].wake \/ Up(b)) \in BOOLEAN
  OBVIOUS
<1>2. brokers' = [b \in Brokers |-> [brokers[b] EXCEPT !.wake = brokers[b].wake \/ Up(b)]]
  BY DEF Notify
<1>3. \A b \in Brokers, x \in BOOLEAN :
        [brokers[b] EXCEPT !.wake = x] \in [state : {"new", "up", "down"}, wake : BOOLEAN]
  BY Zenon DEF BrokerTables
<1> QED
  BY ONLY <1>1, <1>2, <1>3 DEF BrokerTables

(* Telling processes to stop keeps the type of the process table. *)
LEMMA TellType ==
  ASSUME procs \in ProcessTables, NEW ps, Tell(ps) PROVE procs' \in ProcessTables
<1>1. \A p \in RunId : [procs[p] EXCEPT !.told = TRUE] \in Process
  BY Zenon DEF ProcessTables, Process
<1> QED
  BY <1>1 DEF ProcessTables, Tell

-----------------------------------------------------------------------------
(* A worker thread that exists, and a reaper that aims, work on a run. *)
WorkersNameRuns ==
  \A b \in Brokers, r \in RunId : workers[b][r].pc # "idle" => workers[b][r].run # 0

ActorsNameRuns == WorkersNameRuns /\ (reaper # NotAiming => reaper.run # 0)

(* The inductive form of TypeOK. *)
TypeInv == TypeOK /\ ActorsNameRuns

LEMMA ActorRuns ==
  ASSUME TypeInv
  PROVE /\ \A b \in Brokers, r \in RunId :
             workers[b][r].pc # "idle" => workers[b][r].run \in RunId
        /\ reaper # NotAiming => reaper.run \in RunId
BY StoreConstants DEF TypeInv, TypeOK, ActorsNameRuns, WorkersNameRuns, Worker, Aim, RunId

(* Every action keeps the types. *)

LEMMA BeginCreateType ==
  ASSUME TypeOK, NEW c \in Chats, BeginCreate(c) PROVE TypeOK'
BY CloseActiveForCreateType DEF TypeOK, BeginCreate

LEMMA EndCreateType ==
  ASSUME TypeOK, NEW c \in Chats, EndCreate(c) PROVE TypeOK'
<1>1. StoreTypeOK'
  BY RegisterChatType DEF TypeOK, EndCreate, StoreTypeOK, storeVars
<1> QED
  BY <1>1 DEF TypeOK, EndCreate

LEMMA SendType ==
  ASSUME TypeOK, NEW c \in Chats, Send(c) PROVE TypeOK'
<1>1. StoreTypeOK'
  BY AcceptMessageType, ReopenWithMessageType DEF TypeOK, Send
<1>2. brokers' \in BrokerTables
  BY NotifyType DEF TypeOK, Send, BrokerTables
<1> QED
  BY <1>1, <1>2 DEF TypeOK, Send, BrokerTables

LEMMA CloseType ==
  ASSUME TypeOK, NEW c \in Chats, Close(c) PROVE TypeOK'
BY CloseByUserType, ChatConstants DEF TypeOK, Close

LEMMA InterruptType ==
  ASSUME TypeOK, NEW r, Interrupt(r)
  PROVE /\ StoreTypeOK'
        /\ brokers' \in BrokerTables
        /\ workers' \in WorkerTables
        /\ procs' \in ProcessTables
<1>1. /\ StoreTypeOK /\ brokers \in BrokerTables
      /\ workers \in WorkerTables /\ procs \in ProcessTables
  BY DEF TypeOK, BrokerTables, WorkerTables, ProcessTables
<1>2. ASSUME NEW b \in Brokers, NEW q \in RunId, Deliver(b, q)
      PROVE /\ StoreTypeOK' /\ brokers' \in BrokerTables
            /\ workers' \in WorkerTables /\ procs' \in ProcessTables
  <2>1. TRUE \in BOOLEAN
    OBVIOUS
  <2>2. workers' \in WorkerTables
    BY <1>1, <1>2, <2>1, WorkerFieldTypes DEF Deliver
  <2> QED
    BY <1>1, <1>2, <2>2, RequestInterruptType, NotifyType, TellType DEF Deliver
<1>3. ASSUME RequestInterrupt(r), Notify \/ UNCHANGED brokers, UNCHANGED <<workers, procs>>
      PROVE /\ StoreTypeOK' /\ brokers' \in BrokerTables
            /\ workers' \in WorkerTables /\ procs' \in ProcessTables
  BY <1>1, <1>3, RequestInterruptType, NotifyType
<1> QED
  BY <1>2, <1>3 DEF Interrupt

LEMMA StopType ==
  ASSUME TypeOK, NEW c \in Chats, Stop(c) PROVE TypeOK'
<1>1. acts' \in 0..MaxActs
  BY ChatConstants DEF TypeOK, Stop
<1>2. CASE \E r \in RunId : Interrupt(r)
  BY <1>1, <1>2, InterruptType
     DEF TypeOK, Stop, BrokerTables, WorkerTables, ProcessTables
<1>3. CASE Tell({slot.pid}) /\ UNCHANGED <<storeVars, workers, brokers>>
  BY <1>1, <1>3, TellType DEF TypeOK, Stop, ProcessTables, StoreTypeOK, storeVars
<1> QED
  BY <1>2, <1>3 DEF Stop

LEMMA DisplacementType ==
  ASSUME TypeOK, DisplaceInactive \/ DisplaceForWake PROVE TypeOK'
<1>1. StoreTypeOK' /\ acts' \in 0..MaxActs
  BY DisplaceType, ChatConstants DEF TypeOK, DisplaceInactive, DisplaceForWake
<1> QED
  BY <1>1 DEF TypeOK, DisplaceInactive, DisplaceForWake

LEMMA BrokerLifeType ==
  ASSUME TypeOK, NEW b \in Brokers, StartBroker(b) \/ CrashBroker(b) \/ NothingToDispatch(b)
  PROVE TypeOK'
<1>1. brokers' \in BrokerTables
  <2>1. brokers \in BrokerTables
    BY DEF TypeOK, BrokerTables
  <2>2. /\ [state |-> "up", wake |-> TRUE] \in [state : {"new", "up", "down"}, wake : BOOLEAN]
        /\ [state |-> "down", wake |-> FALSE] \in [state : {"new", "up", "down"}, wake : BOOLEAN]
    OBVIOUS
  <2>3. CASE StartBroker(b)
    BY <2>1, <2>2, <2>3 DEF StartBroker, BrokerTables
  <2>4. CASE CrashBroker(b)
    BY <2>1, <2>2, <2>4 DEF CrashBroker, BrokerTables
  <2>5. CASE NothingToDispatch(b)
    BY <2>1, <2>5, Zenon DEF NothingToDispatch, BrokerTables
  <2> QED
    BY <2>3, <2>4, <2>5
<1>2. workers' \in WorkerTables
  <2>1. workers \in WorkerTables
    BY DEF TypeOK, WorkerTables
  <2>2. CASE workers' = workers
    BY ONLY <2>1, <2>2
  <2>3. CASE workers' = [workers EXCEPT ![b] = [r \in RunId |-> IdleWorker]]
    <3>1. [r \in RunId |-> IdleWorker] \in [RunId -> Worker]
      BY ONLY IdleWorkerType
    <3> QED
      BY ONLY <2>1, <2>3, <3>1 DEF WorkerTables
  <2> QED
    BY <2>2, <2>3 DEF StartBroker, CrashBroker, NothingToDispatch
<1>3. faults' \in 0..MaxFaults
  BY ChatConstants DEF TypeOK, StartBroker, CrashBroker, NothingToDispatch
<1> QED
  BY <1>1, <1>2, <1>3
     DEF TypeOK, StartBroker, CrashBroker, NothingToDispatch, BrokerTables,
         WorkerTables, StoreTypeOK, storeVars

LEMMA DispatchType ==
  ASSUME TypeOK, NEW b \in Brokers, Dispatch(b) PROVE TypeOK'
<1>1. PICK m \in MessageId, r \in RunId :
        /\ ClaimNext(m, r, b)
        /\ workers' = [workers EXCEPT ![b][r] =
                          [IdleWorker EXCEPT !.pc = "leased", !.run = r]]
  BY DEF Dispatch
<1>2. [IdleWorker EXCEPT !.pc = "leased", !.run = r] \in Worker
  <2>1. "leased" \in WorkerStep /\ r \in 0..MaxRun
    BY StoreConstants DEF WorkerStep, RunId
  <2>2. [IdleWorker EXCEPT !.pc = "leased"] \in Worker
    BY <2>1, IdleWorkerType, WorkerRowTypes
  <2> QED
    BY <2>1, <2>2, WorkerRowTypes
<1>3. workers' \in WorkerTables
  BY <1>1, <1>2, WorkerFieldTypes DEF TypeOK, WorkerTables
<1> QED
  BY <1>1, <1>3, ClaimNextType DEF TypeOK, Dispatch, WorkerTables

LEMMA RecoverType ==
  ASSUME TypeOK, NEW b \in Brokers, NEW r \in RunId, Recover(b, r) PROVE TypeOK'
<1> DEFINE w == workers[b][r]
<1>1. [w EXCEPT !.pc = runs[r].state, !.run = r, !.pid = runs[r].pid, !.stop = runs[r].stop]
        \in Worker
  <2>1. /\ runs[r].state \in WorkerStep /\ r \in 0..MaxRun /\ runs[r].pid \in Pid
    BY StoreConstants
       DEF TypeOK, StoreTypeOK, Recover, AdoptRun, Live, LiveRunStates, WorkerStep, Run, RunId
  <2>2. runs[r].stop \in BOOLEAN
    BY DEF TypeOK, StoreTypeOK, Run
  <2>3. w \in Worker
    BY DEF TypeOK
  <2>4. [w EXCEPT !.pc = runs[r].state] \in Worker
    BY <2>1, <2>3, WorkerRowTypes
  <2>5. [w EXCEPT !.pc = runs[r].state, !.run = r] \in Worker
    BY <2>1, <2>4, WorkerRowTypes
  <2>6. [w EXCEPT !.pc = runs[r].state, !.run = r, !.pid = runs[r].pid] \in Worker
    BY <2>1, <2>5, WorkerRowTypes
  <2> QED
    BY <2>2, <2>6, WorkerRowTypes
<1>2. workers' \in WorkerTables
  BY <1>1, WorkerFieldTypes DEF TypeOK, WorkerTables, Recover
<1> QED
  BY <1>2, AdoptRunType DEF TypeOK, Recover, WorkerTables

LEMMA LeaseType ==
  ASSUME TypeOK,
         \/ \E b \in Brokers : Heartbeat(b)
         \/ \E r \in RunId : Expire(r) \/ Stall(r)
  PROVE TypeOK'
<1>1. StoreTypeOK'
  <2>1. ASSUME NEW b \in Brokers, NEW ids, RenewRuns(ids, b) PROVE StoreTypeOK'
    BY <2>1, RenewRunsType DEF TypeOK
  <2>2. ASSUME NEW r \in RunId, LeaseExpires(r) PROVE StoreTypeOK'
    BY <2>2, LeaseExpiresType DEF TypeOK
  <2> QED
    BY <2>1, <2>2 DEF Heartbeat, Expire, Stall
<1>2. faults' \in 0..MaxFaults
  <2>1. faults \in 0..MaxFaults
    BY DEF TypeOK
  <2>2. \/ faults' = faults
        \/ faults < MaxFaults /\ faults' = faults + 1
    BY DEF Heartbeat, Expire, Stall
  <2> QED
    BY <2>1, <2>2, ChatConstants
<1> QED
  BY <1>1, <1>2 DEF TypeOK, Heartbeat, Expire, Stall

LEMMA WorkerStepNames ==
  {"idle", "leased", "starting", "running", "prepare", "bind", "mark", "launch", "record",
   "stream", "linger", "release", "reconcile", "failed", "unknown"} \subseteq WorkerStep
BY DEF WorkerStep

LEMMA ActivateType ==
  ASSUME TypeOK, NEW b \in Brokers, NEW r \in RunId, Activate(b, r) PROVE TypeOK'
<1> DEFINE w == workers[b][r]
<1>1. workers \in WorkerTables /\ procs \in ProcessTables
  BY DEF TypeOK, WorkerTables, ProcessTables
<1>2. workers' \in WorkerTables
  <2>1. \A step \in WorkerStep :
          [workers EXCEPT ![b][r].pc = step, ![b][r].attached = TRUE] \in WorkerTables
    <3> TAKE step \in WorkerStep
    <3>1. [workers EXCEPT ![b][r].pc = step] \in WorkerTables /\ TRUE \in BOOLEAN
      BY <1>1, WorkerFieldTypes
    <3> QED
      BY <3>1, WorkerFieldTypes
  <2> QED
    BY <1>1, <2>1, GotoType, WorkerStepNames DEF Activate
<1>3. procs' \in ProcessTables
  BY <1>1, TellType DEF Activate
<1> QED
  BY <1>2, <1>3 DEF TypeOK, Activate, WorkerTables, ProcessTables, StoreTypeOK, storeVars

LEMMA PrepareType ==
  ASSUME TypeOK, NEW b \in Brokers, NEW r \in RunId, Prepare(b, r) PROVE TypeOK'
<1> DEFINE w == workers[b][r]
<1>1. workers \in WorkerTables /\ brokers \in BrokerTables
  BY DEF TypeOK, WorkerTables, BrokerTables
<1>2. MayDefer(w) => w.defers + 1 \in 0..MaxDefer
  BY ChatConstants DEF TypeOK, Worker, MayDefer
<1>3. StoreTypeOK'
  BY DeferRunType DEF TypeOK, Prepare, StoreTypeOK, storeVars
<1>4. workers' \in WorkerTables /\ brokers' \in BrokerTables
  <2> HIDE DEF w
  <2>1. CASE MayDefer(w) /\ Leave(b, r, w.defers + 1)
    BY <1>1, <1>2, <2>1, LeaveType
  <2>2. CASE /\ Goto(b, r, "bind") \/ Goto(b, r, "unknown") \/ Goto(b, r, "failed")
             /\ UNCHANGED brokers
    BY <1>1, <2>2, GotoType, WorkerStepNames
  <2> QED
    BY <2>1, <2>2 DEF Prepare, w
<1> QED
  BY <1>3, <1>4 DEF TypeOK, Prepare, WorkerTables, BrokerTables

LEMMA BindType ==
  ASSUME TypeOK, NEW b \in Brokers, NEW r \in RunId, Bind(b, r) PROVE TypeOK'
<1>1. workers \in WorkerTables
  BY DEF TypeOK, WorkerTables
<1>2. workers' \in WorkerTables
  <2>1. CASE \E next \in {"mark", "failed"} :
               workers' = [workers EXCEPT ![b][r].pc = next, ![b][r].defers = 0]
    <3>1. PICK next \in {"mark", "failed"} :
            workers' = [workers EXCEPT ![b][r].pc = next, ![b][r].defers = 0]
      BY <2>1
    <3>2. [workers EXCEPT ![b][r].pc = next] \in WorkerTables /\ 0 \in 0..MaxDefer
      BY <1>1, WorkerFieldTypes, WorkerStepNames, ChatConstants
    <3> QED
      BY <3>1, <3>2, WorkerFieldTypes
  <2>2. CASE Goto(b, r, "failed")
    BY <1>1, <2>2, GotoType, WorkerStepNames
  <2> QED
    BY <2>1, <2>2 DEF Bind
<1> QED
  BY <1>2, BindArchiveType DEF TypeOK, Bind, WorkerTables, StoreTypeOK, storeVars

LEMMA MarkType ==
  ASSUME TypeOK, NEW b \in Brokers, NEW r \in RunId, Mark(b, r) PROVE TypeOK'
<1>1. workers' \in WorkerTables
  BY GotoType, WorkerStepNames DEF TypeOK, Mark, WorkerTables
<1> QED
  BY <1>1, MarkStartingType DEF TypeOK, Mark, WorkerTables, StoreTypeOK, storeVars

LEMMA LaunchType ==
  ASSUME TypeOK, NEW b \in Brokers, NEW r \in RunId, Launch(b, r) PROVE TypeOK'
<1>1. workers \in WorkerTables /\ procs \in ProcessTables /\ r \in Pid
  BY DEF TypeOK, WorkerTables, ProcessTables, Pid, RunId
<1>2. workers' \in WorkerTables
  <2>1. [workers EXCEPT ![b][r].pc = "record"] \in WorkerTables
    BY <1>1, WorkerFieldTypes, WorkerStepNames
  <2>2. [workers EXCEPT ![b][r].pc = "record", ![b][r].pid = r] \in WorkerTables
    BY <1>1, <2>1, WorkerFieldTypes
  <2> QED
    BY <1>1, <2>2, GotoType, WorkerStepNames DEF Launch
<1>3. procs' \in ProcessTables
  <2>1. [state |-> "alive", told |-> FALSE] \in Process
    BY DEF Process
  <2> QED
    BY <1>1, <2>1 DEF Launch, ProcessTables
<1>4. sent' \in [MessageId -> Nat]
  <2> DEFINE m == runs[r].msg
  <2>1. sent \in [MessageId -> Nat] /\ sent' = [sent EXCEPT ![m] = sent[m] + 1]
    BY DEF TypeOK, Launch
  <2> HIDE DEF m
  <2>2. CASE m \in MessageId
    BY <2>1, <2>2
  <2>3. CASE m \notin MessageId
    BY <2>1, <2>3
  <2> QED
    BY <2>2, <2>3
<1> QED
  BY <1>2, <1>3, <1>4
     DEF TypeOK, Launch, WorkerTables, ProcessTables, StoreTypeOK, storeVars

LEMMA RecordType ==
  ASSUME TypeOK, NEW b \in Brokers, NEW r \in RunId, Record(b, r) PROVE TypeOK'
<1> DEFINE p == IF Alive(r) THEN r ELSE 0
<1>1. p \in Pid
  BY StoreConstants DEF Pid, RunId
<1>2. workers' \in WorkerTables
  BY GotoType, WorkerStepNames DEF TypeOK, Record, WorkerTables
<1>3. procs' \in ProcessTables
  BY TellType DEF TypeOK, Record, ProcessTables
<1>4. StoreTypeOK'
  <2> HIDE DEF p
  <2>1. CASE MarkNativeStarted(r, b, p)
    BY <1>1, <2>1, MarkNativeStartedType DEF TypeOK
  <2>2. CASE UNCHANGED storeVars
    BY <2>2 DEF TypeOK, StoreTypeOK, storeVars
  <2> QED
    BY <2>1, <2>2 DEF Record, p
<1> QED
  BY <1>2, <1>3, <1>4 DEF TypeOK, Record, WorkerTables, ProcessTables

LEMMA FinishTypes ==
  ASSUME TypeOK, NEW q \in RunId, NEW outcome \in TerminalRunStates,
         NEW keepLink \in BOOLEAN, NEW exited \in BOOLEAN,
         FinishOrSkip(q, outcome, keepLink, exited) \/ FinishRefused(q, outcome)
  PROVE StoreTypeOK'
BY FinishRunType DEF TypeOK, FinishOrSkip, FinishRefused, StoreTypeOK, storeVars

LEMMA ResultType ==
  ASSUME TypeOK, NEW b \in Brokers, NEW r \in RunId, Result(b, r) PROVE TypeOK'
<1>1. \A o \in {"succeeded", "failed", "cancelled"} : o \in {NoRow} \cup TerminalRunStates
  BY DEF TerminalRunStates
<1>2. workers \in WorkerTables
  BY DEF TypeOK, WorkerTables
<1>3. workers' \in WorkerTables
  <2>1. PICK o \in {"succeeded", "failed", "cancelled"} :
          workers' = [workers EXCEPT ![b][r].held = o]
    BY DEF Result
  <2> QED
    BY <1>1, <1>2, <2>1, WorkerFieldTypes
<1> QED
  BY <1>3 DEF TypeOK, Result, WorkerTables, StoreTypeOK, storeVars

LEMMA OrphanedType ==
  ASSUME TypeOK, NEW b \in Brokers, NEW r \in RunId, Orphaned(b, r) PROVE TypeOK'
<1>1. workers[b][r].defers \in 0..MaxDefer
  BY DEF TypeOK, Worker
<1>2. workers' \in WorkerTables /\ brokers' \in BrokerTables
  BY <1>1, LeaveType DEF TypeOK, Orphaned, WorkerTables, BrokerTables
<1> QED
  BY <1>2 DEF TypeOK, Orphaned, WorkerTables, BrokerTables, StoreTypeOK, storeVars

LEMMA LingerType ==
  ASSUME TypeInv, NEW b \in Brokers, NEW r \in RunId, Linger(b, r) PROVE TypeOK'
<1> DEFINE w == workers[b][r]
<1>1. workers \in WorkerTables /\ w.run \in RunId /\ HeldOutcome(w) \in TerminalRunStates
  BY ActorRuns
     DEF TypeInv, TypeOK, Linger, At, WorkerTables, Worker, HeldOutcome, TerminalRunStates
<1>2. StoreTypeOK'
  BY <1>1, FinishTypes DEF TypeInv, Linger
<1>3. workers' \in WorkerTables
  <2>1. [workers EXCEPT ![b][r].pc = "linger"] \in WorkerTables
    BY <1>1, WorkerFieldTypes, WorkerStepNames
  <2>2. [workers EXCEPT ![b][r].pc = "linger", ![b][r].held = NoRow] \in WorkerTables
    BY <2>1, WorkerFieldTypes
  <2> QED
    BY <1>1, <2>2, GotoType, WorkerStepNames DEF Linger
<1> QED
  BY <1>2, <1>3 DEF TypeInv, TypeOK, Linger, WorkerTables

LEMMA ResumeType ==
  ASSUME TypeInv, NEW b \in Brokers, NEW r \in RunId, Resume(b, r) PROVE TypeOK'
<1> DEFINE w == workers[b][r]
<1>1. /\ workers \in WorkerTables /\ brokers \in BrokerTables
      /\ w.run \in RunId /\ w.defers \in 0..MaxDefer
  BY ActorRuns DEF TypeInv, TypeOK, Resume, At, WorkerTables, BrokerTables, Worker
<1>2. CASE \E next \in RunId :
             /\ OpenContinuation(w.run, next, b)
             /\ workers' = [workers EXCEPT ![b][r].pc = "stream", ![b][r].run = next]
             /\ UNCHANGED brokers
  <2>1. PICK next \in RunId :
          /\ OpenContinuation(w.run, next, b)
          /\ workers' = [workers EXCEPT ![b][r].pc = "stream", ![b][r].run = next]
    BY <1>2
  <2>2. [workers EXCEPT ![b][r].pc = "stream"] \in WorkerTables /\ next \in 0..MaxRun
    BY <1>1, WorkerFieldTypes, WorkerStepNames, StoreConstants DEF RunId
  <2>3. workers' \in WorkerTables
    BY <2>1, <2>2, WorkerFieldTypes
  <2>4. StoreTypeOK'
    BY <1>1, <2>1, OpenContinuationType DEF TypeInv, TypeOK
  <2> QED
    BY <1>2, <2>3, <2>4 DEF TypeInv, TypeOK, Resume, WorkerTables
<1>3. CASE Goto(b, r, "unknown") /\ UNCHANGED <<storeVars, brokers>>
  <2>1. workers' \in WorkerTables
    BY <1>1, <1>3, GotoType, WorkerStepNames
  <2> QED
    BY <1>3, <2>1 DEF TypeInv, TypeOK, Resume, WorkerTables, StoreTypeOK, storeVars
<1>4. CASE Leave(b, r, w.defers) /\ UNCHANGED storeVars
  <2>1. workers' \in WorkerTables /\ brokers' \in BrokerTables
    BY <1>1, <1>4, LeaveType
  <2> QED
    BY <1>4, <2>1
       DEF TypeInv, TypeOK, Resume, WorkerTables, BrokerTables, StoreTypeOK, storeVars
<1> QED
  BY <1>2, <1>3, <1>4 DEF Resume

(* The steps that may finish a run and end the thread, or send it on. *)
LEMMA EndingType ==
  ASSUME TypeInv, NEW b \in Brokers, NEW r \in RunId, NEW step \in WorkerStep,
         NEW defers \in 0..MaxDefer,
         Leave(b, r, defers) \/ (Goto(b, r, step) /\ UNCHANGED brokers)
  PROVE workers' \in WorkerTables /\ brokers' \in BrokerTables
BY LeaveType, GotoType DEF TypeInv, TypeOK, WorkerTables, BrokerTables

LEMMA EndOfStreamType ==
  ASSUME TypeInv, NEW b \in Brokers, NEW r \in RunId, NEW exited \in BOOLEAN,
         EndOfStream(b, r, exited)
  PROVE TypeOK'
<1> DEFINE w == workers[b][r]
<1>1. w.defers \in 0..MaxDefer
  BY DEF TypeInv, TypeOK, Worker
<1>2. StoreTypeOK'
  <2>1. CASE UNCHANGED storeVars
    BY <2>1 DEF TypeInv, TypeOK, StoreTypeOK, storeVars
  <2>2. CASE /\ At(b, r, "stream") /\ w.held # NoRow
             /\ \/ FinishOrSkip(w.run, HeldOutcome(w), FALSE, exited)
                \/ FinishRefused(w.run, HeldOutcome(w))
    <3>1. w.run \in RunId
      BY <2>2, ActorRuns DEF At
    <3>2. HeldOutcome(w) \in TerminalRunStates
      BY <2>2 DEF TypeInv, TypeOK, Worker, HeldOutcome, TerminalRunStates
    <3> QED
      BY <2>2, <3>1, <3>2, FinishTypes DEF TypeInv
  <2> QED
    BY <2>1, <2>2 DEF EndOfStream
<1>3. workers' \in WorkerTables /\ brokers' \in BrokerTables
  BY <1>1, EndingType, WorkerStepNames DEF EndOfStream
<1> QED
  BY <1>2, <1>3 DEF TypeInv, TypeOK, EndOfStream, WorkerTables, BrokerTables

LEMMA ReleaseType ==
  ASSUME TypeInv, NEW b \in Brokers, NEW r \in RunId, Release(b, r) PROVE TypeOK'
<1>1. workers[b][r].defers \in 0..MaxDefer /\ workers[b][r].run \in RunId
  BY ActorRuns DEF TypeInv, TypeOK, Worker, Release, At
<1>2. workers' \in WorkerTables /\ brokers' \in BrokerTables
  BY <1>1, LeaveType DEF TypeInv, TypeOK, Release, WorkerTables, BrokerTables
<1>3. StoreTypeOK'
  BY <1>1, ReleaseProcessLinkType DEF TypeInv, TypeOK, Release
<1> QED
  BY <1>2, <1>3 DEF TypeInv, TypeOK, Release, WorkerTables, BrokerTables

LEMMA ReconcileType ==
  ASSUME TypeInv, NEW b \in Brokers, NEW r \in RunId, NEW outcome \in TerminalRunStates,
         Reconcile(b, r, outcome)
  PROVE TypeOK'
<1>1. workers[b][r].defers \in 0..MaxDefer /\ workers[b][r].run \in RunId
  BY ActorRuns DEF TypeInv, TypeOK, Worker, Reconcile, At
<1>2. workers' \in WorkerTables /\ brokers' \in BrokerTables
  BY <1>1, EndingType, WorkerStepNames DEF Reconcile
<1>3. StoreTypeOK'
  BY <1>1, FinishTypes DEF TypeInv, Reconcile
<1> QED
  BY <1>2, <1>3 DEF TypeInv, TypeOK, Reconcile, WorkerTables, BrokerTables

LEMMA LastFinishType ==
  ASSUME TypeInv, NEW b \in Brokers, NEW r \in RunId,
         FinishFailed(b, r) \/ FinishUnknown(b, r)
  PROVE TypeOK'
<1>1. workers[b][r].defers \in 0..MaxDefer /\ workers[b][r].run \in RunId
  BY ActorRuns DEF TypeInv, TypeOK, Worker, FinishFailed, FinishUnknown, At
<1>2. 0 \in 0..MaxDefer /\ "failed" \in TerminalRunStates /\ "unknown" \in TerminalRunStates
  BY ChatConstants DEF TerminalRunStates
<1>3. workers' \in WorkerTables /\ brokers' \in BrokerTables
  BY <1>1, <1>2, EndingType, WorkerStepNames DEF FinishFailed, FinishUnknown
<1>4. StoreTypeOK'
  BY <1>1, <1>2, FinishTypes DEF TypeInv, FinishFailed, FinishUnknown
<1> QED
  BY <1>3, <1>4 DEF TypeInv, TypeOK, FinishFailed, FinishUnknown, WorkerTables, BrokerTables

LEMMA BusyType ==
  ASSUME TypeInv, NEW b \in Brokers, NEW r \in RunId, Busy(b, r) PROVE TypeOK'
<1>1. workers[b][r].defers \in 0..MaxDefer
  BY DEF TypeInv, TypeOK, Worker
<1>2. workers' \in WorkerTables /\ brokers' \in BrokerTables
  BY <1>1, EndingType, WorkerStepNames DEF Busy
<1>3. faults' \in 0..MaxFaults
  BY ChatConstants DEF TypeInv, TypeOK, Busy
<1> QED
  BY <1>2, <1>3 DEF TypeInv, TypeOK, Busy, WorkerTables, BrokerTables, StoreTypeOK, storeVars

LEMMA ProcessExitsType ==
  ASSUME TypeInv, NEW p \in RunId, ProcessExits(p) PROVE TypeOK'
<1>1. procs' \in [RunId -> Process]
  BY DEF TypeInv, TypeOK, ProcessExits, Process
<1> QED
  BY <1>1 DEF TypeInv, TypeOK, ProcessExits, StoreTypeOK, storeVars

LEMMA ReapGoneType ==
  ASSUME TypeInv, NEW r \in RunId, ReapGone(r) PROVE TypeOK'
BY FinishInterruptedType DEF TypeInv, TypeOK, ReapGone

LEMMA TakeAimType ==
  ASSUME TypeInv, NEW r \in RunId, TakeAim(r) PROVE TypeOK'
<1>1. r \in 0..MaxRun /\ runs[r].pid \in Pid
  BY StoreConstants DEF TypeInv, TypeOK, StoreTypeOK, Run, RunId
<1>2. [run |-> r, pid |-> runs[r].pid, struck |-> FALSE] \in Aim
  BY <1>1 DEF Aim
<1> QED
  BY <1>2 DEF TypeInv, TypeOK, TakeAim, StoreTypeOK, storeVars

LEMMA StrikeType ==
  ASSUME TypeInv, Strike PROVE TypeOK'
<1>1. reaper' \in Aim
  BY Zenon DEF TypeInv, TypeOK, Strike, Aim
<1>2. CASE Interrupt(reaper.run)
  BY <1>1, <1>2, InterruptType
     DEF TypeInv, TypeOK, Strike, WorkerTables, BrokerTables, ProcessTables
<1>3. CASE Tell({reaper.pid}) /\ UNCHANGED <<storeVars, workers, brokers>>
  BY <1>1, <1>3, TellType
     DEF TypeInv, TypeOK, Strike, ProcessTables, StoreTypeOK, storeVars
<1>4. CASE /\ procs' = [procs EXCEPT ![reaper.pid].state = "gone"]
           /\ UNCHANGED <<storeVars, workers, brokers>>
  <2>1. procs' \in [RunId -> Process]
    BY <1>4 DEF TypeInv, TypeOK, Process
  <2> QED
    BY <1>1, <1>4, <2>1 DEF TypeInv, TypeOK, Strike, StoreTypeOK, storeVars
<1> QED
  BY <1>2, <1>3, <1>4 DEF Strike

LEMMA SettleType ==
  ASSUME TypeInv, Settle PROVE TypeOK'
<1>1. reaper.run \in RunId
  BY ActorRuns DEF Settle
<1>2. StoreTypeOK'
  <2>1. CASE \E label \in {"interrupt", "SIGTERM"} : RecordSignal(reaper.run, reaper.pid, label)
    BY <1>1, <2>1, RecordSignalType DEF TypeInv, TypeOK
  <2>2. CASE FinishInterrupted(reaper.run, reaper.pid)
    BY <1>1, <2>2, FinishInterruptedType DEF TypeInv, TypeOK
  <2>3. CASE UNCHANGED storeVars
    BY <2>3 DEF TypeInv, TypeOK, StoreTypeOK, storeVars
  <2> QED
    BY <2>1, <2>2, <2>3 DEF Settle
<1>3. reaper' \in Aim
  BY StoreConstants DEF Settle, NotAiming, Aim, Pid
<1> QED
  BY <1>2, <1>3 DEF TypeInv, TypeOK, Settle

LEMMA StutterType ==
  ASSUME TypeInv, UNCHANGED vars PROVE TypeInv'
BY DEF TypeInv, TypeOK, StoreTypeOK, ActorsNameRuns, WorkersNameRuns, vars

-----------------------------------------------------------------------------
(* What a step of one worker thread does to the table of workers. *)

LEMMA RowUpdate ==
  ASSUME NEW f \in WorkerTables, NEW b \in Brokers, NEW r \in RunId, NEW x
  PROVE \A o \in Brokers, q \in RunId :
          [f EXCEPT ![b][r] = x][o][q] = IF o = b /\ q = r THEN x ELSE f[o][q]
BY DEF WorkerTables

LEMMA RowFields ==
  \A w \in Worker : \A v :
    /\ [w EXCEPT !.pc = v].pc = v /\ [w EXCEPT !.pc = v].run = w.run
    /\ [w EXCEPT !.run = v].pc = w.pc /\ [w EXCEPT !.run = v].run = v
    /\ [w EXCEPT !.pid = v].pc = w.pc /\ [w EXCEPT !.pid = v].run = w.run
    /\ [w EXCEPT !.held = v].pc = w.pc /\ [w EXCEPT !.held = v].run = w.run
    /\ [w EXCEPT !.defers = v].pc = w.pc /\ [w EXCEPT !.defers = v].run = w.run
    /\ [w EXCEPT !.attached = v].pc = w.pc /\ [w EXCEPT !.attached = v].run = w.run
    /\ [w EXCEPT !.stop = v].pc = w.pc /\ [w EXCEPT !.stop = v].run = w.run
BY DEF Worker

(* The row of one worker became x, and no other row changed. *)
RowBecomes(b, r, x) == workers' = [workers EXCEPT ![b][r] = x]

(* Only the row of the worker that steps changes; it keeps naming a run; and
   it comes to launch only by marking that run starting. *)
Steps(b, r) ==
  /\ \A o \in Brokers, q \in RunId :
       (o # b \/ q # r) => workers'[o][q] = workers[o][q]
  /\ workers'[b][r].pc # "idle" => workers[b][r].pc # "idle" /\ workers'[b][r].run # 0
  /\ workers'[b][r].pc = "launch" => Mark(b, r) /\ MarkStarting(r, b)

LEMMA RowSteps ==
  ASSUME TypeInv, NEW b \in Brokers, NEW r \in RunId, NEW x, RowBecomes(b, r, x),
         x.pc # "idle" => workers[b][r].pc # "idle" /\ x.run # 0,
         x.pc = "launch" => Mark(b, r) /\ MarkStarting(r, b)
  PROVE Steps(b, r)
<1>1. workers \in WorkerTables
  BY DEF TypeInv, TypeOK, WorkerTables
<1>2. \A o \in Brokers, q \in RunId :
        workers'[o][q] = IF o = b /\ q = r THEN x ELSE workers[o][q]
  BY <1>1, RowUpdate DEF RowBecomes
<1> QED
  BY <1>2 DEF Steps

LEMMA LeaveSteps ==
  ASSUME TypeInv, NEW b \in Brokers, NEW r \in RunId, NEW defers, Leave(b, r, defers)
  PROVE Steps(b, r)
<1> DEFINE x == [IdleWorker EXCEPT !.defers = defers]
<1>1. RowBecomes(b, r, x)
  BY DEF Leave, RowBecomes
<1>2. x.pc = "idle"
  BY DEF IdleWorker
<1> HIDE DEF x
<1> QED
  BY <1>1, <1>2, RowSteps

LEMMA GotoSteps ==
  ASSUME TypeInv, NEW b \in Brokers, NEW r \in RunId, NEW step, Goto(b, r, step),
         workers[b][r].pc # "idle",
         step = "launch" => Mark(b, r) /\ MarkStarting(r, b)
  PROVE Steps(b, r)
<1> DEFINE x == [workers[b][r] EXCEPT !.pc = step]
<1>1. RowBecomes(b, r, x)
  BY DEF Goto, RowBecomes
<1>2. x.pc = step /\ x.run = workers[b][r].run /\ workers[b][r].run # 0
  BY RowFields DEF TypeInv, TypeOK, ActorsNameRuns, WorkersNameRuns
<1> HIDE DEF x
<1> QED
  BY <1>1, <1>2, RowSteps

(* A step that moves a worker on and sets another of its fields. *)
LEMMA MoveSteps ==
  ASSUME TypeInv, NEW b \in Brokers, NEW r \in RunId, NEW x, RowBecomes(b, r, x),
         workers[b][r].pc # "idle", x.pc # "launch", x.run # 0
  PROVE Steps(b, r)
BY RowSteps

(* Two fields of a row set at once are set one after the other. *)
LEMMA TwoFields ==
  ASSUME NEW w \in Worker, NEW step \in WorkerStep
  PROVE /\ \A v : LET x == [w EXCEPT !.pc = step, !.attached = v]
                IN x.pc = step /\ x.run = w.run
        /\ \A v : LET x == [w EXCEPT !.pc = step, !.pid = v]
                IN x.pc = step /\ x.run = w.run
        /\ \A v : LET x == [w EXCEPT !.pc = step, !.held = v]
                IN x.pc = step /\ x.run = w.run
        /\ \A v : LET x == [w EXCEPT !.pc = step, !.defers = v]
                IN x.pc = step /\ x.run = w.run
        /\ \A v : LET x == [w EXCEPT !.pc = step, !.run = v]
                IN x.pc = step /\ x.run = v
BY DEF Worker

LEMMA WorkerNextSteps ==
  ASSUME TypeInv, NEW b \in Brokers, NEW r \in RunId, WorkerNext(b, r)
  PROVE Steps(b, r)
<1> DEFINE w == workers[b][r]
<1>w. /\ w \in Worker /\ (w.pc # "idle" => w.run # 0)
      /\ workers \in [Brokers -> [RunId -> Worker]]
  BY DEF TypeInv, TypeOK, ActorsNameRuns, WorkersNameRuns
<1>1. CASE w.pc # "idle" /\ \E step \in WorkerStep \ {"launch"} : Goto(b, r, step)
  BY <1>1, GotoSteps
<1>2. CASE \E defers : Leave(b, r, defers)
  BY <1>2, LeaveSteps
<1>3. ASSUME w.pc # "idle", NEW step \in {"stream", "reconcile"},
             workers' = [workers EXCEPT ![b][r].pc = step, ![b][r].attached = TRUE]
      PROVE Steps(b, r)
  <2> DEFINE x == [w EXCEPT !.pc = step, !.attached = TRUE]
  <2>1. x.pc = step /\ x.run = w.run
    BY <1>3, <1>w, TwoFields, WorkerStepNames
  <2>2. RowBecomes(b, r, x)
    BY <1>3, <1>w DEF RowBecomes
  <2> QED
    BY <1>3, <1>w, <2>1, <2>2, MoveSteps
<1>4. ASSUME w.pc # "idle", NEW step \in {"mark", "failed"},
             workers' = [workers EXCEPT ![b][r].pc = step, ![b][r].defers = 0]
      PROVE Steps(b, r)
  <2> DEFINE x == [w EXCEPT !.pc = step, !.defers = 0]
  <2>1. x.pc = step /\ x.run = w.run
    BY <1>4, <1>w, TwoFields, WorkerStepNames
  <2>2. RowBecomes(b, r, x)
    BY <1>4, <1>w DEF RowBecomes
  <2> QED
    BY <1>4, <1>w, <2>1, <2>2, MoveSteps
<1>5. ASSUME w.pc # "idle",
             workers' = [workers EXCEPT ![b][r].pc = "record", ![b][r].pid = r]
      PROVE Steps(b, r)
  <2> DEFINE x == [w EXCEPT !.pc = "record", !.pid = r]
  <2>1. x.pc = "record" /\ x.run = w.run
    BY <1>5, <1>w, TwoFields, WorkerStepNames
  <2>2. RowBecomes(b, r, x)
    BY <1>5, <1>w DEF RowBecomes
  <2> QED
    BY <1>5, <1>w, <2>1, <2>2, MoveSteps
<1>6. ASSUME w.pc # "idle",
             workers' = [workers EXCEPT ![b][r].pc = "linger", ![b][r].held = NoRow]
      PROVE Steps(b, r)
  <2> DEFINE x == [w EXCEPT !.pc = "linger", !.held = NoRow]
  <2>1. x.pc = "linger" /\ x.run = w.run
    BY <1>6, <1>w, TwoFields, WorkerStepNames
  <2>2. RowBecomes(b, r, x)
    BY <1>6, <1>w DEF RowBecomes
  <2> QED
    BY <1>6, <1>w, <2>1, <2>2, MoveSteps
<1>7. ASSUME w.pc # "idle", NEW next \in RunId,
             workers' = [workers EXCEPT ![b][r].pc = "stream", ![b][r].run = next]
      PROVE Steps(b, r)
  <2> DEFINE x == [w EXCEPT !.pc = "stream", !.run = next]
  <2>1. x.pc = "stream" /\ x.run = next
    BY <1>7, <1>w, TwoFields, WorkerStepNames
  <2>2. RowBecomes(b, r, x)
    BY <1>7, <1>w DEF RowBecomes
  <2> QED
    <3>1. next # 0
      BY <1>7 DEF RunId
    <3> HIDE DEF x
    <3> QED
      BY <1>7, <2>1, <2>2, <3>1, MoveSteps
<1>8. CASE Mark(b, r)
  BY <1>1, <1>8, GotoSteps, WorkerStepNames DEF Mark, At
<1>9. CASE Result(b, r)
  <2>1. PICK o : workers' = [workers EXCEPT ![b][r].held = o]
    BY <1>9 DEF Result
  <2> DEFINE x == [w EXCEPT !.held = o]
  <2>2. x.pc = w.pc /\ x.run = w.run /\ w.pc \in {"stream", "linger"}
    BY <1>9, <1>w, RowFields DEF Result
  <2>3. RowBecomes(b, r, x)
    BY <2>1 DEF RowBecomes
  <2> QED
    BY <1>w, <2>2, <2>3, MoveSteps
<1>10. CASE Activate(b, r)
  BY <1>1, <1>3, <1>10, WorkerStepNames DEF Activate
<1>11. CASE Prepare(b, r)
  BY <1>1, <1>2, <1>11, WorkerStepNames DEF Prepare, At
<1>12. CASE Bind(b, r)
  BY <1>1, <1>4, <1>12, WorkerStepNames DEF Bind, At
<1>13. CASE Launch(b, r)
  BY <1>1, <1>5, <1>13, WorkerStepNames DEF Launch, At
<1>14. CASE Record(b, r)
  BY <1>1, <1>14, WorkerStepNames DEF Record, At
<1>15. CASE Orphaned(b, r) \/ Release(b, r)
  BY <1>2, <1>15 DEF Orphaned, Release
<1>16. CASE Linger(b, r)
  BY <1>1, <1>6, <1>16, WorkerStepNames DEF Linger, At
<1>17. CASE Resume(b, r)
  BY <1>1, <1>2, <1>7, <1>17, WorkerStepNames DEF Resume, At
<1>18. CASE StreamEnds(b, r) \/ StreamBreaks(b, r)
  BY <1>1, <1>2, <1>18, WorkerStepNames DEF StreamEnds, StreamBreaks, EndOfStream, At
<1>19. CASE \E o \in TerminalRunStates : Reconcile(b, r, o)
  BY <1>1, <1>2, <1>19, WorkerStepNames DEF Reconcile, At
<1>20. CASE FinishFailed(b, r) \/ FinishUnknown(b, r)
  BY <1>1, <1>2, <1>20, WorkerStepNames DEF FinishFailed, FinishUnknown, At
<1>21. CASE Busy(b, r)
  BY <1>1, <1>2, <1>21, WorkerStepNames DEF Busy
<1> QED
  BY <1>8, <1>9, <1>10, <1>11, <1>12, <1>13, <1>14, <1>15, <1>16, <1>17, <1>18, <1>19,
     <1>20, <1>21 DEF WorkerNext

(* The other steps start no launch, and the workers that they create name
   the run they are created for. *)
LEMMA BrokerNextSteps ==
  ASSUME TypeInv, NEW b \in Brokers, NEW r \in RunId
  PROVE /\ Recover(b, r) => \/ UNCHANGED workers
                            \/ \E x : /\ RowBecomes(b, r, x) /\ x.run = r
                                      /\ x.pc \in LiveRunStates
        /\ workers' = [workers EXCEPT ![b][r] = [IdleWorker EXCEPT !.pc = "leased", !.run = r]]
             => \E x : /\ RowBecomes(b, r, x) /\ x.run = r /\ x.pc \in LiveRunStates
<1> DEFINE w == workers[b][r]
<1>w. w \in Worker /\ workers \in [Brokers -> [RunId -> Worker]]
  BY DEF TypeInv, TypeOK
<1>1. ASSUME Recover(b, r), workers' # workers
      PROVE \E x : RowBecomes(b, r, x) /\ x.run = r /\ x.pc \in LiveRunStates
  <2> DEFINE x == [w EXCEPT !.pc = runs[r].state, !.run = r, !.pid = runs[r].pid,
                            !.stop = runs[r].stop]
  <2>1. RowBecomes(b, r, x)
    BY <1>1 DEF Recover, RowBecomes
  <2>2. x.run = r /\ x.pc = runs[r].state
    BY <1>w DEF Worker
  <2>3. runs[r].state \in LiveRunStates
    BY <1>1 DEF Recover, AdoptRun, Live
  <2> HIDE DEF x
  <2> QED
    BY <2>1, <2>2, <2>3
<1>2. ASSUME workers' = [workers EXCEPT ![b][r] =
                           [IdleWorker EXCEPT !.pc = "leased", !.run = r]]
      PROVE \E x : RowBecomes(b, r, x) /\ x.run = r /\ x.pc \in LiveRunStates
  <2> DEFINE x == [IdleWorker EXCEPT !.pc = "leased", !.run = r]
  <2>1. x.run = r /\ x.pc \in LiveRunStates
    BY DEF IdleWorker, LiveRunStates
  <2>2. RowBecomes(b, r, x)
    BY <1>2 DEF RowBecomes
  <2> HIDE DEF x
  <2> QED
    BY <2>1, <2>2
<1> QED
  BY <1>1, <1>2 DEF Recover

(* Being told to stop changes neither the step nor the run of a worker. *)
LEMMA InterruptKeepsSteps ==
  ASSUME TypeInv, NEW r, Interrupt(r)
  PROVE \A o \in Brokers, q \in RunId :
          workers'[o][q].pc = workers[o][q].pc /\ workers'[o][q].run = workers[o][q].run
<1>1. ASSUME NEW b \in Brokers, NEW q \in RunId, Deliver(b, q)
      PROVE \A o \in Brokers, p \in RunId :
              workers'[o][p].pc = workers[o][p].pc /\ workers'[o][p].run = workers[o][p].run
  <2> DEFINE x == [workers[b][q] EXCEPT !.stop = TRUE]
  <2>1. x.pc = workers[b][q].pc /\ x.run = workers[b][q].run
    BY RowFields DEF TypeInv, TypeOK
  <2>2. workers' = [workers EXCEPT ![b][q] = x] /\ workers \in WorkerTables
    BY <1>1 DEF Deliver, TypeInv, TypeOK, WorkerTables
  <2> HIDE DEF x
  <2> QED
    BY <2>1, <2>2, RowUpdate
<1> QED
  BY <1>1 DEF Interrupt

(* Every action leaves workers and reaper with a run to work on. *)
LEMMA NextNamesRuns ==
  ASSUME TypeInv, Next PROVE ActorsNameRuns'
<1>1. WorkersNameRuns /\ (reaper # NotAiming => reaper.run # 0)
  BY DEF TypeInv, ActorsNameRuns
<1>2. CASE UNCHANGED <<workers, reaper>>
  BY <1>1, <1>2 DEF ActorsNameRuns, WorkersNameRuns
<1>3. ASSUME NEW b \in Brokers, NEW r \in RunId, NEW x, RowBecomes(b, r, x), x.run = r
      PROVE WorkersNameRuns'
  BY <1>1, <1>3, RowUpdate
     DEF RowBecomes, WorkersNameRuns, TypeInv, TypeOK, WorkerTables, RunId
<1>4. ASSUME NEW b \in Brokers, NEW r \in RunId, WorkerNext(b, r)
      PROVE ActorsNameRuns'
  <2>1. WorkersNameRuns'
    BY <1>1, <1>4, WorkerNextSteps DEF Steps, WorkersNameRuns
  <2>2. UNCHANGED reaper
    BY <1>4 DEF WorkerNext, Activate, Prepare, Bind, Mark, Launch, Record, Result,
                Orphaned, Linger, Resume, StreamEnds, StreamBreaks, EndOfStream, Release,
                Reconcile, FinishFailed, FinishUnknown, Busy
  <2> QED
    BY <1>1, <2>1, <2>2 DEF ActorsNameRuns
<1>5. ASSUME NEW b \in Brokers, NEW r \in RunId, Recover(b, r)
      PROVE ActorsNameRuns'
  <2>1. WorkersNameRuns'
    BY <1>1, <1>3, <1>5, BrokerNextSteps DEF WorkersNameRuns
  <2> QED
    BY <1>1, <1>5, <2>1 DEF ActorsNameRuns, Recover
<1>6. ASSUME NEW b \in Brokers, Dispatch(b) PROVE ActorsNameRuns'
  <2>1. WorkersNameRuns'
    BY <1>3, <1>6, BrokerNextSteps DEF Dispatch
  <2> QED
    BY <1>1, <1>6, <2>1 DEF ActorsNameRuns, Dispatch
<1>7. ASSUME NEW b \in Brokers, CrashBroker(b) PROVE ActorsNameRuns'
  BY <1>1, <1>7
     DEF ActorsNameRuns, WorkersNameRuns, CrashBroker, IdleWorker, TypeInv, TypeOK
<1>8. ASSUME NEW b \in Brokers, BrokerNext(b) PROVE ActorsNameRuns'
  BY <1>2, <1>4, <1>5, <1>6, <1>7, <1>8
     DEF BrokerNext, StartBroker, NothingToDispatch, Heartbeat
<1>9. ASSUME NEW r, Interrupt(r) PROVE WorkersNameRuns'
  BY <1>1, <1>9, InterruptKeepsSteps DEF WorkersNameRuns
<1>10. CASE Strike
  <2>1. reaper'.run = reaper.run /\ reaper.run # 0
    BY <1>1, <1>10, Zenon DEF Strike, TypeInv, TypeOK, Aim
  <2> QED
    BY <1>1, <1>9, <1>10, <2>1 DEF Strike, ActorsNameRuns, WorkersNameRuns
<1>11. ASSUME NEW r \in RunId, TakeAim(r) PROVE ActorsNameRuns'
  BY <1>1, <1>11 DEF TakeAim, ActorsNameRuns, WorkersNameRuns, RunId
<1>12. CASE Settle
  BY <1>1, <1>12 DEF Settle, ActorsNameRuns, WorkersNameRuns
<1>13. ASSUME NEW c \in Chats, Stop(c) PROVE ActorsNameRuns'
  BY <1>1, <1>9, <1>13 DEF Stop, ActorsNameRuns, WorkersNameRuns
<1> QED
  BY <1>2, <1>8, <1>10, <1>11, <1>12, <1>13
     DEF Next, ApiNext, BeginCreate, EndCreate, Send, Close, DisplaceInactive,
         DisplaceForWake, Expire, Stall, ProcessExits, ReaperNext, ReapGone

(* Every action keeps the types. *)
LEMMA NextType ==
  ASSUME TypeInv, Next PROVE TypeOK'
<1>1. TypeOK
  BY DEF TypeInv
<1>2. ASSUME NEW b \in Brokers, NEW r \in RunId, WorkerNext(b, r) PROVE TypeOK'
  BY <1>1, <1>2, ActivateType, PrepareType, BindType, MarkType, LaunchType, RecordType,
     ResultType, OrphanedType, LingerType, ResumeType, EndOfStreamType, ReleaseType,
     ReconcileType, LastFinishType, BusyType
     DEF WorkerNext, StreamEnds, StreamBreaks
<1>3. ASSUME NEW b \in Brokers, BrokerNext(b) PROVE TypeOK'
  BY <1>1, <1>2, <1>3, BrokerLifeType, DispatchType, RecoverType, LeaseType DEF BrokerNext
<1>4. CASE ApiNext
  BY <1>1, <1>4, BeginCreateType, EndCreateType, SendType, CloseType, StopType DEF ApiNext
<1>5. CASE DisplaceInactive \/ DisplaceForWake
  BY <1>1, <1>5, DisplacementType
<1>6. CASE \E r \in RunId : Expire(r) \/ Stall(r) \/ ProcessExits(r)
  BY <1>1, <1>6, LeaseType, ProcessExitsType
<1>7. CASE ReaperNext
  BY <1>7, ReapGoneType, TakeAimType, StrikeType, SettleType DEF ReaperNext
<1> QED
  BY <1>3, <1>4, <1>5, <1>6, <1>7 DEF Next

LEMMA InitType ==
  ASSUME Init PROVE TypeInv
<1>1. StoreTypeOK
  <2>1. NoRun \in Run /\ NoMessage \in Message /\ EmptySlot \in Slot
    BY StoreConstants DEF NoRun, Run, NoMessage, Message, EmptySlot, Slot, Pid
  <2> QED
    BY <2>1 DEF Init, StoreInit, StoreTypeOK, Chat
<1>2. sent \in [MessageId -> Nat] /\ procs \in [RunId -> Process]
  BY DEF Init, Process
<1>3. brokers \in [Brokers -> [state : {"new", "up", "down"}, wake : BOOLEAN]]
  BY DEF Init
<1>4. workers \in [Brokers -> [RunId -> Worker]]
  BY IdleWorkerType DEF Init
<1>5. /\ reaper \in Aim /\ creating \subseteq Chats
      /\ faults \in 0..MaxFaults /\ acts \in 0..MaxActs
  BY StoreConstants, ChatConstants DEF Init, NotAiming, Aim, Pid
<1>6. ActorsNameRuns
  BY DEF Init, ActorsNameRuns, WorkersNameRuns, IdleWorker
<1> QED
  BY <1>1, <1>2, <1>3, <1>4, <1>5, <1>6 DEF TypeInv, TypeOK

LEMMA StepType ==
  ASSUME TypeInv, [Next]_vars PROVE TypeInv'
<1>1. CASE Next
  BY <1>1, NextType, NextNamesRuns DEF TypeInv
<1> QED
  BY <1>1, StutterType

(* The types of the tables, of the threads and of the processes are kept by
   every step of every actor. *)
THEOREM TypesAreKept == Spec => []TypeOK
<1>1. Init => TypeInv
  BY InitType
<1>2. TypeInv /\ [Next]_vars => TypeInv'
  BY StepType
<1>3. TypeInv => TypeOK
  BY DEF TypeInv
<1> QED
  BY <1>1, <1>2, <1>3, PTL DEF Spec

-----------------------------------------------------------------------------
(* Which transaction each action makes.  An action that reads the tables without
   a transaction leaves them alone. *)
Transaction == StoreNext \/ UNCHANGED storeVars

LEMMA InterruptTransaction ==
  ASSUME TypeInv, NEW r \in RunId, Interrupt(r) PROVE Transaction
BY ActorRuns DEF Interrupt, Deliver, Executes, InFlight, Transaction, StoreNext

LEMMA FinishTransaction ==
  ASSUME NEW b \in Brokers, NEW q \in RunId, NEW outcome \in TerminalRunStates,
         NEW keepLink \in BOOLEAN, NEW exited \in BOOLEAN, exited => ~keepLink,
         FinishOrSkip(q, outcome, keepLink, exited) \/ FinishRefused(q, outcome)
  PROVE Transaction
BY DEF FinishOrSkip, FinishRefused, Transaction, StoreNext, BrokerTransaction

LEMMA WorkerTransaction ==
  ASSUME TypeInv, NEW b \in Brokers, NEW r \in RunId, WorkerNext(b, r)
  PROVE Transaction
<1> DEFINE w == workers[b][r]
<1>w. w \in Worker /\ (w.pc # "idle" => w.run \in RunId)
  BY ActorRuns DEF TypeInv, TypeOK
<1>1. CASE UNCHANGED storeVars
  BY <1>1 DEF Transaction
<1>2. CASE Prepare(b, r)
  BY <1>1, <1>2 DEF Prepare, Transaction, StoreNext, BrokerTransaction, storeVars
<1>3. CASE Bind(b, r) \/ Mark(b, r)
  BY <1>1, <1>3 DEF Bind, Mark, Transaction, StoreNext, BrokerTransaction
<1>4. CASE Record(b, r)
  <2>1. ASSUME NEW p \in {0, r}, MarkNativeStarted(r, b, p) PROVE Transaction
    BY <2>1 DEF Transaction, StoreNext, BrokerTransaction
  <2> QED
    BY <1>1, <1>4, <2>1 DEF Record
<1>5. ASSUME NEW outcome \in TerminalRunStates, NEW keepLink \in BOOLEAN, NEW exited \in BOOLEAN,
             exited => ~keepLink, w.pc # "idle",
             FinishOrSkip(w.run, outcome, keepLink, exited) \/ FinishRefused(w.run, outcome)
      PROVE Transaction
  BY <1>w, <1>5, FinishTransaction
<1>6. w.held # NoRow => HeldOutcome(w) \in TerminalRunStates
  BY <1>w DEF Worker, HeldOutcome, TerminalRunStates
<1>7. CASE Linger(b, r)
  BY <1>5, <1>6, <1>7 DEF Linger, At
<1>8. CASE StreamEnds(b, r) \/ StreamBreaks(b, r)
  BY <1>1, <1>5, <1>6, <1>8 DEF StreamEnds, StreamBreaks, EndOfStream, At
<1>9. CASE Resume(b, r)
  <2>1. w.run \in RunId
    BY <1>w, <1>9 DEF Resume, At
  <2>2. ASSUME NEW next \in RunId, OpenContinuation(w.run, next, b) PROVE Transaction
    BY <2>1, <2>2 DEF Transaction, StoreNext, BrokerTransaction
  <2> QED
    BY <1>1, <1>9, <2>2 DEF Resume
<1>10. CASE Release(b, r)
  <2>1. w.run \in RunId
    BY <1>w, <1>10 DEF Release, At
  <2> QED
    BY <1>10, <2>1 DEF Release, Transaction, StoreNext, BrokerTransaction
<1>11. CASE \E o \in TerminalRunStates : Reconcile(b, r, o)
  BY <1>5, <1>11 DEF Reconcile, At
<1>12. CASE FinishFailed(b, r) \/ FinishUnknown(b, r)
  <2>1. "failed" \in TerminalRunStates /\ "unknown" \in TerminalRunStates
    BY DEF TerminalRunStates
  <2> QED
    BY <1>5, <1>12, <2>1 DEF FinishFailed, FinishUnknown, At
<1> QED
  BY <1>1, <1>2, <1>3, <1>4, <1>7, <1>8, <1>9, <1>10, <1>11, <1>12
     DEF WorkerNext, Activate, Launch, Result, Orphaned, Busy

LEMMA NextTransaction ==
  ASSUME TypeInv, Next PROVE Transaction
<1>1. CASE UNCHANGED storeVars
  BY <1>1 DEF Transaction
<1>2. ASSUME NEW c \in Chats, BeginCreate(c) \/ EndCreate(c) \/ Close(c) \/ Send(c)
      PROVE Transaction
  BY <1>1, <1>2
     DEF BeginCreate, EndCreate, Close, Send, Transaction, StoreNext, ApiTransaction
<1>3. ASSUME NEW c \in Chats, Stop(c) PROVE Transaction
  BY <1>1, <1>3, InterruptTransaction DEF Stop
<1>4. CASE DisplaceInactive \/ DisplaceForWake
  BY <1>4 DEF DisplaceInactive, DisplaceForWake, Transaction, StoreNext, ApiTransaction
<1>5. ASSUME NEW b \in Brokers, BrokerNext(b) PROVE Transaction
  <2>1. CASE Dispatch(b)
    BY <2>1 DEF Dispatch, Transaction, StoreNext, BrokerTransaction
  <2>2. CASE Heartbeat(b)
    <3> DEFINE ids == {workers[b][r].run : r \in {q \in RunId : InFlight(b, q)}}
    <3>1. ids \in SUBSET Pid
      BY DEF TypeInv, TypeOK, Worker, Pid
    <3>2. RenewRuns(ids, b)
      BY <2>2 DEF Heartbeat
    <3> HIDE DEF ids
    <3> QED
      BY <3>1, <3>2 DEF Transaction, StoreNext, BrokerTransaction
  <2>3. ASSUME NEW r \in RunId, Recover(b, r) PROVE Transaction
    BY <2>3 DEF Recover, Transaction, StoreNext, BrokerTransaction
  <2> QED
    BY <1>1, <1>5, <2>1, <2>2, <2>3, WorkerTransaction
       DEF BrokerNext, StartBroker, CrashBroker, NothingToDispatch
<1>6. CASE \E r \in RunId : Expire(r) \/ Stall(r) \/ ProcessExits(r)
  BY <1>1, <1>6 DEF Expire, Stall, ProcessExits, Transaction, StoreNext
<1>7. ASSUME NEW r \in RunId, ReapGone(r) \/ TakeAim(r) PROVE Transaction
  <2>1. runs[r].pid \in Pid
    BY DEF TypeInv, TypeOK, StoreTypeOK, Run
  <2> QED
    BY <1>1, <1>7, <2>1 DEF ReapGone, TakeAim, Transaction, StoreNext, ReaperTransaction
<1>8. CASE Strike
  BY <1>1, <1>8, ActorRuns, InterruptTransaction DEF Strike
<1>9. CASE Settle
  <2>1. reaper.run \in RunId /\ reaper.pid \in Pid
    BY <1>9, ActorRuns DEF Settle, TypeInv, TypeOK, Aim
  <2> QED
    BY <1>1, <1>9, <2>1 DEF Settle, Transaction, StoreNext, ReaperTransaction
<1> QED
  BY <1>2, <1>3, <1>4, <1>5, <1>6, <1>7, <1>8, <1>9 DEF Next, ApiNext, ReaperNext

LEMMA StepTransaction ==
  ASSUME TypeInv, [Next]_vars PROVE [StoreNext]_storeVars
BY NextTransaction DEF Transaction, vars, storeVars

(* Threads, processes and restarts add nothing to what the tables may do: the
   whole system is the tables under their transactions. *)
THEOREM ChatsMakeTransactions == Spec => StoreSpec
<1>1. Init => TypeInv /\ StoreInit
  BY InitType DEF Init
<1>2. TypeInv /\ [Next]_vars => TypeInv'
  BY StepType
<1>3. TypeInv /\ [Next]_vars => [StoreNext]_storeVars
  BY StepTransaction
<1> QED
  BY <1>1, <1>2, <1>3, PTL DEF Spec, StoreSpec

LEMMA StoreInvHolds == Spec => []StoreInv
BY ChatsMakeTransactions, StoreIsConsistent, PTL

(* Claiming, deferring, adopting, continuing, finishing and reaping keep the
   shell's mutation lock: never are two runs live. *)
THEOREM OneTurn == Spec => []OneTurnAtATime
<1>1. StoreInv => OneTurnAtATime
  BY DEF StoreInv, RowsOK
<1> QED
  BY <1>1, StoreInvHolds, PTL

(* prepare_chat, the closes and the reaper's finish leave the registry on the one
   open chat of the shell, or on none. *)
THEOREM RegistryFollowsChats == Spec => []RegistryNamesOpenChat
<1>1. StoreInv => RegistryNamesOpenChat
  BY DEF StoreInv, ChatsOK
<1> QED
  BY <1>1, StoreInvHolds, PTL

(* Binding, continuing, releasing and reaping leave no link of the registry
   without the row of runs that recorded its process. *)
THEOREM LinksAreBacked == Spec => []LinkIsBacked
<1>1. StoreInv => LinkIsBacked
  BY DEF StoreInv, ChatsOK
<1> QED
  BY <1>1, StoreInvHolds, PTL

(* However sends, claims and finishes alternate, a chat shown as idle has no
   prompt that waits. *)
THEOREM IdleQueuesAreEmpty == Spec => []IdleChatHasEmptyQueue
<1>1. StoreInv => IdleChatHasEmptyQueue
  BY DEF StoreInv, ChatsOK
<1> QED
  BY <1>1, StoreInvHolds, PTL

(* A prompt shown as running has a live run, after every crash and takeover: no
   turn is left to which nobody will answer. *)
THEOREM TurnsAreBacked == Spec => []NoStrandedTurn
<1>1. StoreInv => NoStrandedTurn
  BY DEF StoreInv, ChatsOK
<1> QED
  BY <1>1, StoreInvHolds, PTL

(* A run's end and its prompt's end are written together and say the same,
   whether the broker or the reaper writes them. *)
THEOREM OutcomesAlwaysAgree == Spec => []OutcomesAgree
<1>1. StoreInv => OutcomesAgree
  BY DEF StoreInv, RowsOK, TurnRows, OutcomesAgree, Terminal, TerminalRunStates, Live,
         LiveRunStates, NoRow
<1> QED
  BY <1>1, StoreInvHolds, PTL

(* No transaction changes the state of a run, or of a prompt, that has ended. *)
THEOREM EndsAreFinal == Spec => FinalStatesAreFinal
<1>1. TypeInv /\ StoreInv /\ [Next]_vars => [FinalKept]_vars
  BY StepTransaction, StoreStepKeeps, StoreStutters
<1>2. Init => TypeInv
  BY InitType
<1>3. TypeInv /\ [Next]_vars => TypeInv'
  BY StepType
<1> QED
  BY <1>1, <1>2, <1>3, StoreInvHolds, PTL DEF Spec, FinalStatesAreFinal

-----------------------------------------------------------------------------
(* The reaper. *)

(* The process that the reaper aims at was recorded, so nobody links it anew:
   it is not the registry's from the first look to the last transaction. *)
AimIsStray == reaper # NotAiming =>
  reaper.pid \in RunId /\ Recorded(reaper.pid) /\ ~Linked(reaper.pid)

LEMMA ReaperMoves ==
  ASSUME TypeInv, [Next]_vars
  PROVE \/ reaper' = NotAiming
        \/ reaper # NotAiming /\ reaper'.pid = reaper.pid
        \/ \E r \in RunId : TakeAim(r)
<1>1. CASE UNCHANGED reaper
  BY <1>1
<1>2. CASE Strike
  <2>1. reaper' = [reaper EXCEPT !.struck = TRUE] /\ reaper \in Aim /\ reaper # NotAiming
    BY <1>2 DEF Strike, TypeInv, TypeOK
  <2> QED
    BY ONLY <2>1 DEF Aim
<1>3. ASSUME NEW b \in Brokers, NEW r \in RunId, WorkerNext(b, r) PROVE UNCHANGED reaper
  BY <1>3 DEF WorkerNext, Activate, Prepare, Bind, Mark, Launch, Record, Result,
              Orphaned, Linger, Resume, StreamEnds, StreamBreaks, EndOfStream, Release,
              Reconcile, FinishFailed, FinishUnknown, Busy
<1>4. ASSUME NEW b \in Brokers, BrokerNext(b) PROVE UNCHANGED reaper
  BY <1>3, <1>4 DEF BrokerNext, StartBroker, CrashBroker, Dispatch, NothingToDispatch,
                    Heartbeat, Recover
<1> QED
  BY <1>1, <1>2, <1>4
     DEF Next, ApiNext, BeginCreate, EndCreate, Send, Close, Stop, DisplaceInactive,
         DisplaceForWake, Expire, Stall, ProcessExits, ReaperNext, ReapGone, Settle, vars

LEMMA AimStep ==
  ASSUME TypeInv, StoreInv, AimIsStray, [Next]_vars PROVE AimIsStray'
<1>1. CASE reaper' = NotAiming
  BY <1>1 DEF AimIsStray
<1>2. CASE \E r \in RunId : TakeAim(r)
  <2>1. PICK r \in RunId : TakeAim(r)
    BY <1>2
  <2>2. reaper'.pid = runs[r].pid /\ Eligible(r, runs[r].pid) /\ UNCHANGED storeVars
    BY <2>1 DEF TakeAim
  <2>3. runs[r].pid \in RunId /\ Recorded(runs[r].pid) /\ ~Linked(runs[r].pid)
    BY <2>2, RunRefs DEF Eligible, StoreInv, RowsOK, PidsAreRecorded
  <2> QED
    BY <2>2, <2>3 DEF AimIsStray, Recorded, Linked, storeVars
<1>3. CASE reaper # NotAiming /\ reaper'.pid = reaper.pid
  <2>0. PICK p \in RunId : p = reaper.pid
    BY <1>3 DEF AimIsStray
  <2>1. p # 0 /\ Recorded(p) /\ ~Linked(p)
    BY <1>3, <2>0 DEF AimIsStray, RunId, Recorded, Linked
  <2>2. LinkMoves
    <3>1. CASE UNCHANGED storeVars
      BY <3>1 DEF LinkMoves, storeVars, Recorded
    <3> QED
      BY <3>1, StepTransaction, StoreLinkMoves
  <2>3. Recorded(p)' /\ slot'.pid # p
    BY <2>1, <2>2 DEF LinkMoves, Recorded, Linked
  <2> QED
    BY <1>3, <2>0, <2>1, <2>3 DEF AimIsStray, Linked, Recorded
<1> QED
  BY <1>1, <1>2, <1>3, ReaperMoves

(* The reaper's look, its signal and its record are three steps; the process it
   strikes is not the one the registry links when it strikes. *)
THEOREM ReaperSparesTheLinked == Spec => ReaperSparesLinked
<1>1. Init => TypeInv /\ AimIsStray
  BY InitType DEF Init, AimIsStray
<1>2. TypeInv /\ [Next]_vars => TypeInv'
  BY StepType
<1>3. TypeInv /\ StoreInv /\ AimIsStray /\ [Next]_vars => AimIsStray'
  BY AimStep
<1>4. AimIsStray => [reaper # NotAiming /\ reaper'.struck => ~Linked(reaper.pid)]_vars
  BY DEF AimIsStray
<1> QED
  BY <1>1, <1>2, <1>3, <1>4, StoreInvHolds, PTL DEF Spec, ReaperSparesLinked

-----------------------------------------------------------------------------
(* What every action does to the rows of the runs and to the outbox.  Only the
   dispatcher and a worker whose process spoke again add a run. *)

Claims == \E b \in Brokers : Dispatch(b)
Resumes == \E b \in Brokers, r, next \in RunId :
             Resume(b, r) /\ OpenContinuation(workers[b][r].run, next, b)

LEMMA FinishKept ==
  ASSUME TypeOK, NEW q \in RunId, NEW outcome \in TerminalRunStates,
         NEW keepLink, NEW exited,
         FinishOrSkip(q, outcome, keepLink, exited) \/ FinishRefused(q, outcome)
  PROVE RunsKept /\ OutboxKept
BY FinishRunKept, UnchangedKept DEF TypeOK, FinishOrSkip, FinishRefused, storeVars

LEMMA InterruptKept ==
  ASSUME TypeInv, NEW r \in RunId, Interrupt(r) PROVE RunsKept /\ OutboxKept
<1>1. ASSUME NEW b \in Brokers, NEW q \in RunId, Executes(b, q, r), Deliver(b, q)
      PROVE RunsKept /\ OutboxKept
  <2>1. workers[b][q].run \in RunId
    BY <1>1, ActorRuns DEF Executes, InFlight
  <2> QED
    BY <1>1, <2>1, RequestInterruptKept DEF Deliver, TypeInv, TypeOK
<1> QED
  BY <1>1, RequestInterruptKept DEF Interrupt, TypeInv, TypeOK

LEMMA WorkerNextKept ==
  ASSUME TypeInv, NEW b \in Brokers, NEW r \in RunId, WorkerNext(b, r), ~Resumes
  PROVE RunsKept /\ OutboxKept
<1> DEFINE w == workers[b][r]
<1>t. TypeOK /\ StoreTypeOK /\ w \in Worker
  BY DEF TypeInv, TypeOK
<1>1. CASE UNCHANGED storeVars
  BY <1>1, UnchangedKept DEF storeVars
<1>2. CASE Prepare(b, r)
  BY <1>t, <1>1, <1>2, LeaseKept DEF Prepare, storeVars
<1>3. CASE Bind(b, r)
  BY <1>t, <1>1, <1>3, BindArchiveKept DEF Bind
<1>4. CASE Mark(b, r)
  BY <1>t, <1>1, <1>4, MarkStartingKept DEF Mark
<1>5. CASE Record(b, r)
  BY <1>t, <1>1, <1>5, MarkNativeStartedKept DEF Record, storeVars
<1>6. ASSUME NEW outcome \in TerminalRunStates, NEW keepLink, NEW exited, w.pc # "idle",
             FinishOrSkip(w.run, outcome, keepLink, exited) \/ FinishRefused(w.run, outcome)
      PROVE RunsKept /\ OutboxKept
  <2>1. w.run \in RunId
    BY <1>6, ActorRuns
  <2> QED
    BY <1>t, <1>6, <2>1, FinishKept
<1>7. w.held # NoRow => HeldOutcome(w) \in TerminalRunStates
  BY <1>t DEF Worker, HeldOutcome, TerminalRunStates
<1>8. CASE Linger(b, r)
  BY <1>6, <1>7, <1>8 DEF Linger, At
<1>9. CASE StreamEnds(b, r) \/ StreamBreaks(b, r)
  BY <1>1, <1>6, <1>7, <1>9 DEF StreamEnds, StreamBreaks, EndOfStream, At, storeVars
<1>10. CASE Resume(b, r)
  BY <1>1, <1>10 DEF Resume, Resumes, storeVars
<1>11. CASE Release(b, r)
  BY <1>t, <1>11, ReleaseProcessLinkKept DEF Release
<1>12. CASE \E o \in TerminalRunStates : Reconcile(b, r, o)
  BY <1>6, <1>12 DEF Reconcile, At
<1>13. CASE FinishFailed(b, r) \/ FinishUnknown(b, r)
  <2>1. "failed" \in TerminalRunStates /\ "unknown" \in TerminalRunStates
    BY DEF TerminalRunStates
  <2> QED
    BY <1>6, <1>13, <2>1 DEF FinishFailed, FinishUnknown, At
<1> QED
  BY <1>1, <1>2, <1>3, <1>4, <1>5, <1>8, <1>9, <1>10, <1>11, <1>12, <1>13
     DEF WorkerNext, Activate, Launch, Result, Orphaned, Busy

LEMMA NextKept ==
  ASSUME TypeInv, OutboxOK, Next, ~Claims, ~Resumes PROVE RunsKept /\ OutboxKept
<1>t. TypeOK /\ StoreTypeOK
  BY DEF TypeInv, TypeOK
<1>1. CASE UNCHANGED <<runs, msgs>>
  BY <1>1, UnchangedKept
<1>2. ASSUME NEW b \in Brokers, BrokerNext(b) PROVE RunsKept /\ OutboxKept
  BY <1>t, <1>1, <1>2, WorkerNextKept, LeaseKept, RenewRunsKept
     DEF BrokerNext, Claims, Recover, Heartbeat, StartBroker, CrashBroker,
         NothingToDispatch, storeVars
<1>3. ASSUME NEW c \in Chats, Stop(c) PROVE RunsKept /\ OutboxKept
  BY <1>1, <1>3, InterruptKept DEF Stop, storeVars
<1>4. ASSUME NEW c \in Chats, BeginCreate(c) \/ EndCreate(c) \/ Close(c)
      PROVE RunsKept /\ OutboxKept
  BY <1>1, <1>4, CancelKept, <1>t, UnchangedKept
     DEF BeginCreate, EndCreate, Close, CloseActiveForCreate, RegisterChat, CloseByUser, storeVars
<1>5. ASSUME NEW c \in Chats, Send(c) PROVE RunsKept /\ OutboxKept
  BY <1>t, <1>5, ApiKept DEF Send
<1>6. CASE DisplaceInactive \/ DisplaceForWake
  BY <1>t, <1>6, CancelKept, UnchangedKept DEF DisplaceInactive, DisplaceForWake, Displace
<1>7. CASE \E r \in RunId : Expire(r) \/ Stall(r) \/ ProcessExits(r)
  BY <1>t, <1>1, <1>7, LeaseKept DEF Expire, Stall, ProcessExits, storeVars
<1>8. ASSUME NEW r \in RunId, ReapGone(r) \/ TakeAim(r) PROVE RunsKept /\ OutboxKept
  BY <1>t, <1>1, <1>8, FinishInterruptedKept DEF ReapGone, TakeAim, storeVars
<1>9. CASE Strike
  BY <1>1, <1>9, InterruptKept, ActorRuns DEF Strike, storeVars
<1>10. CASE Settle
  BY <1>t, <1>1, <1>10, ActorRuns, RecordSignalKept, FinishInterruptedKept
     DEF Settle, storeVars
<1> QED
  BY <1>2, <1>3, <1>4, <1>5, <1>6, <1>7, <1>8, <1>9, <1>10
     DEF Next, ApiNext, ReaperNext

(* A new run's row, and every other row as it was. *)
RunAdded(n, m, a, state) ==
  /\ \A r \in RunId : r # n => runs'[r] = runs[r]
  /\ runs'[n].msg = m /\ runs'[n].attempt = a /\ runs'[n].state = state

MessageDispatched(m) ==
  /\ \A n \in MessageId : n # m => msgs'[n] = msgs[n]
  /\ msgs'[m].state = "running" /\ msgs'[m].outbox = "dispatched"

LEMMA NewRow ==
  ASSUME StoreTypeOK, NEW n \in RunId, NEW m, NEW a, NEW state, NEW b, NEW p, NEW x,
         runs' = [runs EXCEPT ![n] = NewRun(m, a, state, b, p, x)]
  PROVE RunAdded(n, m, a, state)
BY DEF StoreTypeOK, NewRun, RunAdded

LEMMA ClaimRow ==
  ASSUME TypeInv, Claims
  PROVE \E m \in MessageId, r \in RunId :
          /\ Claimable(m) /\ NextRun(r)
          /\ RunAdded(r, m, 1, "leased") /\ MessageDispatched(m)
<1>1. PICK b \in Brokers, m \in MessageId, r \in RunId : ClaimNext(m, r, b)
  BY DEF Claims, Dispatch
<1>2. StoreTypeOK /\ msgs \in [MessageId -> Message]
  BY DEF TypeInv, TypeOK, StoreTypeOK
<1>3. runs' = [runs EXCEPT ![r] = NewRun(m, 1, "leased", b, 0, FALSE)]
  BY <1>1 DEF ClaimNext
<1>4. RunAdded(r, m, 1, "leased")
  BY ONLY <1>2, <1>3, NewRow
<1>5. msgs' = [msgs EXCEPT ![m].state = "running", ![m].outbox = "dispatched"]
  BY <1>1 DEF ClaimNext
<1>6. MessageDispatched(m)
  BY <1>2, <1>5, Zenon DEF Message, MessageDispatched
<1> QED
  BY <1>1, <1>4, <1>6 DEF ClaimNext

LEMMA ResumeRow ==
  ASSUME TypeInv, Resumes
  PROVE \E r, next \in RunId, a \in 2..MaxRun :
          /\ ContinuationLegal(r) /\ NextRun(next) /\ NextAttempt(runs[r].msg, a)
          /\ RunAdded(next, runs[r].msg, a, "running")
          /\ UNCHANGED msgs
<1>1. PICK b \in Brokers, q \in RunId, next \in RunId :
        Resume(b, q) /\ OpenContinuation(workers[b][q].run, next, b)
  BY DEF Resumes
<1> DEFINE r == workers[b][q].run
<1>2. r \in RunId /\ StoreTypeOK
  BY <1>1, ActorRuns DEF Resume, At, TypeInv, TypeOK
<1> HIDE DEF r
<1>3. PICK a \in 2..MaxRun :
        /\ NextAttempt(runs[r].msg, a)
        /\ runs' = [runs EXCEPT ![next] =
             NewRun(runs[r].msg, a, "running", b, runs[r].pid, runs[r].archived)]
  BY <1>1 DEF OpenContinuation, r
<1>4. RunAdded(next, runs[r].msg, a, "running")
  BY ONLY <1>2, <1>3, NewRow
<1> QED
  BY <1>1, <1>2, <1>3, <1>4 DEF OpenContinuation, r

-----------------------------------------------------------------------------
(* No prompt is handed over twice. *)

(* A run is an attempt at a dispatched prompt. *)
RunRows == \A r \in RunId :
  IF runs[r].state = NoRow THEN runs[r].attempt = 0
  ELSE /\ runs[r].msg # 0 /\ runs[r].attempt >= 1
       /\ msgs[runs[r].msg].outbox = "dispatched"

LEMMA RowTypes ==
  ASSUME TypeInv
  PROVE /\ \A r \in RunId : /\ runs[r].msg \in 0..MaxMessage
                            /\ runs[r].attempt \in 0..MaxRun
        /\ \A r \in RunId : runs[r].msg # 0 => runs[r].msg \in MessageId
        /\ sent \in [MessageId -> Nat]
BY StoreConstants DEF TypeInv, TypeOK, StoreTypeOK, Run, MessageId

LEMMA RunRowsHold ==
  ASSUME StoreInv PROVE OutboxOK /\ RunRows
BY DEF StoreInv, RowsOK, MessageRows, AttemptRows, OutboxOK, RunRows, NoRow

(* Only Launch hands a prompt over, and only from its own step. *)
LEMMA NextSent ==
  ASSUME TypeInv, Next
  PROVE UNCHANGED sent \/ \E b \in Brokers, r \in RunId : Launch(b, r)
<1>1. ASSUME NEW b \in Brokers, NEW r \in RunId, WorkerNext(b, r), ~Launch(b, r)
      PROVE UNCHANGED sent
  BY <1>1 DEF WorkerNext, Activate, Prepare, Bind, Mark, Record, Result, Orphaned, Linger,
              Resume, StreamEnds, StreamBreaks, EndOfStream, Release, Reconcile,
              FinishFailed, FinishUnknown, Busy
<1>2. ASSUME NEW b \in Brokers, BrokerNext(b), \A r \in RunId : ~Launch(b, r)
      PROVE UNCHANGED sent
  BY <1>1, <1>2 DEF BrokerNext, StartBroker, CrashBroker, Dispatch, NothingToDispatch,
                    Heartbeat, Recover
<1> QED
  BY <1>2 DEF Next, ApiNext, BeginCreate, EndCreate, Send, Close, Stop, DisplaceInactive,
              DisplaceForWake, Expire, Stall, ProcessExits, ReaperNext, ReapGone, TakeAim,
              Strike, Settle

(* A worker comes to its launch only by marking its leased run starting. *)
LEMMA NextLaunch ==
  ASSUME TypeInv, Next, NEW o \in Brokers, NEW q \in RunId, workers'[o][q].pc = "launch"
  PROVE workers[o][q].pc = "launch" \/ (Mark(o, q) /\ MarkStarting(q, o))
<1>1. ASSUME NEW b \in Brokers, NEW r \in RunId, WorkerNext(b, r)
      PROVE workers[o][q].pc = "launch" \/ (Mark(o, q) /\ MarkStarting(q, o))
  BY <1>1, WorkerNextSteps DEF Steps
<1>2. ASSUME NEW b \in Brokers, NEW r \in RunId, NEW x, RowBecomes(b, r, x),
             x.pc \in LiveRunStates
      PROVE workers[o][q].pc = "launch"
  BY <1>2, RowUpdate DEF RowBecomes, TypeInv, TypeOK, WorkerTables, LiveRunStates
<1>3. CASE UNCHANGED workers
  BY <1>3
<1>4. ASSUME NEW b \in Brokers, CrashBroker(b) PROVE workers[o][q].pc = "launch"
  BY <1>4 DEF CrashBroker, IdleWorker, TypeInv, TypeOK
<1>5. ASSUME NEW b \in Brokers, BrokerNext(b)
      PROVE workers[o][q].pc = "launch" \/ (Mark(o, q) /\ MarkStarting(q, o))
  BY <1>1, <1>2, <1>3, <1>4, <1>5, BrokerNextSteps
     DEF BrokerNext, StartBroker, Dispatch, NothingToDispatch, Heartbeat
<1>6. ASSUME NEW r, Interrupt(r) PROVE workers[o][q].pc = "launch"
  BY <1>6, InterruptKeepsSteps
<1> QED
  BY <1>3, <1>5, <1>6
     DEF Next, ApiNext, BeginCreate, EndCreate, Send, Close, Stop, DisplaceInactive,
         DisplaceForWake, Expire, Stall, ProcessExits, ReaperNext, ReapGone, TakeAim,
         Strike, Settle

(* A step that neither adds a run nor sends keeps every prompt's freshness; a
   launch it prepares takes the place of the lease. *)
LEMMA KeptIsFresh ==
  ASSUME TypeInv, RunRows, FreshPrompts, RunsKept, OutboxKept, UNCHANGED sent,
         \A b \in Brokers, r \in RunId : workers'[b][r].pc = "launch"
           => workers[b][r].pc = "launch" \/ (Mark(b, r) /\ MarkStarting(r, b))
  PROVE FreshPrompts'
<1> USE DEF FreshPrompts
<1>1. \A r \in RunId : /\ runs'[r].msg = runs[r].msg /\ runs'[r].attempt = runs[r].attempt
                       /\ runs'[r].state = NoRow <=> runs[r].state = NoRow
                       /\ runs'[r].state = "leased" => runs[r].state = "leased"
  BY DEF RunsKept, RowKept
<1>2. WaitingIsUnsent'
  BY DEF WaitingIsUnsent, OutboxKept
<1>3. LeasedIsUnsent'
  BY <1>1 DEF LeasedIsUnsent
<1>4. OneFirstAttempt'
  BY <1>1 DEF OneFirstAttempt
<1>5. ASSUME NEW b \in Brokers, NEW r \in RunId, MarkStarting(r, b)
      PROVE runs[r].state = "leased" /\ runs'[r].state = "starting"
  <2>1. PICK x : /\ x = [runs[r] EXCEPT !.state = "starting", !.expired = FALSE]
                 /\ runs' = [runs EXCEPT ![r] = x]
    BY ONLY <1>5 DEF MarkStarting
  <2>2. x.state = "starting" /\ runs \in [RunId -> Run]
    BY <2>1, RowFieldKept DEF TypeInv, TypeOK, StoreTypeOK
  <2> QED
    BY <1>5, <2>1, <2>2 DEF MarkStarting, CanStart, Holds
<1>6. LaunchIsUnsent'
  <2> SUFFICES ASSUME NEW b \in Brokers, NEW r \in RunId, workers'[b][r].pc = "launch"
               PROVE /\ runs'[r].state \notin {NoRow, "leased"}
                     /\ runs'[r].attempt = 1 /\ sent'[runs'[r].msg] = 0
    BY DEF LaunchIsUnsent
  <2>1. CASE workers[b][r].pc = "launch"
    BY <1>1, <2>1 DEF LaunchIsUnsent
  <2>2. CASE MarkStarting(r, b)
    <3>1. "starting" # NoRow
      BY DEF NoRow
    <3> QED
      BY <1>1, <1>5, <2>2, <3>1 DEF LeasedIsUnsent
  <2> QED
    BY <2>1, <2>2
<1>7. OneLauncher'
  <2> SUFFICES ASSUME NEW b \in Brokers, NEW o \in Brokers, NEW r \in RunId, NEW q \in RunId,
                      workers'[b][r].pc = "launch", workers'[o][q].pc = "launch",
                      runs[r].msg = runs[q].msg
               PROVE b = o /\ r = q
    BY <1>1 DEF OneLauncher
  <2>1. CASE workers[b][r].pc = "launch" /\ workers[o][q].pc = "launch"
    BY <2>1 DEF OneLauncher
  <2>2. runs[r].attempt = 1 /\ runs[q].attempt = 1
    BY <1>1, <1>6 DEF LaunchIsUnsent
  <2>3. r = q
    BY <2>2 DEF OneFirstAttempt
  <2>4. \A n \in Brokers, p \in RunId : MarkStarting(p, n) =>
          runs[p].state = "leased" /\ runs[p].owner = n
    BY DEF MarkStarting, CanStart, Holds
  <2>5. workers[b][r].pc = "launch" \/ workers[o][q].pc = "launch" => runs[r].state # "leased"
    BY <2>3 DEF LaunchIsUnsent
  <2> QED
    BY <2>1, <2>3, <2>4, <2>5
<1> QED
  BY <1>2, <1>3, <1>4, <1>6, <1>7

LEMMA LaunchIsFresh ==
  ASSUME TypeInv, RunRows, FreshPrompts, AtMostOnceDispatch,
         NEW b \in Brokers, NEW r \in RunId, Launch(b, r)
  PROVE FreshPrompts' /\ AtMostOnceDispatch'
<1> DEFINE m == runs[r].msg
<1>1. /\ workers[b][r].pc = "launch" /\ UNCHANGED <<runs, msgs>>
      /\ sent' = [sent EXCEPT ![m] = sent[m] + 1]
  BY DEF Launch, At, storeVars
<1>2. runs[r].state \notin {NoRow, "leased"} /\ runs[r].attempt = 1 /\ sent[m] = 0
  BY <1>1 DEF FreshPrompts, LaunchIsUnsent
<1>3. m \in MessageId /\ msgs[m].outbox = "dispatched"
  BY <1>2, RowTypes DEF RunRows
<1>4. sent \in [MessageId -> Nat]
  BY RowTypes
<1> HIDE DEF m
<1>5. sent'[m] = 1 /\ \A n \in MessageId : n # m => sent'[n] = sent[n]
  BY <1>1, <1>2, <1>3, <1>4
<1>6. AtMostOnceDispatch'
  BY <1>5 DEF AtMostOnceDispatch
<1>7. WaitingIsUnsent'
  BY <1>1, <1>3, <1>5 DEF FreshPrompts, WaitingIsUnsent
<1>8. LeasedIsUnsent'
  <2> SUFFICES ASSUME NEW q \in RunId, runs[q].state = "leased"
               PROVE runs[q].attempt = 1 /\ sent'[runs[q].msg] = 0
    BY <1>1 DEF LeasedIsUnsent
  <2>1. runs[q].attempt = 1 /\ sent[runs[q].msg] = 0
    BY DEF FreshPrompts, LeasedIsUnsent
  <2>2. q # r
    BY <1>2
  <2>3. runs[q].msg # m
    BY <1>2, <2>1, <2>2 DEF FreshPrompts, OneFirstAttempt, m
  <2>4. runs[q].msg \in MessageId
    <3>1. "leased" # NoRow
      BY DEF NoRow
    <3> QED
      BY <3>1, RowTypes DEF RunRows
  <2> QED
    BY <1>5, <2>1, <2>3, <2>4
<1>9. workers'[b][r].pc # "launch" /\ \A o \in Brokers, q \in RunId :
        (o # b \/ q # r) => workers'[o][q] = workers[o][q]
  <2>1. Steps(b, r)
    BY WorkerNextSteps DEF WorkerNext
  <2>2. ~Mark(b, r)
    BY <1>1 DEF Mark, At
  <2> QED
    BY <2>1, <2>2 DEF Steps
<1>10. LaunchIsUnsent'
  <2> SUFFICES ASSUME NEW o \in Brokers, NEW q \in RunId, workers'[o][q].pc = "launch"
               PROVE /\ runs[q].state \notin {NoRow, "leased"}
                     /\ runs[q].attempt = 1 /\ sent'[runs[q].msg] = 0
    BY <1>1 DEF LaunchIsUnsent
  <2>1. workers[o][q].pc = "launch" /\ (o # b \/ q # r)
    BY <1>9
  <2>2. /\ runs[q].state \notin {NoRow, "leased"}
        /\ runs[q].attempt = 1 /\ sent[runs[q].msg] = 0
    BY <2>1 DEF FreshPrompts, LaunchIsUnsent
  <2>3. runs[q].msg # m
    BY <1>1, <2>1 DEF FreshPrompts, OneLauncher, m
  <2>4. runs[q].msg \in MessageId
    BY <2>2, RowTypes DEF RunRows
  <2> QED
    BY <1>5, <2>2, <2>3, <2>4
<1>11. OneFirstAttempt' /\ OneLauncher'
  BY <1>1, <1>9 DEF FreshPrompts, OneFirstAttempt, OneLauncher
<1> QED
  BY <1>6, <1>7, <1>8, <1>10, <1>11 DEF FreshPrompts

(* A new run of a prompt that waited is its first attempt; another one is not. *)
LEMMA NewRunIsFresh ==
  ASSUME TypeInv, RunRows, FreshPrompts, UNCHANGED sent,
         \A b \in Brokers, r \in RunId :
           workers'[b][r].pc = "launch" => workers[b][r].pc = "launch",
         Claims \/ Resumes
  PROVE FreshPrompts'
<1>1. CASE Claims
  <2>1. PICK m \in MessageId, n \in RunId :
          /\ Claimable(m) /\ NextRun(n)
          /\ RunAdded(n, m, 1, "leased") /\ MessageDispatched(m)
    BY <1>1, ClaimRow
  <2>2. msgs[m].outbox # "dispatched" /\ sent[m] = 0
    BY <2>1 DEF Claimable, FreshPrompts, WaitingIsUnsent
  <2>3. \A r \in RunId : runs[r].state # NoRow => runs[r].msg # m
    BY <2>2 DEF RunRows
  <2>4. /\ runs[n].state = NoRow
        /\ \A r \in RunId : runs[r].state = NoRow => runs[r].attempt # 1
    BY <2>1 DEF NextRun, RunRows
  <2>5. WaitingIsUnsent'
    BY <2>1, <2>2 DEF FreshPrompts, WaitingIsUnsent, MessageDispatched
  <2>6. LeasedIsUnsent'
    BY <2>1, <2>2 DEF FreshPrompts, LeasedIsUnsent, RunAdded
  <2>7. OneFirstAttempt'
    BY <2>1, <2>3, <2>4 DEF FreshPrompts, OneFirstAttempt, RunAdded
  <2>8. LaunchIsUnsent' /\ OneLauncher'
    BY <2>1, <2>4 DEF FreshPrompts, LaunchIsUnsent, OneLauncher, RunAdded
  <2> QED
    BY <2>5, <2>6, <2>7, <2>8 DEF FreshPrompts
<1>2. CASE Resumes
  <2>1. PICK r \in RunId, n \in RunId, a \in 2..MaxRun :
          NextRun(n) /\ RunAdded(n, runs[r].msg, a, "running") /\ UNCHANGED msgs
    BY <1>2, ResumeRow
  <2>2. runs[n].state = NoRow /\ a # 1
    BY <2>1 DEF NextRun
  <2>3. WaitingIsUnsent' /\ LeasedIsUnsent' /\ OneFirstAttempt'
    BY <2>1, <2>2
       DEF FreshPrompts, WaitingIsUnsent, LeasedIsUnsent, OneFirstAttempt, RunAdded
  <2>4. LaunchIsUnsent' /\ OneLauncher'
    BY <2>1, <2>2 DEF FreshPrompts, LaunchIsUnsent, OneLauncher, RunAdded
  <2> QED
    BY <2>3, <2>4 DEF FreshPrompts
<1> QED
  BY <1>1, <1>2

LEMMA FreshStep ==
  ASSUME TypeInv, OutboxOK, RunRows, FreshPrompts, AtMostOnceDispatch, [Next]_vars
  PROVE FreshPrompts' /\ AtMostOnceDispatch'
<1>1. CASE UNCHANGED vars
  BY <1>1 DEF vars, FreshPrompts, WaitingIsUnsent, LeasedIsUnsent, LaunchIsUnsent,
              OneFirstAttempt, OneLauncher, AtMostOnceDispatch
<1>2. CASE \E b \in Brokers, r \in RunId : Launch(b, r)
  BY <1>2, LaunchIsFresh
<1>3. CASE Next /\ UNCHANGED sent
  <2>1. AtMostOnceDispatch'
    BY <1>3 DEF AtMostOnceDispatch
  <2>2. \A b \in Brokers, r \in RunId : workers'[b][r].pc = "launch"
          => workers[b][r].pc = "launch" \/ (Mark(b, r) /\ MarkStarting(r, b))
    BY <1>3, NextLaunch
  <2>3. CASE ~Claims /\ ~Resumes
    <3>1. RunsKept /\ OutboxKept
      BY <1>3, <2>3, NextKept
    <3>2. FreshPrompts'
      BY ONLY TypeInv, RunRows, FreshPrompts, <1>3, <2>2, <3>1, KeptIsFresh
    <3> QED
      BY <2>1, <3>2
  <2>4. CASE Claims \/ Resumes
    <3>1. ASSUME Claims, NEW b \in Brokers, NEW r \in RunId, workers'[b][r].pc = "launch"
          PROVE workers[b][r].pc = "launch"
      <4>1. PICK o \in Brokers, q \in RunId :
              \E x : RowBecomes(o, q, x) /\ x.pc \in LiveRunStates
        BY <3>1, BrokerNextSteps DEF Claims, Dispatch
      <4>2. PICK x : RowBecomes(o, q, x) /\ x.pc \in LiveRunStates
        BY <4>1
      <4> QED
        BY <3>1, <4>2, RowUpdate DEF RowBecomes, TypeInv, TypeOK, WorkerTables, LiveRunStates
    <3>2. ASSUME Resumes, NEW b \in Brokers, NEW r \in RunId, workers'[b][r].pc = "launch"
          PROVE workers[b][r].pc = "launch"
      <4>1. PICK o \in Brokers, q \in RunId : Resume(o, q)
        BY <3>2 DEF Resumes
      <4>2. Steps(o, q) /\ ~Mark(o, q)
        BY <4>1, WorkerNextSteps DEF WorkerNext, Resume, Mark, At
      <4> QED
        BY <3>2, <4>2 DEF Steps
    <3> QED
      <4>1. \A b \in Brokers, r \in RunId :
              workers'[b][r].pc = "launch" => workers[b][r].pc = "launch"
        BY <2>4, <3>1, <3>2
      <4>2. FreshPrompts'
        BY ONLY TypeInv, RunRows, FreshPrompts, <1>3, <2>4, <4>1, NewRunIsFresh
      <4> QED
        BY <2>1, <4>2
  <2> QED
    BY <2>1, <2>3, <2>4
<1> QED
  BY <1>1, <1>2, <1>3, NextSent

LEMMA InitFresh ==
  ASSUME Init PROVE FreshPrompts /\ AtMostOnceDispatch
BY DEF Init, StoreInit, NoRun, NoMessage, NoRow, IdleWorker, AtMostOnceDispatch,
       FreshPrompts, WaitingIsUnsent, LeasedIsUnsent, LaunchIsUnsent, OneFirstAttempt,
       OneLauncher

(* The inductive invariant behind the broker's recovery rule: what the rows and
   the workers say of every prompt that was not sent yet. *)
DispatchInv == TypeInv /\ StoreInv /\ FreshPrompts /\ AtMostOnceDispatch

LEMMA DispatchStep ==
  ASSUME DispatchInv, [Next]_vars PROVE DispatchInv'
<1>1. TypeInv' /\ StoreInv'
  BY StepType, StepTransaction, StoreStepKeeps, StoreStutters DEF DispatchInv
<1>2. FreshPrompts' /\ AtMostOnceDispatch'
  BY RunRowsHold, FreshStep DEF DispatchInv
<1> QED
  BY <1>1, <1>2 DEF DispatchInv

LEMMA InitDispatch ==
  ASSUME Init PROVE DispatchInv
BY InitType, InitFresh, StoreInitKeeps DEF Init, DispatchInv

(* It holds in every behaviour of the API, the brokers and the reaper. *)
LEMMA DispatchInvHolds == Spec => []DispatchInv
BY InitDispatch, DispatchStep, PTL DEF Spec

(* claim_next, adopt_recoverable and mark_starting together: a prompt not sent
   yet is in the outbox, leased, or with the one worker that launches it. *)
THEOREM PromptsStayFresh == Spec => []FreshPrompts
<1>1. DispatchInv => FreshPrompts
  BY DEF DispatchInv
<1> QED
  BY <1>1, DispatchInvHolds, PTL

(* The broker's recovery rule: whatever crashes and whichever lease is taken
   over, no prompt is handed to a harness twice. *)
THEOREM DispatchedAtMostOnce == Spec => []AtMostOnceDispatch
<1>1. DispatchInv => AtMostOnceDispatch
  BY DEF DispatchInv
<1> QED
  BY <1>1, DispatchInvHolds, PTL
=============================================================================
