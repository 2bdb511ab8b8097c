------------------------------ MODULE StoreProperties ------------------------------
(***************************************************************************)
(* What the tables of ConversationStore say together in every state, and   *)
(* why: the safety invariants, and the ones their induction needs.         *)
(***************************************************************************)
EXTENDS ConversationStore

(* The shell's mutation lock: one live run at a time, also across a chat that
   was closed or reopened over a run that still goes on. *)
OneTurnAtATime == \A r, q \in RunId : Live(r) /\ Live(q) => r = q

(* A prompt has one first attempt. *)
OneFirstAttempt == \A r, q \in RunId :
  r # q /\ runs[r].attempt = 1 /\ runs[q].attempt = 1 => runs[r].msg # runs[q].msg

(* An idle chat has an empty queue.  Nothing dispatches an idle chat, so a
   follow-up that finish_run overlooked would wait there for ever. *)
IdleChatHasEmptyQueue ==
  \A c \in Chats : chats[c].state = "idle" => Pending(c) = {}

(* The message of a finished first attempt ended the way that run did, whoever
   finished it: worker, recovery or reaper. *)
OutcomesAgree ==
  \A r \in RunId : Terminal(r) /\ runs[r].attempt = 1
    => msgs[runs[r].msg].state = MessageOutcome(runs[r].state)

(* A chat or a message that shows a turn in progress has a live run behind it;
   otherwise no worker would ever finish it and every send would be queued
   behind nothing. *)
NoStrandedTurn ==
  /\ \A c \in Chats : chats[c].state = "running" => \E r \in RunId : Live(r) /\ ChatOf(r) = c
  /\ \A m \in MessageId : msgs[m].state = "running" => \E r \in RunId : Live(r) /\ runs[r].msg = m

(* What has ended stays as it ended. *)
FinalKept ==
  /\ \A r \in RunId : Terminal(r) => runs'[r].state = runs[r].state
  /\ \A m \in MessageId : msgs[m].state \in TerminalMessageStates
                            => msgs'[m].state = msgs[m].state

(* The shell's registry row names a chat exactly while that chat is open. *)
RegistryNamesOpenChat ==
  \A c \in Chats : slot.chat = c <=> chats[c].state \notin {NoRow, "closed"}

(* The process that the registry links is recorded on a run of the same chat:
   Stop, recovery and the reaper find it through that row. *)
LinkIsBacked ==
  slot.pid # 0 => \E r \in RunId : runs[r].pid = slot.pid /\ ChatOf(r) = slot.chat

-----------------------------------------------------------------------------
(* Why.  A message belongs to a chat that exists, waits in the outbox exactly
   while it is queued, and is dispatched before it runs. *)
MessageRows == \A m \in MessageId :
  /\ msgs[m].state = NoRow => msgs[m].chat = NoChat
  /\ msgs[m].state # NoRow => msgs[m].chat \in Chats /\ chats[msgs[m].chat].state # NoRow
  /\ msgs[m].state \notin {"accepted"}
  /\ msgs[m].state = "queued" <=> msgs[m].outbox = "pending"
  /\ msgs[m].state = NoRow <=> msgs[m].outbox = NoRow
  /\ msgs[m].state = "running" => msgs[m].outbox = "dispatched"

(* A run is an attempt at a dispatched prompt, and names no process before one
   is recorded. *)
AttemptRows == \A r \in RunId :
  /\ runs[r].state = NoRow => runs[r].attempt = 0 /\ runs[r].msg = 0
  /\ runs[r].state # NoRow => /\ runs[r].msg # 0 /\ runs[r].attempt >= 1
                              /\ msgs[runs[r].msg].outbox = "dispatched"
  /\ runs[r].state \in {NoRow, "leased", "starting"} => runs[r].pid = 0

(* The prompt of a first attempt is the turn while it is live and ended with it;
   a continuation is of a prompt that has ended. *)
TurnRows == \A r \in RunId : runs[r].state # NoRow =>
  IF runs[r].attempt # 1 THEN msgs[runs[r].msg].state \in TerminalMessageStates
  ELSE msgs[runs[r].msg].state = IF Live(r) THEN "running" ELSE MessageOutcome(runs[r].state)

(* A close request stands only for a closed chat with nothing left to cancel. *)
ClosingIsDone == \A c \in Chats : chats[c].closing => chats[c].state = "closed" /\ Pending(c) = {}

(* A process is named by its number only after it was recorded as that run's. *)
Recorded(p) == p # 0 => runs[p].state \notin {NoRow, "leased", "starting"}

PidsAreRecorded == \A r \in RunId : Recorded(runs[r].pid)

RowsOK == /\ MessageRows /\ AttemptRows /\ TurnRows /\ OneTurnAtATime /\ OneFirstAttempt
          /\ PidsAreRecorded
ChatsOK == /\ ClosingIsDone /\ RegistryNamesOpenChat /\ IdleChatHasEmptyQueue
           /\ NoStrandedTurn /\ LinkIsBacked

(* What every transaction finds and leaves. *)
StoreInv == StoreTypeOK /\ RowsOK /\ ChatsOK

-----------------------------------------------------------------------------
(* Everything that may happen to the tables, whoever does it and in whichever
   order: the transactions, without the threads that make them.  A worker that
   saw its process exit never keeps the link, and names no other process than
   its own. *)

ApiTransaction ==
  \/ CloseActiveForCreate \/ Displace
  \/ \E c \in Chats :
       \/ RegisterChat(c) \/ CloseByUser(c)
       \/ \E m \in MessageId : AcceptMessage(m, c) \/ ReopenWithMessage(m, c)

BrokerTransaction(b) ==
  \/ \E ids \in SUBSET Pid : RenewRuns(ids, b)
  \/ \E r \in RunId :
       \/ \E m \in MessageId : ClaimNext(m, r, b)
       \/ AdoptRun(r, b) \/ DeferRun(r, b) \/ BindArchive(r, b) \/ MarkStarting(r, b)
       \/ \E p \in {0, r} : MarkNativeStarted(r, b, p)
       \/ \E outcome \in TerminalRunStates, keepLink, exited \in BOOLEAN :
            (exited => ~keepLink) /\ FinishRun(r, outcome, keepLink, exited)
       \/ \E next \in RunId : OpenContinuation(r, next, b)
       \/ ReleaseProcessLink(r)

ReaperTransaction(r) == \E p \in Pid :
  \/ \E label \in {"interrupt", "SIGTERM"} : RecordSignal(r, p, label)
  \/ FinishInterrupted(r, p)

StoreNext ==
  \/ ApiTransaction
  \/ \E b \in Brokers : BrokerTransaction(b)
  \/ \E r \in RunId : ReaperTransaction(r) \/ RequestInterrupt(r) \/ LeaseExpires(r)

StoreSpec == StoreInit /\ [][StoreNext]_storeVars
=============================================================================
