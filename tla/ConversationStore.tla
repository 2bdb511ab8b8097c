---------------------------- MODULE ConversationStore ----------------------------
(***************************************************************************)
(* The durable half of browser conversations, for one shell: the rows of   *)
(* conversations, active_shell_chats, conversation_messages with their     *)
(* outbox rows, and conversation_runs, and the write transactions that the *)
(* API, the broker, the reaper and the activity monitor make on them.      *)
(*                                                                         *)
(* Every operator below that primes a variable is one transaction: it is   *)
(* enabled when the transaction commits a change, and it says what the     *)
(* transaction leaves in all four tables.  Two shells share no row, so one *)
(* shell is enough.  Identifiers are allocated in order, as the tables'    *)
(* rowids are; 0 stands for SQL's NULL.                                    *)
(***************************************************************************)
EXTENDS Integers, FiniteSets, ConversationStates

CONSTANTS
  Chats,        \* conversation identifiers of the shell
  NoChat,       \* the shell has no active chat
  Brokers,      \* owner strings; a restarted broker is another owner
  NoBroker,
  MaxMessage,   \* prompts the user may send: bounds the message table
  MaxRun        \* runs that may be created: bounds the run table

ASSUME StoreConstants ==
  /\ IsFiniteSet(Chats) /\ NoChat \notin Chats
  /\ IsFiniteSet(Brokers) /\ NoBroker \notin Brokers
  /\ MaxMessage \in Nat \ {0}
  /\ MaxRun \in Nat \ {0}

MessageId == 1..MaxMessage
RunId     == 1..MaxRun
Pid       == 0..MaxRun     \* a native process is named by the run that launched it

VARIABLES
  chats,   \* conversation -> its state, and whether a close request stands
  slot,    \* active_shell_chats: the shell's open chat and the process it names
  msgs,    \* message -> its chat, its state, the state of its outbox row
  runs     \* run -> the row of conversation_runs

storeVars == <<chats, slot, msgs, runs>>

NoRow    == "none"
EmptySlot == [chat |-> NoChat, pid |-> 0]
NoMessage == [chat |-> NoChat, state |-> NoRow, outbox |-> NoRow]
NoRun     == [msg |-> 0, attempt |-> 0, state |-> NoRow, owner |-> NoBroker,
              expired |-> FALSE, pid |-> 0, archived |-> FALSE,
              stop |-> FALSE, swept |-> FALSE, signal |-> "none"]
NewRun(m, a, state, b, p, archived) ==
  [msg |-> m, attempt |-> a, state |-> state, owner |-> b,
   expired |-> FALSE, pid |-> p, archived |-> archived,
   stop |-> FALSE, swept |-> FALSE, signal |-> "none"]

Chat    == [state : {NoRow} \cup ConversationStates, closing : BOOLEAN]
Slot    == [chat : Chats \cup {NoChat}, pid : Pid]
Message == [chat   : Chats \cup {NoChat},
            state  : {NoRow} \cup MessageStates,
            outbox : {NoRow} \cup OutboxStates]
Run     == [msg     : 0..MaxMessage,
            attempt : 0..MaxRun,
            state   : {NoRow} \cup RunStates,
            owner   : Brokers \cup {NoBroker},
            expired : BOOLEAN,     \* lease_expires_at lies in the past
            pid     : Pid,         \* process_pid, process_start_ticks
            archived : BOOLEAN,    \* archive_id is bound
            stop    : BOOLEAN,     \* a run.interrupt.requested event exists
            swept   : BOOLEAN,     \* a run.interrupted or run.reaped event exists
            signal  : {"none", "interrupt", "SIGTERM"}]   \* reaper_last_signal

StoreTypeOK ==
  /\ chats \in [Chats -> Chat]
  /\ slot \in Slot
  /\ msgs \in [MessageId -> Message]
  /\ runs \in [RunId -> Run]

StoreInit ==
  /\ chats = [c \in Chats |-> [state |-> NoRow, closing |-> FALSE]]
  /\ slot = EmptySlot
  /\ msgs = [m \in MessageId |-> NoMessage]
  /\ runs = [r \in RunId |-> NoRun]

-----------------------------------------------------------------------------
(* Reading the tables. *)

Live(r)     == runs[r].state \in LiveRunStates
Terminal(r) == runs[r].state \in TerminalRunStates
ChatOf(r)   == IF runs[r].msg = 0 THEN NoChat ELSE msgs[runs[r].msg].chat
Unfinished(m) == msgs[m].state \in {"accepted", "queued", "running"}
Pending(c)  == {m \in MessageId : msgs[m].chat = c /\ msgs[m].outbox = "pending"}
Working(c)  == chats[c].state \in {"queued", "running"}
Linked(p)   == p # 0 /\ slot.pid = p

NextMessage(m) == /\ msgs[m].state = NoRow
                  /\ \A n \in 1 .. m-1 : msgs[n].state # NoRow
NextRun(r)     == /\ runs[r].state = NoRow
                  /\ \A q \in 1 .. r-1 : runs[q].state # NoRow

(* Seeded fault: closing also cancels the message whose turn it is. *)
CancelUnfinished(c) ==
  [m \in MessageId |->
     IF msgs[m].chat = c /\ Unfinished(m)
       THEN [msgs[m] EXCEPT !.state = "cancelled", !.outbox = "cancelled"]
       ELSE msgs[m]]

(* The queue of a chat that is being closed: its rows are cancelled. *)
CancelPending(c) ==
  [m \in MessageId |->
     IF m \in Pending(c)
       THEN [msgs[m] EXCEPT !.state = "cancelled", !.outbox = "cancelled"]
       ELSE msgs[m]]

(* Seeded fault: only the process is unlinked, the chat keeps the shell. *)
SlotWithoutProcess(c) == IF slot.chat = c THEN [slot EXCEPT !.pid = 0] ELSE slot

(* Closing a chat clears its registry row (explicitly and by trigger). *)
SlotWithout(c) == IF slot.chat = c THEN EmptySlot ELSE slot

-----------------------------------------------------------------------------
(* Transactions of the API.  close_active refuses a chat with work in it. *)

ActiveIsQuiet == slot.chat # NoChat => ~Working(slot.chat)

CloseActive ==
  IF slot.chat = NoChat THEN chats
                        ELSE [chats EXCEPT ![slot.chat].state = "closed"]

CloseActiveForCreate ==
  /\ ActiveIsQuiet
  /\ chats' = CloseActive
  /\ slot' = EmptySlot
  /\ UNCHANGED <<msgs, runs>>

RegisterChat(c) ==
  /\ slot.chat = NoChat
  /\ chats[c].state = NoRow
  /\ chats' = [chats EXCEPT ![c].state = "idle"]
  /\ slot' = [chat |-> c, pid |-> 0]
  /\ UNCHANGED <<msgs, runs>>

QueueMessage(m, c) ==
  /\ NextMessage(m)
  /\ msgs' = [msgs EXCEPT ![m] = [chat |-> c, state |-> "queued", outbox |-> "pending"]]
  /\ UNCHANGED runs

(* A prompt for an open chat joins its queue ... *)
AcceptMessage(m, c) ==
  /\ chats[c].state \notin {NoRow, "closed"}
  /\ ~chats[c].closing
  /\ chats' = [chats EXCEPT ![c].state = IF Working(c) THEN @ ELSE "queued"]
  /\ UNCHANGED slot
  /\ QueueMessage(m, c)

(* ... and for a closed one reopens it, closing the shell's idle open chat.
   The reopened event outdates any close request. *)
ReopenWithMessage(m, c) ==
  /\ chats[c].state = "closed"
  /\ ActiveIsQuiet
  /\ chats' = [CloseActive EXCEPT ![c] = [state |-> "queued", closing |-> FALSE]]
  /\ slot' = [chat |-> c, pid |-> 0]
  /\ QueueMessage(m, c)

(* The user's Close: unconditional, and at once, whatever the chat is doing. *)
CloseByUser(c) ==
  /\ chats[c].state \notin {NoRow, "closed"}
  /\ chats' = [chats EXCEPT
       ![c] = [state   |-> "closed",
               closing |-> @.closing \/ \E r \in RunId : Live(r) /\ ChatOf(r) = c]]
  /\ slot' = SlotWithout(c)
  /\ msgs' = CancelPending(c)
  /\ UNCHANGED runs

(* close_for_displacement: the wake router and the activity monitor close the
   shell's active chat whatever its state, without a close request. *)
Displace ==
  /\ slot.chat # NoChat
  /\ chats' = [chats EXCEPT ![slot.chat].state = "closed"]
  /\ slot' = EmptySlot
  /\ msgs' = IF Working(slot.chat) THEN CancelPending(slot.chat) ELSE msgs
  /\ UNCHANGED runs

RequestInterrupt(r) ==
  /\ runs' = [runs EXCEPT ![r].stop = @ \/ Live(r)]
  /\ UNCHANGED <<chats, slot, msgs>>

-----------------------------------------------------------------------------
(* Transactions of the broker. *)

(* Seeded fault: a later prompt of the chat may overtake an earlier one. *)
ClaimableOutOfOrder(m) ==
  LET c == msgs[m].chat IN
    /\ msgs[m].outbox = "pending" /\ msgs[m].state \in {"accepted", "queued"}
    /\ slot.chat = c /\ chats[c].state = "queued" /\ ~chats[c].closing
    /\ \A r \in RunId : ~Live(r)

(* Seeded fault: the shell's mutation lock is not looked at. *)
ClaimableBesideLive(m) ==
  LET c == msgs[m].chat IN
    /\ msgs[m].outbox = "pending" /\ msgs[m].state \in {"accepted", "queued"}
    /\ slot.chat = c /\ chats[c].state = "queued" /\ ~chats[c].closing

Claimable(m) ==
  LET c == msgs[m].chat IN
    /\ msgs[m].outbox = "pending" /\ msgs[m].state \in {"accepted", "queued"}
    /\ slot.chat = c /\ chats[c].state = "queued" /\ ~chats[c].closing
    /\ \A n \in 1 .. m-1 : msgs[n].chat = c => ~Unfinished(n)
    /\ \A r \in RunId : ~Live(r)

(* The message, the outbox row, the new run and the chat move together. *)
ClaimNext(m, r, b) ==
  /\ Claimable(m)
  /\ NextRun(r)
  /\ msgs' = [msgs EXCEPT ![m].state = "running", ![m].outbox = "dispatched"]
  /\ runs' = [runs EXCEPT ![r] = NewRun(m, 1, "leased", b, 0, FALSE)]
  /\ chats' = [chats EXCEPT ![msgs[m].chat].state = "running"]
  /\ UNCHANGED slot

AdoptRun(r, b) ==
  /\ Live(r) /\ runs[r].expired
  /\ runs[r].pid = 0 \/ Linked(runs[r].pid)
  /\ runs' = [runs EXCEPT ![r].owner = b, ![r].expired = FALSE]
  /\ UNCHANGED <<chats, slot, msgs>>

RenewRuns(ids, b) ==
  /\ runs' = [r \in RunId |->
       IF r \in ids /\ Live(r) /\ runs[r].owner = b
         THEN [runs[r] EXCEPT !.expired = FALSE] ELSE runs[r]]
  /\ UNCHANGED <<chats, slot, msgs>>

Holds(r, b, state) == runs[r].state = state /\ runs[r].owner = b

CanBind(r, b)   == Holds(r, b, "leased") /\ ~runs[r].archived
CanStart(r, b)  == Holds(r, b, "leased")
CanRecord(r, b) == Holds(r, b, "starting") /\ slot.chat = ChatOf(r)

BindArchive(r, b) ==
  /\ CanBind(r, b)
  /\ runs' = [runs EXCEPT ![r].archived = TRUE]
  /\ UNCHANGED <<chats, slot, msgs>>

MarkStarting(r, b) ==
  /\ CanStart(r, b)
  /\ runs' = [runs EXCEPT ![r].state = "starting", ![r].expired = FALSE]
  /\ UNCHANGED <<chats, slot, msgs>>

(* The pid is NULL when /proc no longer knows the process. *)
MarkNativeStarted(r, b, p) ==
  /\ CanRecord(r, b)
  /\ runs' = [runs EXCEPT ![r].state = "running", ![r].pid = p, ![r].expired = FALSE]
  /\ slot' = [slot EXCEPT !.pid = p]
  /\ UNCHANGED <<chats, msgs>>

DeferRun(r, b) ==
  /\ runs[r].state = "leased"
  /\ runs' = [runs EXCEPT ![r].owner = b, ![r].expired = FALSE]
  /\ UNCHANGED <<chats, slot, msgs>>

-----------------------------------------------------------------------------
(* finish_run.  Its outcome must be a legal move of the run, of its message
   unless that is final already, and of the chat unless that is closed.  The
   event of a cancelled outcome is run.interrupted, which the reaper reads. *)

MessageOutcome(outcome) ==
  CASE outcome = "succeeded" -> "completed"
    [] outcome = "cancelled" -> "cancelled"
    [] OTHER                 -> "failed"

(* Seeded fault: the queue is not looked at. *)
AfterTurnIdle(c, outcome) ==
  IF outcome \in {"failed", "unknown"} THEN "error" ELSE "idle"

(* What the chat becomes: a standing close request first empties the queue. *)
AfterTurn(c, outcome) ==
  CASE outcome \in {"failed", "unknown"}             -> "error"
    [] outcome \in {"succeeded", "cancelled"}
         /\ Pending(c) # {} /\ ~chats[c].closing      -> "queued"
    [] OTHER                                         -> "idle"

FinishLegal(r, outcome) ==
  LET c == ChatOf(r)
      m == runs[r].msg
  IN /\ Allowed(RunTransitions, runs[r].state, outcome)
     /\ \/ msgs[m].state \in TerminalMessageStates
        \/ Allowed(MessageTransitions, msgs[m].state, MessageOutcome(outcome))
     /\ \/ chats[c].state = "closed"
        \/ Allowed(ConversationTransitions, chats[c].state, AfterTurn(c, outcome))

FinishRun(r, outcome, keepLink, exited) ==
  LET c == ChatOf(r)
      m == runs[r].msg
      queue == IF chats[c].closing THEN CancelPending(c) ELSE msgs
  IN /\ Live(r)
     /\ FinishLegal(r, outcome)
     /\ runs' = [runs EXCEPT ![r].state = outcome,
                             ![r].pid = IF exited THEN 0 ELSE @,
                             ![r].swept = @ \/ outcome = "cancelled"]
     /\ msgs' = IF msgs[m].state \in TerminalMessageStates THEN queue
                ELSE [queue EXCEPT ![m].state = MessageOutcome(outcome)]
     /\ chats' = IF chats[c].state = "closed" THEN chats
                 ELSE [chats EXCEPT ![c].state = IF chats[c].closing THEN "closed"
                                                 ELSE AfterTurn(c, outcome)]
     /\ slot' = IF chats[c].closing THEN SlotWithout(c)
                ELSE IF slot.chat = c /\ ~keepLink THEN [slot EXCEPT !.pid = 0]
                ELSE slot

(* The next attempt of a message whose lingering run came back to life.  The
   unique index admits one live run per shell. *)
ContinuationLegal(r) ==
  /\ \A q \in RunId : ~Live(q)
  /\ \/ chats[ChatOf(r)].state = "running"
     \/ Allowed(ConversationTransitions, chats[ChatOf(r)].state, "queued")

NextAttempt(m, a) ==
  /\ \A r \in RunId : runs[r].msg = m => runs[r].attempt < a
  /\ \E r \in RunId : runs[r].msg = m /\ runs[r].attempt = a - 1

OpenContinuation(r, next, b) ==
  /\ chats[ChatOf(r)].state # "closed"
  /\ ContinuationLegal(r)
  /\ NextRun(next)
  /\ \E a \in 2..MaxRun :
       /\ NextAttempt(runs[r].msg, a)
       /\ runs' = [runs EXCEPT ![next] =
            NewRun(runs[r].msg, a, "running", b, runs[r].pid, runs[r].archived)]
  /\ chats' = [chats EXCEPT ![ChatOf(r)].state = "running"]
  /\ UNCHANGED <<slot, msgs>>

(* Seeded fault: the runs stop naming the process, the registry does not. *)
ReleaseRowsOnly(r) ==
  /\ runs' = [q \in RunId |->
       IF runs[q].msg = runs[r].msg THEN [runs[q] EXCEPT !.pid = 0] ELSE runs[q]]
  /\ UNCHANGED <<chats, slot, msgs>>

(* Every run of the message stops naming the process, and so does the chat. *)
ReleaseProcessLink(r) ==
  /\ runs' = [q \in RunId |->
       IF runs[q].msg = runs[r].msg THEN [runs[q] EXCEPT !.pid = 0] ELSE runs[q]]
  /\ slot' = IF slot.chat = ChatOf(r) THEN [slot EXCEPT !.pid = 0] ELSE slot
  /\ UNCHANGED <<chats, msgs>>

-----------------------------------------------------------------------------
(* Transactions of the reaper.  It may act on a run whose process the registry
   does not name, until its own outcome event ends the ladder. *)

Sweepable(r) == \/ runs[r].state \in {"starting", "running"}
                \/ Terminal(r) /\ ~runs[r].swept

(* Seeded fault: the registry's link does not protect a process. *)
EligibleLinked(r, p) == Sweepable(r) /\ p # 0 /\ runs[r].pid = p

Eligible(r, p) ==
  /\ Sweepable(r)
  /\ p # 0 /\ runs[r].pid = p
  /\ ~Linked(p)

(* Seeded fault: the ladder stays on its first rung. *)
RecordFirstRung(r, p, label) ==
  /\ Eligible(r, p)
  /\ runs' = [runs EXCEPT ![r].signal = "interrupt"]
  /\ UNCHANGED <<chats, slot, msgs>>

RecordSignal(r, p, label) ==
  /\ Eligible(r, p)
  /\ runs' = [runs EXCEPT ![r].signal = label]
  /\ UNCHANGED <<chats, slot, msgs>>

(* Seeded fault: an uncertain outcome gives way to the reaper's. *)
KeepsProvenOutcome(r) == runs[r].state \in {"succeeded", "failed", "cancelled"}

(* A finished run keeps its outcome and only gets the event. *)
KeepsOutcome(r) == Terminal(r)

(* Seeded fault: the chat is left as it is. *)
AfterReapUnchanged(c) == chats[c].state

AfterReap(c) ==
  IF chats[c].state # "running" THEN chats[c].state
  ELSE IF Pending(c) # {} THEN "queued" ELSE "idle"

FinishInterrupted(r, p) ==
  LET m == runs[r].msg IN
  /\ Eligible(r, p)
  /\ IF KeepsOutcome(r)
       THEN /\ runs' = [runs EXCEPT ![r].swept = TRUE]
            /\ UNCHANGED <<chats, msgs>>
       ELSE /\ runs' = [runs EXCEPT ![r].swept = TRUE, ![r].state = "cancelled"]
            /\ msgs' = IF msgs[m].state \in TerminalMessageStates THEN msgs
                       ELSE [msgs EXCEPT ![m].state = "cancelled"]
            /\ chats' = [chats EXCEPT ![ChatOf(r)].state = AfterReap(ChatOf(r))]
  /\ UNCHANGED slot

(* Time passes: a lease that nobody renewed runs out. *)
LeaseExpires(r) ==
  /\ Live(r) /\ ~runs[r].expired
  /\ runs' = [runs EXCEPT ![r].expired = TRUE]
  /\ UNCHANGED <<chats, slot, msgs>>
=============================================================================
