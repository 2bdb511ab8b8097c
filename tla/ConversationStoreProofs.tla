-------------------------- MODULE ConversationStoreProofs --------------------------
(***************************************************************************)
(* What every transaction of ConversationStore does to the tables: it      *)
(* keeps their types.                                                      *)
(***************************************************************************)
EXTENDS StoreProperties, TLAPS

LEMMA StateSets ==
  /\ ConversationStates = {"idle", "queued", "running", "waiting", "error", "closed"}
  /\ MessageStates = {"accepted", "queued", "running", "completed", "failed", "cancelled"}
  /\ RunStates = {"leased", "starting", "running",
                  "succeeded", "failed", "cancelled", "unknown"}
  /\ OutboxStates = {"pending", "claimed", "dispatched", "cancelled"}
BY DEF ConversationStates, MessageStates, RunStates, OutboxStates,
       ConversationTransitions, MessageTransitions, RunTransitions, OutboxTransitions

LEMMA CloseActiveType ==
  ASSUME StoreTypeOK PROVE CloseActive \in [Chats -> Chat]
BY StateSets, StoreConstants DEF StoreTypeOK, CloseActive, Slot, Chat

LEMMA CancelPendingType ==
  ASSUME StoreTypeOK, NEW c PROVE CancelPending(c) \in [MessageId -> Message]
<1>1. \A k \in Message : [k EXCEPT !.state = "cancelled", !.outbox = "cancelled"] \in Message
  <2>1. "cancelled" \in MessageStates /\ "cancelled" \in OutboxStates
    BY StateSets
  <2> QED
    BY ONLY <2>1 DEF Message
<1>2. \A m \in MessageId : msgs[m] \in Message
  BY DEF StoreTypeOK
<1>3. \A m \in MessageId :
        (IF m \in Pending(c)
           THEN [msgs[m] EXCEPT !.state = "cancelled", !.outbox = "cancelled"]
           ELSE msgs[m]) \in Message
  BY ONLY <1>1, <1>2
<1> QED
  BY ONLY <1>3 DEF CancelPending

LEMMA SlotTypes ==
  ASSUME StoreTypeOK
  PROVE /\ EmptySlot \in Slot
        /\ \A c \in Chats : [chat |-> c, pid |-> 0] \in Slot
        /\ \A c : SlotWithout(c) \in Slot
        /\ \A p \in Pid : [slot EXCEPT !.pid = p] \in Slot
BY StoreConstants DEF StoreTypeOK, SlotWithout, EmptySlot, Slot, Pid

LEMMA CloseActiveForCreateType ==
  ASSUME StoreTypeOK, CloseActiveForCreate PROVE StoreTypeOK'
BY CloseActiveType, SlotTypes DEF StoreTypeOK, CloseActiveForCreate

LEMMA RegisterChatType ==
  ASSUME StoreTypeOK, NEW c \in Chats, RegisterChat(c) PROVE StoreTypeOK'
BY SlotTypes, StateSets DEF StoreTypeOK, RegisterChat, Chat

LEMMA AcceptMessageType ==
  ASSUME StoreTypeOK, NEW m \in MessageId, NEW c \in Chats, AcceptMessage(m, c)
  PROVE StoreTypeOK'
BY StateSets DEF StoreTypeOK, AcceptMessage, QueueMessage, Chat, Message

LEMMA ReopenWithMessageType ==
  ASSUME StoreTypeOK, NEW m \in MessageId, NEW c \in Chats, ReopenWithMessage(m, c)
  PROVE StoreTypeOK'
BY StateSets, CloseActiveType, SlotTypes
   DEF StoreTypeOK, ReopenWithMessage, QueueMessage, Chat, Message

LEMMA CloseByUserType ==
  ASSUME StoreTypeOK, NEW c \in Chats, CloseByUser(c) PROVE StoreTypeOK'
BY StateSets, CancelPendingType, SlotTypes DEF StoreTypeOK, CloseByUser, Chat

LEMMA DisplaceType ==
  ASSUME StoreTypeOK, Displace PROVE StoreTypeOK'
BY StateSets, CancelPendingType, SlotTypes DEF StoreTypeOK, Displace, Chat

(* Updates of one row of the run table keep the table's type. *)
LEMMA RunRowTypes ==
  \A k \in Run :
    /\ \A s \in RunStates : [k EXCEPT !.state = s] \in Run
    /\ \A p \in Pid : [k EXCEPT !.pid = p] \in Run
    /\ \A b \in Brokers : [k EXCEPT !.owner = b] \in Run
    /\ \A x \in BOOLEAN : [k EXCEPT !.expired = x] \in Run
    /\ \A x \in BOOLEAN : [k EXCEPT !.swept = x] \in Run
    /\ \A x \in BOOLEAN : [k EXCEPT !.stop = x] \in Run
    /\ \A x \in BOOLEAN : [k EXCEPT !.archived = x] \in Run
<1> TAKE k \in Run
<1>1. ASSUME NEW s \in RunStates PROVE [k EXCEPT !.state = s] \in Run
  BY Zenon DEF Run
<1>2. ASSUME NEW p \in Pid PROVE [k EXCEPT !.pid = p] \in Run
  BY Zenon DEF Run
<1>3. ASSUME NEW b \in Brokers PROVE [k EXCEPT !.owner = b] \in Run
  BY Zenon DEF Run
<1>4. ASSUME NEW x \in BOOLEAN PROVE [k EXCEPT !.expired = x] \in Run
  BY Zenon DEF Run
<1>5. ASSUME NEW x \in BOOLEAN PROVE [k EXCEPT !.swept = x] \in Run
  BY Zenon DEF Run
<1>6. ASSUME NEW x \in BOOLEAN PROVE [k EXCEPT !.stop = x] \in Run
  BY Zenon DEF Run
<1>7. ASSUME NEW x \in BOOLEAN PROVE [k EXCEPT !.archived = x] \in Run
  BY Zenon DEF Run
<1> QED
  BY ONLY <1>1, <1>2, <1>3, <1>4, <1>5, <1>6, <1>7

LEMMA RunRowPut ==
  ASSUME NEW f \in [RunId -> Run], NEW r, NEW k, r \in RunId => k \in Run
  PROVE  [f EXCEPT ![r] = k] \in [RunId -> Run]
OBVIOUS

LEMMA RunFieldTypes ==
  \A f \in [RunId -> Run] : \A r :
    /\ \A s \in RunStates : [f EXCEPT ![r].state = s] \in [RunId -> Run]
    /\ \A p \in Pid : [f EXCEPT ![r].pid = p] \in [RunId -> Run]
    /\ \A b \in Brokers : [f EXCEPT ![r].owner = b] \in [RunId -> Run]
    /\ \A x \in BOOLEAN : [f EXCEPT ![r].expired = x] \in [RunId -> Run]
    /\ \A x \in BOOLEAN : [f EXCEPT ![r].swept = x] \in [RunId -> Run]
    /\ \A x \in BOOLEAN : [f EXCEPT ![r].stop = x] \in [RunId -> Run]
    /\ \A x \in BOOLEAN : [f EXCEPT ![r].archived = x] \in [RunId -> Run]
<1> TAKE f \in [RunId -> Run]
<1> TAKE r
<1>0. r \in RunId => f[r] \in Run
  OBVIOUS
<1>1. ASSUME NEW s \in RunStates PROVE [f EXCEPT ![r].state = s] \in [RunId -> Run]
  <2>1. r \in RunId => [f[r] EXCEPT !.state = s] \in Run
    BY <1>0, RunRowTypes
  <2> QED
    BY <2>1, RunRowPut, Zenon
<1>2. ASSUME NEW p \in Pid PROVE [f EXCEPT ![r].pid = p] \in [RunId -> Run]
  <2>1. r \in RunId => [f[r] EXCEPT !.pid = p] \in Run
    BY <1>0, RunRowTypes
  <2> QED
    BY <2>1, RunRowPut, Zenon
<1>3. ASSUME NEW b \in Brokers PROVE [f EXCEPT ![r].owner = b] \in [RunId -> Run]
  <2>1. r \in RunId => [f[r] EXCEPT !.owner = b] \in Run
    BY <1>0, RunRowTypes
  <2> QED
    BY <2>1, RunRowPut, Zenon
<1>4. ASSUME NEW x \in BOOLEAN PROVE [f EXCEPT ![r].expired = x] \in [RunId -> Run]
  <2>1. r \in RunId => [f[r] EXCEPT !.expired = x] \in Run
    BY <1>0, RunRowTypes
  <2> QED
    BY <2>1, RunRowPut, Zenon
<1>5. ASSUME NEW x \in BOOLEAN PROVE [f EXCEPT ![r].swept = x] \in [RunId -> Run]
  <2>1. r \in RunId => [f[r] EXCEPT !.swept = x] \in Run
    BY <1>0, RunRowTypes
  <2> QED
    BY <2>1, RunRowPut, Zenon
<1>6. ASSUME NEW x \in BOOLEAN PROVE [f EXCEPT ![r].stop = x] \in [RunId -> Run]
  <2>1. r \in RunId => [f[r] EXCEPT !.stop = x] \in Run
    BY <1>0, RunRowTypes
  <2> QED
    BY <2>1, RunRowPut, Zenon
<1>7. ASSUME NEW x \in BOOLEAN PROVE [f EXCEPT ![r].archived = x] \in [RunId -> Run]
  <2>1. r \in RunId => [f[r] EXCEPT !.archived = x] \in Run
    BY <1>0, RunRowTypes
  <2> QED
    BY <2>1, RunRowPut, Zenon
<1> QED
  BY ONLY <1>1, <1>2, <1>3, <1>4, <1>5, <1>6, <1>7

LEMMA RequestInterruptType ==
  ASSUME StoreTypeOK, NEW r, RequestInterrupt(r) PROVE StoreTypeOK'
<1>1. (runs[r].stop \/ Live(r)) \in BOOLEAN
  OBVIOUS
<1>2. runs' = [runs EXCEPT ![r].stop = runs[r].stop \/ Live(r)]
  BY DEF RequestInterrupt
<1>3. \A x \in BOOLEAN : [runs EXCEPT ![r].stop = x] \in [RunId -> Run]
  BY RunFieldTypes DEF StoreTypeOK
<1>4. runs' \in [RunId -> Run]
  BY ONLY <1>1, <1>2, <1>3
<1> QED
  BY <1>4 DEF StoreTypeOK, RequestInterrupt

LEMMA NewRunType ==
  ASSUME NEW m \in 0..MaxMessage, NEW a \in 0..MaxRun, NEW b \in Brokers,
         NEW state \in RunStates, NEW p \in Pid, NEW x \in BOOLEAN
  PROVE NewRun(m, a, state, b, p, x) \in Run
BY DEF NewRun, Run

LEMMA ClaimNextType ==
  ASSUME StoreTypeOK, NEW m \in MessageId, NEW r \in RunId, NEW b \in Brokers,
         ClaimNext(m, r, b)
  PROVE StoreTypeOK'
<1>1. NewRun(m, 1, "leased", b, 0, FALSE) \in Run
  <2>1. m \in 0..MaxMessage /\ 1 \in 0..MaxRun /\ 0 \in Pid
    BY StoreConstants DEF MessageId, Pid
  <2>2. "leased" \in RunStates /\ FALSE \in BOOLEAN
    BY StateSets
  <2> QED
    BY <2>1, <2>2, NewRunType
<1>2. runs' \in [RunId -> Run]
  BY <1>1 DEF StoreTypeOK, ClaimNext
<1>3. "running" \in MessageStates /\ "dispatched" \in OutboxStates
  BY StateSets
<1>4. msgs' \in [MessageId -> Message]
  <2>1. \A k \in Message :
          [k EXCEPT !.state = "running", !.outbox = "dispatched"] \in Message
    BY ONLY <1>3 DEF Message
  <2>2. msgs \in [MessageId -> Message] /\ msgs[m] \in Message
    BY DEF StoreTypeOK
  <2>3. msgs' = [msgs EXCEPT ![m] = [msgs[m] EXCEPT !.state = "running",
                                                    !.outbox = "dispatched"]]
    BY ONLY <2>2, ClaimNext(m, r, b) DEF ClaimNext
  <2> QED
    BY ONLY <2>1, <2>2, <2>3
<1>5. chats' \in [Chats -> Chat]
  BY StateSets DEF StoreTypeOK, ClaimNext, Chat, Claimable, Slot
<1> QED
  BY <1>2, <1>4, <1>5 DEF StoreTypeOK, ClaimNext

LEMMA AdoptRunType ==
  ASSUME StoreTypeOK, NEW r \in RunId, NEW b \in Brokers, AdoptRun(r, b)
  PROVE StoreTypeOK'
<1>1. runs' = [runs EXCEPT ![r].owner = b, ![r].expired = FALSE]
  BY DEF AdoptRun
<1>2. [runs EXCEPT ![r].owner = b] \in [RunId -> Run]
  BY RunFieldTypes DEF StoreTypeOK
<1>3. runs' \in [RunId -> Run]
  BY <1>1, <1>2, RunFieldTypes
<1> QED
  BY <1>3 DEF StoreTypeOK, AdoptRun

LEMMA RenewRunsType ==
  ASSUME StoreTypeOK, NEW ids, NEW b \in Brokers, RenewRuns(ids, b) PROVE StoreTypeOK'
<1>1. \A r \in RunId : runs[r] \in Run /\ [runs[r] EXCEPT !.expired = FALSE] \in Run
  BY RunRowTypes DEF StoreTypeOK
<1>2. runs' \in [RunId -> Run]
  BY ONLY <1>1, RenewRuns(ids, b) DEF RenewRuns
<1> QED
  BY <1>2 DEF StoreTypeOK, RenewRuns

LEMMA BindArchiveType ==
  ASSUME StoreTypeOK, NEW r \in RunId, NEW b, BindArchive(r, b) PROVE StoreTypeOK'
<1>1. runs' = [runs EXCEPT ![r].archived = TRUE]
  BY DEF BindArchive
<1>2. runs' \in [RunId -> Run]
  BY <1>1, RunFieldTypes DEF StoreTypeOK
<1> QED
  BY <1>2 DEF StoreTypeOK, BindArchive

LEMMA MarkStartingType ==
  ASSUME StoreTypeOK, NEW r \in RunId, NEW b, MarkStarting(r, b) PROVE StoreTypeOK'
<1>1. "starting" \in RunStates
  BY StateSets
<1>2. runs' = [runs EXCEPT ![r].state = "starting", ![r].expired = FALSE]
  BY DEF MarkStarting
<1>3. [runs EXCEPT ![r].state = "starting"] \in [RunId -> Run]
  BY <1>1, RunFieldTypes DEF StoreTypeOK
<1>4. runs' \in [RunId -> Run]
  BY <1>2, <1>3, RunFieldTypes
<1> QED
  BY <1>4 DEF StoreTypeOK, MarkStarting

LEMMA MarkNativeStartedType ==
  ASSUME StoreTypeOK, NEW r \in RunId, NEW b, NEW p \in Pid, MarkNativeStarted(r, b, p)
  PROVE StoreTypeOK'
<1>1. "running" \in RunStates
  BY StateSets
<1>2. runs' \in [RunId -> Run]
  <2>1. [runs EXCEPT ![r].state = "running"] \in [RunId -> Run]
    BY <1>1, RunFieldTypes DEF StoreTypeOK
  <2>2. [runs EXCEPT ![r].state = "running", ![r].pid = p] \in [RunId -> Run]
    BY <2>1, RunFieldTypes
  <2> QED
    BY <2>2, RunFieldTypes DEF MarkNativeStarted
<1> QED
  BY <1>2, SlotTypes DEF StoreTypeOK, MarkNativeStarted

LEMMA DeferRunType ==
  ASSUME StoreTypeOK, NEW r \in RunId, NEW b \in Brokers, DeferRun(r, b)
  PROVE StoreTypeOK'
<1>1. runs' = [runs EXCEPT ![r].owner = b, ![r].expired = FALSE]
  BY DEF DeferRun
<1>2. [runs EXCEPT ![r].owner = b] \in [RunId -> Run]
  BY RunFieldTypes DEF StoreTypeOK
<1>3. runs' \in [RunId -> Run]
  BY <1>1, <1>2, RunFieldTypes
<1> QED
  BY <1>3 DEF StoreTypeOK, DeferRun

LEMMA OutcomeTypes ==
  ASSUME NEW outcome \in TerminalRunStates, NEW c
  PROVE /\ outcome \in RunStates
        /\ MessageOutcome(outcome) \in TerminalMessageStates
        /\ MessageOutcome(outcome) \in MessageStates
        /\ AfterTurn(c, outcome) \in {"idle", "queued", "error"}
BY StateSets DEF TerminalRunStates, TerminalMessageStates, MessageOutcome, AfterTurn

LEMMA FinishRunType ==
  ASSUME StoreTypeOK, NEW r \in RunId, NEW outcome \in TerminalRunStates,
         NEW keepLink \in BOOLEAN, NEW exited \in BOOLEAN,
         FinishRun(r, outcome, keepLink, exited)
  PROVE StoreTypeOK'
<1> DEFINE c == ChatOf(r)
           m == runs[r].msg
           queue == IF chats[c].closing THEN CancelPending(c) ELSE msgs
<1>1. runs' \in [RunId -> Run]
  <2>1. 0 \in Pid
    BY StoreConstants DEF Pid
  <2>2. /\ (IF exited THEN 0 ELSE runs[r].pid) \in Pid
        /\ (runs[r].swept \/ outcome = "cancelled") \in BOOLEAN
    BY <2>1 DEF StoreTypeOK, Run
  <2>3. runs' = [runs EXCEPT ![r].state = outcome,
                             ![r].pid = IF exited THEN 0 ELSE runs[r].pid,
                             ![r].swept = runs[r].swept \/ outcome = "cancelled"]
    BY DEF FinishRun
  <2> QED
    <3> DEFINE pid == IF exited THEN 0 ELSE runs[r].pid
               swept == runs[r].swept \/ outcome = "cancelled"
    <3>1. pid \in Pid /\ swept \in BOOLEAN
      BY <2>2
    <3>2. runs' = [runs EXCEPT ![r].state = outcome, ![r].pid = pid, ![r].swept = swept]
      BY <2>3
    <3> HIDE DEF pid, swept
    <3>3. [runs EXCEPT ![r].state = outcome] \in [RunId -> Run]
      BY RunFieldTypes, OutcomeTypes DEF StoreTypeOK
    <3>4. [runs EXCEPT ![r].state = outcome, ![r].pid = pid] \in [RunId -> Run]
      BY <3>1, <3>3, RunFieldTypes
    <3> QED
      BY ONLY <3>1, <3>2, <3>4, RunFieldTypes
<1>2. msgs' \in [MessageId -> Message]
  <2>1. queue \in [MessageId -> Message]
    BY CancelPendingType DEF StoreTypeOK
  <2>2. \/ msgs' = queue
        \/ msgs' = [queue EXCEPT ![m].state = MessageOutcome(outcome)]
    BY DEF FinishRun
  <2>3. \A k \in Message : [k EXCEPT !.state = MessageOutcome(outcome)] \in Message
    BY OutcomeTypes DEF Message
  <2> HIDE DEF queue
  <2> DEFINE state == MessageOutcome(outcome)
  <2> HIDE DEF state
  <2>4. [queue EXCEPT ![m].state = state] \in [MessageId -> Message]
    BY ONLY <2>1, <2>3, Zenon DEF state
  <2> QED
    BY ONLY <2>1, <2>2, <2>4 DEF state
<1>3. chats' \in [Chats -> Chat]
  <2>1. (IF chats[c].closing THEN "closed" ELSE AfterTurn(c, outcome)) \in ConversationStates
    BY OutcomeTypes, StateSets
  <2>2. \/ chats' = chats
        \/ chats' = [chats EXCEPT ![c].state = IF chats[c].closing THEN "closed"
                                                ELSE AfterTurn(c, outcome)]
    BY DEF FinishRun
  <2> QED
    BY <2>1, <2>2 DEF StoreTypeOK, Chat
<1>4. slot' \in Slot
  BY SlotTypes, StoreConstants DEF StoreTypeOK, FinishRun, Pid
<1> QED
  BY <1>1, <1>2, <1>3, <1>4 DEF StoreTypeOK

LEMMA OpenContinuationType ==
  ASSUME StoreTypeOK, NEW r \in RunId, NEW next \in RunId, NEW b \in Brokers,
         OpenContinuation(r, next, b)
  PROVE StoreTypeOK'
<1>1. PICK a \in 2..MaxRun :
        runs' = [runs EXCEPT ![next] =
          NewRun(runs[r].msg, a, "running", b, runs[r].pid, runs[r].archived)]
  BY DEF OpenContinuation
<1>2. NewRun(runs[r].msg, a, "running", b, runs[r].pid, runs[r].archived) \in Run
  <2>1. /\ runs[r].msg \in 0..MaxMessage /\ runs[r].pid \in Pid
        /\ runs[r].archived \in BOOLEAN
    BY DEF StoreTypeOK, Run
  <2>2. a \in 0..MaxRun /\ "running" \in RunStates
    BY StateSets, StoreConstants
  <2> QED
    BY <2>1, <2>2, NewRunType
<1>3. chats' \in [Chats -> Chat]
  BY StateSets DEF StoreTypeOK, OpenContinuation, Chat
<1> QED
  BY <1>1, <1>2, <1>3 DEF StoreTypeOK, OpenContinuation

LEMMA ReleaseProcessLinkType ==
  ASSUME StoreTypeOK, NEW r \in RunId, ReleaseProcessLink(r) PROVE StoreTypeOK'
<1>1. 0 \in Pid
  BY StoreConstants DEF Pid
<1>2. runs' \in [RunId -> Run]
  BY <1>1 DEF StoreTypeOK, ReleaseProcessLink, Run
<1> QED
  BY <1>1, <1>2, SlotTypes DEF StoreTypeOK, ReleaseProcessLink

LEMMA RecordSignalType ==
  ASSUME StoreTypeOK, NEW r \in RunId, NEW p, NEW label \in {"interrupt", "SIGTERM"},
         RecordSignal(r, p, label)
  PROVE StoreTypeOK'
BY DEF StoreTypeOK, RecordSignal, Run

LEMMA FinishInterruptedType ==
  ASSUME StoreTypeOK, NEW r \in RunId, NEW p, FinishInterrupted(r, p) PROVE StoreTypeOK'
<1>1. "cancelled" \in RunStates /\ "cancelled" \in MessageStates
  BY StateSets
<1>2. runs' \in [RunId -> Run]
  <2>1. \/ runs' = [runs EXCEPT ![r].swept = TRUE]
        \/ runs' = [runs EXCEPT ![r].swept = TRUE, ![r].state = "cancelled"]
    BY DEF FinishInterrupted
  <2>2. [runs EXCEPT ![r].swept = TRUE] \in [RunId -> Run]
    BY RunFieldTypes DEF StoreTypeOK
  <2>3. [runs EXCEPT ![r].swept = TRUE, ![r].state = "cancelled"] \in [RunId -> Run]
    BY <1>1, <2>2, RunFieldTypes
  <2> QED
    BY <2>1, <2>2, <2>3
<1>3. msgs' \in [MessageId -> Message]
  BY <1>1 DEF StoreTypeOK, FinishInterrupted, Message
<1>4. chats' \in [Chats -> Chat]
  BY StateSets DEF StoreTypeOK, FinishInterrupted, AfterReap, Chat
<1> QED
  BY <1>2, <1>3, <1>4 DEF StoreTypeOK, FinishInterrupted

LEMMA LeaseExpiresType ==
  ASSUME StoreTypeOK, NEW r \in RunId, LeaseExpires(r) PROVE StoreTypeOK'
<1>1. runs' = [runs EXCEPT ![r].expired = TRUE]
  BY DEF LeaseExpires
<1>2. runs' \in [RunId -> Run]
  BY <1>1, RunFieldTypes DEF StoreTypeOK
<1> QED
  BY <1>2 DEF StoreTypeOK, LeaseExpires

-----------------------------------------------------------------------------
(* What a transaction leaves alone, when it neither claims a prompt nor opens
   a continuation: which runs there are and which attempt of which prompt they
   are; no run is leased anew or comes back to life; and no prompt is marked
   dispatched, or ceases to be. *)

RowKept(r) ==
  /\ runs'[r].msg = runs[r].msg
  /\ runs'[r].attempt = runs[r].attempt
  /\ runs'[r].state = NoRow <=> runs[r].state = NoRow
  /\ runs'[r].state = "leased" => runs[r].state = "leased"
  /\ runs'[r].state = "starting" => runs[r].state \in {"leased", "starting"}
  /\ runs'[r].state \in LiveRunStates => runs[r].state \in LiveRunStates

RunsKept == \A r \in RunId : RowKept(r)

OutboxKept == \A m \in MessageId :
  /\ msgs'[m].outbox = "dispatched" <=> msgs[m].outbox = "dispatched"
  /\ msgs'[m].state = NoRow => msgs[m].state = NoRow

(* A dispatched prompt is a prompt that was sent. *)
OutboxOK == \A m \in MessageId : msgs[m].outbox = "dispatched" => msgs[m].state # NoRow

LEMMA UnchangedKept ==
  /\ UNCHANGED runs => RunsKept
  /\ UNCHANGED msgs => OutboxKept
BY DEF RunsKept, RowKept, OutboxKept

LEMMA CancelKept ==
  ASSUME StoreTypeOK, NEW c, msgs' = CancelPending(c) PROVE OutboxKept
BY DEF StoreTypeOK, Message, CancelPending, Pending, OutboxKept, NoRow

LEMMA QueueMessageKept ==
  ASSUME StoreTypeOK, OutboxOK, NEW m \in MessageId, NEW c \in Chats, QueueMessage(m, c)
  PROVE OutboxKept
BY DEF StoreTypeOK, OutboxOK, OutboxKept, QueueMessage, NextMessage, Message, NoRow

(* A change of one run's row, in the fields that the transactions set. *)
LEMMA RowFieldKept ==
  \A w \in Run : \A v :
    /\ LET x == [w EXCEPT !.state = v]
       IN x.state = v /\ x.msg = w.msg /\ x.attempt = w.attempt
    /\ LET x == [w EXCEPT !.state = v, !.pid = v]
       IN x.state = v /\ x.msg = w.msg /\ x.attempt = w.attempt
    /\ LET x == [w EXCEPT !.stop = v]
       IN x.state = w.state /\ x.msg = w.msg /\ x.attempt = w.attempt
    /\ LET x == [w EXCEPT !.swept = v]
       IN x.state = w.state /\ x.msg = w.msg /\ x.attempt = w.attempt
    /\ LET x == [w EXCEPT !.pid = v]
       IN x.state = w.state /\ x.msg = w.msg /\ x.attempt = w.attempt
    /\ LET x == [w EXCEPT !.archived = v]
       IN x.state = w.state /\ x.msg = w.msg /\ x.attempt = w.attempt
    /\ LET x == [w EXCEPT !.expired = v]
       IN x.state = w.state /\ x.msg = w.msg /\ x.attempt = w.attempt
    /\ LET x == [w EXCEPT !.signal = v]
       IN x.state = w.state /\ x.msg = w.msg /\ x.attempt = w.attempt
    /\ \A u : LET x == [w EXCEPT !.owner = v, !.expired = u]
       IN x.state = w.state /\ x.msg = w.msg /\ x.attempt = w.attempt
    /\ \A u : LET x == [w EXCEPT !.state = v, !.expired = u]
       IN x.state = v /\ x.msg = w.msg /\ x.attempt = w.attempt
    /\ \A u, y : LET x == [w EXCEPT !.state = v, !.pid = u, !.expired = y]
       IN x.state = v /\ x.msg = w.msg /\ x.attempt = w.attempt
    /\ \A u, y : LET x == [w EXCEPT !.state = v, !.pid = u, !.swept = y]
       IN x.state = v /\ x.msg = w.msg /\ x.attempt = w.attempt
    /\ \A u : LET x == [w EXCEPT !.swept = u, !.state = v]
       IN x.state = v /\ x.msg = w.msg /\ x.attempt = w.attempt
BY DEF Run

LEMMA OneRowKept ==
  ASSUME StoreTypeOK, NEW r \in RunId, NEW x, runs' = [runs EXCEPT ![r] = x],
         x.msg = runs[r].msg, x.attempt = runs[r].attempt,
         \/ x.state = runs[r].state
         \/ x.state \in TerminalRunStates /\ runs[r].state # NoRow
         \/ x.state = "starting" /\ runs[r].state = "leased"
         \/ x.state = "running" /\ runs[r].state = "starting"
  PROVE RunsKept
<1>1. \A q \in RunId : runs'[q] = IF q = r THEN x ELSE runs[q]
  BY DEF StoreTypeOK
<1> QED
  BY <1>1 DEF RunsKept, RowKept, TerminalRunStates, LiveRunStates, NoRow

LEMMA RequestInterruptKept ==
  ASSUME StoreTypeOK, NEW r \in RunId, RequestInterrupt(r) PROVE RunsKept /\ OutboxKept
<1> DEFINE x == [runs[r] EXCEPT !.stop = runs[r].stop \/ Live(r)]
<1>1. runs[r] \in Run
  BY DEF StoreTypeOK
<1>2. x.state = runs[r].state /\ x.msg = runs[r].msg /\ x.attempt = runs[r].attempt
  BY ONLY <1>1, RowFieldKept
<1>3. runs' = [runs EXCEPT ![r] = x]
  BY DEF RequestInterrupt
<1> HIDE DEF x
<1> QED
  BY <1>2, <1>3, OneRowKept, UnchangedKept DEF RequestInterrupt

LEMMA LeaseKept ==
  ASSUME StoreTypeOK, NEW r \in RunId, NEW b,
         AdoptRun(r, b) \/ DeferRun(r, b) \/ LeaseExpires(r)
  PROVE RunsKept /\ OutboxKept
<1>1. runs[r] \in Run
  BY DEF StoreTypeOK
<1>2. PICK x : /\ \/ x = [runs[r] EXCEPT !.owner = b, !.expired = FALSE]
                  \/ x = [runs[r] EXCEPT !.expired = TRUE]
               /\ runs' = [runs EXCEPT ![r] = x]
  BY DEF AdoptRun, DeferRun, LeaseExpires
<1>3. x.state = runs[r].state /\ x.msg = runs[r].msg /\ x.attempt = runs[r].attempt
  <2>1. CASE x = [runs[r] EXCEPT !.owner = b, !.expired = FALSE]
    BY ONLY <1>1, <2>1, RowFieldKept
  <2>2. CASE x = [runs[r] EXCEPT !.expired = TRUE]
    BY ONLY <1>1, <2>2, RowFieldKept
  <2> QED
    BY <1>2, <2>1, <2>2
<1> QED
  BY <1>2, <1>3, OneRowKept, UnchangedKept DEF AdoptRun, DeferRun, LeaseExpires

LEMMA RenewRunsKept ==
  ASSUME StoreTypeOK, NEW ids, NEW b, RenewRuns(ids, b) PROVE RunsKept /\ OutboxKept
<1>1. \A r \in RunId : \/ runs'[r] = [runs[r] EXCEPT !.expired = FALSE]
                       \/ runs'[r] = runs[r]
  BY DEF RenewRuns
<1>2. \A r \in RunId : /\ runs'[r].state = runs[r].state /\ runs'[r].msg = runs[r].msg
                       /\ runs'[r].attempt = runs[r].attempt
  <2> TAKE r \in RunId
  <2>1. runs[r] \in Run
    BY DEF StoreTypeOK
  <2>2. CASE runs'[r] = [runs[r] EXCEPT !.expired = FALSE]
    BY ONLY <2>1, <2>2, RowFieldKept
  <2> QED
    BY <1>1, <2>2
<1> QED
  BY <1>2, UnchangedKept DEF RunsKept, RowKept, RenewRuns

LEMMA BindArchiveKept ==
  ASSUME StoreTypeOK, NEW r \in RunId, NEW b, BindArchive(r, b) PROVE RunsKept /\ OutboxKept
<1>1. PICK x : /\ x = [runs[r] EXCEPT !.archived = TRUE]
               /\ runs' = [runs EXCEPT ![r] = x]
  BY DEF BindArchive
<1>2. x.state = runs[r].state /\ x.msg = runs[r].msg /\ x.attempt = runs[r].attempt
  BY <1>1, RowFieldKept DEF StoreTypeOK
<1> QED
  BY <1>1, <1>2, OneRowKept, UnchangedKept DEF BindArchive

LEMMA MarkStartingKept ==
  ASSUME StoreTypeOK, NEW r \in RunId, NEW b, MarkStarting(r, b) PROVE RunsKept /\ OutboxKept
<1>1. PICK x : /\ x = [runs[r] EXCEPT !.state = "starting", !.expired = FALSE]
               /\ runs' = [runs EXCEPT ![r] = x]
  BY DEF MarkStarting
<1>2. x.state = "starting" /\ x.msg = runs[r].msg /\ x.attempt = runs[r].attempt
  BY <1>1, RowFieldKept DEF StoreTypeOK
<1> QED
  BY <1>1, <1>2, OneRowKept, UnchangedKept DEF MarkStarting, CanStart, Holds

LEMMA MarkNativeStartedKept ==
  ASSUME StoreTypeOK, NEW r \in RunId, NEW b, NEW p, MarkNativeStarted(r, b, p)
  PROVE RunsKept /\ OutboxKept
<1>1. PICK x : /\ x = [runs[r] EXCEPT !.state = "running", !.pid = p, !.expired = FALSE]
               /\ runs' = [runs EXCEPT ![r] = x]
  BY DEF MarkNativeStarted
<1>2. x.state = "running" /\ x.msg = runs[r].msg /\ x.attempt = runs[r].attempt
  BY <1>1, RowFieldKept DEF StoreTypeOK
<1> QED
  BY <1>1, <1>2, OneRowKept, UnchangedKept DEF MarkNativeStarted, CanRecord, Holds

(* Ending a message's turn leaves every outbox row alone. *)
LEMMA MessageStateKept ==
  ASSUME NEW table \in [MessageId -> Message], NEW m, NEW state
  PROVE \A n \in MessageId :
          /\ [table EXCEPT ![m].state = state][n].outbox = table[n].outbox
          /\ \/ [table EXCEPT ![m].state = state][n].state = state
             \/ [table EXCEPT ![m].state = state][n].state = table[n].state
BY DEF Message

LEMMA FinishRunKept ==
  ASSUME StoreTypeOK, NEW r \in RunId, NEW outcome \in TerminalRunStates,
         NEW keepLink, NEW exited, FinishRun(r, outcome, keepLink, exited)
  PROVE RunsKept /\ OutboxKept
<1> DEFINE c == ChatOf(r)
           queue == IF chats[c].closing THEN CancelPending(c) ELSE msgs
<1>1. PICK x, p, y : /\ x = [runs[r] EXCEPT !.state = outcome, !.pid = p, !.swept = y]
                     /\ runs' = [runs EXCEPT ![r] = x]
  BY DEF FinishRun
<1>2. x.state = outcome /\ x.msg = runs[r].msg /\ x.attempt = runs[r].attempt
  BY <1>1, RowFieldKept DEF StoreTypeOK
<1>3. RunsKept
  <2>1. runs[r].state \in LiveRunStates
    BY DEF FinishRun, Live
  <2> QED
    BY <1>1, <1>2, <2>1, OneRowKept DEF LiveRunStates, NoRow
<1>4. queue \in [MessageId -> Message]
  BY CancelPendingType DEF StoreTypeOK
<1>5. \A m \in MessageId :
        /\ queue[m].outbox = "dispatched" <=> msgs[m].outbox = "dispatched"
        /\ queue[m].state = NoRow => msgs[m].state = NoRow
  BY DEF CancelPending, Pending, StoreTypeOK, Message, NoRow
<1>6. OutboxKept
  <2>1. \/ msgs' = queue
        \/ msgs' = [queue EXCEPT ![runs[r].msg].state = MessageOutcome(outcome)]
    BY DEF FinishRun
  <2>2. MessageOutcome(outcome) # NoRow
    BY DEF MessageOutcome, NoRow
  <2>3. CASE msgs' = queue
    BY <1>5, <2>3 DEF OutboxKept
  <2>4. CASE msgs' = [queue EXCEPT ![runs[r].msg].state = MessageOutcome(outcome)]
    <3> HIDE DEF queue
    <3>1. \A n \in MessageId :
            /\ msgs'[n].outbox = queue[n].outbox
            /\ msgs'[n].state = MessageOutcome(outcome) \/ msgs'[n].state = queue[n].state
      BY ONLY <1>4, <2>4, MessageStateKept
    <3> QED
      BY <1>5, <2>2, <3>1 DEF OutboxKept
  <2> QED
    BY <2>1, <2>3, <2>4
<1> QED
  BY <1>3, <1>6

LEMMA ReleaseProcessLinkKept ==
  ASSUME StoreTypeOK, NEW r, ReleaseProcessLink(r) PROVE RunsKept /\ OutboxKept
<1>1. \A q \in RunId : runs'[q] = [runs[q] EXCEPT !.pid = 0] \/ runs'[q] = runs[q]
  BY DEF ReleaseProcessLink
<1>2. \A q \in RunId : /\ runs'[q].state = runs[q].state /\ runs'[q].msg = runs[q].msg
                       /\ runs'[q].attempt = runs[q].attempt
  <2> TAKE q \in RunId
  <2>1. runs[q] \in Run
    BY DEF StoreTypeOK
  <2>2. CASE runs'[q] = [runs[q] EXCEPT !.pid = 0]
    BY ONLY <2>1, <2>2, RowFieldKept
  <2> QED
    BY <1>1, <2>2
<1> QED
  BY <1>2, UnchangedKept DEF RunsKept, RowKept, ReleaseProcessLink

LEMMA RecordSignalKept ==
  ASSUME StoreTypeOK, NEW r \in RunId, NEW p, NEW label, RecordSignal(r, p, label)
  PROVE RunsKept /\ OutboxKept
<1>1. PICK x : /\ x = [runs[r] EXCEPT !.signal = label]
               /\ runs' = [runs EXCEPT ![r] = x]
  BY DEF RecordSignal
<1>2. x.state = runs[r].state /\ x.msg = runs[r].msg /\ x.attempt = runs[r].attempt
  BY <1>1, RowFieldKept DEF StoreTypeOK
<1> QED
  BY <1>1, <1>2, OneRowKept, UnchangedKept DEF RecordSignal

LEMMA FinishInterruptedKept ==
  ASSUME StoreTypeOK, NEW r \in RunId, NEW p, FinishInterrupted(r, p)
  PROVE RunsKept /\ OutboxKept
<1>1. PICK x : /\ runs' = [runs EXCEPT ![r] = x]
               /\ \/ x = [runs[r] EXCEPT !.swept = TRUE]
                  \/ /\ x = [runs[r] EXCEPT !.swept = TRUE, !.state = "cancelled"]
                     /\ ~KeepsOutcome(r)
  <2>1. CASE KeepsOutcome(r)
    <3>1. runs' = [runs EXCEPT ![r] = [runs[r] EXCEPT !.swept = TRUE]]
      BY <2>1 DEF FinishInterrupted
    <3> QED
      BY ONLY <3>1
  <2>2. CASE ~KeepsOutcome(r)
    <3>1. runs' = [runs EXCEPT ![r] = [runs[r] EXCEPT !.swept = TRUE, !.state = "cancelled"]]
      BY <2>2 DEF FinishInterrupted
    <3> QED
      BY ONLY <2>2, <3>1
  <2> QED
    BY ONLY <2>1, <2>2
<1>2. /\ x.msg = runs[r].msg /\ x.attempt = runs[r].attempt
      /\ \/ x.state = runs[r].state
         \/ x.state = "cancelled" /\ ~KeepsOutcome(r)
  <2>1. runs[r] \in Run
    BY DEF StoreTypeOK
  <2>2. CASE x = [runs[r] EXCEPT !.swept = TRUE]
    <3>1. x.msg = runs[r].msg /\ x.attempt = runs[r].attempt /\ x.state = runs[r].state
      BY ONLY <2>1, <2>2, RowFieldKept
    <3> QED
      BY <3>1
  <2>3. CASE x = [runs[r] EXCEPT !.swept = TRUE, !.state = "cancelled"] /\ ~KeepsOutcome(r)
    <3>1. x.msg = runs[r].msg /\ x.attempt = runs[r].attempt /\ x.state = "cancelled"
      BY ONLY <2>1, <2>3, RowFieldKept
    <3> QED
      BY <2>3, <3>1
  <2> QED
    BY <1>1, <2>2, <2>3
<1>3. ~KeepsOutcome(r) => runs[r].state # NoRow
  BY DEF FinishInterrupted, Eligible, Sweepable, KeepsOutcome, NoRow
<1>4. RunsKept
  BY <1>1, <1>2, <1>3, OneRowKept DEF TerminalRunStates
<1>5. OutboxKept
  <2>1. \/ msgs' = msgs
        \/ msgs' = [msgs EXCEPT ![runs[r].msg].state = "cancelled"]
    BY DEF FinishInterrupted
  <2>2. CASE msgs' = [msgs EXCEPT ![runs[r].msg].state = "cancelled"]
    <3>1. msgs \in [MessageId -> Message]
      BY DEF StoreTypeOK
    <3>2. \A n \in MessageId :
            /\ msgs'[n].outbox = msgs[n].outbox
            /\ msgs'[n].state = "cancelled" \/ msgs'[n].state = msgs[n].state
      BY ONLY <2>2, <3>1, MessageStateKept
    <3>3. "cancelled" # NoRow
      BY DEF NoRow
    <3> QED
      BY <3>2, <3>3 DEF OutboxKept
  <2> QED
    BY <2>1, <2>2, UnchangedKept
<1> QED
  BY <1>4, <1>5

(* The transactions of the API leave the runs alone. *)
LEMMA ApiKept ==
  ASSUME StoreTypeOK, OutboxOK, NEW m \in MessageId, NEW c \in Chats,
         \/ CloseActiveForCreate \/ RegisterChat(c) \/ CloseByUser(c) \/ Displace
         \/ AcceptMessage(m, c) \/ ReopenWithMessage(m, c)
  PROVE RunsKept /\ OutboxKept
BY UnchangedKept, CancelKept, QueueMessageKept
   DEF CloseActiveForCreate, RegisterChat, CloseByUser, Displace, AcceptMessage,
       ReopenWithMessage, QueueMessage

-----------------------------------------------------------------------------
(* What the transactions keep of the tables' consistency.  First those that
   prepare, renew or mark runs: no invariant looks at what they change. *)

(* Setting a field of a run's row leaves the process that it names alone. *)
LEMMA RowPidKept ==
  \A w \in Run : \A v :
    /\ [w EXCEPT !.stop = v].pid = w.pid
    /\ [w EXCEPT !.archived = v].pid = w.pid
    /\ [w EXCEPT !.expired = v].pid = w.pid
    /\ [w EXCEPT !.signal = v].pid = w.pid
    /\ \A u : [w EXCEPT !.owner = v, !.expired = u].pid = w.pid
    /\ \A u : [w EXCEPT !.state = v, !.expired = u].pid = w.pid
BY DEF Run

(* A transaction that only prepares, renews or marks runs. *)
RowQuiet(r) ==
  /\ runs'[r].msg = runs[r].msg /\ runs'[r].attempt = runs[r].attempt
  /\ runs'[r].pid = runs[r].pid
  /\ \/ runs'[r].state = runs[r].state
     \/ runs[r].state = "leased" /\ runs'[r].state = "starting"

Quiet == UNCHANGED <<chats, slot, msgs>> /\ \A r \in RunId : RowQuiet(r)

LEMMA OneRowQuiet ==
  ASSUME StoreTypeOK, UNCHANGED <<chats, slot, msgs>>,
         NEW r \in RunId, NEW x, runs' = [runs EXCEPT ![r] = x],
         x.msg = runs[r].msg, x.attempt = runs[r].attempt, x.pid = runs[r].pid,
         x.state = runs[r].state \/ (runs[r].state = "leased" /\ x.state = "starting")
  PROVE Quiet
BY DEF StoreTypeOK, Quiet, RowQuiet

(* All of them but mark_starting leave the state of every run as it is. *)
StatesStay == \A q \in RunId : runs'[q].state = runs[q].state

LEMMA LightTransactions ==
  ASSUME StoreTypeOK, NEW r \in RunId, NEW b, NEW ids, NEW p, NEW label,
         \/ RequestInterrupt(r) \/ AdoptRun(r, b) \/ RenewRuns(ids, b) \/ BindArchive(r, b)
         \/ DeferRun(r, b) \/ RecordSignal(r, p, label) \/ LeaseExpires(r)
  PROVE Quiet /\ StatesStay
<1> DEFINE w == runs[r]
<1>w. w \in Run
  BY DEF StoreTypeOK
<1> DEFINE Kept(x) == /\ x.msg = w.msg /\ x.attempt = w.attempt /\ x.pid = w.pid
                      /\ x.state = w.state
<1>q. ASSUME NEW x, Kept(x), runs' = [runs EXCEPT ![r] = x], UNCHANGED <<chats, slot, msgs>>
      PROVE Quiet /\ StatesStay
  <2>1. StatesStay
    BY <1>q DEF StoreTypeOK, StatesStay
  <2> QED
    BY <1>q, <2>1, OneRowQuiet
<1>k. /\ \A v : Kept([w EXCEPT !.stop = v])
      /\ \A v : Kept([w EXCEPT !.archived = v])
      /\ \A v : Kept([w EXCEPT !.expired = v])
      /\ \A v : Kept([w EXCEPT !.signal = v])
      /\ \A v, u : Kept([w EXCEPT !.owner = v, !.expired = u])
  BY ONLY <1>w, RowFieldKept, RowPidKept
<1> HIDE DEF Kept
<1>1. CASE RequestInterrupt(r)
  <2>1. runs' = [runs EXCEPT ![r] = [w EXCEPT !.stop = w.stop \/ Live(r)]]
    BY <1>1 DEF RequestInterrupt
  <2> QED
    BY <1>1, <1>q, <1>k, <2>1 DEF RequestInterrupt
<1>2. CASE AdoptRun(r, b) \/ DeferRun(r, b)
  <2>1. runs' = [runs EXCEPT ![r] = [w EXCEPT !.owner = b, !.expired = FALSE]]
    BY <1>2 DEF AdoptRun, DeferRun
  <2> QED
    BY <1>2, <1>q, <1>k, <2>1 DEF AdoptRun, DeferRun
<1>3. CASE RenewRuns(ids, b)
  <2> SUFFICES ASSUME NEW q \in RunId
               PROVE RowQuiet(q) /\ runs'[q].state = runs[q].state
    BY <1>3 DEF Quiet, StatesStay, RenewRuns
  <2>1. runs[q] \in Run /\ (runs'[q] = [runs[q] EXCEPT !.expired = FALSE] \/ runs'[q] = runs[q])
    BY <1>3 DEF RenewRuns, StoreTypeOK
  <2>2. CASE runs'[q] = [runs[q] EXCEPT !.expired = FALSE]
    <3>1. LET x == [runs[q] EXCEPT !.expired = FALSE]
          IN x.state = runs[q].state /\ x.msg = runs[q].msg /\ x.attempt = runs[q].attempt
             /\ x.pid = runs[q].pid
      BY ONLY <2>1, RowFieldKept, RowPidKept
    <3> QED
      BY ONLY <2>2, <3>1 DEF RowQuiet
  <2>3. CASE runs'[q] = runs[q]
    BY ONLY <2>3 DEF RowQuiet
  <2> QED
    BY <2>1, <2>2, <2>3
<1>4. CASE BindArchive(r, b)
  <2>1. runs' = [runs EXCEPT ![r] = [w EXCEPT !.archived = TRUE]]
    BY <1>4 DEF BindArchive
  <2> QED
    BY <1>4, <1>q, <1>k, <2>1 DEF BindArchive
<1>5. CASE RecordSignal(r, p, label)
  <2>1. runs' = [runs EXCEPT ![r] = [w EXCEPT !.signal = label]]
    BY <1>5 DEF RecordSignal
  <2> QED
    BY <1>5, <1>q, <1>k, <2>1 DEF RecordSignal
<1>6. CASE LeaseExpires(r)
  <2>1. runs' = [runs EXCEPT ![r] = [w EXCEPT !.expired = TRUE]]
    BY <1>6 DEF LeaseExpires
  <2> QED
    BY <1>6, <1>q, <1>k, <2>1 DEF LeaseExpires
<1> QED
  BY <1>1, <1>2, <1>3, <1>4, <1>5, <1>6

LEMMA MarkStartingQuiet ==
  ASSUME StoreTypeOK, NEW r \in RunId, NEW b, MarkStarting(r, b)
  PROVE /\ Quiet /\ runs'[r].state = "starting"
        /\ \A q \in RunId : q # r => runs'[q].state = runs[q].state
<1> DEFINE w == runs[r]
           x == [w EXCEPT !.state = "starting", !.expired = FALSE]
<1>w. w \in Run
  BY DEF StoreTypeOK
<1>1. runs' = [runs EXCEPT ![r] = x]
  BY DEF MarkStarting
<1>2. x.msg = w.msg /\ x.attempt = w.attempt /\ x.pid = w.pid /\ x.state = "starting"
  BY ONLY <1>w, RowFieldKept, RowPidKept
<1> HIDE DEF x
<1>3. Quiet
  BY <1>1, <1>2, OneRowQuiet DEF MarkStarting, CanStart, Holds
<1> QED
  BY <1>1, <1>2, <1>3 DEF StoreTypeOK

LEMMA QuietTransactions ==
  ASSUME StoreTypeOK, NEW r \in RunId, NEW b, NEW ids, NEW p, NEW label,
         \/ RequestInterrupt(r) \/ AdoptRun(r, b) \/ RenewRuns(ids, b) \/ BindArchive(r, b)
         \/ MarkStarting(r, b) \/ DeferRun(r, b) \/ RecordSignal(r, p, label) \/ LeaseExpires(r)
  PROVE Quiet
BY LightTransactions, MarkStartingQuiet

LEMMA QuietKeepsInv ==
  ASSUME StoreInv, Quiet PROVE RowsOK' /\ ChatsOK' /\ FinalKept
<1> USE DEF StoreInv, RowsOK, ChatsOK
<1>1. /\ \A r \in RunId : /\ runs'[r].msg = runs[r].msg /\ runs'[r].attempt = runs[r].attempt
                          /\ runs'[r].pid = runs[r].pid
                          /\ runs'[r].state = NoRow <=> runs[r].state = NoRow
                          /\ runs'[r].state \in {NoRow, "leased", "starting"} <=>
                               runs[r].state \in {NoRow, "leased", "starting"}
                          /\ Live(r)' <=> Live(r)
                          /\ ~Live(r) => runs'[r].state = runs[r].state
                          /\ ChatOf(r)' = ChatOf(r)
      /\ UNCHANGED <<chats, slot, msgs>>
  BY DEF Quiet, RowQuiet, Live, LiveRunStates, NoRow, ChatOf
<1>2. MessageRows'
  BY <1>1 DEF MessageRows
<1>3. AttemptRows'
  BY <1>1 DEF AttemptRows
<1>4. TurnRows'
  BY <1>1 DEF TurnRows
<1>5. OneTurnAtATime' /\ OneFirstAttempt'
  BY <1>1 DEF OneTurnAtATime, OneFirstAttempt
<1>6. PidsAreRecorded'
  <2>1. \A r \in RunId : runs[r].pid # 0 => runs[r].pid \in RunId
    BY StoreConstants DEF StoreTypeOK, Run, Pid, RunId
  <2> QED
    BY <1>1, <2>1 DEF PidsAreRecorded, Recorded
<1>7. ClosingIsDone' /\ RegistryNamesOpenChat' /\ IdleChatHasEmptyQueue'
  BY <1>1 DEF ClosingIsDone, RegistryNamesOpenChat, IdleChatHasEmptyQueue, Pending
<1>8. NoStrandedTurn'
  BY <1>1 DEF NoStrandedTurn
<1>9. LinkIsBacked'
  BY <1>1 DEF LinkIsBacked
<1>10. FinalKept
  BY <1>1 DEF FinalKept, Terminal, TerminalRunStates, Live, LiveRunStates
<1> QED
  BY <1>2, <1>3, <1>4, <1>5, <1>6, <1>7, <1>8, <1>9, <1>10

-----------------------------------------------------------------------------
(* The transactions of the API. *)

(* The transactions of the API add a prompt, or withdraw prompts that wait. *)
Withdrawn(m) ==
  /\ msgs[m].outbox = "pending" /\ msgs'[m].chat = msgs[m].chat
  /\ msgs'[m].state = "cancelled" /\ msgs'[m].outbox = "cancelled"

Added(m) ==
  /\ msgs[m].state = NoRow
  /\ msgs'[m].chat \in Chats /\ chats'[msgs'[m].chat].state # NoRow
  /\ msgs'[m].state = "queued" /\ msgs'[m].outbox = "pending"

MessagesMove == \A m \in MessageId : msgs'[m] = msgs[m] \/ Withdrawn(m) \/ Added(m)
ChatsStay    == \A c \in Chats : chats[c].state # NoRow => chats'[c].state # NoRow

LEMMA ApiKeepsRows ==
  ASSUME StoreTypeOK, RowsOK, UNCHANGED runs, MessagesMove, ChatsStay
  PROVE RowsOK' /\ FinalKept /\ \A r \in RunId : ChatOf(r)' = ChatOf(r)
<1> USE DEF RowsOK
<1>1. MessageRows'
  BY DEF MessagesMove, Withdrawn, Added, MessageRows, ChatsStay, NoRow
<1>2. \A m \in MessageId :
        msgs[m].outbox = "dispatched" \/ msgs[m].state \in TerminalMessageStates
          => msgs'[m] = msgs[m]
  BY DEF MessagesMove, Withdrawn, Added, MessageRows, NoRow, TerminalMessageStates
<1>3. \A r \in RunId : runs[r].msg \in 0..MaxMessage
  BY DEF StoreTypeOK, Run
<1>4. \A r \in RunId : runs[r].state # NoRow => msgs'[runs[r].msg] = msgs[runs[r].msg]
  BY <1>2, <1>3, StoreConstants DEF AttemptRows, MessageId
<1>5. AttemptRows'
  BY <1>4 DEF AttemptRows
<1>6. TurnRows'
  BY <1>4 DEF TurnRows, Live
<1>7. OneTurnAtATime' /\ OneFirstAttempt' /\ PidsAreRecorded'
  BY DEF OneTurnAtATime, Live, OneFirstAttempt, PidsAreRecorded, Recorded
<1>8. \A r \in RunId : ChatOf(r)' = ChatOf(r)
  BY <1>4 DEF ChatOf, AttemptRows
<1> QED
  BY <1>1, <1>2, <1>5, <1>6, <1>7, <1>8 DEF FinalKept

LEMMA ApiKeepsChats ==
  ASSUME StoreTypeOK, RowsOK, ChatsOK, UNCHANGED runs, MessagesMove, ChatsStay,
         slot' = slot \/ slot'.pid = 0,
         \A c \in Chats : chats'[c].state = "running" => chats[c].state = "running",
         ClosingIsDone' /\ RegistryNamesOpenChat' /\ IdleChatHasEmptyQueue'
  PROVE ChatsOK'
<1>1. \A r \in RunId : ChatOf(r)' = ChatOf(r) /\ Live(r)' = Live(r)
  BY ApiKeepsRows DEF Live
<1>2. \A m \in MessageId : msgs'[m].state = "running" => msgs[m].state = "running"
  BY DEF MessagesMove, Withdrawn, Added
<1>3. NoStrandedTurn'
  BY <1>1, <1>2 DEF ChatsOK, NoStrandedTurn
<1>4. LinkIsBacked'
  BY <1>1 DEF ChatsOK, LinkIsBacked
<1> QED
  BY <1>3, <1>4 DEF ChatsOK

LEMMA CancelRows ==
  ASSUME StoreTypeOK, NEW c, NEW m \in MessageId
  PROVE IF m \in Pending(c)
          THEN /\ CancelPending(c)[m].chat = msgs[m].chat
               /\ CancelPending(c)[m].state = "cancelled"
               /\ CancelPending(c)[m].outbox = "cancelled"
          ELSE CancelPending(c)[m] = msgs[m]
BY DEF StoreTypeOK, CancelPending, Message

LEMMA CloseActiveRows ==
  ASSUME StoreTypeOK, ChatsOK, NEW c \in Chats
  PROVE /\ CloseActive[c].state = IF c = slot.chat THEN "closed" ELSE chats[c].state
        /\ CloseActive[c].closing = chats[c].closing
        /\ c = slot.chat => ~chats[c].closing
<1>1. c = slot.chat => ~chats[c].closing
  BY DEF ChatsOK, ClosingIsDone, RegistryNamesOpenChat
<1> QED
  BY <1>1, StoreConstants DEF StoreTypeOK, CloseActive, Chat, Slot

LEMMA CloseActiveForCreateKeeps ==
  ASSUME StoreInv, CloseActiveForCreate PROVE RowsOK' /\ ChatsOK' /\ FinalKept
<1> USE DEF StoreInv
<1>1. \A c \in Chats :
        /\ chats'[c].state = IF c = slot.chat THEN "closed" ELSE chats[c].state
        /\ chats'[c].closing = chats[c].closing
        /\ c = slot.chat => ~chats[c].closing
  BY CloseActiveRows DEF CloseActiveForCreate
<1>2. /\ slot'.chat = NoChat /\ slot'.pid = 0 /\ UNCHANGED <<msgs, runs>>
      /\ \A c \in Chats : c # NoChat
  BY StoreConstants DEF CloseActiveForCreate, EmptySlot
<1>3. MessagesMove /\ ChatsStay
  BY <1>1, <1>2 DEF MessagesMove, ChatsStay, NoRow
<1>4. ClosingIsDone' /\ RegistryNamesOpenChat' /\ IdleChatHasEmptyQueue'
  BY <1>1, <1>2
     DEF ChatsOK, ClosingIsDone, RegistryNamesOpenChat, IdleChatHasEmptyQueue, Pending
<1> QED
  BY <1>1, <1>2, <1>3, <1>4, ApiKeepsRows, ApiKeepsChats

LEMMA RegisterChatKeeps ==
  ASSUME StoreInv, NEW c \in Chats, RegisterChat(c) PROVE RowsOK' /\ ChatsOK' /\ FinalKept
<1> USE DEF StoreInv
<1>1. /\ \A d \in Chats : /\ chats'[d].state = IF d = c THEN "idle" ELSE chats[d].state
                          /\ chats'[d].closing = chats[d].closing
      /\ chats[c].state = NoRow /\ slot.chat = NoChat
      /\ slot'.chat = c /\ slot'.pid = 0 /\ UNCHANGED <<msgs, runs>>
  BY DEF RegisterChat, StoreTypeOK, Chat
<1>2. MessagesMove /\ ChatsStay
  BY <1>1 DEF MessagesMove, ChatsStay, NoRow
<1>3. Pending(c) = {}
  BY <1>1 DEF RowsOK, MessageRows, Pending, NoRow
<1>4. ClosingIsDone' /\ RegistryNamesOpenChat' /\ IdleChatHasEmptyQueue'
  <2>1. \A d \in Chats : d # NoChat
    BY StoreConstants
  <2> QED
    BY <1>1, <1>3, <2>1
       DEF ChatsOK, ClosingIsDone, RegistryNamesOpenChat, IdleChatHasEmptyQueue, Pending, NoRow
<1> QED
  BY <1>1, <1>2, <1>4, ApiKeepsRows, ApiKeepsChats

(* A prompt that is queued belongs to its chat only. *)
LEMMA QueueRows ==
  ASSUME StoreTypeOK, RowsOK, NEW m \in MessageId, NEW c \in Chats, QueueMessage(m, c),
         chats'[c].state # NoRow
  PROVE /\ MessagesMove
        /\ UNCHANGED runs
        /\ \A d \in Chats : d # c => Pending(d)' = Pending(d)
<1>1. /\ UNCHANGED runs /\ msgs[m].state = NoRow
      /\ \A n \in MessageId : n # m => msgs'[n] = msgs[n]
      /\ msgs'[m].chat = c /\ msgs'[m].state = "queued" /\ msgs'[m].outbox = "pending"
  BY DEF QueueMessage, NextMessage, StoreTypeOK
<1>2. MessagesMove
  BY <1>1 DEF MessagesMove, Added
<1>3. \A d \in Chats : d # c => Pending(d)' = Pending(d)
  BY <1>1 DEF RowsOK, MessageRows, Pending, NoRow
<1> QED
  BY <1>1, <1>2, <1>3

LEMMA AcceptMessageKeeps ==
  ASSUME StoreInv, NEW m \in MessageId, NEW c \in Chats, AcceptMessage(m, c)
  PROVE RowsOK' /\ ChatsOK' /\ FinalKept
<1> USE DEF StoreInv
<1>1. /\ \A d \in Chats : /\ chats'[d].closing = chats[d].closing
                          /\ chats'[d].state = IF d = c /\ ~Working(c) THEN "queued"
                                               ELSE chats[d].state
      /\ chats[c].state \notin {NoRow, "closed"} /\ ~chats[c].closing
      /\ UNCHANGED slot
  BY DEF AcceptMessage, StoreTypeOK, Chat
<1>2. ChatsStay /\ chats'[c].state \notin {NoRow, "idle", "closed"}
  BY <1>1 DEF ChatsStay, NoRow, Working
<1>3. MessagesMove /\ UNCHANGED runs /\ \A d \in Chats : d # c => Pending(d)' = Pending(d)
  BY <1>2, QueueRows DEF AcceptMessage
<1>4. ClosingIsDone' /\ RegistryNamesOpenChat' /\ IdleChatHasEmptyQueue'
  BY <1>1, <1>2, <1>3 DEF ChatsOK, ClosingIsDone, RegistryNamesOpenChat, IdleChatHasEmptyQueue
<1>5. \A d \in Chats : chats'[d].state = "running" => chats[d].state = "running"
  BY <1>1
<1> QED
  BY <1>1, <1>2, <1>3, <1>4, <1>5, ApiKeepsRows, ApiKeepsChats

LEMMA ReopenWithMessageKeeps ==
  ASSUME StoreInv, NEW m \in MessageId, NEW c \in Chats, ReopenWithMessage(m, c)
  PROVE RowsOK' /\ ChatsOK' /\ FinalKept
<1> USE DEF StoreInv
<1>1. /\ \A d \in Chats :
           IF d = c THEN chats'[d].state = "queued" /\ ~chats'[d].closing
           ELSE /\ chats'[d].state = IF d = slot.chat THEN "closed" ELSE chats[d].state
                /\ chats'[d].closing = chats[d].closing
                /\ d = slot.chat => ~chats[d].closing
      /\ slot'.chat = c /\ slot'.pid = 0
  <2>1. CloseActive \in [Chats -> Chat]
    BY CloseActiveType
  <2>2. \A d \in Chats : d # c => chats'[d] = CloseActive[d]
    BY <2>1 DEF ReopenWithMessage
  <2>3. chats'[c].state = "queued" /\ ~chats'[c].closing /\ slot'.chat = c /\ slot'.pid = 0
    BY <2>1 DEF ReopenWithMessage
  <2> QED
    BY <2>2, <2>3, CloseActiveRows
<1>2. ChatsStay /\ chats'[c].state \notin {NoRow, "idle", "closed"}
  BY <1>1 DEF ChatsStay, NoRow
<1>3. MessagesMove /\ UNCHANGED runs /\ \A d \in Chats : d # c => Pending(d)' = Pending(d)
  BY <1>2, QueueRows DEF ReopenWithMessage
<1>4. ClosingIsDone' /\ RegistryNamesOpenChat' /\ IdleChatHasEmptyQueue'
  BY <1>1, <1>2, <1>3 DEF ChatsOK, ClosingIsDone, RegistryNamesOpenChat, IdleChatHasEmptyQueue
<1>5. \A d \in Chats : chats'[d].state = "running" => chats[d].state = "running"
  BY <1>1
<1> QED
  BY <1>1, <1>2, <1>3, <1>4, <1>5, ApiKeepsRows, ApiKeepsChats

(* Closing a chat takes what waits in it along. *)
LEMMA CloseChatKeeps ==
  ASSUME StoreInv, NEW c \in Chats, chats[c].state \notin {NoRow, "closed"},
         \A d \in Chats : IF d = c THEN chats'[d].state = "closed"
                          ELSE chats'[d] = chats[d],
         chats'[c].closing => Pending(c) = {} \/ msgs' = CancelPending(c),
         slot'.chat = NoChat, slot'.pid = 0, UNCHANGED runs,
         msgs' = CancelPending(c) \/ msgs' = msgs
  PROVE RowsOK' /\ ChatsOK' /\ FinalKept
<1> USE DEF StoreInv
<1>1. MessagesMove
  BY CancelRows DEF MessagesMove, Withdrawn, Pending
<1>2. ChatsStay
  BY DEF ChatsStay, NoRow
<1>3. slot.chat = c
  BY DEF ChatsOK, RegistryNamesOpenChat
<1>4. \A d \in Chats : Pending(d)' \subseteq Pending(d)
  BY CancelRows DEF Pending
<1>5. msgs' = CancelPending(c) => Pending(c)' = {}
  BY CancelRows DEF Pending
<1>6. ClosingIsDone'
  BY <1>4, <1>5 DEF ChatsOK, ClosingIsDone
<1>7. RegistryNamesOpenChat' /\ IdleChatHasEmptyQueue'
  BY <1>3, <1>4, StoreConstants DEF ChatsOK, RegistryNamesOpenChat, IdleChatHasEmptyQueue
<1>8. \A d \in Chats : chats'[d].state = "running" => chats[d].state = "running"
  OBVIOUS
<1> QED
  BY <1>1, <1>2, <1>6, <1>7, <1>8, ApiKeepsRows, ApiKeepsChats

LEMMA CloseByUserKeeps ==
  ASSUME StoreInv, NEW c \in Chats, CloseByUser(c) PROVE RowsOK' /\ ChatsOK' /\ FinalKept
<1>1. slot.chat = c
  BY DEF StoreInv, ChatsOK, RegistryNamesOpenChat, CloseByUser
<1>2. slot'.chat = NoChat /\ slot'.pid = 0
  BY <1>1 DEF CloseByUser, SlotWithout, EmptySlot
<1>3. \A d \in Chats : IF d = c THEN chats'[d].state = "closed" ELSE chats'[d] = chats[d]
  BY DEF CloseByUser, StoreInv, StoreTypeOK
<1> QED
  BY <1>2, <1>3, CloseChatKeeps DEF CloseByUser

LEMMA DisplaceKeeps ==
  ASSUME StoreInv, Displace PROVE RowsOK' /\ ChatsOK' /\ FinalKept
<1> DEFINE c == slot.chat
<1>1. c \in Chats /\ slot'.chat = NoChat /\ slot'.pid = 0
  BY DEF Displace, StoreInv, StoreTypeOK, Slot, EmptySlot
<1>2. chats[c].state \notin {NoRow, "closed"} /\ ~chats[c].closing
  BY <1>1 DEF StoreInv, ChatsOK, RegistryNamesOpenChat, ClosingIsDone
<1>3. /\ \A d \in Chats : IF d = c THEN chats'[d].state = "closed" ELSE chats'[d] = chats[d]
      /\ ~chats'[c].closing
  BY <1>1, <1>2 DEF Displace, StoreInv, StoreTypeOK, Chat
<1>4. msgs' = CancelPending(c) \/ msgs' = msgs
  BY DEF Displace
<1> HIDE DEF c
<1> QED
  BY <1>1, <1>2, <1>3, <1>4, CloseChatKeeps DEF Displace

-----------------------------------------------------------------------------
(* The transactions that add a run or change its process. *)

(* A run's message, when it has one, is in the table; so is its chat. *)
LEMMA RunRefs ==
  ASSUME StoreTypeOK, RowsOK, NEW r \in RunId
  PROVE /\ runs[r].msg # 0 => runs[r].msg \in MessageId
        /\ runs[r].state # NoRow => /\ runs[r].msg \in MessageId
                                    /\ ChatOf(r) = msgs[runs[r].msg].chat
                                    /\ ChatOf(r) \in Chats /\ chats[ChatOf(r)].state # NoRow
                                    /\ msgs[runs[r].msg].outbox = "dispatched"
        /\ runs[r].state = NoRow => ChatOf(r) = NoChat /\ runs[r].pid = 0
        /\ runs[r].pid # 0 => runs[r].pid \in RunId /\ runs[r].state # NoRow
<1>1. runs[r].msg \in 0..MaxMessage /\ runs[r].pid \in Pid
  BY DEF StoreTypeOK, Run
<1>2. /\ runs[r].msg # 0 => runs[r].msg \in MessageId
      /\ runs[r].pid # 0 => runs[r].pid \in RunId
  BY <1>1, StoreConstants DEF MessageId, Pid, RunId
<1>3. runs[r].state # NoRow => runs[r].msg # 0 /\ msgs[runs[r].msg].outbox = "dispatched"
  BY DEF RowsOK, AttemptRows
<1>4. runs[r].state = NoRow => runs[r].msg = 0 /\ runs[r].pid = 0
  BY DEF RowsOK, AttemptRows, NoRow
<1>5. runs[r].state # NoRow => msgs[runs[r].msg].state # NoRow
  BY <1>2, <1>3 DEF RowsOK, MessageRows, NoRow
<1> QED
  BY <1>2, <1>3, <1>4, <1>5 DEF RowsOK, MessageRows, ChatOf

(* A claim moves its prompt, its run and its chat. *)
LEMMA ClaimNextRows ==
  ASSUME StoreInv, NEW m \in MessageId, NEW r \in RunId, NEW b, ClaimNext(m, r, b)
  PROVE /\ msgs[m].state = "queued" /\ msgs[m].chat \in Chats
        /\ \A n \in MessageId : n # m => msgs'[n] = msgs[n]
        /\ msgs'[m].chat = msgs[m].chat /\ msgs'[m].state = "running"
        /\ msgs'[m].outbox = "dispatched"
        /\ \A q \in RunId : q # r => runs'[q] = runs[q]
        /\ runs'[r].msg = m /\ runs'[r].attempt = 1 /\ runs'[r].state = "leased"
        /\ runs'[r].pid = 0
<1>1. msgs[m].state = "queued" /\ msgs[m].chat \in Chats
  BY DEF ClaimNext, Claimable, StoreInv, RowsOK, MessageRows, NoRow
<1>2. /\ \A n \in MessageId : n # m => msgs'[n] = msgs[n]
      /\ msgs'[m].chat = msgs[m].chat /\ msgs'[m].state = "running"
      /\ msgs'[m].outbox = "dispatched"
  BY DEF ClaimNext, StoreInv, StoreTypeOK, Message
<1>3. /\ \A q \in RunId : q # r => runs'[q] = runs[q]
      /\ runs'[r].msg = m /\ runs'[r].attempt = 1 /\ runs'[r].state = "leased"
      /\ runs'[r].pid = 0
  BY DEF ClaimNext, StoreInv, StoreTypeOK, NewRun
<1> QED
  BY <1>1, <1>2, <1>3

LEMMA ClaimNextKeeps ==
  ASSUME StoreInv, NEW m \in MessageId, NEW r \in RunId, NEW b, ClaimNext(m, r, b)
  PROVE RowsOK' /\ ChatsOK' /\ FinalKept
<1> USE DEF StoreInv
<1> DEFINE c == msgs[m].chat
<1>1. /\ msgs[m].outbox = "pending" /\ slot.chat = c /\ chats[c].state = "queued"
      /\ ~chats[c].closing
      /\ \A q \in RunId : ~Live(q)
      /\ runs[r].state = NoRow /\ UNCHANGED slot
  BY DEF ClaimNext, Claimable, NextRun
<1>2. c \in Chats /\ msgs[m].state = "queued"
  BY ClaimNextRows
<1>3. /\ \A n \in MessageId : n # m => msgs'[n] = msgs[n]
      /\ msgs'[m].chat = c /\ msgs'[m].state = "running" /\ msgs'[m].outbox = "dispatched"
  BY ClaimNextRows
<1>4. /\ \A q \in RunId : q # r => runs'[q] = runs[q]
      /\ runs'[r].msg = m /\ runs'[r].attempt = 1 /\ runs'[r].state = "leased"
      /\ runs'[r].pid = 0
  BY ClaimNextRows
<1>5. \A d \in Chats : /\ chats'[d].state = IF d = c THEN "running" ELSE chats[d].state
                       /\ chats'[d].closing = chats[d].closing
  BY DEF ClaimNext, StoreTypeOK, Chat
<1> HIDE DEF c
<1>6. \A q \in RunId : runs[q].state # NoRow => runs[q].msg # m /\ q # r
  BY <1>1 DEF RowsOK, AttemptRows
<1>7. m # 0 /\ "leased" # NoRow /\ "running" # NoRow /\ "queued" # NoRow
  BY DEF MessageId, NoRow
<1>8. MessageRows'
  <2>1. MessageRows
    BY DEF RowsOK
  <2>2. \A d \in Chats : chats[d].state # NoRow => chats'[d].state # NoRow
    BY <1>5, <1>7
  <2>3. \A n \in MessageId : msgs[n].state # NoRow <=> msgs'[n].state # NoRow
    BY <1>2, <1>3, <1>7
  <2>4. chats'[c].state # NoRow
    BY <1>2, <1>5, <1>7
  <2> QED
    BY ONLY <1>2, <1>3, <1>7, <2>1, <2>2, <2>3, <2>4 DEF MessageRows, NoRow
<1>9. AttemptRows'
  <2>1. \A q \in RunId : runs[q].state # NoRow => msgs'[runs[q].msg].outbox = "dispatched"
    BY <1>3, <1>6, RunRefs
  <2> QED
    BY <1>3, <1>4, <1>7, <2>1 DEF RowsOK, AttemptRows
<1>10. TurnRows'
  <2>1. \A q \in RunId : runs[q].state # NoRow => msgs'[runs[q].msg] = msgs[runs[q].msg]
    BY <1>3, <1>6, RunRefs
  <2> QED
    BY <1>1, <1>3, <1>4, <2>1 DEF RowsOK, TurnRows, Live, LiveRunStates
<1>11. OneTurnAtATime'
  BY <1>1, <1>4 DEF OneTurnAtATime, Live
<1>12. OneFirstAttempt'
  BY <1>4, <1>6 DEF RowsOK, AttemptRows, OneFirstAttempt
<1>13. PidsAreRecorded'
  BY <1>1, <1>4, RunRefs DEF RowsOK, PidsAreRecorded, Recorded
<1>14. \A q \in RunId : q # r => ChatOf(q)' = ChatOf(q)
  BY <1>3, <1>4, <1>6, RunRefs DEF ChatOf, RowsOK, AttemptRows
<1>15. ChatOf(r)' = c /\ Live(r)'
  BY <1>3, <1>4, <1>7 DEF ChatOf, Live, LiveRunStates
<1>16. ClosingIsDone'
  BY <1>1, <1>3, <1>5 DEF ChatsOK, ClosingIsDone, Pending
<1>17. RegistryNamesOpenChat'
  BY <1>1, <1>2, <1>5, <1>7 DEF ChatsOK, RegistryNamesOpenChat
<1>18. IdleChatHasEmptyQueue'
  BY <1>3, <1>5 DEF ChatsOK, IdleChatHasEmptyQueue, Pending
<1>19. NoStrandedTurn'
  BY <1>1, <1>3, <1>4, <1>5, <1>15 DEF ChatsOK, NoStrandedTurn
<1>20. LinkIsBacked'
  <2>1. \A q \in RunId : runs[q].pid # 0 => q # r
    BY <1>1, RunRefs
  <2> QED
    BY <1>1, <1>4, <1>14, <2>1 DEF ChatsOK, LinkIsBacked
<1>21. FinalKept
  BY <1>1, <1>2, <1>3, <1>4 DEF FinalKept, Terminal, TerminalRunStates, TerminalMessageStates,
                                NoRow
<1> QED
  BY <1>8, <1>9, <1>10, <1>11, <1>12, <1>13, <1>16, <1>17, <1>18, <1>19, <1>20, <1>21
     DEF RowsOK, ChatsOK

LEMMA MarkNativeStartedKeeps ==
  ASSUME StoreInv, NEW r \in RunId, NEW b, NEW p \in {0, r}, MarkNativeStarted(r, b, p)
  PROVE RowsOK' /\ ChatsOK' /\ FinalKept
<1> USE DEF StoreInv
<1>1. runs[r].state = "starting" /\ slot.chat = ChatOf(r) /\ UNCHANGED <<chats, msgs>>
  BY DEF MarkNativeStarted, CanRecord, Holds
<1>2. /\ \A q \in RunId : q # r => runs'[q] = runs[q]
      /\ runs'[r].msg = runs[r].msg /\ runs'[r].attempt = runs[r].attempt
      /\ runs'[r].state = "running" /\ runs'[r].pid = p
  BY DEF MarkNativeStarted, StoreTypeOK, Run
<1>3. slot'.chat = slot.chat /\ slot'.pid = p
  BY DEF MarkNativeStarted, StoreTypeOK, Slot
<1>4. /\ "starting" # NoRow /\ "running" # NoRow
      /\ \A q \in RunId : /\ Live(q)' <=> Live(q)
                          /\ ChatOf(q)' = ChatOf(q)
                          /\ ~Live(q) => runs'[q].state = runs[q].state
                          /\ runs'[q].state = NoRow <=> runs[q].state = NoRow
                          /\ runs'[q].msg = runs[q].msg /\ runs'[q].attempt = runs[q].attempt
  BY <1>1, <1>2 DEF NoRow, Live, LiveRunStates, ChatOf
<1>5. MessageRows' /\ AttemptRows'
  BY <1>1, <1>2, <1>4 DEF RowsOK, MessageRows, AttemptRows
<1>6. TurnRows' /\ OneTurnAtATime' /\ OneFirstAttempt'
  BY <1>1, <1>4 DEF RowsOK, TurnRows, OneTurnAtATime, OneFirstAttempt
<1>7. PidsAreRecorded'
  BY <1>1, <1>2, <1>4, RunRefs DEF RowsOK, PidsAreRecorded, Recorded
<1>8. /\ ClosingIsDone' /\ RegistryNamesOpenChat' /\ IdleChatHasEmptyQueue' /\ NoStrandedTurn'
  BY <1>1, <1>3, <1>4
     DEF ChatsOK, ClosingIsDone, RegistryNamesOpenChat, IdleChatHasEmptyQueue, Pending,
         NoStrandedTurn
<1>9. LinkIsBacked'
  BY <1>1, <1>2, <1>3, <1>4 DEF LinkIsBacked
<1>10. FinalKept
  BY <1>1, <1>4 DEF FinalKept, Terminal, TerminalRunStates, Live, LiveRunStates
<1> QED
  BY <1>5, <1>6, <1>7, <1>8, <1>9, <1>10 DEF RowsOK, ChatsOK

LEMMA ReleaseProcessLinkKeeps ==
  ASSUME StoreInv, NEW r \in RunId, ReleaseProcessLink(r)
  PROVE RowsOK' /\ ChatsOK' /\ FinalKept
<1> USE DEF StoreInv
<1>1. \A q \in RunId : /\ runs'[q].msg = runs[q].msg /\ runs'[q].attempt = runs[q].attempt
                       /\ runs'[q].state = runs[q].state
                       /\ runs'[q].pid = IF runs[q].msg = runs[r].msg THEN 0 ELSE runs[q].pid
  BY DEF ReleaseProcessLink, StoreTypeOK, Run
<1>2. /\ UNCHANGED <<chats, msgs>> /\ slot'.chat = slot.chat
      /\ slot'.pid = IF slot.chat = ChatOf(r) THEN 0 ELSE slot.pid
  BY DEF ReleaseProcessLink, StoreTypeOK, Slot
<1>3. \A q \in RunId : ChatOf(q)' = ChatOf(q) /\ (Live(q)' <=> Live(q))
  BY <1>1, <1>2 DEF ChatOf, Live
<1>4. MessageRows' /\ AttemptRows' /\ TurnRows' /\ OneTurnAtATime' /\ OneFirstAttempt'
  BY <1>1, <1>2, <1>3
     DEF RowsOK, MessageRows, AttemptRows, TurnRows, OneTurnAtATime, OneFirstAttempt
<1>5. PidsAreRecorded'
  BY <1>1, RunRefs DEF RowsOK, PidsAreRecorded, Recorded
<1>6. ClosingIsDone' /\ RegistryNamesOpenChat' /\ IdleChatHasEmptyQueue' /\ NoStrandedTurn'
  BY <1>1, <1>2, <1>3
     DEF ChatsOK, ClosingIsDone, RegistryNamesOpenChat, IdleChatHasEmptyQueue, Pending,
         NoStrandedTurn
<1>7. LinkIsBacked'
  <2> SUFFICES ASSUME slot'.pid # 0
               PROVE \E q \in RunId : runs'[q].pid = slot'.pid /\ ChatOf(q)' = slot'.chat
    BY DEF LinkIsBacked
  <2>1. PICK q \in RunId : runs[q].pid = slot.pid /\ ChatOf(q) = slot.chat
    BY <1>2 DEF ChatsOK, LinkIsBacked
  <2>2. runs[q].msg # runs[r].msg
    BY <1>2, <2>1 DEF ChatOf
  <2> QED
    BY <1>1, <1>2, <1>3, <2>1, <2>2
<1>8. FinalKept
  BY <1>1, <1>2 DEF FinalKept
<1> QED
  BY <1>4, <1>5, <1>6, <1>7, <1>8 DEF RowsOK, ChatsOK

(* A continuation adds a running attempt at a prompt that has ended. *)
LEMMA OpenContinuationRows ==
  ASSUME StoreInv, NEW r \in RunId, NEW next \in RunId, NEW b, OpenContinuation(r, next, b)
  PROVE /\ \A q \in RunId : ~Live(q)
        /\ runs[next].state = NoRow /\ UNCHANGED msgs
        /\ runs[r].msg \in MessageId /\ runs[r].state # NoRow
        /\ msgs[runs[r].msg].state \in TerminalMessageStates
        /\ \A p \in RunId : p # next => runs'[p] = runs[p]
        /\ runs'[next].msg = runs[r].msg /\ runs'[next].attempt \in 2..MaxRun
        /\ runs'[next].state = "running" /\ runs'[next].pid = runs[r].pid
<1> USE DEF StoreInv
<1> DEFINE m == runs[r].msg
<1>1. PICK a \in 2..MaxRun :
        /\ NextAttempt(m, a)
        /\ runs' = [runs EXCEPT ![next] = NewRun(m, a, "running", b, runs[r].pid, runs[r].archived)]
  BY DEF OpenContinuation
<1>2. (\A q \in RunId : ~Live(q)) /\ runs[next].state = NoRow /\ UNCHANGED msgs
  BY DEF OpenContinuation, ContinuationLegal, NextRun
<1>3. PICK q \in RunId : runs[q].msg = m /\ runs[q].attempt = a - 1
  BY <1>1 DEF NextAttempt
<1>4. runs[q].state # NoRow
  BY <1>3 DEF RowsOK, AttemptRows
<1>5. m \in MessageId /\ runs[r].state # NoRow
  BY <1>3, <1>4, RunRefs DEF RowsOK, AttemptRows
<1>6. msgs[m].state \in TerminalMessageStates
  BY <1>2, <1>3, <1>4 DEF RowsOK, TurnRows, MessageOutcome, TerminalMessageStates
<1>7. /\ \A p \in RunId : p # next => runs'[p] = runs[p]
      /\ runs'[next].msg = m /\ runs'[next].attempt = a /\ runs'[next].state = "running"
      /\ runs'[next].pid = runs[r].pid
  BY <1>1 DEF StoreTypeOK, NewRun
<1> QED
  BY <1>2, <1>5, <1>6, <1>7

LEMMA OpenContinuationKeeps ==
  ASSUME StoreInv, NEW r \in RunId, NEW next \in RunId, NEW b, OpenContinuation(r, next, b)
  PROVE RowsOK' /\ ChatsOK' /\ FinalKept
<1> USE DEF StoreInv
<1> DEFINE m == runs[r].msg
           c == ChatOf(r)
           a == runs'[next].attempt
<1>1. chats[c].state # "closed" /\ UNCHANGED <<slot, msgs>>
  BY DEF OpenContinuation
<1>2. /\ \A q \in RunId : ~Live(q)
      /\ runs[next].state = NoRow /\ chats[c].state # "closed" /\ UNCHANGED <<slot, msgs>>
  BY <1>1, OpenContinuationRows
<1>5. m \in MessageId /\ runs[r].state # NoRow
  BY OpenContinuationRows
<1>6. msgs[m].state \in TerminalMessageStates
  BY OpenContinuationRows
<1>7. c \in Chats /\ chats[c].state # NoRow /\ msgs[m].outbox = "dispatched" /\ m # 0
  BY <1>5, RunRefs DEF MessageId
<1>8. /\ \A p \in RunId : p # next => runs'[p] = runs[p]
      /\ runs'[next].msg = m /\ a \in 2..MaxRun /\ runs'[next].state = "running"
      /\ runs'[next].pid = runs[r].pid
  BY OpenContinuationRows
<1>9. \A d \in Chats : /\ chats'[d].state = IF d = c THEN "running" ELSE chats[d].state
                       /\ chats'[d].closing = chats[d].closing
  BY DEF OpenContinuation, StoreTypeOK, Chat
<1>10. ~chats[c].closing
  BY <1>2, <1>7 DEF ChatsOK, ClosingIsDone
<1>11. ChatOf(next)' = c /\ Live(next)' /\ \A p \in RunId : p # next => ChatOf(p)' = ChatOf(p)
  BY <1>2, <1>8 DEF ChatOf, Live, LiveRunStates
<1>12. "running" # NoRow
  BY DEF NoRow
<1> HIDE DEF c, m
<1>13. MessageRows'
  BY <1>2, <1>9, <1>12 DEF RowsOK, MessageRows
<1>14. AttemptRows'
  BY <1>2, <1>7, <1>8, <1>12 DEF RowsOK, AttemptRows
<1>15. TurnRows'
  BY <1>2, <1>6, <1>8 DEF RowsOK, TurnRows, Live
<1>16. OneTurnAtATime' /\ OneFirstAttempt'
  BY <1>2, <1>8 DEF RowsOK, OneTurnAtATime, OneFirstAttempt, Live
<1>17. PidsAreRecorded'
  BY <1>2, <1>8, RunRefs DEF RowsOK, PidsAreRecorded, Recorded
<1>18. ClosingIsDone' /\ RegistryNamesOpenChat' /\ IdleChatHasEmptyQueue'
  BY <1>2, <1>7, <1>9, <1>10, <1>12
     DEF ChatsOK, ClosingIsDone, RegistryNamesOpenChat, IdleChatHasEmptyQueue, Pending
<1>19. NoStrandedTurn'
  BY <1>2, <1>8, <1>9, <1>11 DEF ChatsOK, NoStrandedTurn, Live
<1>20. LinkIsBacked'
  <2>1. \A p \in RunId : runs[p].pid # 0 => p # next
    BY <1>2, RunRefs
  <2> QED
    BY <1>2, <1>8, <1>11, <2>1 DEF ChatsOK, LinkIsBacked
<1>21. FinalKept
  BY <1>2, <1>8 DEF FinalKept, Terminal, TerminalRunStates, NoRow
<1> QED
  BY <1>13, <1>14, <1>15, <1>16, <1>17, <1>18, <1>19, <1>20, <1>21 DEF RowsOK, ChatsOK

-----------------------------------------------------------------------------
(* The transactions that end a run. *)

(* The two transactions that end a run, the worker's and the reaper's, end its
   prompt with it and leave the queues alone but for a standing close request,
   which finds nothing to cancel. *)
Ended(r, outcome) ==
  /\ \A q \in RunId :
       /\ runs'[q].msg = runs[q].msg /\ runs'[q].attempt = runs[q].attempt
       /\ runs'[q].state = IF q = r THEN outcome ELSE runs[q].state
       /\ runs'[q].pid = runs[q].pid \/ (q = r /\ runs'[q].pid = 0)
  /\ \A m \in MessageId :
       /\ msgs'[m].chat = msgs[m].chat /\ msgs'[m].outbox = msgs[m].outbox
       /\ msgs'[m].state = IF m = runs[r].msg /\ msgs[m].state \notin TerminalMessageStates
                             THEN MessageOutcome(outcome) ELSE msgs[m].state

LEMMA EndedKeepsRows ==
  ASSUME StoreTypeOK, RowsOK, NEW r \in RunId, Live(r), NEW outcome \in TerminalRunStates,
         Ended(r, outcome), ChatsStay
  PROVE /\ RowsOK' /\ FinalKept
        /\ \A q \in RunId : ChatOf(q)' = ChatOf(q) /\ ~Live(q)'
        /\ \A m \in MessageId : msgs'[m].state = "running" => msgs[m].state = "running" /\ m # runs[r].msg
        /\ \A c : Pending(c)' = Pending(c)
<1> DEFINE m == runs[r].msg
<1>1. /\ \A q \in RunId : Live(q) => q = r
      /\ MessageRows /\ AttemptRows /\ TurnRows /\ OneFirstAttempt /\ PidsAreRecorded
  BY DEF RowsOK, OneTurnAtATime
<1>2. /\ MessageOutcome(outcome) \in TerminalMessageStates
      /\ outcome \notin {NoRow, "leased", "starting", "running"}
      /\ runs[r].state # NoRow
  BY OutcomeTypes DEF TerminalRunStates, NoRow, Live, LiveRunStates
<1>3. m \in MessageId /\ msgs[m].outbox = "dispatched"
  BY <1>2, RunRefs
<1>4. msgs[m].state = IF runs[r].attempt = 1 THEN "running" ELSE msgs[m].state
  BY <1>1, <1>2 DEF TurnRows
<1>5. runs[r].attempt # 1 => msgs[m].state \in TerminalMessageStates
  BY <1>1, <1>2 DEF TurnRows
<1>6. \A q \in RunId : ~Live(q)' /\ (runs'[q].state = NoRow <=> runs[q].state = NoRow)
  BY <1>1, <1>2 DEF Ended, Live, LiveRunStates
<1> HIDE DEF m
<1>7. \A n \in MessageId : /\ msgs'[n].state = NoRow <=> msgs[n].state = NoRow
                           /\ msgs'[n].state = "queued" <=> msgs[n].state = "queued"
                           /\ msgs'[n].state # "accepted"
                           /\ msgs'[n].state = "running" => msgs[n].state = "running" /\ n # m
                           /\ msgs[n].state \in TerminalMessageStates => msgs'[n].state = msgs[n].state
  <2> TAKE n \in MessageId
  <2>1. CASE n # m
    BY <1>1, <2>1 DEF Ended, m, MessageRows
  <2>2. CASE n = m
    <3>1. msgs[n].state \in TerminalMessageStates \/ msgs[n].state = "running"
      BY <1>4, <1>5, <2>2
    <3>2. msgs'[n].state \in TerminalMessageStates
      BY <1>2, <2>2, <3>1 DEF Ended, m
    <3>3. msgs[n].state \in TerminalMessageStates => msgs'[n].state = msgs[n].state
      BY <2>2 DEF Ended, m
    <3> QED
      BY ONLY <2>2, <3>1, <3>2, <3>3 DEF TerminalMessageStates, NoRow
  <2> QED
    BY <2>1, <2>2
<1>8. MessageRows'
  BY <1>1, <1>7 DEF MessageRows, Ended, ChatsStay
<1>9. AttemptRows'
  <2> SUFFICES ASSUME NEW q \in RunId
               PROVE /\ runs'[q].state = NoRow => runs'[q].attempt = 0 /\ runs'[q].msg = 0
                     /\ runs'[q].state # NoRow => /\ runs'[q].msg # 0 /\ runs'[q].attempt >= 1
                                                  /\ msgs'[runs'[q].msg].outbox = "dispatched"
                     /\ runs'[q].state \in {NoRow, "leased", "starting"} => runs'[q].pid = 0
    BY DEF AttemptRows
  <2>1. runs[q].state # NoRow => runs[q].msg \in MessageId
    BY RunRefs
  <2> QED
    BY <1>1, <1>2, <1>6, <2>1 DEF Ended, AttemptRows
<1>10. TurnRows'
  <2> SUFFICES ASSUME NEW q \in RunId, runs[q].state # NoRow
               PROVE IF runs'[q].attempt # 1 THEN msgs'[runs'[q].msg].state \in TerminalMessageStates
                     ELSE msgs'[runs'[q].msg].state = MessageOutcome(runs'[q].state)
    BY <1>6 DEF TurnRows
  <2>1. runs[q].msg \in MessageId
    BY RunRefs
  <2>2. CASE q = r
    <3>1. msgs'[m].state = IF runs[r].attempt = 1 THEN MessageOutcome(outcome) ELSE msgs[m].state
      BY <1>3, <1>4, <1>5 DEF Ended, m, TerminalMessageStates
    <3> QED
      BY <1>5, <2>2, <3>1 DEF Ended, m
  <2>3. CASE q # r
    <3>1. ~Live(q) /\ runs'[q].state = runs[q].state /\ runs'[q].msg = runs[q].msg
          /\ runs'[q].attempt = runs[q].attempt
      BY <1>1, <2>3 DEF Ended
    <3>2. IF runs[q].attempt # 1 THEN msgs[runs[q].msg].state \in TerminalMessageStates
          ELSE msgs[runs[q].msg].state = MessageOutcome(runs[q].state)
      BY <1>1, <3>1 DEF TurnRows
    <3>3. MessageOutcome(runs[q].state) \in TerminalMessageStates
      BY DEF MessageOutcome, TerminalMessageStates
    <3> QED
      BY <1>7, <2>1, <3>1, <3>2, <3>3
  <2> QED
    BY <2>2, <2>3
<1>11. OneTurnAtATime' /\ OneFirstAttempt'
  BY <1>1, <1>6 DEF OneTurnAtATime, OneFirstAttempt, Ended
<1>12. PidsAreRecorded'
  BY <1>1, <1>2, RunRefs DEF PidsAreRecorded, Recorded, Ended
<1>13. \A q \in RunId : ChatOf(q)' = ChatOf(q)
  BY RunRefs DEF Ended, ChatOf
<1>14. FinalKept
  BY <1>7 DEF FinalKept, Ended, Terminal, TerminalRunStates, Live, LiveRunStates
<1>15. \A c : Pending(c)' = Pending(c)
  BY DEF Ended, Pending
<1> QED
  BY <1>6, <1>7, <1>8, <1>9, <1>10, <1>11, <1>12, <1>13, <1>14, <1>15 DEF RowsOK, m

(* Then the chat of the run is no longer running. *)
LEMMA EndedKeepsChats ==
  ASSUME StoreInv, NEW r \in RunId, Live(r), NEW outcome \in TerminalRunStates,
         Ended(r, outcome), ChatsStay,
         \A d \in Chats : d # ChatOf(r) => chats'[d] = chats[d],
         chats'[ChatOf(r)].state # "running",
         chats'[ChatOf(r)].state = "closed" <=> chats[ChatOf(r)].state = "closed",
         chats'[ChatOf(r)].closing = chats[ChatOf(r)].closing,
         chats'[ChatOf(r)].state = "idle" => Pending(ChatOf(r)) = {},
         slot'.chat = slot.chat,
         slot'.pid = 0 \/ (slot'.pid = slot.pid /\ (slot.chat = ChatOf(r) => runs'[r].pid = runs[r].pid))
  PROVE ChatsOK'
<1> DEFINE c == ChatOf(r)
<1>1. /\ \A q \in RunId : ChatOf(q)' = ChatOf(q) /\ ~Live(q)'
      /\ \A m \in MessageId : msgs'[m].state = "running" => msgs[m].state = "running" /\ m # runs[r].msg
      /\ \A d : Pending(d)' = Pending(d)
  BY EndedKeepsRows DEF StoreInv
<1>2. \A q \in RunId : Live(q) => q = r
  BY DEF StoreInv, RowsOK, OneTurnAtATime
<1>3. /\ ClosingIsDone /\ RegistryNamesOpenChat /\ IdleChatHasEmptyQueue /\ NoStrandedTurn
      /\ LinkIsBacked
  BY DEF StoreInv, ChatsOK
<1>4. c \in Chats /\ chats[c].state # NoRow /\ chats'[c].state # NoRow
  <2>1. runs[r].state # NoRow
    BY DEF Live, LiveRunStates, NoRow
  <2> QED
    BY <2>1, RunRefs DEF StoreInv, ChatsStay
<1>5. ClosingIsDone'
  BY <1>1, <1>3 DEF ClosingIsDone
<1>6. RegistryNamesOpenChat'
  BY <1>3, <1>4 DEF RegistryNamesOpenChat
<1>7. IdleChatHasEmptyQueue'
  BY <1>1, <1>3 DEF IdleChatHasEmptyQueue
<1>8. NoStrandedTurn'
  <2>1. \A d \in Chats : chats'[d].state # "running"
    BY <1>2, <1>3 DEF NoStrandedTurn
  <2>2. \A m \in MessageId : msgs'[m].state # "running"
    BY <1>1, <1>2, <1>3 DEF NoStrandedTurn
  <2> QED
    BY <2>1, <2>2 DEF NoStrandedTurn
<1>9. LinkIsBacked'
  <2> SUFFICES ASSUME slot'.pid # 0
               PROVE \E q \in RunId : runs'[q].pid = slot'.pid /\ ChatOf(q)' = slot'.chat
    BY DEF LinkIsBacked
  <2>1. PICK q \in RunId : runs[q].pid = slot.pid /\ ChatOf(q) = slot.chat
    BY <1>3 DEF LinkIsBacked
  <2>2. runs'[q].pid = runs[q].pid
    BY <2>1 DEF Ended
  <2> QED
    BY <1>1, <2>1, <2>2
<1> QED
  BY <1>5, <1>6, <1>7, <1>8, <1>9 DEF ChatsOK

LEMMA FinishRunEnds ==
  ASSUME StoreInv, NEW r \in RunId, NEW outcome \in TerminalRunStates,
         NEW keepLink \in BOOLEAN, NEW exited \in BOOLEAN,
         FinishRun(r, outcome, keepLink, exited)
  PROVE /\ Live(r) /\ Ended(r, outcome)
        /\ ChatOf(r) \in Chats /\ chats[ChatOf(r)].state # NoRow
        /\ runs'[r].pid = IF exited THEN 0 ELSE runs[r].pid
        /\ chats[ChatOf(r)].closing => Pending(ChatOf(r)) = {} /\ chats[ChatOf(r)].state = "closed"
<1> DEFINE c == ChatOf(r)
           m == runs[r].msg
<1>1. Live(r) /\ StoreTypeOK /\ RowsOK
  BY DEF FinishRun, StoreInv
<1>2. c \in Chats /\ chats[c].state # NoRow /\ m \in MessageId
  <2>1. runs[r].state # NoRow
    BY <1>1 DEF Live, LiveRunStates, NoRow
  <2> QED
    BY <1>1, <2>1, RunRefs
<1>3. chats[c].closing => Pending(c) = {} /\ chats[c].state = "closed"
  BY <1>2 DEF StoreInv, ChatsOK, ClosingIsDone
<1>4. (IF chats[c].closing THEN CancelPending(c) ELSE msgs) = msgs
  BY <1>1, <1>3 DEF CancelPending, StoreTypeOK
<1>5. \A q \in RunId :
       /\ runs'[q].msg = runs[q].msg /\ runs'[q].attempt = runs[q].attempt
       /\ runs'[q].state = IF q = r THEN outcome ELSE runs[q].state
       /\ runs'[q].pid = IF q = r /\ exited THEN 0 ELSE runs[q].pid
  <2>1. PICK y : runs' = [runs EXCEPT ![r].state = outcome,
                                      ![r].pid = IF exited THEN 0 ELSE runs[r].pid,
                                      ![r].swept = y]
    BY DEF FinishRun
  <2> QED
    BY ONLY <1>1, <2>1 DEF StoreTypeOK, Run
<1>6. \A n \in MessageId :
       /\ msgs'[n].chat = msgs[n].chat /\ msgs'[n].outbox = msgs[n].outbox
       /\ msgs'[n].state = IF n = m /\ msgs[n].state \notin TerminalMessageStates
                             THEN MessageOutcome(outcome) ELSE msgs[n].state
  <2>1. msgs' = IF msgs[m].state \in TerminalMessageStates THEN msgs
                ELSE [msgs EXCEPT ![m].state = MessageOutcome(outcome)]
    BY <1>4 DEF FinishRun
  <2> HIDE DEF m
  <2> QED
    BY ONLY <1>1, <1>2, <2>1 DEF StoreTypeOK, Message
<1>7. Ended(r, outcome)
  BY <1>5, <1>6 DEF Ended
<1> QED
  BY <1>1, <1>2, <1>3, <1>5, <1>7

LEMMA FinishRunKeeps ==
  ASSUME StoreInv, NEW r \in RunId, NEW outcome \in TerminalRunStates,
         NEW keepLink \in BOOLEAN, NEW exited \in BOOLEAN, exited => ~keepLink,
         FinishRun(r, outcome, keepLink, exited)
  PROVE RowsOK' /\ ChatsOK' /\ FinalKept
<1> DEFINE c == ChatOf(r)
<1>1. StoreTypeOK /\ RowsOK
  BY DEF StoreInv
<1>2. Live(r) /\ Ended(r, outcome) /\ c \in Chats /\ chats[c].state # NoRow
  BY FinishRunEnds
<1>3. chats[c].closing => Pending(c) = {} /\ chats[c].state = "closed"
  BY FinishRunEnds
<1>5. runs'[r].pid = IF exited THEN 0 ELSE runs[r].pid
  BY FinishRunEnds
<1>8. chats' = IF chats[c].state = "closed" THEN chats
               ELSE [chats EXCEPT ![c].state = AfterTurn(c, outcome)]
  BY <1>3 DEF FinishRun
<1>9. /\ \A d \in Chats : d # c => chats'[d] = chats[d]
      /\ chats'[c].state = IF chats[c].state = "closed" THEN "closed" ELSE AfterTurn(c, outcome)
      /\ chats'[c].closing = chats[c].closing
  BY ONLY <1>1, <1>2, <1>8 DEF StoreTypeOK, Chat
<1>10. AfterTurn(c, outcome) \in {"idle", "queued", "error"}
  BY OutcomeTypes
<1>11. ~chats[c].closing /\ AfterTurn(c, outcome) = "idle" => Pending(c) = {}
  BY DEF AfterTurn, TerminalRunStates
<1>12. slot' = IF slot.chat = c /\ ~keepLink THEN [slot EXCEPT !.pid = 0] ELSE slot
  <2>1. chats[c].closing => slot.chat # c
    BY <1>2, <1>3 DEF StoreInv, ChatsOK, RegistryNamesOpenChat
  <2> QED
    BY <2>1 DEF FinishRun, SlotWithout
<1>13. /\ slot'.chat = slot.chat
       /\ slot'.pid = 0 \/ (slot'.pid = slot.pid /\ (slot.chat = c => keepLink))
  BY <1>1, <1>12 DEF StoreTypeOK, Slot
<1>14. ChatsStay
  BY <1>9, <1>10 DEF ChatsStay, NoRow
<1>15. ChatsOK'
  <2>1. chats'[c].state # "running" /\ (chats'[c].state = "closed" <=> chats[c].state = "closed")
    BY <1>9, <1>10
  <2>2. chats'[c].state = "idle" => Pending(c) = {}
    BY <1>3, <1>9, <1>11
  <2>3. slot'.pid = 0 \/ (slot'.pid = slot.pid /\ (slot.chat = c => runs'[r].pid = runs[r].pid))
    BY <1>5, <1>13
  <2> QED
    BY <1>1, <1>2, <1>9, <1>13, <1>14, <2>1, <2>2, <2>3, EndedKeepsChats
<1> QED
  BY <1>1, <1>2, <1>14, <1>15, EndedKeepsRows

(* The reaper's outcome: of a finished run it records only the event. *)
LEMMA FinishInterruptedEnds ==
  ASSUME StoreInv, NEW r \in RunId, NEW p, FinishInterrupted(r, p)
  PROVE IF KeepsOutcome(r) THEN Quiet
        ELSE /\ Live(r) /\ Ended(r, "cancelled")
             /\ ChatOf(r) \in Chats /\ chats[ChatOf(r)].state # NoRow
             /\ runs'[r].pid = runs[r].pid
<1>1. StoreTypeOK /\ RowsOK
  BY DEF StoreInv
<1>2. CASE KeepsOutcome(r)
  <2>1. runs' = [runs EXCEPT ![r] = [runs[r] EXCEPT !.swept = TRUE]] /\ UNCHANGED <<chats, slot, msgs>>
    BY <1>2 DEF FinishInterrupted
  <2>2. LET x == [runs[r] EXCEPT !.swept = TRUE]
        IN x.state = runs[r].state /\ x.msg = runs[r].msg /\ x.attempt = runs[r].attempt
           /\ x.pid = runs[r].pid
    BY <1>1 DEF StoreTypeOK, Run
  <2>3. Quiet
    BY <1>1, <2>1, <2>2, OneRowQuiet
  <2> QED
    BY <1>2, <2>3
<1>3. CASE ~KeepsOutcome(r)
  <2> DEFINE c == ChatOf(r)
             m == runs[r].msg
  <2>1. Live(r)
    BY <1>3 DEF FinishInterrupted, Eligible, Sweepable, KeepsOutcome, Live, LiveRunStates
  <2>2. c \in Chats /\ chats[c].state # NoRow /\ m \in MessageId
    <3>1. runs[r].state # NoRow
      BY <2>1 DEF Live, LiveRunStates, NoRow
    <3> QED
      BY <1>1, <3>1, RunRefs
  <2>3. /\ runs' = [runs EXCEPT ![r].swept = TRUE, ![r].state = "cancelled"]
        /\ msgs' = IF msgs[m].state \in TerminalMessageStates THEN msgs
                   ELSE [msgs EXCEPT ![m].state = "cancelled"]
    BY <1>3 DEF FinishInterrupted
  <2>4. \A q \in RunId :
       /\ runs'[q].msg = runs[q].msg /\ runs'[q].attempt = runs[q].attempt
       /\ runs'[q].state = IF q = r THEN "cancelled" ELSE runs[q].state
       /\ runs'[q].pid = runs[q].pid
    BY ONLY <1>1, <2>3 DEF StoreTypeOK, Run
  <2>5. \A n \in MessageId :
       /\ msgs'[n].chat = msgs[n].chat /\ msgs'[n].outbox = msgs[n].outbox
       /\ msgs'[n].state = IF n = m /\ msgs[n].state \notin TerminalMessageStates
                             THEN "cancelled" ELSE msgs[n].state
    <3> HIDE DEF m
    <3> QED
      BY ONLY <1>1, <2>2, <2>3 DEF StoreTypeOK, Message
  <2>6. Ended(r, "cancelled")
    BY <2>4, <2>5 DEF Ended, MessageOutcome
  <2> QED
    BY <1>3, <2>1, <2>2, <2>4, <2>6
<1> QED
  BY <1>2, <1>3

LEMMA FinishInterruptedKeeps ==
  ASSUME StoreInv, NEW r \in RunId, NEW p, FinishInterrupted(r, p)
  PROVE RowsOK' /\ ChatsOK' /\ FinalKept
<1>1. CASE KeepsOutcome(r)
  BY <1>1, FinishInterruptedEnds, QuietKeepsInv
<1>2. CASE ~KeepsOutcome(r)
  <2> DEFINE c == ChatOf(r)
  <2>1. StoreTypeOK /\ RowsOK /\ UNCHANGED slot /\ "cancelled" \in TerminalRunStates
    BY DEF FinishInterrupted, StoreInv, TerminalRunStates
  <2>2. /\ Live(r) /\ Ended(r, "cancelled") /\ c \in Chats /\ chats[c].state # NoRow
        /\ runs'[r].pid = runs[r].pid
    BY <1>2, FinishInterruptedEnds
  <2>3. chats' = [chats EXCEPT ![c].state = AfterReap(c)]
    BY <1>2 DEF FinishInterrupted
  <2>4. /\ \A d \in Chats : d # c => chats'[d] = chats[d]
        /\ chats'[c].state = AfterReap(c)
        /\ chats'[c].closing = chats[c].closing
    BY ONLY <2>1, <2>2, <2>3 DEF StoreTypeOK, Chat
  <2>5. /\ AfterReap(c) # "running"
        /\ AfterReap(c) = "closed" <=> chats[c].state = "closed"
        /\ AfterReap(c) # NoRow
        /\ AfterReap(c) = "idle" => Pending(c) = {}
    <3>1. AfterReap(c) = IF chats[c].state # "running" THEN chats[c].state
                         ELSE IF Pending(c) # {} THEN "queued" ELSE "idle"
      BY DEF AfterReap
    <3>2. chats[c].state = "idle" => Pending(c) = {}
      BY <2>2 DEF StoreInv, ChatsOK, IdleChatHasEmptyQueue
    <3> QED
      BY ONLY <2>2, <3>1, <3>2 DEF NoRow
  <2>6. ChatsStay
    BY <2>4, <2>5 DEF ChatsStay
  <2>7. RowsOK' /\ FinalKept
    BY <2>1, <2>2, <2>6, EndedKeepsRows
  <2>8. ChatsOK'
    BY <2>1, <2>2, <2>4, <2>5, <2>6, EndedKeepsChats
  <2> QED
    BY <2>7, <2>8
<1> QED
  BY <1>1, <1>2

-----------------------------------------------------------------------------
(* The tables are consistent whoever makes the transactions. *)

LEMMA RunIdIsPid == /\ RunId \subseteq Pid /\ 0 \in Pid
                    /\ \A r \in RunId : {0, r} \subseteq Pid
BY StoreConstants DEF RunId, Pid

LEMMA StoreStepKeeps ==
  ASSUME StoreInv, StoreNext PROVE StoreInv' /\ FinalKept
<1>t. StoreTypeOK
  BY DEF StoreInv
<1>s. SUFFICES StoreTypeOK' /\ RowsOK' /\ ChatsOK' /\ FinalKept
  BY DEF StoreInv
<1>1. CASE ApiTransaction
  BY <1>t, <1>1, CloseActiveForCreateType, DisplaceType, RegisterChatType, CloseByUserType,
     AcceptMessageType, ReopenWithMessageType, CloseActiveForCreateKeeps, DisplaceKeeps,
     RegisterChatKeeps, CloseByUserKeeps, AcceptMessageKeeps, ReopenWithMessageKeeps
     DEF ApiTransaction
<1>2. ASSUME NEW b \in Brokers, NEW ids, RenewRuns(ids, b)
      PROVE StoreTypeOK' /\ RowsOK' /\ ChatsOK' /\ FinalKept
  <2>1. PICK r \in RunId : TRUE
    BY StoreConstants DEF RunId
  <2> QED
    BY <1>t, <1>2, <2>1, RenewRunsType, QuietTransactions, QuietKeepsInv
<1>3. ASSUME NEW b \in Brokers, NEW r \in RunId,
             \/ AdoptRun(r, b) \/ DeferRun(r, b) \/ BindArchive(r, b) \/ MarkStarting(r, b)
             \/ RequestInterrupt(r) \/ LeaseExpires(r)
      PROVE StoreTypeOK' /\ RowsOK' /\ ChatsOK' /\ FinalKept
  BY <1>t, <1>3, AdoptRunType, DeferRunType, BindArchiveType, MarkStartingType,
     RequestInterruptType, LeaseExpiresType, QuietTransactions, QuietKeepsInv
<1>4. ASSUME NEW b \in Brokers, NEW r \in RunId, NEW m \in MessageId, ClaimNext(m, r, b)
      PROVE StoreTypeOK' /\ RowsOK' /\ ChatsOK' /\ FinalKept
  BY <1>t, <1>4, ClaimNextType, ClaimNextKeeps
<1>5. ASSUME NEW b \in Brokers, NEW r \in RunId, NEW p \in {0, r}, MarkNativeStarted(r, b, p)
      PROVE StoreTypeOK' /\ RowsOK' /\ ChatsOK' /\ FinalKept
  BY <1>t, <1>5, RunIdIsPid, MarkNativeStartedType, MarkNativeStartedKeeps
<1>6. ASSUME NEW r \in RunId, NEW outcome \in TerminalRunStates, NEW keepLink \in BOOLEAN,
             NEW exited \in BOOLEAN, exited => ~keepLink,
             FinishRun(r, outcome, keepLink, exited)
      PROVE StoreTypeOK' /\ RowsOK' /\ ChatsOK' /\ FinalKept
  BY <1>t, <1>6, FinishRunType, FinishRunKeeps
<1>7. ASSUME NEW b \in Brokers, NEW r \in RunId, NEW next \in RunId,
             OpenContinuation(r, next, b)
      PROVE StoreTypeOK' /\ RowsOK' /\ ChatsOK' /\ FinalKept
  BY <1>t, <1>7, OpenContinuationType, OpenContinuationKeeps
<1>8. ASSUME NEW r \in RunId, ReleaseProcessLink(r)
      PROVE StoreTypeOK' /\ RowsOK' /\ ChatsOK' /\ FinalKept
  BY <1>t, <1>8, ReleaseProcessLinkType, ReleaseProcessLinkKeeps
<1>9. ASSUME NEW r \in RunId, NEW p, NEW label \in {"interrupt", "SIGTERM"},
             RecordSignal(r, p, label)
      PROVE StoreTypeOK' /\ RowsOK' /\ ChatsOK' /\ FinalKept
  BY <1>t, <1>9, RecordSignalType, QuietTransactions, QuietKeepsInv
<1>10. ASSUME NEW r \in RunId, NEW p, FinishInterrupted(r, p)
       PROVE StoreTypeOK' /\ RowsOK' /\ ChatsOK' /\ FinalKept
  BY <1>t, <1>10, FinishInterruptedType, FinishInterruptedKeeps
<1>11. CASE \E r \in RunId : RequestInterrupt(r) \/ LeaseExpires(r)
  BY <1>t, <1>11, RequestInterruptType, LeaseExpiresType, QuietTransactions, QuietKeepsInv
<1>12. CASE \E b \in Brokers : BrokerTransaction(b)
  BY <1>2, <1>3, <1>4, <1>5, <1>6, <1>7, <1>8, <1>12 DEF BrokerTransaction
<1>13. CASE \E r \in RunId : ReaperTransaction(r)
  BY <1>9, <1>10, <1>13 DEF ReaperTransaction
<1> QED
  BY <1>1, <1>11, <1>12, <1>13 DEF StoreNext

LEMMA StoreInitKeeps ==
  ASSUME StoreInit PROVE StoreInv
<1>1. StoreTypeOK
  <2>1. NoRun \in Run /\ NoMessage \in Message /\ EmptySlot \in Slot
    BY StoreConstants DEF NoRun, Run, NoMessage, Message, EmptySlot, Slot, Pid
  <2> QED
    BY <2>1 DEF StoreInit, StoreTypeOK, Chat
<1>2. RowsOK
  BY DEF StoreInit, RowsOK, NoMessage, NoRun, NoRow, MessageRows, AttemptRows, TurnRows,
         OneTurnAtATime, OneFirstAttempt, PidsAreRecorded, Recorded, Live, LiveRunStates
<1>3. ChatsOK
  BY StoreConstants
     DEF StoreInit, ChatsOK, NoMessage, NoRow, EmptySlot, ClosingIsDone,
         RegistryNamesOpenChat, IdleChatHasEmptyQueue, NoStrandedTurn, LinkIsBacked
<1> QED
  BY <1>1, <1>2, <1>3 DEF StoreInv

LEMMA StoreStutters ==
  ASSUME StoreInv, UNCHANGED storeVars PROVE StoreInv' /\ FinalKept
<1> USE DEF storeVars
<1>1. StoreTypeOK'
  BY DEF StoreInv, StoreTypeOK
<1>2. RowsOK'
  BY DEF StoreInv, RowsOK, MessageRows, AttemptRows, TurnRows, OneTurnAtATime,
         OneFirstAttempt, PidsAreRecorded, Recorded, Live
<1>3. ChatsOK'
  BY DEF StoreInv, ChatsOK, ClosingIsDone, RegistryNamesOpenChat, IdleChatHasEmptyQueue,
         NoStrandedTurn, LinkIsBacked, Pending, Live, ChatOf
<1> QED
  BY <1>1, <1>2, <1>3 DEF StoreInv, FinalKept

(* The tables stay consistent under any interleaving of the transactions of the
   API, the brokers, the reaper and the monitor: nothing that the threads know,
   and no order in which they act, is needed for it. *)
THEOREM StoreIsConsistent == StoreSpec => []StoreInv
<1>1. StoreInit => StoreInv
  BY StoreInitKeeps
<1>2. StoreInv /\ [StoreNext]_storeVars => StoreInv'
  BY StoreStepKeeps, StoreStutters
<1> QED
  BY <1>1, <1>2, PTL DEF StoreSpec

-----------------------------------------------------------------------------
(* A transaction names a process in the registry only when it records it; and a
   recorded process stays recorded. *)
LinkMoves ==
  /\ \A p \in RunId : Recorded(p) => Recorded(p)'
  /\ \/ slot'.pid \in {0, slot.pid}
     \/ \E r \in RunId : slot'.pid = r /\ runs[r].state = "starting"

LEMMA QuietLinkMoves == ASSUME Quiet PROVE LinkMoves
BY DEF Quiet, RowQuiet, LinkMoves, Recorded, NoRow

LEMMA RunFinishedRows ==
  ASSUME StoreTypeOK, NEW r \in RunId, NEW x, NEW p, NEW y,
         runs' = [runs EXCEPT ![r].state = x, ![r].pid = p, ![r].swept = y]
  PROVE /\ runs'[r].state = x /\ \A q \in RunId : q # r => runs'[q] = runs[q]
BY DEF StoreTypeOK, Run

LEMMA StoreLinkMoves ==
  ASSUME StoreInv, StoreNext PROVE LinkMoves
<1>t. StoreTypeOK /\ runs \in [RunId -> Run] /\ slot \in Slot /\ \A r \in RunId : runs[r] \in Run
  BY DEF StoreInv, StoreTypeOK
<1>1. CASE UNCHANGED runs /\ slot'.pid = 0
  BY <1>1 DEF LinkMoves, Recorded
<1>2. CASE UNCHANGED runs /\ UNCHANGED slot
  BY <1>2 DEF LinkMoves, Recorded
<1>3. CASE ApiTransaction
  BY <1>1, <1>2, <1>3
     DEF ApiTransaction, CloseActiveForCreate, Displace, RegisterChat, CloseByUser,
         AcceptMessage, ReopenWithMessage, QueueMessage, SlotWithout, EmptySlot
<1>4. CASE Quiet
  BY <1>4, QuietLinkMoves
<1>5. ASSUME NEW r \in RunId, NEW b, NEW m \in MessageId, ClaimNext(m, r, b) PROVE LinkMoves
  <2>1. UNCHANGED slot /\ runs[r].state = NoRow /\ \A q \in RunId : q # r => runs'[q] = runs[q]
    BY <1>t, <1>5 DEF ClaimNext, NextRun
  <2> QED
    BY <2>1 DEF LinkMoves, Recorded
<1>6. ASSUME NEW r \in RunId, NEW b, NEW p \in {0, r}, MarkNativeStarted(r, b, p)
      PROVE LinkMoves
  <2>1. slot'.pid = p /\ runs[r].state = "starting"
    BY <1>t, <1>6 DEF MarkNativeStarted, CanRecord, Holds, Slot
  <2>2. \A q \in RunId : q # r => runs'[q] = runs[q]
    BY <1>t, <1>6 DEF MarkNativeStarted
  <2> QED
    BY <2>1, <2>2 DEF LinkMoves, Recorded
<1>7. ASSUME NEW r \in RunId, NEW outcome \in TerminalRunStates, NEW keepLink, NEW exited,
             FinishRun(r, outcome, keepLink, exited)
      PROVE LinkMoves
  <2>1. PICK p, y : runs' = [runs EXCEPT ![r].state = outcome, ![r].pid = p, ![r].swept = y]
    BY <1>7 DEF FinishRun
  <2>2. runs'[r].state = outcome /\ \A q \in RunId : q # r => runs'[q] = runs[q]
    BY ONLY <1>t, <2>1, RunFinishedRows
  <2>3. slot'.pid \in {0, slot.pid}
    BY <1>t, <1>7 DEF FinishRun, SlotWithout, EmptySlot, Slot
  <2> QED
    BY <2>2, <2>3 DEF LinkMoves, Recorded, TerminalRunStates, NoRow
<1>8. ASSUME NEW r, NEW next \in RunId, NEW b, OpenContinuation(r, next, b)
      PROVE LinkMoves
  <2>1. UNCHANGED slot /\ runs[next].state = NoRow /\ \A q \in RunId : q # next => runs'[q] = runs[q]
    BY <1>t, <1>8 DEF OpenContinuation, NextRun
  <2> QED
    BY <2>1 DEF LinkMoves, Recorded
<1>9. ASSUME NEW r \in RunId, ReleaseProcessLink(r) PROVE LinkMoves
  <2>1. \A q \in RunId : runs'[q].state = runs[q].state
    BY <1>t, <1>9 DEF ReleaseProcessLink, Run
  <2>2. slot'.pid \in {0, slot.pid}
    BY <1>t, <1>9 DEF ReleaseProcessLink, Slot
  <2> QED
    BY <2>1, <2>2 DEF LinkMoves, Recorded
<1>10. ASSUME NEW r \in RunId, NEW p, FinishInterrupted(r, p) PROVE LinkMoves
  <2>1. UNCHANGED slot
    BY <1>10 DEF FinishInterrupted
  <2>2. \A q \in RunId : runs'[q].state = runs[q].state \/ runs'[q].state = "cancelled"
    BY <1>t, <1>10 DEF FinishInterrupted, Run
  <2> QED
    BY <2>1, <2>2 DEF LinkMoves, Recorded, NoRow
<1>11. ASSUME NEW b, NEW ids, RenewRuns(ids, b) PROVE LinkMoves
  <2>1. PICK r \in RunId : TRUE
    BY StoreConstants DEF RunId
  <2> QED
    BY <1>t, <1>4, <1>11, <2>1, QuietTransactions
<1>12. CASE \E b \in Brokers : BrokerTransaction(b)
  BY <1>t, <1>4, <1>5, <1>6, <1>7, <1>8, <1>9, <1>11, <1>12, QuietTransactions
     DEF BrokerTransaction
<1>13. CASE \E r \in RunId : ReaperTransaction(r) \/ RequestInterrupt(r) \/ LeaseExpires(r)
  BY <1>t, <1>4, <1>10, <1>13, QuietTransactions DEF ReaperTransaction
<1> QED
  BY <1>3, <1>12, <1>13 DEF StoreNext
=============================================================================
