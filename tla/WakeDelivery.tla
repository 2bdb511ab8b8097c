------------------------------ MODULE WakeDelivery ------------------------------
(***************************************************************************)
(* Wake messages to one receiver shell.  A sender commits a message and,   *)
(* in the same transaction, its delivery intent: a wake.  Services lease a *)
(* wake, take every undelivered message of the receiver with it, choose or *)
(* open the chat its declared types ask for, queue one turn there, and     *)
(* record the outcome, each in a transaction of its own.  Three recorded   *)
(* failures end a wake; the monitor gives its messages a recovery wake.    *)
(*                                                                         *)
(* The chats are what delivery sees of BrowserChats: which one the         *)
(* registry names, whether its process is live, and what happened to the   *)
(* turns queued in them.  The messages carry no Sprint, or an armed one.   *)
(***************************************************************************)
EXTENDS Integers, Sequences, FiniteSets

CONSTANTS
  Services,      \* the services that deliver wakes, one per server process
  NoService,     \* claim_owner NULL
  MaxMessage,    \* bound: messages sent
  MaxWake,       \* bound: rows of sprint_wake_outbox
  MaxCrash,      \* bound: services that die in the middle of a delivery
  MaxFault,      \* bound: routes and enqueues that fail from outside
  MaxRead,       \* bound: messages the receiver reads in its inbox
  MaxStall,      \* bound: leases that expire under the service that works on them
  MaxActs        \* bound: what users do to the receiver's chats

ASSUME ServiceAssumption == NoService \notin Services
ASSUME BoundAssumption ==
  {MaxMessage, MaxWake, MaxCrash, MaxFault, MaxRead, MaxStall, MaxActs} \subseteq Nat

VARIABLES
  messages,   \* wake_message and sprint_wake_messages, in the order of message_id
  wakes,      \* sprint_wake_outbox, in the order of wake_id
  chats,      \* the receiver's conversations and the turns queued in each
  active,     \* active_shell_chats: the chat the registry names, or 0
  live,       \* whether the registry's process is live
  services,   \* what each service is at
  used        \* what was used of MaxCrash, MaxFault, MaxRead, MaxStall and MaxActs

vars == <<messages, wakes, chats, active, live, services, used>>

Declared   == {"force-new", "new", "re-enter"}
WakeStates == {"pending", "delivering", "delivered", "failed", "cancelled"}

Message == [type : Declared, read : BOOLEAN, delivered : BOOLEAN, wake : 1..MaxWake]

\* quiet: quiet_since is NULL, is set, or lies force_new_quiet_seconds back.
Wake == [state : WakeStates, attempts : 0..3, owner : Services \cup {NoService},
         expired : BOOLEAN, waiting : BOOLEAN, quiet : {"no", "seen", "long"},
         recovery : BOOLEAN]

\* wake: the wake whose key the turn carries, or 0 for a prompt of the user.
Turn == [wake : Nat, msgs : SUBSET (1..MaxMessage),
         state : {"queued", "running", "done", "cancelled"}]
Chat == [wake : Nat, open : BOOLEAN, turns : Seq(Turn)]

Steps == {"idle", "look", "relook", "close", "create", "raced", "enqueue",
          "record", "defer", "fail"}
Service == [at : Steps, wake : Nat, msgs : SUBSET (1..MaxMessage),
            kind : Declared, looked : Nat, target : Nat]
Idle == [at |-> "idle", wake |-> 0, msgs |-> {}, kind |-> "re-enter",
         looked |-> 0, target |-> 0]

(* Seeded fault: whatever nobody read counts as undelivered. *)
Unread == {m \in DOMAIN messages : ~messages[m].read}

Undelivered == {m \in DOMAIN messages : ~messages[m].delivered}
Joined(w)   == {m \in DOMAIN messages : messages[m].wake = w}
Pending     == {w \in DOMAIN wakes : wakes[w].state = "pending"}

NewWake(recovery) ==
  [state |-> "pending", attempts |-> 0, owner |-> NoService, expired |-> FALSE,
   waiting |-> recovery, quiet |-> "no", recovery |-> recovery]

Cancelled(wake) ==
  [wake EXCEPT !.state = "cancelled", !.owner = NoService, !.expired = FALSE,
               !.waiting = FALSE, !.quiet = "no"]

Init ==
  /\ messages = <<>> /\ wakes = <<>> /\ chats = <<>>
  /\ active = 0 /\ live = FALSE
  /\ services = [s \in Services |-> Idle]
  /\ used = [crash |-> 0, fault |-> 0, read |-> 0, stall |-> 0, acts |-> 0]

-----------------------------------------------------------------------------
(* Messages: SprintMessageStore. *)

(* The message joins the receiver's pending wake, or a new one. *)
Send(type) ==
  /\ Len(messages) < MaxMessage
  /\ \E w \in IF Pending = {} THEN {Len(wakes) + 1} ELSE Pending :
       /\ w <= MaxWake
       /\ wakes' = IF w \in DOMAIN wakes THEN wakes ELSE Append(wakes, NewWake(FALSE))
       /\ messages' = Append(messages,
            [type |-> type, read |-> FALSE, delivered |-> FALSE, wake |-> w])
  /\ UNCHANGED <<chats, active, live, services, used>>

(* The receiver reads its inbox.  A force-new message cannot be read before it
   is delivered; a pending wake with nothing left unread is cancelled. *)
MarkRead(m) ==
  /\ ~messages[m].read
  /\ used.read < MaxRead /\ used' = [used EXCEPT !.read = @ + 1]
  /\ messages[m].delivered \/ messages[m].type # "force-new"
  /\ messages' = [messages EXCEPT ![m].read = TRUE]
  /\ wakes' = LET w == messages[m].wake IN
       IF wakes[w].state = "pending" /\ \A n \in Joined(w) \ {m} : messages[n].read
       THEN [wakes EXCEPT ![w] = Cancelled(@)]
       ELSE wakes
  /\ UNCHANGED <<chats, active, live, services>>

-----------------------------------------------------------------------------
(* Claiming: SprintWakeDeliveryService.claim_next. *)

Expired == {w \in DOMAIN wakes : wakes[w].state = "delivering" /\ wakes[w].expired}

(* Expired leases become pending unless the receiver has a pending wake.  Two
   of them would be two pending rows: the unique index fails the transaction. *)
Collision == Pending = {} /\ \E v, w \in Expired : v # w

(* Seeded fault: leases are requeued beside a pending wake. *)
RequeuedBesidePending ==
  [w \in DOMAIN wakes |->
     IF w \in Expired
     THEN [wakes[w] EXCEPT !.state = "pending", !.owner = NoService,
                           !.expired = FALSE, !.waiting = FALSE]
     ELSE wakes[w]]

Requeued ==
  [w \in DOMAIN wakes |->
     IF Pending = {} /\ w \in Expired
     THEN [wakes[w] EXCEPT !.state = "pending", !.owner = NoService,
                           !.expired = FALSE, !.waiting = FALSE]
     ELSE wakes[w]]

Candidates(rows) ==
  {w \in DOMAIN rows :
     /\ \/ rows[w].state = "delivering" /\ rows[w].expired
        \/ rows[w].state = "pending" /\ ~rows[w].waiting
     /\ Joined(w) \cap Undelivered # {}}

ReceiverHasForceNew == \E m \in Undelivered : messages[m].type = "force-new"
BelongsToWake(c, w) == c # 0 /\ chats[c].wake = w

Passes(rows, w) ==
  \/ ~ReceiverHasForceNew
  \/ BelongsToWake(active, w)
  \/ ~live /\ rows[w].quiet = "long"

Ready(rows) == {w \in Candidates(rows) : Passes(rows, w)}
IsFirst(x, set) == x \in set /\ \A y \in set : x <= y

(* Seeded fault: the quiet period is never begun. *)
ObservedUnstamped(rows) ==
  [w \in DOMAIN rows |->
     IF live /\ w \in Candidates(rows) \ Ready(rows)
     THEN [rows[w] EXCEPT !.quiet = "no"] ELSE rows[w]]

(* The candidates looked at before the one that is claimed lose their quiet
   period to a live process, or begin it. *)
Observed(rows) ==
  [w \in DOMAIN rows |->
     IF /\ w \in Candidates(rows) \ Ready(rows)
        /\ \A v \in Ready(rows) : w < v
     THEN [rows[w] EXCEPT !.quiet = IF live THEN "no" ELSE IF @ = "no" THEN "seen" ELSE @]
     ELSE rows[w]]

Strongest(types) ==
  IF "force-new" \in types THEN "force-new"
  ELSE IF "new" \in types THEN "new" ELSE "re-enter"

(* Seeded fault: the claimed wake takes only the messages it was sent with. *)
LeaseOfItsOwn(s, rows, w) ==
  /\ wakes' = [rows EXCEPT ![w] = [@ EXCEPT !.state = "delivering", !.owner = s,
                                           !.expired = FALSE, !.waiting = FALSE]]
  /\ services' = [services EXCEPT ![s] =
       [Idle EXCEPT !.at = "look", !.wake = w, !.msgs = Joined(w) \cap Undelivered,
                    !.kind = Strongest({messages[m].type : m \in Joined(w) \cap Undelivered})]]
  /\ UNCHANGED messages

(* The claimed wake takes every undelivered message of the receiver with it,
   whatever wake it was sent with; a pending wake left without one is
   cancelled. *)
Lease(s, rows, w) ==
  /\ messages' = [m \in DOMAIN messages |->
       IF m \in Undelivered THEN [messages[m] EXCEPT !.wake = w] ELSE messages[m]]
  /\ wakes' = [v \in DOMAIN rows |->
       IF v = w
       THEN [rows[v] EXCEPT !.state = "delivering", !.owner = s, !.expired = FALSE,
                            !.waiting = FALSE]
       ELSE IF rows[v].state = "pending" /\ Joined(v) \ Undelivered = {}
       THEN Cancelled(rows[v])
       ELSE rows[v]]
  /\ services' = [services EXCEPT ![s] =
       [Idle EXCEPT !.at = "look", !.wake = w, !.msgs = Undelivered,
                    !.kind = Strongest({messages[m].type : m \in Undelivered})]]

ClaimNext(s) ==
  /\ services[s].at = "idle"
  /\ ~Collision
  /\ LET rows == Observed(Requeued) IN
     \/ /\ Ready(Requeued) = {}
        /\ wakes' = rows
        /\ UNCHANGED <<messages, services>>
     \/ \E w \in Ready(Requeued) :
          IsFirst(w, Ready(Requeued)) /\ Lease(s, rows, w)
  /\ UNCHANGED <<chats, active, live, used>>

-----------------------------------------------------------------------------
(* Placing the turn: SprintWakeDeliveryService._resolve_conversation. *)

Goto(s, at)     == services' = [services EXCEPT ![s].at = at]
EnqueueIn(s, c) == services' = [services EXCEPT ![s].at = "enqueue", ![s].target = c]
Rotate(s)       == services' = [services EXCEPT
                     ![s].at = IF active = 0 THEN "create" ELSE "close",
                     ![s].looked = active]

Look(s) ==
  /\ services[s].at = "look"
  /\ LET kind == services[s].kind
         own  == BelongsToWake(active, services[s].wake)
     IN \/ /\ \/ own
              \/ live /\ kind # "force-new"
              \/ active # 0 /\ kind = "re-enter"
           /\ EnqueueIn(s, active)
        \/ ~own /\ live /\ kind = "force-new" /\ Goto(s, "defer")
        \/ /\ ~own /\ ~live
           /\ active = 0 \/ kind # "re-enter"
           /\ IF kind = "force-new"
              THEN services' = [services EXCEPT ![s].at = "relook", ![s].looked = active]
              ELSE Rotate(s)
  /\ UNCHANGED <<messages, wakes, chats, active, live, used>>

(* The route was prepared; a force-new delivery looks once more. *)
Relook(s) ==
  /\ services[s].at = "relook"
  /\ LET own == BelongsToWake(active, services[s].wake)
         changed == active \notin {0, services[s].looked}
     IN \/ own /\ EnqueueIn(s, active)
        \/ ~own /\ (live \/ changed) /\ Goto(s, "defer")
        \/ ~own /\ ~live /\ ~changed /\ Rotate(s)
  /\ UNCHANGED <<messages, wakes, chats, active, live, used>>

(* close_for_displacement: what is queued in the chat is cancelled with it. *)
Displaced(chat) ==
  [chat EXCEPT !.open = FALSE,
     !.turns = [i \in DOMAIN chat.turns |->
        IF chat.turns[i].state = "queued"
        THEN [chat.turns[i] EXCEPT !.state = "cancelled"] ELSE chat.turns[i]]]

Displace == /\ chats' = [chats EXCEPT ![active] = Displaced(@)]
            /\ active' = 0 /\ live' = FALSE

(* Seeded fault: force-new is absorbed by the chat that won. *)
YieldAbsorbed(s) == "raced"

(* Another chat won: force-new is put back, a new delivery goes to the winner. *)
Yield(s) == IF services[s].kind = "force-new" THEN "defer" ELSE "raced"

(* close_for_wake: the chat that is active now, never one with a live process;
   force-new insists on the chat it looked at. *)
CloseForWake(s) ==
  /\ services[s].at = "close"
  /\ LET busy == live \/ /\ services[s].kind = "force-new"
                         /\ active \notin {0, services[s].looked}
     IN \/ busy /\ Goto(s, Yield(s))
           /\ UNCHANGED <<chats, active, live>>
        \/ ~busy /\ active = 0 /\ Goto(s, "create") /\ UNCHANGED <<chats, active, live>>
        \/ ~busy /\ active # 0 /\ Goto(s, "create") /\ Displace
  /\ UNCHANGED <<messages, wakes, used>>

(* The delivery goes to the chat that is active now, if there still is one. *)
Raced(s) ==
  /\ services[s].at = "raced"
  /\ IF active # 0 THEN EnqueueIn(s, active) ELSE Goto(s, "fail")
  /\ UNCHANGED <<messages, wakes, chats, active, live, used>>

(* create_shell_wake_conversation: a wake has one chat, found by its key.  That
   chat is closed when the registry names none. *)
CreateWakeChat(s) ==
  /\ services[s].at = "create"
  /\ LET w == services[s].wake
         made == \E c \in DOMAIN chats : chats[c].wake = w
     IN \/ /\ active # 0
           /\ Goto(s, Yield(s))
           /\ UNCHANGED <<chats, active, live>>
        \/ active = 0 /\ made /\ Goto(s, "fail") /\ UNCHANGED <<chats, active, live>>
        \/ /\ active = 0 /\ ~made
           /\ chats' = Append(chats, [wake |-> w, open |-> TRUE, turns |-> <<>>])
           /\ active' = Len(chats) + 1 /\ live' = FALSE
           /\ EnqueueIn(s, Len(chats) + 1)
  /\ UNCHANGED <<messages, wakes, used>>

-----------------------------------------------------------------------------
(* Delivering: enqueue_conversation_turn and deliver_once. *)

SameKey(s) == LET turns == chats[services[s].target].turns IN
  {i \in DOMAIN turns : turns[i].wake = services[s].wake}

(* Seeded fault: whatever has the wake's key is taken for the same turn. *)
AnyPrompt(s) == TRUE

SamePrompt(s) == \A i \in SameKey(s) :
  chats[services[s].target].turns[i].msgs = services[s].msgs

(* A closed chat rejects the turn.  A turn with the wake's key is found again
   when its prompt, that is its messages, is the same, and is an error when it
   is not. *)
EnqueueTurn(s) ==
  /\ services[s].at = "enqueue"
  /\ LET c == services[s].target IN
        \/ ~chats[c].open /\ Goto(s, "fail") /\ UNCHANGED chats
        \/ /\ chats[c].open /\ SameKey(s) # {}
           /\ Goto(s, IF SamePrompt(s) THEN "record" ELSE "fail")
           /\ UNCHANGED chats
        \/ /\ chats[c].open /\ SameKey(s) = {}
           /\ chats' = [chats EXCEPT ![c].turns = Append(@,
                [wake |-> services[s].wake, msgs |-> services[s].msgs, state |-> "queued"])]
           /\ Goto(s, "record")
  /\ UNCHANGED <<messages, wakes, active, live, used>>

(* Preparing the route, or the enqueue, raises. *)
Fault(s) ==
  /\ services[s].at \in {"look", "relook", "enqueue"}
  /\ used.fault < MaxFault /\ used' = [used EXCEPT !.fault = @ + 1]
  /\ Goto(s, "fail")
  /\ UNCHANGED <<messages, wakes, chats, active, live>>

Finish(s) == services' = [services EXCEPT ![s] = Idle]

(* Seeded fault: whoever holds the lease, the wake is being delivered. *)
OwnsByState(s) == wakes[services[s].wake].state = "delivering"

(* The delivery and the failure are recorded by the owner of the lease; a lease
   that went to another service is an error of this one. *)
Owns(s) == LET wake == wakes[services[s].wake] IN
  wake.state = "delivering" /\ wake.owner = s

\* One more attempt is over, and the lease with it.
Attempted(wake, state) ==
  [wake EXCEPT !.state = state, !.attempts = @ + 1, !.owner = NoService, !.expired = FALSE]

RecordDelivered(s) ==
  /\ services[s].at = "record"
  /\ \/ ~Owns(s) /\ UNCHANGED <<messages, wakes>>
     \/ /\ Owns(s)
        /\ messages' = [m \in DOMAIN messages |->
             IF m \in services[s].msgs THEN [messages[m] EXCEPT !.delivered = TRUE]
             ELSE messages[m]]
        /\ wakes' = [wakes EXCEPT ![services[s].wake] =
             [Attempted(@, "delivered") EXCEPT !.quiet = "no"]]
  /\ Finish(s)
  /\ UNCHANGED <<chats, active, live, used>>

(* _defer_force_new: back to pending without an attempt, with the messages of a
   wake that became pending meanwhile. *)
DeferForceNew(s) ==
  /\ services[s].at = "defer"
  /\ \/ ~Owns(s) /\ UNCHANGED <<messages, wakes>>
     \/ /\ Owns(s)
        /\ LET w == services[s].wake IN
           /\ messages' = [m \in DOMAIN messages |->
                IF messages[m].wake \in Pending THEN [messages[m] EXCEPT !.wake = w]
                ELSE messages[m]]
           /\ wakes' = [v \in DOMAIN wakes |->
                IF v \in Pending THEN Cancelled(wakes[v])
                ELSE IF v = w
                THEN [wakes[v] EXCEPT !.state = "pending", !.owner = NoService,
                                      !.expired = FALSE, !.quiet = "no"]
                ELSE wakes[v]]
  /\ Finish(s)
  /\ UNCHANGED <<chats, active, live, used>>

MaxAttempts == 3

(* record_wake_failure.  Two failures put the wake back; the unique index
   refuses that, and nothing is recorded, while the receiver has another pending
   wake.  The third ends the wake and displaces the chat it was aimed at. *)
Terminal(w)     == wakes[w].attempts + 1 = MaxAttempts
Unrecordable(s) == ~Terminal(services[s].wake) /\ Pending # {}

RecordFailure(s) ==
  /\ services[s].at = "fail"
  /\ LET w == services[s].wake IN
     \/ (~Owns(s) \/ Unrecordable(s)) /\ UNCHANGED <<wakes, chats, active, live>>
     \/ /\ Owns(s) /\ ~Terminal(w) /\ Pending = {}
        /\ wakes' = [wakes EXCEPT ![w] =
             [Attempted(@, "pending") EXCEPT !.waiting = TRUE]]
        /\ UNCHANGED <<chats, active, live>>
     \/ /\ Owns(s) /\ Terminal(w)
        /\ wakes' = [wakes EXCEPT ![w] =
             [Attempted(@, "failed") EXCEPT !.quiet = "no"]]
        /\ IF active # 0 /\ services[s].target \in {0, active}
           THEN Displace
           ELSE UNCHANGED <<chats, active, live>>
  /\ Finish(s)
  /\ UNCHANGED <<messages, used>>

(* The server dies; the lease stays. *)
Crash(s) ==
  /\ services[s].at # "idle"
  /\ used.crash < MaxCrash /\ used' = [used EXCEPT !.crash = @ + 1]
  /\ Finish(s)
  /\ UNCHANGED <<messages, wakes, chats, active, live>>

(* ActivityMonitor._recover_engine_wakes: what failed wakes leave undelivered
   and unread joins the pending wake, or one recovery wake. *)
Unserved(w) == {m \in Joined(w) : ~messages[m].delivered /\ ~messages[m].read}
Recoverable == {w \in DOMAIN wakes :
  wakes[w].state = "failed" /\ ~wakes[w].recovery /\ Unserved(w) # {}}

RecoverWakes ==
  /\ Recoverable # {}
  /\ \E w \in IF Pending = {} THEN {Len(wakes) + 1} ELSE Pending :
       /\ w <= MaxWake
       /\ wakes' = IF w \in DOMAIN wakes THEN wakes ELSE Append(wakes, NewWake(TRUE))
       /\ messages' = [m \in DOMAIN messages |->
            IF \E v \in Recoverable : m \in Unserved(v)
            THEN [messages[m] EXCEPT !.wake = w] ELSE messages[m]]
  /\ UNCHANGED <<chats, active, live, services, used>>

-----------------------------------------------------------------------------
(* Time. *)

Works(s, w) == services[s].at # "idle" /\ services[s].wake = w

LeaseExpires(w) ==
  /\ wakes[w].state = "delivering" /\ ~wakes[w].expired
  /\ IF wakes[w].owner \in Services /\ Works(wakes[w].owner, w)
     THEN used.stall < MaxStall /\ used' = [used EXCEPT !.stall = @ + 1]
     ELSE UNCHANGED used
  /\ wakes' = [wakes EXCEPT ![w].expired = TRUE]
  /\ UNCHANGED <<messages, chats, active, live, services>>

BackoffEnds(w) ==
  /\ wakes[w].state = "pending" /\ wakes[w].waiting
  /\ wakes' = [wakes EXCEPT ![w].waiting = FALSE]
  /\ UNCHANGED <<messages, chats, active, live, services, used>>

QuietPasses(w) ==
  /\ wakes[w].quiet = "seen"
  /\ wakes' = [wakes EXCEPT ![w].quiet = "long"]
  /\ UNCHANGED <<messages, chats, active, live, services, used>>

-----------------------------------------------------------------------------
(* The receiver's chats: the broker starts and ends turns, users act. *)

QueuedIn(c) == {i \in DOMAIN chats[c].turns : chats[c].turns[i].state = "queued"}

TurnStarts ==
  /\ active # 0 /\ ~live
  /\ \E i \in QueuedIn(active) :
       /\ IsFirst(i, QueuedIn(active))
       /\ chats' = [chats EXCEPT ![active].turns[i].state = "running"]
  /\ live' = TRUE
  /\ UNCHANGED <<messages, wakes, active, services, used>>

TurnEnds ==
  /\ live
  /\ chats' = [chats EXCEPT ![active].turns = [i \in DOMAIN @ |->
       IF @[i].state = "running" THEN [@[i] EXCEPT !.state = "done"] ELSE @[i]]]
  /\ live' = FALSE
  /\ UNCHANGED <<messages, wakes, active, services, used>>

Act == used.acts < MaxActs /\ used' = [used EXCEPT !.acts = @ + 1]

UserTurn == [wake |-> 0, msgs |-> {}, state |-> "queued"]

UserPrompts ==
  /\ Act /\ active # 0
  /\ chats' = [chats EXCEPT ![active].turns = Append(@, UserTurn)]
  /\ UNCHANGED <<messages, wakes, active, live, services>>

UserCloses ==
  /\ Act /\ active # 0 /\ Displace
  /\ UNCHANGED <<messages, wakes, services>>

UserOpens ==
  /\ Act /\ active = 0
  /\ \/ /\ chats' = Append(chats, [wake |-> 0, open |-> TRUE, turns |-> <<UserTurn>>])
        /\ active' = Len(chats) + 1
     \/ \E c \in DOMAIN chats :
          /\ chats' = [chats EXCEPT ![c].open = TRUE, ![c].turns = Append(@, UserTurn)]
          /\ active' = c
  /\ UNCHANGED <<messages, wakes, live, services>>

-----------------------------------------------------------------------------
Deliver(s) ==
  \/ ClaimNext(s) \/ Look(s) \/ Relook(s) \/ CloseForWake(s) \/ Raced(s)
  \/ CreateWakeChat(s) \/ EnqueueTurn(s)
  \/ RecordDelivered(s) \/ DeferForceNew(s) \/ RecordFailure(s)

Time == \E w \in DOMAIN wakes : LeaseExpires(w) \/ BackoffEnds(w) \/ QuietPasses(w)

Next ==
  \/ \E type \in Declared : Send(type)
  \/ \E m \in DOMAIN messages : MarkRead(m)
  \/ \E s \in Services : Deliver(s) \/ Fault(s) \/ Crash(s)
  \/ RecoverWakes
  \/ Time
  \/ TurnStarts \/ TurnEnds
  \/ UserPrompts \/ UserCloses \/ UserOpens

Spec == Init /\ [][Next]_vars

(* A service that is up pulses, the monitor ticks in the same pulse, time
   passes, and a turn ends: it succeeds, fails, or the inactivity ceiling
   closes its chat.  Nobody has to send, to read, or to act. *)
Fairness ==
  /\ \A s \in Services : WF_vars(Deliver(s))
  /\ WF_vars(RecoverWakes)
  /\ \A w \in 1..MaxWake : WF_vars(w \in DOMAIN wakes
       /\ (LeaseExpires(w) \/ BackoffEnds(w) \/ QuietPasses(w)))
  /\ WF_vars(TurnStarts) /\ WF_vars(TurnEnds)

FairSpec == Spec /\ Fairness
=============================================================================
