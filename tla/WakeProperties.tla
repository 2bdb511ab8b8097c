----------------------------- MODULE WakeProperties -----------------------------
(***************************************************************************)
(* What WakeDelivery guarantees, and what the repository says of it that   *)
(* the code does not do.                                                   *)
(***************************************************************************)
EXTENDS WakeDelivery

(* Rows, chats and services keep the shape the tables and the code give them. *)
TypeOK ==
  /\ messages \in Seq(Message) /\ Len(messages) <= MaxMessage
  /\ wakes \in Seq(Wake) /\ Len(wakes) <= MaxWake
  /\ chats \in Seq(Chat)
  /\ active \in 0..Len(chats) /\ live \in BOOLEAN
  /\ services \in [Services -> Service]
  /\ used \in [crash : 0..MaxCrash, fault : 0..MaxFault,
             read : 0..MaxRead, stall : 0..MaxStall, acts : 0..MaxActs]

(* A shell has at most one pending wake: messages coalesce into it, and a wake
   that returns to pending, by requeue, failure or deferral, finds none. *)
OnePendingWake == \A v, w \in Pending : v = w

(* A message nobody read and no delivery was recorded for still has a delivery
   intent that can act: its wake was neither cancelled nor delivered, however
   often it was handed from wake to wake. *)
IntentKept == \A m \in Undelivered :
  messages[m].read \/ wakes[messages[m].wake].state \in {"pending", "delivering", "failed"}

(* A wake drains every undelivered message, so deliveries are recorded in the
   order of sending, whichever of several services and attempts succeeds. *)
DeliveredInOrder == \A m, n \in DOMAIN messages :
  m < n /\ messages[n].delivered => messages[m].delivered

(* A delivery is recorded only of messages that a turn of some chat carries. *)
DeliveredWasQueued == \A m \in DOMAIN messages \ Undelivered :
  \E c \in DOMAIN chats : \E i \in DOMAIN chats[c].turns : m \in chats[c].turns[i].msgs

(* Force-new is never absorbed: a turn that carries such a message is in the
   chat made for the wake that carries it. *)
ForceNewInOwnChat == \A c \in DOMAIN chats : \A i \in DOMAIN chats[c].turns :
  (\E m \in chats[c].turns[i].msgs : messages[m].type = "force-new")
    => chats[c].wake = chats[c].turns[i].wake

(* What the receiver sees of it: the messages without the wake they are joined
   to, and the turns that carry messages. *)
Letter(m) ==
  [type |-> messages[m].type, read |-> messages[m].read, delivered |-> messages[m].delivered]
Inbox == [m \in DOMAIN messages |-> Letter(m)]

Carried(c, i) == [msgs |-> chats[c].turns[i].msgs,
                  own  |-> chats[c].wake = chats[c].turns[i].wake]
Prompted ==
  {prompt \in UNION {{Carried(c, i) : i \in DOMAIN chats[c].turns} : c \in DOMAIN chats} :
     prompt.msgs # {}}

Mail == INSTANCE Mailbox WITH
  Types <- Declared, inbox <- Inbox, prompted <- Prompted

(* Leases, retries, crashes, deferrals and recovery are invisible: prompts leave
   no older undelivered message behind, force-new gets a chat of its own, and
   deliveries are recorded of whole prompts, as Mailbox promises. *)
ImplementsMailbox == Mail!MailSpec

(* The receiver is asked twice to act on a message only when a service died
   between queueing the turn and recording the delivery.  So it is where one
   service delivers: another one may take what is being delivered with it. *)
PromptedOnce == used.crash = 0 =>
  \A c, d \in DOMAIN chats :
    \A i \in DOMAIN chats[c].turns, j \in DOMAIN chats[d].turns :
      chats[c].turns[i].msgs \cap chats[d].turns[j].msgs # {} => c = d /\ i = j

(* Why.  Rows and references: a lease names its wake, its messages and the chat
   it is aimed at, a message its wake, and a turn its messages, ... *)
NamesItsRows(s) == LET service == services[s] IN
  /\ service.wake \in DOMAIN wakes
  /\ service.msgs \subseteq DOMAIN messages
  /\ service.kind = Strongest({messages[m].type : m \in service.msgs})
  /\ service.target \in 0..Len(chats)
  /\ service.at \in {"enqueue", "record"} => service.target # 0

References ==
  /\ \A m \in DOMAIN messages : messages[m].wake \in DOMAIN wakes
  /\ \A s \in Services : services[s].at # "idle" => NamesItsRows(s)
  /\ \A c \in DOMAIN chats : \A i \in DOMAIN chats[c].turns :
       chats[c].turns[i].msgs \subseteq DOMAIN messages
  /\ live => active # 0

(* ... a wake that may still be tried has an attempt left, ... *)
AttemptLeft == \A w \in DOMAIN wakes :
  wakes[w].state \in {"pending", "delivering"} => wakes[w].attempts < MaxAttempts

(* ... the messages of a lease are all that was undelivered and sent before its
   last one, ... *)
LeasesAreWhole == \A s \in Services : services[s].at # "idle" =>
  \A m \in DOMAIN messages, n \in services[s].msgs :
    m < n => m \in services[s].msgs \/ messages[m].delivered

(* ... the owner of a lease has every undelivered message that is still joined
   to its wake, ... *)
OwnersHoldTheMessages == \A s \in Services : services[s].at # "idle" =>
  (Owns(s) => Joined(services[s].wake) \cap Undelivered \subseteq services[s].msgs)

(* ... what is about to be recorded as delivered is in a turn of its target, ... *)
RecordedAfterQueued == \A s \in Services : services[s].at = "record" =>
  \E i \in DOMAIN chats[services[s].target].turns :
    services[s].msgs = chats[services[s].target].turns[i].msgs

(* ... and a force-new delivery reaches its own chat and is never raced. *)
ForceNewAimsAtItsOwnChat == \A s \in Services : services[s].kind = "force-new" =>
  /\ services[s].at # "raced"
  /\ services[s].at = "enqueue" => chats[services[s].target].wake = services[s].wake

(* ... and, where one service delivers, it holds its lease and what it took for
   as long as it works, and without a crash the messages of a turn are recorded
   as delivered, or about to be. *)
HoldsItsLease == \A s \in Services : services[s].at # "idle" =>
  Owns(s) /\ services[s].msgs \subseteq Undelivered

Recorded(m) == \/ messages[m].delivered
               \/ \E s \in Services : services[s].at = "record" /\ m \in services[s].msgs
TurnsAreRecorded == used.crash = 0 =>
  \A c \in DOMAIN chats : \A i \in DOMAIN chats[c].turns :
    \A m \in chats[c].turns[i].msgs : Recorded(m)

DeliveryInvariant ==
  /\ References /\ AttemptLeft /\ OnePendingWake
  /\ LeasesAreWhole /\ DeliveredInOrder
  /\ OwnersHoldTheMessages /\ IntentKept
  /\ RecordedAfterQueued /\ DeliveredWasQueued
  /\ ForceNewAimsAtItsOwnChat /\ ForceNewInOwnChat

(* Every message is delivered, or read, or its recovery wake failed too, unless
   two leases of the shell expired and no claim can commit any more. *)
Settled(m) ==
  m \in DOMAIN messages =>
  \/ messages[m].delivered \/ messages[m].read
  \/ LET wake == wakes[messages[m].wake] IN wake.state = "failed" /\ wake.recovery

EveryMessageSettles == \A m \in 1..MaxMessage :
  m \in DOMAIN messages ~> (Settled(m) \/ Collision)

(* "Every wake message creates durable delivery intent" (docs/README.md:593),
   and delivery is "retryable" (sprint_message_delivery.py:1): whatever crashes
   do to the services, a message is delivered, read, or given up by recovery. *)
DeliveryIsRetried == \A m \in 1..MaxMessage : m \in DOMAIN messages ~> Settled(m)
=============================================================================
