--------------------------------- MODULE Mailbox ---------------------------------
(***************************************************************************)
(* What wake delivery promises the senders and the receiver of messages,   *)
(* without wakes, leases, attempts, services or crashes.  A message is put *)
(* before the receiver in prompts, each with all that is undelivered and   *)
(* was sent before it; a force-new message only in a prompt of a chat of   *)
(* its own.  A delivery is recorded of the messages of one prompt, all of  *)
(* them at once.  The receiver may read a message in its inbox as well,    *)
(* but a force-new one not before it is delivered.                         *)
(***************************************************************************)
EXTENDS Integers, Sequences

CONSTANT Types   \* the types a sender declares; "force-new" is one of them

VARIABLES
  inbox,      \* the messages in the order of sending: their type, read, delivered
  prompted    \* the prompts so far: their messages, and whether in a chat of their own

mailVars == <<inbox, prompted>>

MailInit == inbox = <<>> /\ prompted = {}

Receive(type) ==
  /\ inbox' = Append(inbox, [type |-> type, read |-> FALSE, delivered |-> FALSE])
  /\ UNCHANGED prompted

Read(m) ==
  /\ inbox[m].delivered \/ inbox[m].type # "force-new"
  /\ inbox' = [inbox EXCEPT ![m].read = TRUE]
  /\ UNCHANGED prompted

LeavesNothingBehind(msgs) ==
  \A m \in DOMAIN inbox \ msgs, n \in msgs : m < n => inbox[m].delivered

Prompt(msgs, own) ==
  /\ LeavesNothingBehind(msgs)
  /\ (\E m \in msgs : inbox[m].type = "force-new") => own
  /\ prompted' = prompted \cup {[msgs |-> msgs, own |-> own]}
  /\ UNCHANGED inbox

Deliver(prompt) ==
  /\ inbox' = [m \in DOMAIN inbox |->
       IF m \in prompt.msgs THEN [inbox[m] EXCEPT !.delivered = TRUE] ELSE inbox[m]]
  /\ UNCHANGED prompted

MailNext ==
  \/ \E type \in Types : Receive(type)
  \/ \E m \in DOMAIN inbox : Read(m)
  \/ \E msgs \in SUBSET DOMAIN inbox, own \in BOOLEAN : Prompt(msgs, own)
  \/ \E prompt \in prompted : Deliver(prompt)

MailSpec == MailInit /\ [][MailNext]_mailVars
=============================================================================
