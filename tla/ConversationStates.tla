--------------------------- MODULE ConversationStates ---------------------------
(***************************************************************************)
(* The state vocabulary of browser conversations: which state a            *)
(* conversation, one of its messages, a run and an outbox row may move to. *)
(* The broker asks these tables before a write and the triggers of         *)
(* migration 0132 repeat them.                                             *)
(***************************************************************************)
EXTENDS Integers

ConversationTransitions ==
  [ idle    |-> {"queued", "closed"},
    queued  |-> {"idle", "running"},
    running |-> {"idle", "queued", "waiting", "error"},
    waiting |-> {"queued", "closed"},
    error   |-> {"queued", "closed"},
    closed  |-> {"idle"} ]

MessageTransitions ==
  [ accepted  |-> {"queued", "running", "completed", "failed", "cancelled"},
    queued    |-> {"running", "failed", "cancelled"},
    running   |-> {"completed", "failed", "cancelled"},
    completed |-> {},
    failed    |-> {},
    cancelled |-> {} ]

RunTransitions ==
  [ leased    |-> {"starting", "failed", "cancelled", "unknown"},
    starting  |-> {"running", "failed", "cancelled", "unknown"},
    running   |-> {"succeeded", "failed", "cancelled", "unknown"},
    succeeded |-> {},
    failed    |-> {},
    cancelled |-> {},
    unknown   |-> {} ]

OutboxTransitions ==
  [ pending    |-> {"claimed", "cancelled"},
    claimed    |-> {"pending", "dispatched", "cancelled"},
    dispatched |-> {},
    cancelled  |-> {} ]

(* A state may always be asserted again; any other move is in the table. *)
Allowed(table, current, target) ==
  target = current \/ target \in table[current]

ConversationStates == DOMAIN ConversationTransitions
MessageStates      == DOMAIN MessageTransitions
RunStates          == DOMAIN RunTransitions
OutboxStates       == DOMAIN OutboxTransitions

LiveRunStates         == {"leased", "starting", "running"}
TerminalRunStates     == {"succeeded", "failed", "cancelled", "unknown"}
TerminalMessageStates == {"completed", "failed", "cancelled"}
=============================================================================
