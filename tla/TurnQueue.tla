-------------------------------- MODULE TurnQueue --------------------------------
(***************************************************************************)
(* What one shell promises its user about prompts, without brokers, leases *)
(* or processes.  A prompt waits in its chat, is the shell's turn once,    *)
(* and is done.  A turn is one at a time, takes the prompts of a chat in   *)
(* the order they were sent, and hands its prompt to the harness at most   *)
(* once.  Waiting prompts may be withdrawn; the one whose turn it is may   *)
(* not.  A process that outlives its turn may speak again: its prompt is   *)
(* the turn once more, and nothing is handed over again.                   *)
(***************************************************************************)
EXTENDS Integers

CONSTANTS Chats, NoChat, MaxMessage

Prompts == 1..MaxMessage
Done    == {"completed", "failed", "cancelled"}

VARIABLES
  chat,     \* prompt -> the chat it was sent to
  status,   \* prompt -> none, queued, running or how it ended
  turn,     \* the prompt whose turn it is, or 0
  given     \* prompt -> how often it was handed to the harness

queueVars == <<chat, status, turn, given>>

QueueInit ==
  /\ chat = [m \in Prompts |-> NoChat]
  /\ status = [m \in Prompts |-> "none"]
  /\ turn = 0
  /\ given = [m \in Prompts |-> 0]

Submit(m, c) ==
  /\ status[m] = "none"
  /\ \A n \in 1 .. m-1 : status[n] # "none"
  /\ chat' = [chat EXCEPT ![m] = c]
  /\ status' = [status EXCEPT ![m] = "queued"]
  /\ UNCHANGED <<turn, given>>

Begin(m) ==
  /\ turn = 0
  /\ status[m] = "queued"
  /\ \A n \in 1 .. m-1 : chat[n] = chat[m] => status[n] \in Done
  /\ turn' = m
  /\ status' = [status EXCEPT ![m] = "running"]
  /\ UNCHANGED <<chat, given>>

Give(m) ==
  /\ turn = m /\ status[m] = "running" /\ given[m] = 0
  /\ given' = [given EXCEPT ![m] = 1]
  /\ UNCHANGED <<chat, status, turn>>

End(m) ==
  /\ turn = m
  /\ turn' = 0
  /\ \/ /\ status[m] = "running"
        /\ \E how \in Done : status' = [status EXCEPT ![m] = how]
     \/ status[m] \in Done /\ UNCHANGED status
  /\ UNCHANGED <<chat, given>>

SpeakAgain(m) ==
  /\ turn = 0
  /\ status[m] \in Done /\ given[m] = 1
  /\ turn' = m
  /\ UNCHANGED <<chat, status, given>>

Withdraw(withdrawn) ==
  /\ withdrawn # {}
  /\ \A m \in withdrawn : status[m] = "queued"
  /\ status' = [m \in Prompts |-> IF m \in withdrawn THEN "cancelled" ELSE status[m]]
  /\ UNCHANGED <<chat, turn, given>>

QueueNext ==
  \/ \E m \in Prompts : \/ \E c \in Chats : Submit(m, c)
                        \/ Begin(m) \/ Give(m) \/ End(m) \/ SpeakAgain(m)
  \/ \E withdrawn \in SUBSET Prompts : Withdraw(withdrawn)

QueueSpec == QueueInit /\ [][QueueNext]_queueVars
=============================================================================
