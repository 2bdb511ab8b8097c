--------------------------- MODULE WakeDeliveryProofs ---------------------------
(***************************************************************************)
(* For every number of services, messages, wakes and faults: the types of  *)
(* WakeDelivery are kept, every reference names a row, and a wake that may *)
(* be tried has an attempt left; DeliveryInvariant holds: a shell has one  *)
(* pending wake, no intent is dropped, messages are delivered in order and *)
(* only if a turn carries them, and force-new messages keep a chat of      *)
(* their own; and every step is one of Mailbox, or invisible to it.  What  *)
(* the lemmas of the actions say beside the types is what the later        *)
(* sections need of a step.                                                *)
(***************************************************************************)
EXTENDS WakeProperties, SequenceTheorems, TLAPS

(* A sequence is a function on 1..n, and keeps its type under updates. *)
LEMMA SeqParts ==
  ASSUME NEW S, NEW s \in Seq(S)
  PROVE  /\ Len(s) \in Nat /\ DOMAIN s = 1..Len(s) /\ s \in [1..Len(s) -> S]
         /\ \A i \in DOMAIN s : s[i] \in S
<1>1. Len(s) \in Nat /\ DOMAIN s = 1..Len(s) /\ s \in [1..Len(s) -> S]
  BY LenProperties
<1>2. \A i \in 1..Len(s) : s[i] \in S
  BY ElementOfSeq
<1> QED
  BY <1>1, <1>2

LEMMA SeqMade ==
  ASSUME NEW S, NEW n \in Nat, NEW f \in [1..n -> S]
  PROVE  f \in Seq(S) /\ Len(f) = n /\ DOMAIN f = 1..n
<1>1. f \in Seq(S)
  BY SeqDef
<1>2. DOMAIN f = 1..Len(f) /\ Len(f) \in Nat
  BY <1>1, LenProperties
<1>3. DOMAIN f = 1..n
  OBVIOUS
<1> QED
  BY <1>1, <1>2, <1>3

LEMMA SeqAppended ==
  ASSUME NEW S, NEW s \in Seq(S), NEW e \in S
  PROVE  /\ Append(s, e) \in Seq(S) /\ Len(Append(s, e)) = Len(s) + 1
         /\ DOMAIN Append(s, e) = 1 .. Len(s) + 1
         /\ \A i \in DOMAIN s : i \in DOMAIN Append(s, e) /\ Append(s, e)[i] = s[i]
         /\ Append(s, e)[Len(s) + 1] = e
BY AppendProperties, SeqParts

LEMMA SeqChanged ==
  ASSUME NEW S, NEW s \in Seq(S), NEW i \in DOMAIN s, NEW e \in S
  PROVE  /\ [s EXCEPT ![i] = e] \in Seq(S) /\ Len([s EXCEPT ![i] = e]) = Len(s)
         /\ DOMAIN [s EXCEPT ![i] = e] = DOMAIN s
         /\ \A j \in DOMAIN s : [s EXCEPT ![i] = e][j] = IF j = i THEN e ELSE s[j]
BY ExceptSeq, SeqParts

(* Updates of the fields of a wake keep its type. *)
LEMMA WakeRowTypes ==
  ASSUME NEW k \in Wake
  PROVE  /\ \A x \in WakeStates : [k EXCEPT !.state = x] \in Wake
         /\ \A x \in 0..3 : [k EXCEPT !.attempts = x] \in Wake
         /\ \A x \in Services \cup {NoService} : [k EXCEPT !.owner = x] \in Wake
         /\ \A x \in BOOLEAN : [k EXCEPT !.expired = x] \in Wake
         /\ \A x \in BOOLEAN : [k EXCEPT !.waiting = x] \in Wake
         /\ \A x \in {"no", "seen", "long"} : [k EXCEPT !.quiet = x] \in Wake
<1>1. \A x \in WakeStates : [k EXCEPT !.state = x] \in Wake
  BY DEF Wake
<1>2. \A x \in 0..3 : [k EXCEPT !.attempts = x] \in Wake
  BY DEF Wake
<1>3. \A x \in Services \cup {NoService} : [k EXCEPT !.owner = x] \in Wake
  BY DEF Wake
<1>4. \A x \in BOOLEAN : [k EXCEPT !.expired = x] \in Wake
  BY Zenon DEF Wake
<1>5. \A x \in BOOLEAN : [k EXCEPT !.waiting = x] \in Wake
  BY Zenon DEF Wake
<1>6. \A x \in {"no", "seen", "long"} : [k EXCEPT !.quiet = x] \in Wake
  BY DEF Wake
<1> QED
  BY <1>1, <1>2, <1>3, <1>4, <1>5, <1>6

LEMMA WakeRows ==
  ASSUME NEW k \in Wake, NEW s \in Services
  PROVE  /\ Cancelled(k) \in Wake
         /\ [k EXCEPT !.state = "pending", !.owner = NoService,
                      !.expired = FALSE, !.waiting = FALSE] \in Wake
         /\ [k EXCEPT !.state = "delivering", !.owner = s,
                      !.expired = FALSE, !.waiting = FALSE] \in Wake
         /\ [k EXCEPT !.state = "pending", !.owner = NoService,
                      !.expired = FALSE, !.quiet = "no"] \in Wake
         /\ \A r \in BOOLEAN : NewWake(r) \in Wake
         /\ k.attempts < MaxAttempts => 
              /\ k.attempts + 1 \in 0..3
              /\ [Attempted(k, "delivered") EXCEPT !.quiet = "no"] \in Wake
              /\ [Attempted(k, "pending") EXCEPT !.waiting = TRUE] \in Wake
              /\ [Attempted(k, "failed") EXCEPT !.quiet = "no"] \in Wake
<1>1. \A r \in BOOLEAN : NewWake(r) \in Wake
  <2> TAKE r \in BOOLEAN
  <2>1. "pending" \in WakeStates /\ 0 \in 0..3 /\ "no" \in {"no", "seen", "long"}
    BY DEF WakeStates
  <2> QED
    BY <2>1, Zenon DEF NewWake, Wake
<1>2. Cancelled(k) \in Wake
  BY WakeRowTypes DEF Cancelled, WakeStates
<1>3. [k EXCEPT !.state = "pending", !.owner = NoService,
                !.expired = FALSE, !.waiting = FALSE] \in Wake
  BY WakeRowTypes DEF WakeStates
<1>4. [k EXCEPT !.state = "delivering", !.owner = s,
                !.expired = FALSE, !.waiting = FALSE] \in Wake
  BY WakeRowTypes DEF WakeStates
<1>5. [k EXCEPT !.state = "pending", !.owner = NoService,
                !.expired = FALSE, !.quiet = "no"] \in Wake
  BY WakeRowTypes DEF WakeStates
<1>6. ASSUME k.attempts < MaxAttempts
      PROVE  k.attempts + 1 \in 0..3
  BY <1>6 DEF Wake, MaxAttempts
<1>7. ASSUME k.attempts < MaxAttempts
      PROVE  /\ [Attempted(k, "delivered") EXCEPT !.quiet = "no"] \in Wake
             /\ [Attempted(k, "pending") EXCEPT !.waiting = TRUE] \in Wake
             /\ [Attempted(k, "failed") EXCEPT !.quiet = "no"] \in Wake
  <2>1. k.attempts + 1 \in 0..3
    BY <1>6, <1>7
  <2>2. [Attempted(k, "delivered") EXCEPT !.quiet = "no"] \in Wake
    BY <2>1, WakeRowTypes DEF Attempted, WakeStates
  <2>3. [Attempted(k, "pending") EXCEPT !.waiting = TRUE] \in Wake
    BY <2>1, WakeRowTypes DEF Attempted, WakeStates
  <2>4. [Attempted(k, "failed") EXCEPT !.quiet = "no"] \in Wake
    BY <2>1, WakeRowTypes DEF Attempted, WakeStates
  <2> QED
    BY <2>2, <2>3, <2>4
<1> QED
  BY <1>1, <1>2, <1>3, <1>4, <1>5, <1>6, <1>7

LEMMA MessageRows ==
  ASSUME NEW k \in Message
  PROVE  /\ [k EXCEPT !.read = TRUE] \in Message
         /\ [k EXCEPT !.read = TRUE].type = k.type
         /\ [k EXCEPT !.read = TRUE].wake = k.wake
         /\ [k EXCEPT !.read = TRUE].delivered = k.delivered
         /\ [k EXCEPT !.delivered = TRUE] \in Message
         /\ [k EXCEPT !.delivered = TRUE].type = k.type
         /\ [k EXCEPT !.delivered = TRUE].wake = k.wake
         /\ [k EXCEPT !.delivered = TRUE].read = k.read
         /\ [k EXCEPT !.delivered = TRUE].delivered
         /\ \A w \in 1..MaxWake :
              /\ [k EXCEPT !.wake = w] \in Message
              /\ [k EXCEPT !.wake = w].type = k.type
              /\ [k EXCEPT !.wake = w].wake = w
              /\ [k EXCEPT !.wake = w].delivered = k.delivered
              /\ [k EXCEPT !.wake = w].read = k.read
<1>1. [k EXCEPT !.read = TRUE] \in Message /\ [k EXCEPT !.delivered = TRUE] \in Message
  BY Zenon DEF Message
<1>2. \A w \in 1..MaxWake : [k EXCEPT !.wake = w] \in Message
  BY Zenon DEF Message
<1>3. /\ [k EXCEPT !.read = TRUE].type = k.type
      /\ [k EXCEPT !.read = TRUE].wake = k.wake
      /\ [k EXCEPT !.read = TRUE].delivered = k.delivered
      /\ [k EXCEPT !.delivered = TRUE].type = k.type
      /\ [k EXCEPT !.delivered = TRUE].wake = k.wake
      /\ [k EXCEPT !.delivered = TRUE].read = k.read
      /\ [k EXCEPT !.delivered = TRUE].delivered
  BY Zenon DEF Message
<1>4. \A w \in 1..MaxWake :
              /\ [k EXCEPT !.wake = w].type = k.type
              /\ [k EXCEPT !.wake = w].wake = w
              /\ [k EXCEPT !.wake = w].delivered = k.delivered
              /\ [k EXCEPT !.wake = w].read = k.read
  BY Zenon DEF Message
<1> QED
  BY <1>1, <1>2, <1>3, <1>4

(* A message that is joined to another wake keeps the rest. *)
LEMMA Rejoined ==
  ASSUME NEW k \in Message, NEW w \in 1..MaxWake, NEW l, l = k \/ l = [k EXCEPT !.wake = w]
  PROVE  /\ l \in Message /\ l.type = k.type /\ l.delivered = k.delivered /\ l.read = k.read
         /\ l.wake \in {k.wake, w}
BY Zenon DEF Message

LEMMA ServiceRows ==
  ASSUME NEW k \in Service
  PROVE  /\ \A x \in Steps : [k EXCEPT !.at = x] \in Service
         /\ \A x \in Nat : [k EXCEPT !.looked = x] \in Service
         /\ \A x \in Nat : [k EXCEPT !.target = x] \in Service
         /\ Idle \in Service
BY DEF Service, Idle, Steps, Declared

LEMMA TurnRows ==
  ASSUME NEW k \in Turn, NEW x \in {"queued", "running", "done", "cancelled"}
  PROVE  /\ [k EXCEPT !.state = x] \in Turn
         /\ [k EXCEPT !.state = x].wake = k.wake
         /\ [k EXCEPT !.state = x].msgs = k.msgs
         /\ UserTurn \in Turn
BY DEF Turn, UserTurn

LEMMA ChatRows ==
  ASSUME NEW k \in Chat
  PROVE  /\ k.turns \in Seq(Turn) /\ k.wake \in Nat
         /\ \A x \in Seq(Turn) :
              /\ [k EXCEPT !.turns = x] \in Chat
              /\ [k EXCEPT !.turns = x].turns = x
              /\ [k EXCEPT !.turns = x].wake = k.wake
         /\ [k EXCEPT !.open = FALSE] \in Chat /\ [k EXCEPT !.open = TRUE] \in Chat
         /\ [k EXCEPT !.open = FALSE].wake = k.wake /\ [k EXCEPT !.open = TRUE].wake = k.wake
         /\ [k EXCEPT !.open = FALSE].turns = k.turns
         /\ [k EXCEPT !.open = TRUE].turns = k.turns
BY Zenon DEF Chat

LEMMA TurnsReplaced ==
  ASSUME NEW k \in Chat, NEW x \in Seq(Turn), NEW l, l = [k EXCEPT !.turns = x]
  PROVE  l \in Chat /\ l.turns = x /\ l.wake = k.wake
BY Zenon DEF Chat

-----------------------------------------------------------------------------
(* Types.  What a message name, a lease and a turn are worth stays the same:
   rows are never removed, and their identifying fields never change. *)
TypeInv == TypeOK /\ References /\ AttemptLeft

MessagesGrow ==
  /\ Len(messages) <= Len(messages')
  /\ \A m \in DOMAIN messages :
       /\ messages'[m].type = messages[m].type
       /\ messages[m].delivered => messages'[m].delivered

WakesGrow == Len(wakes) <= Len(wakes')

ChatsGrow ==
  /\ Len(chats) <= Len(chats')
  /\ \A c \in DOMAIN chats :
       /\ chats'[c].wake = chats[c].wake
       /\ DOMAIN chats[c].turns \subseteq DOMAIN chats'[c].turns
       /\ \A i \in DOMAIN chats[c].turns :
            /\ chats'[c].turns[i].wake = chats[c].turns[i].wake
            /\ chats'[c].turns[i].msgs = chats[c].turns[i].msgs

NoNewPrompt == \A c \in DOMAIN chats' : \A i \in DOMAIN chats'[c].turns :
  \/ c \in DOMAIN chats /\ i \in DOMAIN chats[c].turns
  \/ chats'[c].turns[i].msgs = {}

LEMMA TypeFacts ==
  ASSUME TypeOK
  PROVE  /\ Len(messages) \in Nat /\ DOMAIN messages = 1..Len(messages)
         /\ \A m \in DOMAIN messages : messages[m] \in Message
         /\ DOMAIN messages \subseteq 1..MaxMessage
         /\ Len(wakes) \in Nat /\ DOMAIN wakes = 1..Len(wakes)
         /\ \A w \in DOMAIN wakes : wakes[w] \in Wake
         /\ DOMAIN wakes \subseteq 1..MaxWake
         /\ Len(chats) \in Nat /\ DOMAIN chats = 1..Len(chats)
         /\ \A c \in DOMAIN chats : chats[c] \in Chat /\ chats[c].turns \in Seq(Turn)
<1>1. /\ Len(messages) \in Nat /\ DOMAIN messages = 1..Len(messages)
      /\ \A m \in DOMAIN messages : messages[m] \in Message
      /\ Len(wakes) \in Nat /\ DOMAIN wakes = 1..Len(wakes)
      /\ \A w \in DOMAIN wakes : wakes[w] \in Wake
      /\ Len(chats) \in Nat /\ DOMAIN chats = 1..Len(chats)
      /\ \A c \in DOMAIN chats : chats[c] \in Chat
  BY SeqParts DEF TypeOK
<1>2. /\ Len(messages) <= MaxMessage /\ Len(wakes) <= MaxWake
      /\ MaxMessage \in Nat /\ MaxWake \in Nat
  BY BoundAssumption DEF TypeOK
<1>3. DOMAIN messages \subseteq 1..MaxMessage /\ DOMAIN wakes \subseteq 1..MaxWake
  BY <1>1, <1>2
<1>4. \A c \in DOMAIN chats : chats[c].turns \in Seq(Turn)
  BY <1>1, ChatRows
<1> QED
  BY <1>1, <1>3, <1>4

LEMMA TypeFactsNext ==
  ASSUME TypeOK'
  PROVE  /\ Len(messages') \in Nat /\ DOMAIN messages' = 1..Len(messages')
         /\ \A m \in DOMAIN messages' : messages'[m] \in Message
         /\ DOMAIN messages' \subseteq 1..MaxMessage
         /\ Len(wakes') \in Nat /\ DOMAIN wakes' = 1..Len(wakes')
         /\ \A w \in DOMAIN wakes' : wakes'[w] \in Wake
         /\ DOMAIN wakes' \subseteq 1..MaxWake
         /\ Len(chats') \in Nat /\ DOMAIN chats' = 1..Len(chats')
         /\ \A c \in DOMAIN chats' : chats'[c] \in Chat /\ chats'[c].turns \in Seq(Turn)
<1>1. /\ Len(messages') \in Nat /\ DOMAIN messages' = 1..Len(messages')
      /\ \A m \in DOMAIN messages' : messages'[m] \in Message
      /\ Len(wakes') \in Nat /\ DOMAIN wakes' = 1..Len(wakes')
      /\ \A w \in DOMAIN wakes' : wakes'[w] \in Wake
      /\ Len(chats') \in Nat /\ DOMAIN chats' = 1..Len(chats')
      /\ \A c \in DOMAIN chats' : chats'[c] \in Chat
  BY SeqParts DEF TypeOK
<1>2. /\ Len(messages') <= MaxMessage /\ Len(wakes') <= MaxWake
      /\ MaxMessage \in Nat /\ MaxWake \in Nat
  BY BoundAssumption DEF TypeOK
<1>3. DOMAIN messages' \subseteq 1..MaxMessage /\ DOMAIN wakes' \subseteq 1..MaxWake
  BY <1>1, <1>2
<1>4. \A c \in DOMAIN chats' : chats'[c].turns \in Seq(Turn)
  BY <1>1, ChatRows
<1> QED
  BY <1>1, <1>3, <1>4

LEMMA Stays ==
  ASSUME TypeOK
  PROVE  /\ UNCHANGED messages => MessagesGrow
         /\ UNCHANGED wakes => WakesGrow
         /\ UNCHANGED chats => ChatsGrow /\ NoNewPrompt
BY TypeFacts DEF MessagesGrow, WakesGrow, ChatsGrow, NoNewPrompt

LEMMA LeaseKept ==
  ASSUME TypeInv, TypeOK', MessagesGrow, WakesGrow, ChatsGrow,
         NEW s \in Services, NamesItsRows(s),
         services'[s].wake = services[s].wake, services'[s].msgs = services[s].msgs,
         services'[s].kind = services[s].kind,
         services'[s].target \in 0..Len(chats'),
         services'[s].at \in {"enqueue", "record"} => services'[s].target # 0
  PROVE  NamesItsRows(s)'
<1>1. services[s].wake \in DOMAIN wakes'
  BY TypeFacts, TypeFactsNext DEF NamesItsRows, WakesGrow, TypeInv
<1>2. DOMAIN messages \subseteq DOMAIN messages'
  BY TypeFacts, TypeFactsNext DEF MessagesGrow, TypeInv
<1>3. {messages'[m].type : m \in services[s].msgs} = {messages[m].type : m \in services[s].msgs}
  BY DEF NamesItsRows, MessagesGrow
<1> QED
  BY <1>1, <1>2, <1>3 DEF NamesItsRows

LEMMA ReferencesKept ==
  ASSUME TypeInv, TypeOK', MessagesGrow, WakesGrow, ChatsGrow,
         \A m \in DOMAIN messages' : messages'[m].wake \in DOMAIN wakes',
         \A s \in Services : services'[s].at # "idle" =>
           services'[s] = services[s] \/ NamesItsRows(s)',
         \A c \in DOMAIN chats' : \A i \in DOMAIN chats'[c].turns :
           \/ c \in DOMAIN chats /\ i \in DOMAIN chats[c].turns
           \/ chats'[c].turns[i].msgs \subseteq DOMAIN messages',
         live' => active' # 0
  PROVE  References'
<1>1. ASSUME NEW s \in Services, services'[s].at # "idle"
      PROVE  NamesItsRows(s)'
  <2>1. CASE services'[s] = services[s]
    <3>1. NamesItsRows(s)
      BY <1>1, <2>1 DEF TypeInv, References
    <3>2. /\ services'[s].target \in 0..Len(chats')
          /\ services'[s].at \in {"enqueue", "record"} => services'[s].target # 0
      BY <2>1, <3>1, TypeFacts, TypeFactsNext DEF NamesItsRows, ChatsGrow, TypeInv
    <3> QED
      BY <2>1, <3>1, <3>2, LeaseKept
  <2> QED
    BY <1>1, <2>1
<1>2. ASSUME NEW c \in DOMAIN chats', NEW i \in DOMAIN chats'[c].turns
      PROVE  chats'[c].turns[i].msgs \subseteq DOMAIN messages'
  <2>1. DOMAIN messages \subseteq DOMAIN messages'
    BY TypeFacts, TypeFactsNext DEF MessagesGrow, TypeInv
  <2>2. CASE c \in DOMAIN chats /\ i \in DOMAIN chats[c].turns
    <3>1. chats[c].turns[i].msgs \subseteq DOMAIN messages
      BY <2>2 DEF TypeInv, References
    <3>2. chats'[c].turns[i].msgs = chats[c].turns[i].msgs
      BY <2>2 DEF ChatsGrow
    <3> QED
      BY <2>1, <3>1, <3>2
  <2> QED
    BY <1>2, <2>2
<1> QED
  BY <1>1, <1>2 DEF References

(* The steps of a service.  Its lease stays, and only its place and its chats
   move, or it ends; other services do not move. *)
OthersStay(s) == \A t \in Services \ {s} : services'[t] = services[t]

Moved(s) ==
  /\ services' \in [Services -> Service] /\ OthersStay(s)
  /\ services'[s].wake = services[s].wake /\ services'[s].msgs = services[s].msgs
  /\ services'[s].kind = services[s].kind
  /\ services'[s].target \in 0..Len(chats')
  /\ services'[s].at \in {"enqueue", "record"} => services'[s].target # 0

Finished(s) ==
  services' \in [Services -> Service] /\ OthersStay(s) /\ services'[s] = Idle

LEMMA ServiceSet ==
  ASSUME TypeOK, NEW s \in Services, NEW k \in Service, services' = [services EXCEPT ![s] = k]
  PROVE  services' \in [Services -> Service] /\ OthersStay(s) /\ services'[s] = k
BY DEF TypeOK, OthersStay

LEMMA FinishFinishes ==
  ASSUME TypeOK, NEW s \in Services, Finish(s)
  PROVE  Finished(s)
<1>1. Idle \in Service
  BY DEF Idle, Service, Steps, Declared
<1> QED
  BY <1>1, ServiceSet DEF Finish, Finished

LEMMA GotoMoves ==
  ASSUME TypeInv, ChatsGrow, Len(chats') \in Nat, NEW s \in Services, services[s].at # "idle",
         NEW x \in Steps, x # "enqueue", x = "record" => services[s].at = "enqueue",
         Goto(s, x)
  PROVE  Moved(s) /\ services'[s].at = x /\ services'[s].target = services[s].target
<1>1. services[s] \in Service /\ services' = [services EXCEPT ![s] = [services[s] EXCEPT !.at = x]]
  BY DEF TypeInv, TypeOK, Goto
<1>2. [services[s] EXCEPT !.at = x] \in Service
  BY <1>1, ServiceRows
<1>3. /\ services' \in [Services -> Service] /\ OthersStay(s)
      /\ services'[s] = [services[s] EXCEPT !.at = x]
  BY <1>1, <1>2, ServiceSet DEF TypeInv
<1>4. /\ services'[s].wake = services[s].wake /\ services'[s].msgs = services[s].msgs
      /\ services'[s].kind = services[s].kind /\ services'[s].target = services[s].target
      /\ services'[s].at = x
  BY <1>1, <1>3 DEF Service
<1>5. /\ services[s].target \in 0..Len(chats)
      /\ services[s].at = "enqueue" => services[s].target # 0
  BY DEF TypeInv, References, NamesItsRows
<1>6. services'[s].target \in 0..Len(chats')
  BY <1>4, <1>5, TypeFacts DEF TypeInv, ChatsGrow
<1> QED
  BY <1>3, <1>4, <1>5, <1>6 DEF Moved

LEMMA EnqueueInMoves ==
  ASSUME TypeInv, NEW s \in Services, NEW c \in 1..Len(chats'), Len(chats') \in Nat,
         EnqueueIn(s, c)
  PROVE  Moved(s) /\ services'[s].at = "enqueue" /\ services'[s].target = c
<1>1. /\ services[s] \in Service
      /\ services' = [services EXCEPT ![s] =
           [[services[s] EXCEPT !.at = "enqueue"] EXCEPT !.target = c]]
  BY DEF TypeInv, TypeOK, EnqueueIn
<1>2. [[services[s] EXCEPT !.at = "enqueue"] EXCEPT !.target = c] \in Service
  <2>1. c \in Nat /\ "enqueue" \in Steps
    BY DEF Steps
  <2>2. [services[s] EXCEPT !.at = "enqueue"] \in Service
    BY <1>1, <2>1, ServiceRows
  <2> QED
    BY <2>1, <2>2, ServiceRows
<1>3. /\ services' \in [Services -> Service] /\ OthersStay(s)
      /\ services'[s] = [[services[s] EXCEPT !.at = "enqueue"] EXCEPT !.target = c]
  BY <1>1, <1>2, ServiceSet DEF TypeInv
<1>4. /\ services'[s].wake = services[s].wake /\ services'[s].msgs = services[s].msgs
      /\ services'[s].kind = services[s].kind /\ services'[s].target = c
      /\ services'[s].at = "enqueue"
  BY <1>1, <1>3 DEF Service
<1> QED
  BY <1>3, <1>4 DEF Moved

LEMMA RotateMoves ==
  ASSUME TypeInv, UNCHANGED chats, NEW s \in Services, services[s].at # "idle",
         NEW x \in Steps, x \notin {"enqueue", "record"},
         services' = [services EXCEPT ![s].at = x, ![s].looked = active]
  PROVE  Moved(s) /\ services'[s].at = x
<1>0. active \in Nat /\ Len(chats) \in Nat
  BY TypeFacts DEF TypeInv, TypeOK
<1>1. /\ services[s] \in Service
      /\ services' = [services EXCEPT ![s] =
           [[services[s] EXCEPT !.at = x] EXCEPT !.looked = active]]
  BY DEF TypeInv, TypeOK
<1>2. [[services[s] EXCEPT !.at = x] EXCEPT !.looked = active] \in Service
  BY <1>0, <1>1, ServiceRows
<1>3. /\ services' \in [Services -> Service] /\ OthersStay(s)
      /\ services'[s] = [[services[s] EXCEPT !.at = x] EXCEPT !.looked = active]
  BY <1>1, <1>2, ServiceSet DEF TypeInv
<1>4. /\ services'[s].wake = services[s].wake /\ services'[s].msgs = services[s].msgs
      /\ services'[s].kind = services[s].kind /\ services'[s].target = services[s].target
      /\ services'[s].at = x
  BY <1>1, <1>3 DEF Service
<1>5. services[s].target \in 0..Len(chats')
  BY DEF TypeInv, References, NamesItsRows
<1> QED
  BY <1>3, <1>4, <1>5 DEF Moved

LEMMA MovedReferences ==
  ASSUME TypeInv, TypeOK', MessagesGrow, WakesGrow, ChatsGrow, NEW s \in Services,
         (Moved(s) /\ services[s].at # "idle") \/ Finished(s),
         \A m \in DOMAIN messages' : messages'[m].wake \in DOMAIN wakes',
         \A c \in DOMAIN chats' : \A i \in DOMAIN chats'[c].turns :
           \/ c \in DOMAIN chats /\ i \in DOMAIN chats[c].turns
           \/ chats'[c].turns[i].msgs \subseteq DOMAIN messages',
         live' => active' # 0
  PROVE  References'
<1>1. ASSUME NEW t \in Services, services'[t].at # "idle"
      PROVE  services'[t] = services[t] \/ NamesItsRows(t)'
  <2>1. CASE t = s /\ Moved(s) /\ services[s].at # "idle"
    <3>1. NamesItsRows(s)
      BY <2>1 DEF TypeInv, References
    <3> QED
      BY <2>1, <3>1, LeaseKept DEF Moved
  <2>2. CASE t = s /\ Finished(s)
    BY <1>1, <2>2 DEF Finished, Idle
  <2>3. CASE t # s
    BY <2>3 DEF Moved, Finished, OthersStay
  <2> QED
    BY <2>1, <2>2, <2>3
<1> QED
  BY <1>1, ReferencesKept

Used == [crash : 0..MaxCrash, fault : 0..MaxFault, read : 0..MaxRead,
         stall : 0..MaxStall, acts : 0..MaxActs]

LEMMA UsedRows ==
  ASSUME used \in Used
  PROVE  /\ used.crash < MaxCrash => [used EXCEPT !.crash = @ + 1] \in Used
         /\ used.fault < MaxFault => [used EXCEPT !.fault = @ + 1] \in Used
         /\ used.read < MaxRead => [used EXCEPT !.read = @ + 1] \in Used
         /\ used.stall < MaxStall => [used EXCEPT !.stall = @ + 1] \in Used
         /\ used.acts < MaxActs => [used EXCEPT !.acts = @ + 1] \in Used
BY BoundAssumption DEF Used

LEMMA AllGrow ==
  ASSUME TypeInv, UNCHANGED <<messages, wakes, chats>>
  PROVE  MessagesGrow /\ WakesGrow /\ ChatsGrow /\ NoNewPrompt
BY Stays DEF TypeInv

(* A step that only moves a service keeps the types. *)
LEMMA MoveKeepsTypes ==
  ASSUME TypeInv, NEW s \in Services, UNCHANGED <<messages, wakes, chats, active, live>>,
         used' \in Used, (Moved(s) /\ services[s].at # "idle") \/ Finished(s)
  PROVE  TypeInv'
<1>1. MessagesGrow /\ WakesGrow /\ ChatsGrow
  BY AllGrow
<1>2. TypeOK'
  BY DEF TypeInv, TypeOK, Moved, Finished, Used
<1>3. AttemptLeft'
  BY DEF TypeInv, AttemptLeft
<1>4. /\ \A m \in DOMAIN messages' : messages'[m].wake \in DOMAIN wakes'
      /\ live' => active' # 0
      /\ \A c \in DOMAIN chats' : \A i \in DOMAIN chats'[c].turns :
           c \in DOMAIN chats /\ i \in DOMAIN chats[c].turns
  BY DEF TypeInv, References
<1>5. References'
  BY <1>1, <1>2, <1>4, MovedReferences
<1> QED
  BY <1>2, <1>3, <1>5 DEF TypeInv

LEMMA LookMoves ==
  ASSUME TypeInv, NEW s \in Services, Look(s)
  PROVE  /\ Moved(s) /\ services[s].at # "idle" /\ used' \in Used
         /\ UNCHANGED <<messages, wakes, chats, active, live>>
<1>1. /\ UNCHANGED <<messages, wakes, chats, active, live>> /\ used' \in Used
      /\ services[s].at # "idle" /\ services[s].at # "enqueue"
  BY DEF Look, TypeInv, TypeOK, Used
<1>2. ChatsGrow /\ Len(chats') \in Nat /\ active \in 0..Len(chats') /\ active \in Nat
  BY <1>1, AllGrow, TypeFacts DEF TypeInv, TypeOK
<1>3. CASE EnqueueIn(s, active) /\ active # 0
  <2>1. active \in 1..Len(chats')
    BY <1>2, <1>3
  <2> QED
    BY <1>1, <1>2, <1>3, <2>1, EnqueueInMoves
<1>4. CASE Goto(s, "defer")
  <2>1. Moved(s)
    BY <1>1, <1>2, <1>4, GotoMoves DEF Steps
  <2> QED
    BY <1>1, <2>1
<1>5. CASE \E x \in {"relook", "close", "create"} :
             services' = [services EXCEPT ![s].at = x, ![s].looked = active]
  <2>1. PICK x \in {"relook", "close", "create"} :
          services' = [services EXCEPT ![s].at = x, ![s].looked = active]
    BY <1>5
  <2>2. Moved(s)
    BY <1>1, <2>1, RotateMoves DEF Steps
  <2> QED
    BY <1>1, <2>2
<1>6. \/ EnqueueIn(s, active) /\ active # 0
      \/ Goto(s, "defer")
      \/ \E x \in {"relook", "close", "create"} :
             services' = [services EXCEPT ![s].at = x, ![s].looked = active]
  BY DEF Look, BelongsToWake, Rotate, TypeInv, References
<1> QED
  BY <1>3, <1>4, <1>5, <1>6

LEMMA RelookMoves ==
  ASSUME TypeInv, NEW s \in Services, Relook(s)
  PROVE  /\ Moved(s) /\ services[s].at # "idle" /\ used' \in Used
         /\ UNCHANGED <<messages, wakes, chats, active, live>>
<1>1. /\ UNCHANGED <<messages, wakes, chats, active, live>> /\ used' \in Used
      /\ services[s].at # "idle" /\ services[s].at # "enqueue"
  BY DEF Relook, TypeInv, TypeOK, Used
<1>2. ChatsGrow /\ Len(chats') \in Nat /\ active \in 0..Len(chats') /\ active \in Nat
  BY <1>1, AllGrow, TypeFacts DEF TypeInv, TypeOK
<1>3. CASE EnqueueIn(s, active) /\ active # 0
  <2>1. active \in 1..Len(chats')
    BY <1>2, <1>3
  <2> QED
    BY <1>1, <1>2, <1>3, <2>1, EnqueueInMoves
<1>4. CASE Goto(s, "defer")
  <2>1. Moved(s)
    BY <1>1, <1>2, <1>4, GotoMoves DEF Steps
  <2> QED
    BY <1>1, <2>1
<1>5. CASE \E x \in {"close", "create"} :
             services' = [services EXCEPT ![s].at = x, ![s].looked = active]
  <2>1. PICK x \in {"close", "create"} :
          services' = [services EXCEPT ![s].at = x, ![s].looked = active]
    BY <1>5
  <2>2. Moved(s)
    BY <1>1, <2>1, RotateMoves DEF Steps
  <2> QED
    BY <1>1, <2>2
<1>6. \/ EnqueueIn(s, active) /\ active # 0
      \/ Goto(s, "defer")
      \/ \E x \in {"close", "create"} :
             services' = [services EXCEPT ![s].at = x, ![s].looked = active]
  BY DEF Relook, BelongsToWake, Rotate
<1> QED
  BY <1>3, <1>4, <1>5, <1>6

LEMMA RacedMoves ==
  ASSUME TypeInv, NEW s \in Services, Raced(s)
  PROVE  /\ Moved(s) /\ services[s].at # "idle" /\ used' \in Used
         /\ UNCHANGED <<messages, wakes, chats, active, live>>
<1>1. /\ UNCHANGED <<messages, wakes, chats, active, live>> /\ used' \in Used
      /\ services[s].at # "idle" /\ services[s].at # "enqueue"
  BY DEF Raced, TypeInv, TypeOK, Used
<1>2. ChatsGrow /\ Len(chats') \in Nat /\ active \in 0..Len(chats') /\ active \in Nat
  BY <1>1, AllGrow, TypeFacts DEF TypeInv, TypeOK
<1>3. CASE active # 0
  <2>1. active \in 1..Len(chats') /\ EnqueueIn(s, active)
    BY <1>2, <1>3 DEF Raced
  <2> QED
    BY <1>1, <1>2, <1>3, <2>1, EnqueueInMoves
<1>4. CASE active = 0
  <2>1. Moved(s)
    BY <1>1, <1>2, <1>4, GotoMoves DEF Steps, Raced
  <2> QED
    BY <1>1, <2>1
<1> QED
  BY <1>3, <1>4

LEMMA FaultMoves ==
  ASSUME TypeInv, NEW s \in Services, Fault(s)
  PROVE  /\ Moved(s) /\ services[s].at # "idle" /\ used' \in Used
         /\ UNCHANGED <<messages, wakes, chats, active, live>>
<1>1. /\ UNCHANGED <<messages, wakes, chats, active, live>>
      /\ services[s].at # "idle" /\ Goto(s, "fail")
  BY DEF Fault
<1>2. used' \in Used
  BY UsedRows DEF Fault, TypeInv, TypeOK, Used
<1>3. ChatsGrow /\ Len(chats') \in Nat
  BY <1>1, AllGrow, TypeFacts DEF TypeInv
<1>4. Moved(s)
  BY <1>1, <1>3, GotoMoves DEF Steps
<1> QED
  BY <1>1, <1>2, <1>4

LEMMA CrashFinishes ==
  ASSUME TypeInv, NEW s \in Services, Crash(s)
  PROVE  /\ Finished(s) /\ used' \in Used
         /\ UNCHANGED <<messages, wakes, chats, active, live>>
<1>1. used' \in Used
  BY UsedRows DEF Crash, TypeInv, TypeOK, Used
<1> QED
  BY <1>1, FinishFinishes DEF Crash, TypeInv

-----------------------------------------------------------------------------
(* The chats.  A chat keeps its wake and a turn its wake and messages. *)
KeepsTurns(k, l) ==
  /\ l.wake = k.wake /\ DOMAIN k.turns \subseteq DOMAIN l.turns
  /\ \A i \in DOMAIN k.turns : /\ l.turns[i].wake = k.turns[i].wake
                               /\ l.turns[i].msgs = k.turns[i].msgs

LEMMA ChatChanged ==
  ASSUME TypeInv, NEW c \in DOMAIN chats, NEW k \in Chat, KeepsTurns(chats[c], k),
         chats' = [chats EXCEPT ![c] = k]
  PROVE  /\ chats' \in Seq(Chat) /\ ChatsGrow /\ Len(chats') = Len(chats)
         /\ DOMAIN chats' = DOMAIN chats /\ chats'[c] = k
         /\ \A d \in DOMAIN chats : d # c => chats'[d] = chats[d]
         /\ (\A i \in DOMAIN k.turns : i \in DOMAIN chats[c].turns \/ k.turns[i].msgs = {})
              => NoNewPrompt
<1>1. /\ chats' \in Seq(Chat) /\ Len(chats') = Len(chats) /\ DOMAIN chats' = DOMAIN chats
      /\ \A d \in DOMAIN chats : chats'[d] = IF d = c THEN k ELSE chats[d]
  BY SeqChanged DEF TypeInv, TypeOK
<1>2. ChatsGrow
  BY <1>1, TypeFacts DEF ChatsGrow, KeepsTurns, TypeInv
<1>3. (\A i \in DOMAIN k.turns : i \in DOMAIN chats[c].turns \/ k.turns[i].msgs = {})
        => NoNewPrompt
  BY <1>1 DEF NoNewPrompt
<1> QED
  BY <1>1, <1>2, <1>3

LEMMA ChatAdded ==
  ASSUME TypeInv, NEW k \in Chat, chats' = Append(chats, k)
  PROVE  /\ chats' \in Seq(Chat) /\ ChatsGrow /\ Len(chats') = Len(chats) + 1
         /\ chats'[Len(chats) + 1] = k /\ DOMAIN chats' = 1 .. Len(chats) + 1
         /\ \A c \in DOMAIN chats : chats'[c] = chats[c]
         /\ (\A i \in DOMAIN k.turns : k.turns[i].msgs = {}) => NoNewPrompt
<1>1. /\ chats' \in Seq(Chat) /\ Len(chats') = Len(chats) + 1
      /\ DOMAIN chats' = 1 .. Len(chats) + 1
      /\ \A c \in DOMAIN chats : c \in DOMAIN chats' /\ chats'[c] = chats[c]
      /\ chats'[Len(chats) + 1] = k
  BY SeqAppended DEF TypeInv, TypeOK
<1>2. Len(chats) \in Nat /\ DOMAIN chats = 1..Len(chats)
  BY TypeFacts DEF TypeInv
<1>3. ChatsGrow
  BY <1>1, <1>2 DEF ChatsGrow
<1>4. (\A i \in DOMAIN k.turns : k.turns[i].msgs = {}) => NoNewPrompt
  BY <1>1, <1>2 DEF NoNewPrompt
<1> QED
  BY <1>1, <1>3, <1>4

(* A chat whose turns only change their state. *)
LEMMA TurnsRestated ==
  ASSUME NEW k \in Chat, NEW f, DOMAIN f = DOMAIN k.turns,
         \A i \in DOMAIN k.turns : \/ f[i] = k.turns[i]
           \/ \E x \in {"queued", "running", "done", "cancelled"} :
                f[i] = [k.turns[i] EXCEPT !.state = x],
         f = [i \in DOMAIN f |-> f[i]]
  PROVE  /\ f \in Seq(Turn) /\ [k EXCEPT !.turns = f] \in Chat
         /\ KeepsTurns(k, [k EXCEPT !.turns = f])
         /\ [k EXCEPT !.turns = f].turns = f
<1>1. /\ k.turns \in Seq(Turn) /\ Len(k.turns) \in Nat /\ DOMAIN k.turns = 1..Len(k.turns)
      /\ \A i \in DOMAIN k.turns : k.turns[i] \in Turn
  BY ChatRows, SeqParts
<1>2. \A i \in DOMAIN k.turns : /\ f[i] \in Turn /\ f[i].wake = k.turns[i].wake
                                /\ f[i].msgs = k.turns[i].msgs
  <2> TAKE i \in DOMAIN k.turns
  <2>1. CASE f[i] = k.turns[i]
    BY <1>1, <2>1
  <2>2. CASE \E x \in {"queued", "running", "done", "cancelled"} :
               f[i] = [k.turns[i] EXCEPT !.state = x]
    <3>1. PICK x \in {"queued", "running", "done", "cancelled"} :
            f[i] = [k.turns[i] EXCEPT !.state = x]
      BY <2>2
    <3>2. k.turns[i] \in Turn
      BY <1>1
    <3>3. /\ [k.turns[i] EXCEPT !.state = x] \in Turn
          /\ [k.turns[i] EXCEPT !.state = x].wake = k.turns[i].wake
          /\ [k.turns[i] EXCEPT !.state = x].msgs = k.turns[i].msgs
      BY <3>2, TurnRows
    <3> QED
      BY <3>1, <3>3, Zenon
  <2> QED
    BY <2>1, <2>2
<1>3. f \in [1..Len(k.turns) -> Turn]
  BY <1>1, <1>2
<1>4. f \in Seq(Turn)
  BY <1>1, <1>3, SeqMade
<1>5. /\ [k EXCEPT !.turns = f] \in Chat /\ [k EXCEPT !.turns = f].turns = f
      /\ [k EXCEPT !.turns = f].wake = k.wake
  BY ONLY k \in Chat, <1>4, TurnsReplaced
<1> QED
  BY <1>2, <1>4, <1>5 DEF KeepsTurns

LEMMA DisplacedChat ==
  ASSUME NEW k \in Chat
  PROVE  Displaced(k) \in Chat /\ KeepsTurns(k, Displaced(k))
         /\ DOMAIN Displaced(k).turns = DOMAIN k.turns
<1> DEFINE f == [i \in DOMAIN k.turns |->
        IF k.turns[i].state = "queued"
        THEN [k.turns[i] EXCEPT !.state = "cancelled"] ELSE k.turns[i]]
           l == [k EXCEPT !.open = FALSE]
<1>1. l \in Chat /\ l.turns = k.turns /\ l.wake = k.wake
  BY ChatRows
<1>2. Displaced(k) = [l EXCEPT !.turns = f]
  BY DEF Displaced
<1>3. DOMAIN f = DOMAIN l.turns /\ f = [i \in DOMAIN f |-> f[i]]
  BY <1>1
<1>4. \A i \in DOMAIN l.turns : \/ f[i] = l.turns[i]
        \/ \E x \in {"queued", "running", "done", "cancelled"} :
             f[i] = [l.turns[i] EXCEPT !.state = x]
  BY <1>1
<1> HIDE DEF f, l
<1>5. /\ [l EXCEPT !.turns = f] \in Chat /\ KeepsTurns(l, [l EXCEPT !.turns = f])
      /\ [l EXCEPT !.turns = f].turns = f
  BY <1>1, <1>3, <1>4, TurnsRestated
<1> QED
  BY <1>1, <1>2, <1>3, <1>5 DEF KeepsTurns

LEMMA DisplaceKeeps ==
  ASSUME TypeInv, active # 0, Displace
  PROVE  /\ chats' \in Seq(Chat) /\ ChatsGrow /\ NoNewPrompt /\ Len(chats') = Len(chats)
         /\ active' = 0 /\ live' = FALSE
<1>1. active \in DOMAIN chats /\ chats[active] \in Chat
  BY TypeFacts DEF TypeInv, TypeOK
<1>2. /\ Displaced(chats[active]) \in Chat /\ KeepsTurns(chats[active], Displaced(chats[active]))
      /\ DOMAIN Displaced(chats[active]).turns = DOMAIN chats[active].turns
  BY <1>1, DisplacedChat
<1>3. chats' = [chats EXCEPT ![active] = Displaced(chats[active])]
  BY DEF Displace
<1> QED
  BY <1>1, <1>2, <1>3, ChatChanged DEF Displace

(* A step that leaves the messages and wakes alone keeps the types. *)
LEMMA ChatStepKeepsTypes ==
  ASSUME TypeInv, UNCHANGED <<messages, wakes>>, used' \in Used,
         chats' \in Seq(Chat), ChatsGrow,
         \A c \in DOMAIN chats' : \A i \in DOMAIN chats'[c].turns :
           \/ c \in DOMAIN chats /\ i \in DOMAIN chats[c].turns
           \/ chats'[c].turns[i].msgs \subseteq DOMAIN messages,
         active' \in 0..Len(chats'), live' \in BOOLEAN, live' => active' # 0,
         \/ UNCHANGED services
         \/ \E s \in Services : (Moved(s) /\ services[s].at # "idle") \/ Finished(s)
  PROVE  TypeInv'
<1>1. MessagesGrow /\ WakesGrow
  BY Stays DEF TypeInv
<1>2. TypeOK'
  <2>1. services' \in [Services -> Service]
    BY DEF TypeInv, TypeOK, Moved, Finished
  <2> QED
    BY <2>1 DEF TypeInv, TypeOK, Used
<1>3. AttemptLeft'
  BY DEF TypeInv, AttemptLeft
<1>4. \A m \in DOMAIN messages' : messages'[m].wake \in DOMAIN wakes'
  BY DEF TypeInv, References
<1>5. References'
  <2>1. CASE UNCHANGED services
    BY <1>1, <1>2, <1>4, <2>1, ReferencesKept
  <2>2. CASE \E s \in Services : (Moved(s) /\ services[s].at # "idle") \/ Finished(s)
    BY <1>1, <1>2, <1>4, <2>2, MovedReferences
  <2> QED
    BY <2>1, <2>2
<1> QED
  BY <1>2, <1>3, <1>5 DEF TypeInv

LEMMA QuietChatStep ==
  ASSUME TypeInv, UNCHANGED <<messages, wakes, services>>, used' \in Used,
         chats' \in Seq(Chat), ChatsGrow, NoNewPrompt,
         active' \in 0..Len(chats'), live' \in BOOLEAN, live' => active' # 0
  PROVE  TypeInv'
<1>1. \A c \in DOMAIN chats' : \A i \in DOMAIN chats'[c].turns :
           \/ c \in DOMAIN chats /\ i \in DOMAIN chats[c].turns
           \/ chats'[c].turns[i].msgs \subseteq DOMAIN messages
  BY DEF NoNewPrompt
<1> QED
  BY <1>1, ChatStepKeepsTypes

(* A chat that gets one more prompt of the user. *)
LEMMA UserTurnAppended ==
  ASSUME NEW k \in Chat
  PROVE  LET l == [k EXCEPT !.turns = Append(@, UserTurn)]
         IN  /\ l \in Chat /\ KeepsTurns(k, l)
             /\ \A i \in DOMAIN l.turns : i \in DOMAIN k.turns \/ l.turns[i].msgs = {}
<1> DEFINE l == [k EXCEPT !.turns = Append(@, UserTurn)]
           t == Append(k.turns, UserTurn)
<1>1. UserTurn \in Turn /\ UserTurn.msgs = {}
  BY DEF UserTurn, Turn
<1>2. k.turns \in Seq(Turn)
  BY ChatRows
<1>3. /\ t \in Seq(Turn)
      /\ DOMAIN t = 1 .. Len(k.turns) + 1
      /\ \A i \in DOMAIN k.turns : /\ i \in DOMAIN t
                                   /\ t[i] = k.turns[i]
      /\ t[Len(k.turns) + 1] = UserTurn
      /\ DOMAIN k.turns = 1..Len(k.turns) /\ Len(k.turns) \in Nat
  BY <1>1, <1>2, SeqAppended, SeqParts
<1>4. l = [k EXCEPT !.turns = t]
  OBVIOUS
<1> HIDE DEF l, t
<1>5. l \in Chat /\ l.turns = t /\ l.wake = k.wake
  BY <1>3, <1>4, TurnsReplaced
<1>6. KeepsTurns(k, l)
  BY <1>3, <1>5 DEF KeepsTurns
<1>7. ASSUME NEW i \in DOMAIN l.turns
      PROVE  i \in DOMAIN k.turns \/ l.turns[i].msgs = {}
  <2>1. i \in DOMAIN k.turns \/ i = Len(k.turns) + 1
    BY <1>3, <1>5
  <2> QED
    BY <1>1, <1>3, <1>5, <2>1
<1> QED
  BY <1>5, <1>6, <1>7 DEF l, t

LEMMA TurnStartsKeeps ==
  ASSUME TypeInv, TurnStarts
  PROVE  TypeInv' /\ MessagesGrow /\ ChatsGrow /\ NoNewPrompt
<1>1. active \in DOMAIN chats /\ chats[active] \in Chat /\ active \in 0..Len(chats) /\ used \in Used
  BY TypeFacts DEF TypeInv, TypeOK, TurnStarts, Used
<1>2. PICK i \in QueuedIn(active) : chats' = [chats EXCEPT ![active].turns[i].state = "running"]
  BY DEF TurnStarts
<1> DEFINE f == [chats[active].turns EXCEPT ![i].state = "running"]
           k == [chats[active] EXCEPT !.turns = f]
<1>3. i \in DOMAIN chats[active].turns
  BY DEF QueuedIn
<1>4. chats' = [chats EXCEPT ![active] = k]
  BY <1>2
<1>5. k \in Chat /\ KeepsTurns(chats[active], k) /\ k.turns = f
  <2>1. DOMAIN f = DOMAIN chats[active].turns /\ f = [j \in DOMAIN f |-> f[j]]
    OBVIOUS
  <2>2. \A j \in DOMAIN chats[active].turns :
          f[j] = chats[active].turns[j] \/ f[j] = [chats[active].turns[j] EXCEPT !.state = "running"]
    BY <1>3
  <2> HIDE DEF f
  <2> QED
    BY <1>1, <2>1, <2>2, TurnsRestated
<1>6. DOMAIN k.turns = DOMAIN chats[active].turns
  BY <1>5
<1> HIDE DEF k
<1>7. /\ chats' \in Seq(Chat) /\ ChatsGrow /\ Len(chats') = Len(chats) /\ NoNewPrompt
  BY <1>1, <1>4, <1>5, <1>6, ChatChanged
<1> QED
  BY <1>1, <1>7, QuietChatStep, Stays DEF TurnStarts, TypeInv

LEMMA TurnEndsKeeps ==
  ASSUME TypeInv, TurnEnds
  PROVE  TypeInv' /\ MessagesGrow /\ ChatsGrow /\ NoNewPrompt
<1>1. active \in DOMAIN chats /\ chats[active] \in Chat /\ active \in 0..Len(chats) /\ used \in Used
  BY TypeFacts DEF TypeInv, TypeOK, TurnEnds, References, Used
<1> DEFINE f == [i \in DOMAIN chats[active].turns |->
                   IF chats[active].turns[i].state = "running"
                   THEN [chats[active].turns[i] EXCEPT !.state = "done"]
                   ELSE chats[active].turns[i]]
           k == [chats[active] EXCEPT !.turns = f]
<1>2. chats' = [chats EXCEPT ![active] = k]
  BY DEF TurnEnds
<1>3. k \in Chat /\ KeepsTurns(chats[active], k) /\ k.turns = f
  <2>1. DOMAIN f = DOMAIN chats[active].turns /\ f = [j \in DOMAIN f |-> f[j]]
    OBVIOUS
  <2>2. \A j \in DOMAIN chats[active].turns :
          f[j] = chats[active].turns[j] \/ f[j] = [chats[active].turns[j] EXCEPT !.state = "done"]
    OBVIOUS
  <2> HIDE DEF f
  <2> QED
    BY <1>1, <2>1, <2>2, TurnsRestated
<1>4. DOMAIN k.turns = DOMAIN chats[active].turns
  BY <1>3
<1> HIDE DEF k
<1>5. /\ chats' \in Seq(Chat) /\ ChatsGrow /\ Len(chats') = Len(chats) /\ NoNewPrompt
  BY <1>1, <1>2, <1>3, <1>4, ChatChanged
<1> QED
  BY <1>1, <1>5, QuietChatStep, Stays DEF TurnEnds, TypeInv

LEMMA UserPromptsKeeps ==
  ASSUME TypeInv, UserPrompts
  PROVE  TypeInv' /\ MessagesGrow /\ ChatsGrow /\ NoNewPrompt
<1>1. /\ active \in DOMAIN chats /\ chats[active] \in Chat /\ active \in 0..Len(chats)
      /\ live \in BOOLEAN
  BY TypeFacts DEF TypeInv, TypeOK, UserPrompts
<1>2. used' \in Used
  BY UsedRows DEF UserPrompts, Act, TypeInv, TypeOK, Used
<1> DEFINE k == [chats[active] EXCEPT !.turns = Append(@, UserTurn)]
<1>3. /\ k \in Chat /\ KeepsTurns(chats[active], k)
      /\ \A i \in DOMAIN k.turns : i \in DOMAIN chats[active].turns \/ k.turns[i].msgs = {}
  BY <1>1, UserTurnAppended
<1>4. chats' = [chats EXCEPT ![active] = k]
  BY DEF UserPrompts
<1> HIDE DEF k
<1>5. /\ chats' \in Seq(Chat) /\ ChatsGrow /\ Len(chats') = Len(chats) /\ NoNewPrompt
  BY <1>1, <1>3, <1>4, ChatChanged
<1>6. live' \in BOOLEAN /\ active' \in 0..Len(chats') /\ (live' => active' # 0)
  BY <1>1, <1>5 DEF UserPrompts
<1> QED
  BY <1>2, <1>5, <1>6, QuietChatStep, Stays DEF UserPrompts, TypeInv

LEMMA UserClosesKeeps ==
  ASSUME TypeInv, UserCloses
  PROVE  TypeInv' /\ MessagesGrow /\ ChatsGrow /\ NoNewPrompt
<1>1. used' \in Used
  BY UsedRows DEF UserCloses, Act, TypeInv, TypeOK, Used
<1>2. /\ chats' \in Seq(Chat) /\ ChatsGrow /\ NoNewPrompt /\ Len(chats') = Len(chats)
      /\ active' = 0 /\ live' = FALSE
  BY DisplaceKeeps DEF UserCloses
<1>3. active' \in 0..Len(chats')
  BY <1>2, TypeFacts DEF TypeInv
<1> QED
  BY <1>1, <1>2, <1>3, QuietChatStep, Stays DEF UserCloses, TypeInv

LEMMA UserOpensKeeps ==
  ASSUME TypeInv, UserOpens
  PROVE  TypeInv' /\ MessagesGrow /\ ChatsGrow /\ NoNewPrompt
<1>1. used' \in Used
  BY UsedRows DEF UserOpens, Act, TypeInv, TypeOK, Used
<1>2. live \in BOOLEAN /\ live' = live /\ Len(chats) \in Nat /\ (~live \/ active # 0) /\ active = 0
  BY TypeFacts DEF UserOpens, TypeInv, TypeOK, References
<1>3. CASE /\ chats' = Append(chats, [wake |-> 0, open |-> TRUE, turns |-> <<UserTurn>>])
           /\ active' = Len(chats) + 1
  <2> DEFINE k == [wake |-> 0, open |-> TRUE, turns |-> <<UserTurn>>]
  <2>1. UserTurn \in Turn /\ UserTurn.msgs = {}
    BY DEF UserTurn, Turn
  <2>2. <<UserTurn>> \in Seq(Turn)
    BY <2>1
  <2>3. k \in Chat /\ k.turns = <<UserTurn>>
    BY <2>2, Zenon DEF Chat
  <2>4. \A i \in DOMAIN k.turns : k.turns[i].msgs = {}
    BY <2>1, <2>3
  <2> HIDE DEF k
  <2>5. chats' \in Seq(Chat) /\ ChatsGrow /\ Len(chats') = Len(chats) + 1 /\ NoNewPrompt
    BY <1>3, <2>3, <2>4, ChatAdded DEF k
  <2>6. active' \in 0..Len(chats') /\ (live' => active' # 0) /\ live' \in BOOLEAN
    BY <1>2, <1>3, <2>5
  <2> QED
    BY <1>1, <2>5, <2>6, QuietChatStep, Stays DEF UserOpens, TypeInv
<1>4. CASE \E c \in DOMAIN chats :
          /\ chats' = [chats EXCEPT ![c].open = TRUE, ![c].turns = Append(@, UserTurn)]
          /\ active' = c
  <2>1. PICK c \in DOMAIN chats :
          /\ chats' = [chats EXCEPT ![c].open = TRUE, ![c].turns = Append(@, UserTurn)]
          /\ active' = c
    BY <1>4
  <2> DEFINE l == [chats[c] EXCEPT !.open = TRUE]
             k == [l EXCEPT !.turns = Append(@, UserTurn)]
  <2>2. chats[c] \in Chat /\ c \in 1..Len(chats)
    BY TypeFacts DEF TypeInv
  <2>3. l \in Chat /\ l.turns = chats[c].turns /\ l.wake = chats[c].wake
    BY <2>2, ChatRows
  <2>4. /\ k \in Chat /\ KeepsTurns(l, k)
        /\ \A i \in DOMAIN k.turns : i \in DOMAIN l.turns \/ k.turns[i].msgs = {}
    BY <2>3, UserTurnAppended
  <2>5. chats' = [chats EXCEPT ![c] = k]
    BY <2>1
  <2>6. /\ KeepsTurns(chats[c], k)
        /\ \A i \in DOMAIN k.turns : i \in DOMAIN chats[c].turns \/ k.turns[i].msgs = {}
    BY <2>3, <2>4 DEF KeepsTurns
  <2> HIDE DEF k, l
  <2>7. chats' \in Seq(Chat) /\ ChatsGrow /\ Len(chats') = Len(chats) /\ NoNewPrompt
    BY <2>4, <2>5, <2>6, ChatChanged
  <2>8. active' \in 0..Len(chats') /\ (live' => active' # 0) /\ live' \in BOOLEAN
    BY <1>2, <2>1, <2>2, <2>7
  <2> QED
    BY <1>1, <2>7, <2>8, QuietChatStep, Stays DEF UserOpens, TypeInv
<1> QED
  BY <1>3, <1>4 DEF UserOpens

LEMMA CloseForWakeKeeps ==
  ASSUME TypeInv, NEW s \in Services, CloseForWake(s)
  PROVE  TypeInv' /\ Moved(s) /\ MessagesGrow /\ ChatsGrow /\ NoNewPrompt
<1>1. /\ chats' \in Seq(Chat) /\ ChatsGrow /\ NoNewPrompt /\ Len(chats') = Len(chats)
      /\ active' \in 0..Len(chats') /\ live' \in BOOLEAN /\ (live' => active' # 0)
  <2>1. CASE UNCHANGED <<chats, active, live>>
    BY <2>1, Stays DEF TypeInv, TypeOK, References
  <2>2. CASE active # 0 /\ Displace
    <3>1. /\ chats' \in Seq(Chat) /\ ChatsGrow /\ NoNewPrompt /\ Len(chats') = Len(chats)
          /\ active' = 0 /\ live' = FALSE
      BY <2>2, DisplaceKeeps
    <3>2. active' \in 0..Len(chats')
      BY <3>1, TypeFacts DEF TypeInv
    <3> QED
      BY <3>1, <3>2
  <2> QED
    BY <2>1, <2>2 DEF CloseForWake
<1>2. /\ services[s].at # "idle" /\ services[s].at # "enqueue" /\ used' \in Used
      /\ UNCHANGED <<messages, wakes>>
  BY DEF CloseForWake, TypeInv, TypeOK, Used
<1>3. PICK x \in {"raced", "defer", "create"} : Goto(s, x)
  BY DEF CloseForWake, Yield
<1>4. Len(chats') \in Nat
  BY <1>1, TypeFacts DEF TypeInv
<1>5. Moved(s)
  BY <1>1, <1>2, <1>3, <1>4, GotoMoves DEF Steps
<1>6. \A c \in DOMAIN chats' : \A i \in DOMAIN chats'[c].turns :
           \/ c \in DOMAIN chats /\ i \in DOMAIN chats[c].turns
           \/ chats'[c].turns[i].msgs \subseteq DOMAIN messages
  BY <1>1 DEF NoNewPrompt
<1> QED
  BY <1>1, <1>2, <1>5, <1>6, ChatStepKeepsTypes, Stays DEF TypeInv

LEMMA CreateWakeChatKeeps ==
  ASSUME TypeInv, NEW s \in Services, CreateWakeChat(s)
  PROVE  TypeInv' /\ Moved(s) /\ MessagesGrow /\ ChatsGrow /\ NoNewPrompt
<1> DEFINE w == services[s].wake
           k == [wake |-> w, open |-> TRUE, turns |-> <<>>]
<1>1. /\ services[s].at # "idle" /\ services[s].at # "enqueue" /\ used' \in Used
      /\ UNCHANGED <<messages, wakes>>
  BY DEF CreateWakeChat, TypeInv, TypeOK, Used
<1>2. CASE UNCHANGED <<chats, active, live>> /\ \E x \in {"raced", "defer", "fail"} : Goto(s, x)
  <2>1. PICK x \in {"raced", "defer", "fail"} : Goto(s, x)
    BY <1>2
  <2>2. ChatsGrow /\ NoNewPrompt /\ Len(chats') \in Nat
    BY <1>1, <1>2, AllGrow, TypeFacts DEF TypeInv
  <2>3. Moved(s)
    BY <1>1, <2>1, <2>2, GotoMoves DEF Steps
  <2>4. UNCHANGED <<messages, wakes, chats, active, live>>
    BY <1>1, <1>2
  <2> QED
    BY <1>1, <2>2, <2>3, <2>4, MoveKeepsTypes, Stays DEF TypeInv
<1>3. CASE /\ chats' = Append(chats, k) /\ active' = Len(chats) + 1 /\ live' = FALSE
           /\ EnqueueIn(s, Len(chats) + 1)
  <2>1. w \in Nat /\ Len(chats) \in Nat
    BY TypeFacts DEF TypeInv, TypeOK, Service
  <2>2. <<>> \in Seq(Turn)
    BY EmptySeq
  <2>3. k \in Chat /\ k.turns = <<>>
    BY <2>1, <2>2, Zenon DEF Chat
  <2>4. \A i \in DOMAIN k.turns : k.turns[i].msgs = {}
    BY <2>3, EmptySeq
  <2> HIDE DEF k
  <2>5. chats' \in Seq(Chat) /\ ChatsGrow /\ Len(chats') = Len(chats) + 1 /\ NoNewPrompt
    BY <1>3, <2>3, <2>4, ChatAdded
  <2>6. /\ Len(chats) + 1 \in 1..Len(chats') /\ Len(chats') \in Nat
        /\ active' \in 0..Len(chats') /\ live' \in BOOLEAN /\ (live' => active' # 0)
    <3>1. /\ Len(chats) + 1 \in 1..Len(chats') /\ Len(chats') \in Nat
          /\ Len(chats) + 1 \in 0..Len(chats')
      BY <2>1, <2>5
    <3>2. active' = Len(chats) + 1 /\ live' = FALSE
      BY <1>3
    <3> QED
      BY <3>1, <3>2
  <2>7. Moved(s)
    BY <1>3, <2>6, EnqueueInMoves
  <2>8. \A c \in DOMAIN chats' : \A i \in DOMAIN chats'[c].turns :
           \/ c \in DOMAIN chats /\ i \in DOMAIN chats[c].turns
           \/ chats'[c].turns[i].msgs \subseteq DOMAIN messages
    BY <2>5 DEF NoNewPrompt
  <2> QED
    BY <1>1, <2>5, <2>6, <2>7, <2>8, ChatStepKeepsTypes, Stays DEF TypeInv
<1> QED
  BY <1>2, <1>3 DEF CreateWakeChat, Yield

(* The prompt that EnqueueTurn adds to its target. *)
NewPrompt(s) ==
  [wake |-> services[s].wake, msgs |-> services[s].msgs, state |-> "queued"]

LEMMA PromptAdded ==
  ASSUME TypeInv, NEW s \in Services, services[s].at = "enqueue",
         chats' = [chats EXCEPT ![services[s].target].turns = Append(@, NewPrompt(s))]
  PROVE  /\ chats' \in Seq(Chat) /\ ChatsGrow /\ Len(chats') = Len(chats)
         /\ DOMAIN chats' = DOMAIN chats /\ services[s].target \in DOMAIN chats
         /\ LET c == services[s].target
                i == Len(chats[c].turns) + 1
            IN  /\ i \in DOMAIN chats'[c].turns /\ chats'[c].turns[i] = NewPrompt(s)
                /\ DOMAIN chats'[c].turns = DOMAIN chats[c].turns \cup {i}
         /\ \A d \in DOMAIN chats : d # services[s].target => chats'[d] = chats[d]
<1> DEFINE c == services[s].target
           k == [chats[c] EXCEPT !.turns = Append(@, NewPrompt(s))]
           i == Len(chats[c].turns) + 1
           t == Append(chats[c].turns, NewPrompt(s))
<1>1. c \in DOMAIN chats /\ chats[c] \in Chat /\ chats[c].turns \in Seq(Turn)
  <2>1. NamesItsRows(s)
    BY DEF TypeInv, References
  <2>2. c \in 0..Len(chats) /\ c # 0
    BY <2>1 DEF NamesItsRows
  <2> QED
    BY <2>2, TypeFacts DEF TypeInv
<1>2. NewPrompt(s) \in Turn
  BY DEF NewPrompt, Turn, TypeInv, TypeOK, Service
<1>3. /\ t \in Seq(Turn) /\ DOMAIN t = 1 .. i /\ t[i] = NewPrompt(s)
      /\ \A j \in DOMAIN chats[c].turns : t[j] = chats[c].turns[j]
      /\ DOMAIN chats[c].turns = 1..Len(chats[c].turns) /\ Len(chats[c].turns) \in Nat
  BY <1>1, <1>2, SeqAppended, SeqParts
<1>4. chats' = [chats EXCEPT ![c] = k] /\ k = [chats[c] EXCEPT !.turns = t]
  OBVIOUS
<1> HIDE DEF k, t
<1>5. k \in Chat /\ k.turns = t /\ k.wake = chats[c].wake
  BY ONLY <1>1, <1>3, <1>4, TurnsReplaced
<1>6. DOMAIN k.turns = DOMAIN chats[c].turns \cup {i} /\ KeepsTurns(chats[c], k)
  <2>1. \A n \in Nat : 1 .. n + 1 = 1 .. n \cup {n + 1}
    OBVIOUS
  <2>2. DOMAIN k.turns = DOMAIN chats[c].turns \cup {i}
    BY ONLY <1>3, <1>5, <2>1
  <2> QED
    BY ONLY <1>3, <1>5, <2>2 DEF KeepsTurns
<1>7. /\ chats' \in Seq(Chat) /\ ChatsGrow /\ Len(chats') = Len(chats)
      /\ DOMAIN chats' = DOMAIN chats /\ chats'[c] = k
      /\ \A d \in DOMAIN chats : d # c => chats'[d] = chats[d]
  BY <1>1, <1>4, <1>5, <1>6, ChatChanged
<1> QED
  BY <1>1, <1>3, <1>5, <1>6, <1>7

LEMMA EnqueueTurnKeeps ==
  ASSUME TypeInv, NEW s \in Services, EnqueueTurn(s)
  PROVE  TypeInv' /\ Moved(s) /\ MessagesGrow /\ ChatsGrow
         /\ services'[s].target = services[s].target /\ services'[s].at \in {"record", "fail"}
<1>1. /\ services[s].at = "enqueue" /\ used' \in Used
      /\ UNCHANGED <<messages, wakes, active, live>>
  BY DEF EnqueueTurn, TypeInv, TypeOK, Used
<1>2. PICK x \in {"record", "fail"} : Goto(s, x)
  BY DEF EnqueueTurn
<1>3. /\ chats' \in Seq(Chat) /\ ChatsGrow /\ Len(chats') = Len(chats)
      /\ \A c \in DOMAIN chats' : \A i \in DOMAIN chats'[c].turns :
           \/ c \in DOMAIN chats /\ i \in DOMAIN chats[c].turns
           \/ chats'[c].turns[i].msgs \subseteq DOMAIN messages
  <2>1. CASE UNCHANGED chats
    BY <2>1, Stays DEF TypeInv, TypeOK
  <2>2. CASE chats' = [chats EXCEPT ![services[s].target].turns = Append(@, NewPrompt(s))]
    <3>1. NewPrompt(s).msgs \subseteq DOMAIN messages
      BY <1>1 DEF NewPrompt, TypeInv, References, NamesItsRows
    <3>2. /\ chats' \in Seq(Chat) /\ ChatsGrow /\ Len(chats') = Len(chats)
          /\ DOMAIN chats' = DOMAIN chats
      BY <1>1, <2>2, PromptAdded
    <3>3. ASSUME NEW c \in DOMAIN chats', NEW i \in DOMAIN chats'[c].turns
          PROVE  \/ c \in DOMAIN chats /\ i \in DOMAIN chats[c].turns
                 \/ chats'[c].turns[i].msgs \subseteq DOMAIN messages
      <4>1. CASE c = services[s].target
        <5> DEFINE j == Len(chats[services[s].target].turns) + 1
        <5>1. /\ DOMAIN chats'[c].turns = DOMAIN chats[c].turns \cup {j}
              /\ chats'[c].turns[j] = NewPrompt(s) /\ c \in DOMAIN chats
          BY <1>1, <2>2, <4>1, PromptAdded
        <5> HIDE DEF j
        <5> QED
          BY <3>1, <3>3, <5>1
      <4>2. CASE c # services[s].target
        BY <1>1, <2>2, <3>2, <3>3, <4>2, PromptAdded
      <4> QED
        BY <4>1, <4>2
    <3> QED
      BY <3>2, <3>3
  <2> QED
    BY <2>1, <2>2 DEF EnqueueTurn, NewPrompt
<1>4. Len(chats') \in Nat /\ active' \in 0..Len(chats') /\ live' \in BOOLEAN /\ (live' => active' # 0)
  BY <1>1, <1>3, TypeFacts DEF TypeInv, TypeOK, References
<1>5. Moved(s) /\ services'[s].at = x /\ services'[s].target = services[s].target
  BY <1>1, <1>2, <1>3, <1>4, GotoMoves DEF Steps
<1> QED
  BY <1>1, <1>3, <1>4, <1>5, ChatStepKeepsTypes, Stays DEF TypeInv

-----------------------------------------------------------------------------
(* The messages and the wakes. *)
LEMMA WakeFields ==
  ASSUME NEW k \in Wake, NEW x, NEW a, NEW o, NEW e, NEW y, NEW q
  PROVE  /\ LET l == [k EXCEPT !.state = x, !.owner = o, !.expired = e, !.waiting = y]
            IN  l.state = x /\ l.attempts = k.attempts /\ l.owner = o /\ l.expired = e
         /\ LET l == [k EXCEPT !.state = x, !.owner = o, !.expired = e, !.waiting = y, !.quiet = q]
            IN  l.state = x /\ l.attempts = k.attempts /\ l.owner = o /\ l.expired = e
         /\ LET l == [k EXCEPT !.state = x, !.owner = o, !.expired = e, !.quiet = q]
            IN  l.state = x /\ l.attempts = k.attempts /\ l.owner = o /\ l.expired = e
         /\ LET l == [k EXCEPT !.state = x, !.attempts = a, !.owner = o, !.expired = e, !.quiet = q]
            IN  l.state = x /\ l.attempts = a /\ l.owner = o /\ l.expired = e
         /\ LET l == [k EXCEPT !.state = x, !.attempts = a, !.owner = o, !.expired = e, !.waiting = y]
            IN  l.state = x /\ l.attempts = a /\ l.owner = o /\ l.expired = e
         /\ LET l == [k EXCEPT !.quiet = q]
            IN  l.state = k.state /\ l.attempts = k.attempts /\ l.owner = k.owner /\ l.expired = k.expired
         /\ LET l == [k EXCEPT !.expired = e]
            IN  l.state = k.state /\ l.attempts = k.attempts /\ l.owner = k.owner /\ l.expired = e
         /\ LET l == [k EXCEPT !.waiting = y]
            IN  l.state = k.state /\ l.attempts = k.attempts /\ l.owner = k.owner /\ l.expired = k.expired
BY DEF Wake

LEMMA NewWakeFields ==
  ASSUME NEW r
  PROVE  NewWake(r).state = "pending" /\ NewWake(r).attempts = 0
BY DEF NewWake

LEMMA MessagesMade ==
  ASSUME TypeInv, NEW f, DOMAIN f = DOMAIN messages, f = [m \in DOMAIN f |-> f[m]],
         \A m \in DOMAIN messages : f[m] \in Message, messages' = f
  PROVE  messages' \in Seq(Message) /\ Len(messages') = Len(messages)
         /\ DOMAIN messages' = DOMAIN messages
<1>1. Len(messages) \in Nat /\ DOMAIN messages = 1..Len(messages)
  BY TypeFacts DEF TypeInv
<1>2. f \in [1..Len(messages) -> Message]
  BY <1>1
<1> QED
  BY <1>1, <1>2, SeqMade

LEMMA WakesMade ==
  ASSUME TypeInv, NEW f, DOMAIN f = DOMAIN wakes, f = [w \in DOMAIN f |-> f[w]],
         \A w \in DOMAIN wakes : f[w] \in Wake, wakes' = f
  PROVE  wakes' \in Seq(Wake) /\ Len(wakes') = Len(wakes) /\ DOMAIN wakes' = DOMAIN wakes
<1>1. Len(wakes) \in Nat /\ DOMAIN wakes = 1..Len(wakes)
  BY TypeFacts DEF TypeInv
<1>2. f \in [1..Len(wakes) -> Wake]
  BY <1>1
<1> QED
  BY <1>1, <1>2, SeqMade

(* What every step has to show for the types. *)
LEMMA WakeStepKeepsTypes ==
  ASSUME TypeInv, used' \in Used,
         messages' \in Seq(Message), Len(messages') <= MaxMessage, MessagesGrow,
         wakes' \in Seq(Wake), Len(wakes') <= MaxWake, WakesGrow,
         chats' \in Seq(Chat), ChatsGrow, NoNewPrompt,
         active' \in 0..Len(chats'), live' \in BOOLEAN, live' => active' # 0,
         \A m \in DOMAIN messages' : messages'[m].wake \in DOMAIN wakes',
         AttemptLeft',
         services' \in [Services -> Service],
         \A s \in Services : services'[s].at # "idle" =>
           services'[s] = services[s] \/ NamesItsRows(s)'
  PROVE  TypeInv'
<1>1. TypeOK'
  BY DEF TypeInv, TypeOK, Used
<1>2. \A c \in DOMAIN chats' : \A i \in DOMAIN chats'[c].turns :
           \/ c \in DOMAIN chats /\ i \in DOMAIN chats[c].turns
           \/ chats'[c].turns[i].msgs \subseteq DOMAIN messages'
  BY DEF NoNewPrompt
<1>3. References'
  BY <1>1, <1>2, ReferencesKept
<1> QED
  BY <1>1, <1>3 DEF TypeInv

LEMMA ChatsStay ==
  ASSUME TypeInv, UNCHANGED <<chats, active, live>>
  PROVE  /\ chats' \in Seq(Chat) /\ ChatsGrow /\ NoNewPrompt
         /\ active' \in 0..Len(chats') /\ live' \in BOOLEAN /\ (live' => active' # 0)
BY Stays DEF TypeInv, TypeOK, References

LEMMA UsedStays ==
  ASSUME TypeInv, UNCHANGED used
  PROVE  used' \in Used
BY DEF TypeInv, TypeOK, Used

LEMMA ServicesStay ==
  ASSUME TypeInv, UNCHANGED services \/ \E s \in Services : Finished(s)
  PROVE  /\ services' \in [Services -> Service]
         /\ \A t \in Services : services'[t].at # "idle" =>
              services'[t] = services[t] \/ NamesItsRows(t)'
<1>1. CASE UNCHANGED services
  BY <1>1 DEF TypeInv, TypeOK
<1>2. CASE \E s \in Services : Finished(s)
  BY <1>2 DEF Finished, OthersStay, Idle
<1> QED
  BY <1>1, <1>2

(* A new or an old wake, and how it is appended. *)
LEMMA WakeAppended ==
  ASSUME TypeInv, NEW w \in 1..MaxWake, w \in DOMAIN wakes \/ w = Len(wakes) + 1,
         NEW r \in BOOLEAN,
         wakes' = IF w \in DOMAIN wakes THEN wakes ELSE Append(wakes, NewWake(r))
  PROVE  /\ wakes' \in Seq(Wake) /\ Len(wakes') <= MaxWake /\ WakesGrow
         /\ DOMAIN wakes' = DOMAIN wakes \cup {w}
         /\ \A v \in DOMAIN wakes : wakes'[v] = wakes[v]
         /\ w \notin DOMAIN wakes => wakes'[w].state = "pending" /\ wakes'[w].attempts = 0
         /\ AttemptLeft'
<1>1. Len(wakes) \in Nat /\ DOMAIN wakes = 1..Len(wakes) /\ wakes \in Seq(Wake)
      /\ Len(wakes) <= MaxWake /\ MaxWake \in Nat
  BY TypeFacts, BoundAssumption DEF TypeInv, TypeOK
<1>2. CASE w \in DOMAIN wakes
  BY <1>1, <1>2 DEF WakesGrow, AttemptLeft, TypeInv
<1>3. CASE w \notin DOMAIN wakes
  <2>1. wakes' = Append(wakes, NewWake(r)) /\ w = Len(wakes) + 1
    BY <1>3
  <2>2. NewWake(r) \in Wake
    <3>1. "pending" \in WakeStates /\ 0 \in 0..3 /\ "no" \in {"no", "seen", "long"}
      BY DEF WakeStates
    <3> QED
      BY <3>1, Zenon DEF NewWake, Wake
  <2>3. /\ wakes' \in Seq(Wake) /\ Len(wakes') = Len(wakes) + 1
        /\ DOMAIN wakes' = 1 .. Len(wakes) + 1
        /\ \A v \in DOMAIN wakes : wakes'[v] = wakes[v]
        /\ wakes'[Len(wakes) + 1] = NewWake(r)
    BY <1>1, <2>1, <2>2, SeqAppended
  <2>4. /\ DOMAIN wakes' = DOMAIN wakes \cup {w} /\ WakesGrow /\ Len(wakes') <= MaxWake
    BY <1>1, <2>1, <2>3 DEF WakesGrow
  <2>5. wakes'[w].state = "pending" /\ wakes'[w].attempts = 0
    BY <2>1, <2>3, NewWakeFields
  <2>6. AttemptLeft'
    BY <2>3, <2>4, <2>5 DEF AttemptLeft, TypeInv, MaxAttempts
  <2> QED
    BY <2>3, <2>4, <2>5, <2>6
<1> QED
  BY <1>2, <1>3

(* Messages join the pending wake, or a new one when there is none. *)
JoinedOrNew(w) ==
  /\ (Pending = {} /\ w \notin DOMAIN wakes) \/ w \in Pending
  /\ DOMAIN wakes' = DOMAIN wakes \cup {w}
  /\ \A v \in DOMAIN wakes : wakes'[v] = wakes[v]
  /\ wakes'[w].state = "pending"

LEMMA SendKeeps ==
  ASSUME TypeInv, NEW type \in Declared, Send(type)
  PROVE  /\ TypeInv' /\ MessagesGrow /\ UNCHANGED <<chats, services>>
         /\ DOMAIN messages' = DOMAIN messages \cup {Len(messages) + 1}
         /\ \A m \in DOMAIN messages : messages'[m] = messages[m]
         /\ ~messages'[Len(messages) + 1].delivered
         /\ JoinedOrNew(messages'[Len(messages) + 1].wake)
<1>1. PICK w \in IF Pending = {} THEN {Len(wakes) + 1} ELSE Pending :
        /\ w <= MaxWake
        /\ wakes' = IF w \in DOMAIN wakes THEN wakes ELSE Append(wakes, NewWake(FALSE))
        /\ messages' = Append(messages,
             [type |-> type, read |-> FALSE, delivered |-> FALSE, wake |-> w])
  BY DEF Send
<1> DEFINE k == [type |-> type, read |-> FALSE, delivered |-> FALSE, wake |-> w]
<1>2. /\ Len(wakes) \in Nat /\ DOMAIN wakes = 1..Len(wakes)
      /\ Len(messages) \in Nat /\ DOMAIN messages = 1..Len(messages)
      /\ messages \in Seq(Message) /\ MaxMessage \in Nat /\ MaxWake \in Nat
  BY TypeFacts, BoundAssumption DEF TypeInv, TypeOK
<1>3. /\ w \in DOMAIN wakes \/ w = Len(wakes) + 1
      /\ (Pending = {} /\ w \notin DOMAIN wakes) \/ w \in Pending
  BY <1>1, <1>2 DEF Pending
<1>4. w \in 1..MaxWake
  BY <1>1, <1>2, <1>3
<1>5. /\ wakes' \in Seq(Wake) /\ Len(wakes') <= MaxWake /\ WakesGrow /\ AttemptLeft'
      /\ DOMAIN wakes' = DOMAIN wakes \cup {w}
      /\ \A v \in DOMAIN wakes : wakes'[v] = wakes[v]
      /\ w \notin DOMAIN wakes => wakes'[w].state = "pending"
  BY <1>1, <1>3, <1>4, WakeAppended
<1>6. k \in Message /\ k.wake = w /\ ~k.delivered
  BY <1>4, Zenon DEF Message
<1> HIDE DEF k
<1>7. /\ messages' \in Seq(Message) /\ Len(messages') = Len(messages) + 1
      /\ DOMAIN messages' = 1 .. Len(messages) + 1
      /\ \A m \in DOMAIN messages : messages'[m] = messages[m]
      /\ messages'[Len(messages) + 1] = k
  BY <1>1, <1>2, <1>6, SeqAppended DEF k
<1>8. Len(messages') <= MaxMessage /\ MessagesGrow
  BY <1>2, <1>7 DEF MessagesGrow, Send
<1>9. \A m \in DOMAIN messages' : messages'[m].wake \in DOMAIN wakes'
  <2> TAKE m \in DOMAIN messages'
  <2>1. m \in DOMAIN messages \/ m = Len(messages) + 1
    BY <1>2, <1>7
  <2> QED
    BY <1>5, <1>6, <1>7, <2>1 DEF TypeInv, References
<1>10. TypeInv' /\ UNCHANGED <<chats, services>>
  BY <1>5, <1>7, <1>8, <1>9, WakeStepKeepsTypes, ChatsStay, UsedStays, ServicesStay DEF Send
<1>11. JoinedOrNew(w)
  BY <1>3, <1>5 DEF JoinedOrNew, Pending
<1>12. DOMAIN messages' = DOMAIN messages \cup {Len(messages) + 1}
  BY <1>2, <1>7
<1> QED
  BY <1>6, <1>7, <1>8, <1>10, <1>11, <1>12

LEMMA MessagesRestated ==
  ASSUME TypeInv, NEW f, DOMAIN f = DOMAIN messages, f = [m \in DOMAIN f |-> f[m]],
         \A m \in DOMAIN messages :
           /\ f[m] \in Message /\ f[m].type = messages[m].type
           /\ messages[m].delivered => f[m].delivered,
         messages' = f
  PROVE  /\ messages' \in Seq(Message) /\ Len(messages') <= MaxMessage /\ MessagesGrow
         /\ DOMAIN messages' = DOMAIN messages
<1>1. messages' \in Seq(Message) /\ Len(messages') = Len(messages)
      /\ DOMAIN messages' = DOMAIN messages
  BY MessagesMade
<1>2. Len(messages) \in Nat /\ Len(messages) <= MaxMessage
  BY TypeFacts DEF TypeInv, TypeOK
<1>3. MessagesGrow
  BY <1>1, <1>2 DEF MessagesGrow
<1> QED
  BY <1>1, <1>2, <1>3

LEMMA WakesRestated ==
  ASSUME TypeInv, NEW f, DOMAIN f = DOMAIN wakes, f = [w \in DOMAIN f |-> f[w]],
         \A w \in DOMAIN wakes :
           /\ f[w] \in Wake
           /\ f[w].state \in {"pending", "delivering"} => f[w].attempts < MaxAttempts,
         wakes' = f
  PROVE  /\ wakes' \in Seq(Wake) /\ Len(wakes') <= MaxWake /\ WakesGrow
         /\ DOMAIN wakes' = DOMAIN wakes /\ AttemptLeft'
<1>1. wakes' \in Seq(Wake) /\ Len(wakes') = Len(wakes) /\ DOMAIN wakes' = DOMAIN wakes
  BY WakesMade
<1>2. Len(wakes) \in Nat /\ Len(wakes) <= MaxWake
  BY TypeFacts DEF TypeInv, TypeOK
<1>3. WakesGrow
  BY <1>1, <1>2 DEF WakesGrow
<1>4. AttemptLeft'
  BY <1>1 DEF AttemptLeft
<1> QED
  BY <1>1, <1>2, <1>3, <1>4

(* One wake is restated, and the others stay. *)
LEMMA OneWakeRestated ==
  ASSUME TypeInv, NEW w \in DOMAIN wakes, NEW k \in Wake,
         k.state \in {"pending", "delivering"} => k.attempts < MaxAttempts,
         wakes' = [wakes EXCEPT ![w] = k]
  PROVE  /\ wakes' \in Seq(Wake) /\ Len(wakes') <= MaxWake /\ WakesGrow
         /\ DOMAIN wakes' = DOMAIN wakes /\ AttemptLeft'
         /\ wakes'[w] = k /\ \A v \in DOMAIN wakes : v # w => wakes'[v] = wakes[v]
<1> DEFINE f == [wakes EXCEPT ![w] = k]
<1>1. DOMAIN f = DOMAIN wakes /\ f = [v \in DOMAIN f |-> f[v]]
  OBVIOUS
<1>2. \A v \in DOMAIN wakes : f[v] = IF v = w THEN k ELSE wakes[v]
  OBVIOUS
<1>3. \A v \in DOMAIN wakes :
           /\ f[v] \in Wake
           /\ f[v].state \in {"pending", "delivering"} => f[v].attempts < MaxAttempts
  BY <1>2, TypeFacts DEF TypeInv, AttemptLeft
<1> HIDE DEF f
<1>4. /\ wakes' \in Seq(Wake) /\ Len(wakes') <= MaxWake /\ WakesGrow
      /\ DOMAIN wakes' = DOMAIN wakes /\ AttemptLeft'
  BY <1>1, <1>3, WakesRestated DEF f
<1> QED
  BY <1>2, <1>4 DEF f

LEMMA WakesStay ==
  ASSUME TypeInv, UNCHANGED wakes
  PROVE  /\ wakes' \in Seq(Wake) /\ Len(wakes') <= MaxWake /\ WakesGrow
         /\ DOMAIN wakes' = DOMAIN wakes /\ AttemptLeft'
BY Stays DEF TypeInv, TypeOK, AttemptLeft

LEMMA MessagesStay ==
  ASSUME TypeInv, UNCHANGED messages
  PROVE  /\ messages' \in Seq(Message) /\ Len(messages') <= MaxMessage /\ MessagesGrow
         /\ DOMAIN messages' = DOMAIN messages
         /\ \A m \in DOMAIN messages' : messages'[m].wake \in DOMAIN wakes
BY Stays DEF TypeInv, TypeOK, References

LEMMA CancelledFields ==
  ASSUME NEW k \in Wake
  PROVE  Cancelled(k) \in Wake /\ Cancelled(k).state = "cancelled"
<1>1. Cancelled(k) \in Wake
  BY WakeRowTypes DEF Cancelled, WakeStates
<1> QED
  BY <1>1, WakeFields DEF Cancelled

LEMMA MarkReadKeeps ==
  ASSUME TypeInv, NEW m \in DOMAIN messages, MarkRead(m)
  PROVE  /\ TypeInv' /\ MessagesGrow /\ ChatsGrow /\ NoNewPrompt
         /\ DOMAIN messages' = DOMAIN messages
         /\ \A n \in DOMAIN messages : messages'[n] =
              IF n = m THEN [messages[n] EXCEPT !.read = TRUE] ELSE messages[n]
         /\ messages[m].wake \in DOMAIN wakes
         /\ \/ UNCHANGED wakes
            \/ /\ wakes' = [wakes EXCEPT ![messages[m].wake] = Cancelled(@)]
               /\ \A n \in Joined(messages[m].wake) \ {m} : messages[n].read
<1> DEFINE f == [messages EXCEPT ![m] = [@ EXCEPT !.read = TRUE]]
           w == messages[m].wake
<1>1. w \in DOMAIN wakes /\ wakes[w] \in Wake /\ messages[m] \in Message
  BY TypeFacts DEF TypeInv, References
<1>2. DOMAIN f = DOMAIN messages /\ f = [n \in DOMAIN f |-> f[n]] /\ messages' = f
  BY DEF MarkRead
<1>3. \A n \in DOMAIN messages : f[n] =
        IF n = m THEN [messages[n] EXCEPT !.read = TRUE] ELSE messages[n]
  OBVIOUS
<1>4. \A n \in DOMAIN messages : messages[n] \in Message
  BY TypeFacts DEF TypeInv
<1> HIDE DEF f
<1>5. \A n \in DOMAIN messages :
        /\ f[n] \in Message /\ f[n].type = messages[n].type /\ f[n].wake = messages[n].wake
        /\ f[n].delivered = messages[n].delivered
  <2> TAKE n \in DOMAIN messages
  <2>1. messages[n] \in Message
    BY <1>4
  <2>2. f[n] = messages[n] \/ f[n] = [messages[n] EXCEPT !.read = TRUE]
    BY <1>3
  <2> QED
    BY ONLY <2>1, <2>2, MessageRows
<1>6. /\ messages' \in Seq(Message) /\ Len(messages') <= MaxMessage /\ MessagesGrow
      /\ DOMAIN messages' = DOMAIN messages
  BY <1>2, <1>5, MessagesRestated
<1>7. \/ UNCHANGED wakes
      \/ /\ wakes' = [wakes EXCEPT ![w] = Cancelled(@)]
         /\ \A n \in Joined(w) \ {m} : messages[n].read
  BY DEF MarkRead
<1>8. /\ wakes' \in Seq(Wake) /\ Len(wakes') <= MaxWake /\ WakesGrow
      /\ DOMAIN wakes' = DOMAIN wakes /\ AttemptLeft'
  <2>1. Cancelled(wakes[w]) \in Wake /\ Cancelled(wakes[w]).state = "cancelled"
    BY <1>1, CancelledFields
  <2> QED
    BY <1>1, <1>7, <2>1, WakesStay, OneWakeRestated
<1>9. \A n \in DOMAIN messages' : messages'[n].wake \in DOMAIN wakes'
  BY <1>2, <1>5, <1>6, <1>8 DEF TypeInv, References
<1>10. used' \in Used
  BY UsedRows DEF MarkRead, TypeInv, TypeOK, Used
<1>11. TypeInv' /\ ChatsGrow /\ NoNewPrompt
  BY <1>6, <1>8, <1>9, <1>10, WakeStepKeepsTypes, ChatsStay, ServicesStay DEF MarkRead
<1>12. \A n \in DOMAIN messages : messages'[n] =
         IF n = m THEN [messages[n] EXCEPT !.read = TRUE] ELSE messages[n]
  BY <1>2, <1>3
<1> QED
  BY <1>1, <1>6, <1>7, <1>11, <1>12

LEMMA TimeKeeps ==
  ASSUME TypeInv, NEW w \in DOMAIN wakes, LeaseExpires(w) \/ BackoffEnds(w) \/ QuietPasses(w)
  PROVE  TypeInv' /\ UNCHANGED <<messages, chats, services>>
         /\ DOMAIN wakes' = DOMAIN wakes
         /\ \A v \in DOMAIN wakes : /\ wakes'[v].state = wakes[v].state
                                    /\ wakes'[v].owner = wakes[v].owner
<1>1. \A v \in DOMAIN wakes : wakes[v] \in Wake
  BY TypeFacts DEF TypeInv
<1>2. PICK k \in {[wakes[w] EXCEPT !.expired = TRUE], [wakes[w] EXCEPT !.waiting = FALSE],
                  [wakes[w] EXCEPT !.quiet = "long"]} : wakes' = [wakes EXCEPT ![w] = k]
  BY DEF LeaseExpires, BackoffEnds, QuietPasses
<1>3. k \in Wake
  BY <1>1, <1>2, WakeRowTypes
<1>4. k.state = wakes[w].state /\ k.attempts = wakes[w].attempts /\ k.owner = wakes[w].owner
  <2>1. wakes[w] \in Wake
    BY <1>1
  <2> QED
    BY <1>2, <2>1 DEF Wake
<1>5. /\ wakes' \in Seq(Wake) /\ Len(wakes') <= MaxWake /\ WakesGrow
      /\ DOMAIN wakes' = DOMAIN wakes /\ AttemptLeft'
      /\ wakes'[w] = k /\ \A v \in DOMAIN wakes : v # w => wakes'[v] = wakes[v]
  BY <1>2, <1>3, <1>4, OneWakeRestated DEF TypeInv, AttemptLeft
<1>6. used' \in Used
  BY UsedRows DEF LeaseExpires, BackoffEnds, QuietPasses, TypeInv, TypeOK, Used
<1>7. UNCHANGED <<messages, chats, active, live, services>>
  BY DEF LeaseExpires, BackoffEnds, QuietPasses
<1>8. TypeInv'
  BY <1>5, <1>6, <1>7, WakeStepKeepsTypes, MessagesStay, ChatsStay, ServicesStay
<1> QED
  BY <1>4, <1>5, <1>7, <1>8

LEMMA RecordDeliveredKeeps ==
  ASSUME TypeInv, NEW s \in Services, RecordDelivered(s)
  PROVE  /\ TypeInv' /\ MessagesGrow /\ Finished(s) /\ UNCHANGED chats
         /\ DOMAIN messages' = DOMAIN messages /\ DOMAIN wakes' = DOMAIN wakes
         /\ \/ UNCHANGED <<messages, wakes>>
            \/ /\ Owns(s) /\ services[s].wake \in DOMAIN wakes
               /\ \A m \in DOMAIN messages : messages'[m] =
                    IF m \in services[s].msgs THEN [messages[m] EXCEPT !.delivered = TRUE]
                    ELSE messages[m]
               /\ wakes'[services[s].wake].state = "delivered"
               /\ \A v \in DOMAIN wakes : v # services[s].wake => wakes'[v] = wakes[v]
<1> DEFINE w == services[s].wake
           f == [m \in DOMAIN messages |->
                   IF m \in services[s].msgs THEN [messages[m] EXCEPT !.delivered = TRUE]
                   ELSE messages[m]]
<1>1. Finished(s) /\ used' \in Used /\ UNCHANGED <<chats, active, live>>
  BY FinishFinishes, UsedStays DEF RecordDelivered, TypeInv
<1>2. CASE UNCHANGED <<messages, wakes>>
  <2>1. DOMAIN messages' = DOMAIN messages /\ DOMAIN wakes' = DOMAIN wakes /\ MessagesGrow
    BY <1>2, MessagesStay
  <2>2. TypeInv'
    BY <1>1, <1>2, MoveKeepsTypes
  <2> QED
    BY <1>1, <1>2, <2>1, <2>2
<1>3. CASE /\ Owns(s) /\ messages' = f
           /\ wakes' = [wakes EXCEPT ![w] =
                [Attempted(@, "delivered") EXCEPT !.quiet = "no"]]
  <2> DEFINE k == [Attempted(wakes[w], "delivered") EXCEPT !.quiet = "no"]
  <2>1. w \in DOMAIN wakes /\ wakes[w] \in Wake
    <3>1. services[s].at # "idle"
      BY DEF RecordDelivered
    <3>2. NamesItsRows(s)
      BY <3>1 DEF TypeInv, References
    <3> QED
      BY <3>2, TypeFacts DEF TypeInv, NamesItsRows
  <2>2. wakes[w].attempts < MaxAttempts
    BY <1>3, <2>1 DEF Owns, TypeInv, AttemptLeft
  <2>3. PICK o \in Services : o = s
    OBVIOUS
  <2>4. k \in Wake
    BY <2>1, <2>2, <2>3, WakeRows
  <2>5. k.state = "delivered"
    BY <2>1, WakeFields DEF Attempted
  <2>6. wakes' = [wakes EXCEPT ![w] = k]
    BY <1>3
  <2> HIDE DEF k
  <2>7. /\ wakes' \in Seq(Wake) /\ Len(wakes') <= MaxWake /\ WakesGrow
        /\ DOMAIN wakes' = DOMAIN wakes /\ AttemptLeft'
        /\ wakes'[w] = k /\ \A v \in DOMAIN wakes : v # w => wakes'[v] = wakes[v]
    BY <2>1, <2>4, <2>5, <2>6, OneWakeRestated
  <2>8. DOMAIN f = DOMAIN messages /\ f = [m \in DOMAIN f |-> f[m]]
    OBVIOUS
  <2>9. \A m \in DOMAIN messages : f[m] =
          IF m \in services[s].msgs THEN [messages[m] EXCEPT !.delivered = TRUE]
          ELSE messages[m]
    OBVIOUS
  <2>10. \A m \in DOMAIN messages : messages[m] \in Message
    BY TypeFacts DEF TypeInv
  <2> HIDE DEF f
  <2>11. \A m \in DOMAIN messages :
           /\ f[m] \in Message /\ f[m].type = messages[m].type /\ f[m].wake = messages[m].wake
           /\ messages[m].delivered => f[m].delivered
    <3> TAKE m \in DOMAIN messages
    <3>1. messages[m] \in Message
      BY <2>10
    <3>2. f[m] = messages[m] \/ f[m] = [messages[m] EXCEPT !.delivered = TRUE]
      BY <2>9
    <3> QED
      BY ONLY <3>1, <3>2, MessageRows
  <2>12. /\ messages' \in Seq(Message) /\ Len(messages') <= MaxMessage /\ MessagesGrow
         /\ DOMAIN messages' = DOMAIN messages
    BY <1>3, <2>8, <2>11, MessagesRestated
  <2>13. \A m \in DOMAIN messages' : messages'[m].wake \in DOMAIN wakes'
    BY <1>3, <2>7, <2>11, <2>12 DEF TypeInv, References
  <2>14. TypeInv'
    BY <1>1, <2>7, <2>12, <2>13, WakeStepKeepsTypes, ChatsStay, ServicesStay
  <2>15. \A m \in DOMAIN messages : messages'[m] =
            IF m \in services[s].msgs THEN [messages[m] EXCEPT !.delivered = TRUE]
            ELSE messages[m]
    BY <1>3, <2>9
  <2> QED
    BY <1>1, <1>3, <2>1, <2>5, <2>7, <2>12, <2>14, <2>15
<1> QED
  BY <1>2, <1>3 DEF RecordDelivered

LEMMA DeferForceNewKeeps ==
  ASSUME TypeInv, NEW s \in Services, DeferForceNew(s)
  PROVE  /\ TypeInv' /\ MessagesGrow /\ Finished(s) /\ UNCHANGED chats
         /\ DOMAIN messages' = DOMAIN messages /\ DOMAIN wakes' = DOMAIN wakes
         /\ \/ UNCHANGED <<messages, wakes>>
            \/ /\ Owns(s) /\ services[s].wake \in DOMAIN wakes
               /\ \A m \in DOMAIN messages : messages'[m] =
                    IF messages[m].wake \in Pending
                    THEN [messages[m] EXCEPT !.wake = services[s].wake] ELSE messages[m]
               /\ wakes'[services[s].wake].state = "pending"
               /\ \A v \in Pending : wakes'[v].state = "cancelled"
               /\ \A v \in DOMAIN wakes \ Pending : v # services[s].wake => wakes'[v] = wakes[v]
<1> DEFINE w == services[s].wake
           f == [m \in DOMAIN messages |->
                   IF messages[m].wake \in Pending THEN [messages[m] EXCEPT !.wake = w]
                   ELSE messages[m]]
           k == [wakes[w] EXCEPT !.state = "pending", !.owner = NoService,
                                 !.expired = FALSE, !.quiet = "no"]
           g == [v \in DOMAIN wakes |->
                   IF v \in Pending THEN Cancelled(wakes[v])
                   ELSE IF v = w THEN k ELSE wakes[v]]
<1>1. Finished(s) /\ used' \in Used /\ UNCHANGED <<chats, active, live>>
  BY FinishFinishes, UsedStays DEF DeferForceNew, TypeInv
<1>2. CASE UNCHANGED <<messages, wakes>>
  <2>1. DOMAIN messages' = DOMAIN messages /\ DOMAIN wakes' = DOMAIN wakes /\ MessagesGrow
    BY <1>2, MessagesStay
  <2>2. TypeInv'
    BY <1>1, <1>2, MoveKeepsTypes
  <2> QED
    BY <1>1, <1>2, <2>1, <2>2
<1>3. CASE Owns(s) /\ messages' = f /\ wakes' = g
  <2>0. \A v \in DOMAIN wakes : wakes[v] \in Wake
    BY TypeFacts DEF TypeInv
  <2>1. w \in DOMAIN wakes /\ wakes[w] \in Wake /\ w \in 1..MaxWake
    <3>1. services[s].at # "idle"
      BY DEF DeferForceNew
    <3>2. NamesItsRows(s)
      BY <3>1 DEF TypeInv, References
    <3> QED
      BY <3>2, TypeFacts DEF TypeInv, NamesItsRows
  <2>2. wakes[w].attempts < MaxAttempts /\ w \notin Pending
    BY <1>3, <2>1 DEF Owns, TypeInv, AttemptLeft, Pending
  <2>3. k \in Wake
    BY <2>1, WakeRows
  <2>4. k.state = "pending" /\ k.attempts = wakes[w].attempts
    BY <2>1, WakeFields
  <2>5. DOMAIN g = DOMAIN wakes /\ g = [v \in DOMAIN g |-> g[v]]
    OBVIOUS
  <2>6. /\ \A v \in Pending : g[v] = Cancelled(wakes[v])
        /\ g[w] = k
        /\ \A v \in DOMAIN wakes \ Pending : v # w => g[v] = wakes[v]
    BY <2>1, <2>2 DEF Pending
  <2> HIDE DEF g, k
  <2>7. ASSUME NEW v \in DOMAIN wakes
        PROVE  /\ g[v] \in Wake
               /\ g[v].state \in {"pending", "delivering"} => g[v].attempts < MaxAttempts
    <3>1. CASE v \in Pending
      BY <2>0, <2>6, <3>1, CancelledFields
    <3>2. CASE v = w
      BY <2>2, <2>3, <2>4, <2>6, <3>2
    <3>3. CASE v \notin Pending /\ v # w
      BY <2>0, <2>6, <3>3 DEF TypeInv, AttemptLeft
    <3> QED
      BY <3>1, <3>2, <3>3
  <2>8. /\ wakes' \in Seq(Wake) /\ Len(wakes') <= MaxWake /\ WakesGrow
        /\ DOMAIN wakes' = DOMAIN wakes /\ AttemptLeft'
    BY <1>3, <2>5, <2>7, WakesRestated
  <2>9. DOMAIN f = DOMAIN messages /\ f = [m \in DOMAIN f |-> f[m]]
    OBVIOUS
  <2>10. \A m \in DOMAIN messages : f[m] =
           IF messages[m].wake \in Pending THEN [messages[m] EXCEPT !.wake = w] ELSE messages[m]
    OBVIOUS
  <2>11. \A m \in DOMAIN messages : messages[m] \in Message
    BY TypeFacts DEF TypeInv
  <2> HIDE DEF f
  <2>12. \A m \in DOMAIN messages :
           /\ f[m] \in Message /\ f[m].type = messages[m].type
           /\ f[m].wake \in {messages[m].wake, w}
           /\ messages[m].delivered => f[m].delivered
    <3> TAKE m \in DOMAIN messages
    <3>1. CASE messages[m].wake \in Pending
      <4>1. f[m] = [messages[m] EXCEPT !.wake = w] /\ messages[m] \in Message
        BY <2>10, <2>11, <3>1
      <4> HIDE DEF w
      <4>2. /\ [messages[m] EXCEPT !.wake = w] \in Message
            /\ [messages[m] EXCEPT !.wake = w].type = messages[m].type
            /\ [messages[m] EXCEPT !.wake = w].wake = w
            /\ [messages[m] EXCEPT !.wake = w].delivered = messages[m].delivered
        BY <2>1, <4>1, MessageRows
      <4> QED
        BY <4>1, <4>2
    <3>2. CASE messages[m].wake \notin Pending
      BY <2>10, <2>11, <3>2
    <3> QED
      BY <3>1, <3>2
  <2>13. /\ messages' \in Seq(Message) /\ Len(messages') <= MaxMessage /\ MessagesGrow
         /\ DOMAIN messages' = DOMAIN messages
    BY <1>3, <2>9, <2>12, MessagesRestated
  <2>14. \A m \in DOMAIN messages' : messages'[m].wake \in DOMAIN wakes'
    BY <1>3, <2>1, <2>8, <2>12, <2>13 DEF TypeInv, References
  <2>15. TypeInv'
    BY <1>1, <2>8, <2>13, <2>14, WakeStepKeepsTypes, ChatsStay, ServicesStay
  <2>16. \A m \in DOMAIN messages : messages'[m] =
           IF messages[m].wake \in Pending THEN [messages[m] EXCEPT !.wake = w] ELSE messages[m]
    BY <1>3, <2>10
  <2>17. /\ wakes'[w].state = "pending"
         /\ \A v \in Pending : wakes'[v].state = "cancelled"
         /\ \A v \in DOMAIN wakes \ Pending : v # w => wakes'[v] = wakes[v]
    BY <1>3, <2>0, <2>4, <2>6, CancelledFields DEF Pending
  <2> QED
    BY <1>1, <1>3, <2>1, <2>8, <2>13, <2>15, <2>16, <2>17
<1> QED
  BY <1>2, <1>3 DEF DeferForceNew

LEMMA RecordFailureKeeps ==
  ASSUME TypeInv, NEW s \in Services, RecordFailure(s)
  PROVE  /\ TypeInv' /\ Finished(s) /\ UNCHANGED messages /\ ChatsGrow /\ NoNewPrompt
         /\ DOMAIN wakes' = DOMAIN wakes
         /\ \/ UNCHANGED wakes
            \/ /\ Owns(s) /\ services[s].wake \in DOMAIN wakes
               /\ \/ wakes'[services[s].wake].state = "failed"
                  \/ wakes'[services[s].wake].state = "pending" /\ Pending = {}
               /\ \A v \in DOMAIN wakes : v # services[s].wake => wakes'[v] = wakes[v]
<1> DEFINE w == services[s].wake
<1>1. Finished(s) /\ used' \in Used /\ UNCHANGED messages
  BY FinishFinishes, UsedStays DEF RecordFailure, TypeInv
<1>2. /\ chats' \in Seq(Chat) /\ ChatsGrow /\ NoNewPrompt
      /\ active' \in 0..Len(chats') /\ live' \in BOOLEAN /\ (live' => active' # 0)
  <2>1. CASE UNCHANGED <<chats, active, live>>
    BY <2>1, ChatsStay
  <2>2. CASE active # 0 /\ Displace
    <3>1. /\ chats' \in Seq(Chat) /\ ChatsGrow /\ NoNewPrompt /\ Len(chats') = Len(chats)
          /\ active' = 0 /\ live' = FALSE
      BY <2>2, DisplaceKeeps
    <3>2. active' \in 0..Len(chats')
      BY <3>1, TypeFacts DEF TypeInv
    <3> QED
      BY <3>1, <3>2
  <2> QED
    BY <2>1, <2>2 DEF RecordFailure
<1>3. /\ wakes' \in Seq(Wake) /\ Len(wakes') <= MaxWake /\ WakesGrow
      /\ DOMAIN wakes' = DOMAIN wakes /\ AttemptLeft'
      /\ \/ UNCHANGED wakes
         \/ /\ Owns(s) /\ w \in DOMAIN wakes
            /\ \/ wakes'[w].state = "failed"
               \/ wakes'[w].state = "pending" /\ Pending = {}
            /\ \A v \in DOMAIN wakes : v # w => wakes'[v] = wakes[v]
  <2>1. CASE UNCHANGED wakes
    BY <2>1, WakesStay
  <2>2. CASE Owns(s) /\ ~UNCHANGED wakes
    <3>1. w \in DOMAIN wakes /\ wakes[w] \in Wake
      <4>1. services[s].at # "idle"
        BY DEF RecordFailure
      <4>2. NamesItsRows(s)
        BY <4>1 DEF TypeInv, References
      <4> QED
        BY <4>2, TypeFacts DEF TypeInv, NamesItsRows
    <3>2. wakes[w].attempts < MaxAttempts /\ wakes[w].attempts \in 0..3
      BY <2>2, <3>1 DEF Owns, TypeInv, AttemptLeft, Wake
    <3>3. CASE ~Terminal(w) /\ Pending = {}
      <4> DEFINE k == [Attempted(wakes[w], "pending") EXCEPT !.waiting = TRUE]
      <4>1. k \in Wake
        BY <3>1, <3>2, WakeRows
      <4>2. k.state = "pending" /\ k.attempts = wakes[w].attempts + 1
        BY <3>1, WakeFields DEF Attempted
      <4>3. wakes' = [wakes EXCEPT ![w] = k]
        BY <2>2, <3>3 DEF RecordFailure
      <4> HIDE DEF k
      <4>4. k.attempts < MaxAttempts
        BY <3>2, <3>3, <4>2 DEF Terminal, MaxAttempts
      <4> QED
        BY <2>2, <3>1, <3>3, <4>1, <4>2, <4>3, <4>4, OneWakeRestated
    <3>4. CASE Terminal(w)
      <4> DEFINE k == [Attempted(wakes[w], "failed") EXCEPT !.quiet = "no"]
      <4>1. k \in Wake
        BY <3>1, <3>2, WakeRows
      <4>2. k.state = "failed"
        BY <3>1, WakeFields DEF Attempted
      <4>3. wakes' = [wakes EXCEPT ![w] = k]
        BY <2>2, <3>4 DEF RecordFailure, Unrecordable
      <4> HIDE DEF k
      <4> QED
        BY <2>2, <3>1, <4>1, <4>2, <4>3, OneWakeRestated
    <3> QED
      BY <2>2, <3>3, <3>4 DEF RecordFailure
  <2> QED
    BY <2>1, <2>2 DEF RecordFailure
<1>4. \A m \in DOMAIN messages' : messages'[m].wake \in DOMAIN wakes'
  BY <1>1, <1>3 DEF TypeInv, References
<1>5. TypeInv'
  BY <1>1, <1>2, <1>3, <1>4, MessagesStay, ServicesStay, WakeStepKeepsTypes
<1> QED
  BY <1>1, <1>2, <1>3, <1>5

LEMMA RecoverWakesKeeps ==
  ASSUME TypeInv, RecoverWakes
  PROVE  /\ TypeInv' /\ MessagesGrow /\ UNCHANGED <<chats, services>>
         /\ DOMAIN messages' = DOMAIN messages
         /\ \E w \in 1..MaxWake :
              /\ JoinedOrNew(w)
              /\ \A m \in DOMAIN messages :
                   \/ messages'[m] = messages[m]
                   \/ m \in Undelivered /\ messages'[m] = [messages[m] EXCEPT !.wake = w]
<1>1. PICK w \in IF Pending = {} THEN {Len(wakes) + 1} ELSE Pending :
        /\ w <= MaxWake
        /\ wakes' = IF w \in DOMAIN wakes THEN wakes ELSE Append(wakes, NewWake(TRUE))
        /\ messages' = [m \in DOMAIN messages |->
             IF \E v \in Recoverable : m \in Unserved(v)
             THEN [messages[m] EXCEPT !.wake = w] ELSE messages[m]]
  BY DEF RecoverWakes
<1> DEFINE f == [m \in DOMAIN messages |->
             IF \E v \in Recoverable : m \in Unserved(v)
             THEN [messages[m] EXCEPT !.wake = w] ELSE messages[m]]
<1>2. Len(wakes) \in Nat /\ DOMAIN wakes = 1..Len(wakes) /\ MaxWake \in Nat
  BY TypeFacts, BoundAssumption DEF TypeInv
<1>3. (Pending = {} /\ w = Len(wakes) + 1 /\ w \notin DOMAIN wakes) \/ w \in Pending
  BY <1>1, <1>2
<1>4. (w \in DOMAIN wakes \/ w = Len(wakes) + 1) /\ w \in 1..MaxWake
  BY <1>1, <1>2, <1>3 DEF Pending
<1>5. /\ wakes' \in Seq(Wake) /\ Len(wakes') <= MaxWake /\ WakesGrow /\ AttemptLeft'
      /\ DOMAIN wakes' = DOMAIN wakes \cup {w}
      /\ \A v \in DOMAIN wakes : wakes'[v] = wakes[v]
      /\ w \notin DOMAIN wakes => wakes'[w].state = "pending"
  BY <1>1, <1>4, WakeAppended
<1>6. wakes'[w].state = "pending"
  BY <1>3, <1>5 DEF Pending
<1>7. /\ DOMAIN f = DOMAIN messages /\ f = [m \in DOMAIN f |-> f[m]] /\ messages' = f
      /\ \A m \in DOMAIN messages :
           \/ f[m] = messages[m]
           \/ m \in Undelivered /\ f[m] = [messages[m] EXCEPT !.wake = w]
  BY <1>1 DEF Unserved, Undelivered
<1> HIDE DEF f
<1>8. \A m \in DOMAIN messages : messages[m] \in Message
  BY TypeFacts DEF TypeInv
<1>9. \A m \in DOMAIN messages :
        /\ f[m] \in Message /\ f[m].type = messages[m].type
        /\ f[m].wake \in {messages[m].wake, w} /\ f[m].delivered = messages[m].delivered
  <2> TAKE m \in DOMAIN messages
  <2>1. CASE f[m] = messages[m]
    BY <1>8, <2>1
  <2>2. CASE f[m] = [messages[m] EXCEPT !.wake = w]
    <3>1. w \in 1..MaxWake /\ messages[m] \in Message
      BY <1>4, <1>8
    <3>2. /\ [messages[m] EXCEPT !.wake = w] \in Message
          /\ [messages[m] EXCEPT !.wake = w].type = messages[m].type
          /\ [messages[m] EXCEPT !.wake = w].wake = w
          /\ [messages[m] EXCEPT !.wake = w].delivered = messages[m].delivered
      BY <3>1, MessageRows
    <3> QED
      BY <2>2, <3>1, <3>2
  <2> QED
    BY <1>7, <2>1, <2>2
<1>10. /\ messages' \in Seq(Message) /\ Len(messages') <= MaxMessage /\ MessagesGrow
       /\ DOMAIN messages' = DOMAIN messages
  BY <1>7, <1>9, MessagesRestated
<1>11. \A m \in DOMAIN messages' : messages'[m].wake \in DOMAIN wakes'
  BY <1>5, <1>7, <1>9, <1>10 DEF TypeInv, References
<1>12. TypeInv' /\ UNCHANGED <<chats, services>>
  BY <1>5, <1>10, <1>11, WakeStepKeepsTypes, ChatsStay, UsedStays, ServicesStay DEF RecoverWakes
<1>13. \A m \in DOMAIN messages :
         \/ messages'[m] = messages[m]
         \/ m \in Undelivered /\ messages'[m] = [messages[m] EXCEPT !.wake = w]
  BY <1>7
<1>14. JoinedOrNew(w)
  BY <1>3, <1>5, <1>6 DEF JoinedOrNew
<1> QED
  BY <1>4, <1>10, <1>12, <1>13, <1>14

(* What a claim makes of a wake before it leases one. *)
Claimable(v, k) ==
  /\ k \in Wake /\ k.attempts = wakes[v].attempts
  /\ \/ k.state = wakes[v].state /\ k.owner = wakes[v].owner
     \/ Pending = {} /\ v \in Expired /\ k.state = "pending"

LEMMA RequeuedRows ==
  ASSUME TypeInv
  PROVE  DOMAIN Requeued = DOMAIN wakes /\ \A v \in DOMAIN wakes : Claimable(v, Requeued[v])
<1>1. DOMAIN Requeued = DOMAIN wakes
  BY DEF Requeued
<1>2. ASSUME NEW v \in DOMAIN wakes
      PROVE  Claimable(v, Requeued[v])
  <2> DEFINE k == [wakes[v] EXCEPT !.state = "pending", !.owner = NoService,
                                   !.expired = FALSE, !.waiting = FALSE]
  <2>1. wakes[v] \in Wake
    BY TypeFacts DEF TypeInv
  <2>2. Requeued[v] = IF Pending = {} /\ v \in Expired THEN k ELSE wakes[v]
    BY DEF Requeued
  <2>3. k \in Wake
    BY <2>1, WakeRowTypes DEF WakeStates
  <2>4. k.state = "pending" /\ k.attempts = wakes[v].attempts
    BY <2>1, WakeFields
  <2> HIDE DEF k
  <2> QED
    BY <2>1, <2>2, <2>3, <2>4 DEF Claimable
<1> QED
  BY <1>1, <1>2

LEMMA ObservedRows ==
  ASSUME NEW rows, DOMAIN rows = DOMAIN wakes,
         \A v \in DOMAIN wakes : Claimable(v, rows[v])
  PROVE  /\ DOMAIN Observed(rows) = DOMAIN wakes
         /\ \A v \in DOMAIN wakes : Claimable(v, Observed(rows)[v])
<1>1. DOMAIN Observed(rows) = DOMAIN wakes
  BY DEF Observed
<1>2. ASSUME NEW v \in DOMAIN wakes
      PROVE  Claimable(v, Observed(rows)[v])
  <2>1. rows[v] \in Wake
    BY DEF Claimable
  <2>2. PICK q \in {"no", "seen", "long"} :
          Observed(rows)[v] = rows[v] \/ Observed(rows)[v] = [rows[v] EXCEPT !.quiet = q]
    <3>1. rows[v].quiet \in {"no", "seen", "long"}
      BY <2>1 DEF Wake
    <3> QED
      BY <3>1 DEF Observed
  <2>3. [rows[v] EXCEPT !.quiet = q] \in Wake
    BY <2>1, WakeRowTypes
  <2>4. /\ [rows[v] EXCEPT !.quiet = q].state = rows[v].state
        /\ [rows[v] EXCEPT !.quiet = q].attempts = rows[v].attempts
        /\ [rows[v] EXCEPT !.quiet = q].owner = rows[v].owner
    BY <2>1, WakeFields
  <2> QED
    BY <2>2, <2>3, <2>4 DEF Claimable
<1> QED
  BY <1>1, <1>2

(* A lease: the wake is the service's, every undelivered message is joined to
   it, and the wakes beside it are claimable rows, or left without a message. *)
Leased(s, w) ==
  /\ services' \in [Services -> Service] /\ OthersStay(s)
  /\ services'[s].at = "look" /\ services'[s].wake = w
  /\ services'[s].msgs = Undelivered /\ services'[s].target = 0
  /\ Joined(w) \cap Undelivered # {}
  /\ wakes'[w].state = "delivering" /\ wakes'[w].owner = s
  /\ \A m \in DOMAIN messages : messages'[m] =
       IF m \in Undelivered THEN [messages[m] EXCEPT !.wake = w] ELSE messages[m]
  /\ \A v \in DOMAIN wakes : v # w =>
       \/ Claimable(v, wakes'[v])
       \/ wakes'[v].state = "cancelled" /\ Joined(v) \subseteq Undelivered

LEMMA LeaseKeeps ==
  ASSUME TypeInv, NEW s \in Services, NEW rows, DOMAIN rows = DOMAIN wakes,
         \A v \in DOMAIN wakes : Claimable(v, rows[v]),
         NEW w \in DOMAIN wakes, wakes[w].state \in {"pending", "delivering"},
         Joined(w) \cap Undelivered # {},
         Lease(s, rows, w), UNCHANGED <<chats, active, live, used>>
  PROVE  /\ TypeInv' /\ MessagesGrow /\ Leased(s, w)
         /\ DOMAIN messages' = DOMAIN messages /\ DOMAIN wakes' = DOMAIN wakes
<1> DEFINE f == [m \in DOMAIN messages |->
                   IF m \in Undelivered THEN [messages[m] EXCEPT !.wake = w] ELSE messages[m]]
           g == [v \in DOMAIN rows |->
                   IF v = w
                   THEN [rows[v] EXCEPT !.state = "delivering", !.owner = s, !.expired = FALSE,
                                        !.waiting = FALSE]
                   ELSE IF rows[v].state = "pending" /\ Joined(v) \ Undelivered = {}
                   THEN Cancelled(rows[v])
                   ELSE rows[v]]
           l == [Idle EXCEPT !.at = "look", !.wake = w, !.msgs = Undelivered,
                             !.kind = Strongest({messages[m].type : m \in Undelivered})]
           k == [rows[w] EXCEPT !.state = "delivering", !.owner = s, !.expired = FALSE,
                                !.waiting = FALSE]
<1>1. messages' = f /\ wakes' = g /\ services' = [services EXCEPT ![s] = l]
  BY DEF Lease
<1>2. \A v \in DOMAIN wakes : rows[v] \in Wake /\ rows[v].attempts = wakes[v].attempts
  BY DEF Claimable
<1>3. /\ k \in Wake /\ k.state = "delivering" /\ k.owner = s /\ k.attempts = wakes[w].attempts
  <2>1. k \in Wake
    BY <1>2, WakeRowTypes DEF WakeStates
  <2> QED
    BY <1>2, <2>1, WakeFields
<1>4. DOMAIN g = DOMAIN wakes /\ g = [v \in DOMAIN g |-> g[v]] /\ g[w] = k
  OBVIOUS
<1>5. \A v \in DOMAIN wakes : v # w =>
        \/ g[v] = rows[v]
        \/ g[v] = Cancelled(rows[v]) /\ Joined(v) \subseteq Undelivered
  OBVIOUS
<1> HIDE DEF g, k
<1>6. ASSUME NEW v \in DOMAIN wakes, v # w
      PROVE  /\ g[v] \in Wake
             /\ g[v].state \in {"pending", "delivering"} => g[v].attempts < MaxAttempts
             /\ \/ Claimable(v, g[v])
                \/ g[v].state = "cancelled" /\ Joined(v) \subseteq Undelivered
  <2>1. CASE g[v] = rows[v]
    <3>1. wakes[v].state \in {"pending", "delivering"} \/ rows[v].state = wakes[v].state
      BY DEF Claimable, Expired
    <3> QED
      BY <1>2, <2>1, <3>1 DEF TypeInv, AttemptLeft
  <2>2. CASE g[v] = Cancelled(rows[v]) /\ Joined(v) \subseteq Undelivered
    BY <1>2, <2>2, CancelledFields
  <2> QED
    BY <1>5, <1>6, <2>1, <2>2
<1>7. \A v \in DOMAIN wakes :
        /\ g[v] \in Wake
        /\ g[v].state \in {"pending", "delivering"} => g[v].attempts < MaxAttempts
  <2> TAKE v \in DOMAIN wakes
  <2>1. CASE v = w
    BY <1>3, <1>4, <2>1 DEF TypeInv, AttemptLeft
  <2> QED
    BY <1>6, <2>1
<1>8. /\ wakes' \in Seq(Wake) /\ Len(wakes') <= MaxWake /\ WakesGrow
      /\ DOMAIN wakes' = DOMAIN wakes /\ AttemptLeft'
  BY <1>1, <1>4, <1>7, WakesRestated
<1>9. /\ DOMAIN f = DOMAIN messages /\ f = [m \in DOMAIN f |-> f[m]]
      /\ \A m \in DOMAIN messages : f[m] =
           IF m \in Undelivered THEN [messages[m] EXCEPT !.wake = w] ELSE messages[m]
  OBVIOUS
<1> HIDE DEF f
<1>10. \A m \in DOMAIN messages : messages[m] \in Message
  BY TypeFacts DEF TypeInv
<1>11. w \in 1..MaxWake
  BY TypeFacts DEF TypeInv
<1>12. \A m \in DOMAIN messages :
         /\ f[m] \in Message /\ f[m].type = messages[m].type
         /\ f[m].wake \in {messages[m].wake, w} /\ f[m].delivered = messages[m].delivered
  <2> TAKE m \in DOMAIN messages
  <2>1. messages[m] \in Message
    BY <1>10
  <2>2. f[m] = messages[m] \/ f[m] = [messages[m] EXCEPT !.wake = w]
    BY <1>9
  <2> QED
    BY ONLY <1>11, <2>1, <2>2, Rejoined
<1>13. /\ messages' \in Seq(Message) /\ Len(messages') <= MaxMessage /\ MessagesGrow
       /\ DOMAIN messages' = DOMAIN messages
  BY <1>1, <1>9, <1>12, MessagesRestated
<1>14. \A m \in DOMAIN messages' : messages'[m].wake \in DOMAIN wakes'
  BY <1>1, <1>8, <1>12, <1>13 DEF TypeInv, References
<1>15. /\ l \in Service /\ l.at = "look" /\ l.wake = w /\ l.msgs = Undelivered
       /\ l.kind = Strongest({messages[m].type : m \in Undelivered}) /\ l.target = 0
  <2>1. w \in Nat
    BY <1>11
  <2>2. Undelivered \subseteq 1..MaxMessage /\ \A z : Strongest(z) \in Declared
    BY TypeFacts DEF Undelivered, TypeInv, Strongest, Declared
  <2> QED
    BY <2>1, <2>2 DEF Idle, Service, Steps
<1> HIDE DEF l
<1>16. services' \in [Services -> Service] /\ OthersStay(s) /\ services'[s] = l
  BY <1>1, <1>15, ServiceSet DEF TypeInv
<1>17. NamesItsRows(s)'
  <2>1. {messages'[m].type : m \in Undelivered} = {messages[m].type : m \in Undelivered}
    BY <1>1, <1>12 DEF Undelivered
  <2>2. 0 \in 0..Len(chats') /\ Undelivered \subseteq DOMAIN messages
    BY TypeFacts DEF TypeInv, Undelivered
  <2> QED
    BY <1>8, <1>13, <1>15, <1>16, <2>1, <2>2 DEF NamesItsRows
<1>18. \A t \in Services : services'[t].at # "idle" =>
         services'[t] = services[t] \/ NamesItsRows(t)'
  BY <1>16, <1>17 DEF OthersStay
<1>19. TypeInv'
  BY <1>8, <1>13, <1>14, <1>16, <1>18, WakeStepKeepsTypes, ChatsStay, UsedStays
<1>20. Leased(s, w)
  BY <1>1, <1>3, <1>4, <1>6, <1>9, <1>15, <1>16 DEF Leased
<1> QED
  BY <1>8, <1>13, <1>19, <1>20

LEMMA ClaimNextKeeps ==
  ASSUME TypeInv, NEW s \in Services, ClaimNext(s)
  PROVE  /\ TypeInv' /\ MessagesGrow /\ UNCHANGED chats /\ ~Collision
         /\ DOMAIN messages' = DOMAIN messages /\ DOMAIN wakes' = DOMAIN wakes
         /\ \/ /\ UNCHANGED <<messages, services>>
               /\ \A v \in DOMAIN wakes : Claimable(v, wakes'[v])
            \/ \E w \in DOMAIN wakes : Leased(s, w)
<1> DEFINE rows == Observed(Requeued)
<1>1. DOMAIN rows = DOMAIN wakes /\ \A v \in DOMAIN wakes : Claimable(v, rows[v])
  BY RequeuedRows, ObservedRows
<1>2. UNCHANGED <<chats, active, live, used>> /\ ~Collision
  BY DEF ClaimNext
<1>3. CASE wakes' = rows /\ UNCHANGED <<messages, services>>
  <2>1. rows = [v \in DOMAIN rows |-> rows[v]]
    BY DEF Observed
  <2> HIDE DEF rows
  <2>2. \A v \in DOMAIN wakes :
          /\ rows[v] \in Wake
          /\ rows[v].state \in {"pending", "delivering"} => rows[v].attempts < MaxAttempts
    BY <1>1 DEF Claimable, Expired, TypeInv, AttemptLeft
  <2>3. /\ wakes' \in Seq(Wake) /\ Len(wakes') <= MaxWake /\ WakesGrow
        /\ DOMAIN wakes' = DOMAIN wakes /\ AttemptLeft'
    BY <1>1, <1>3, <2>1, <2>2, WakesRestated
  <2>4. TypeInv' /\ MessagesGrow /\ DOMAIN messages' = DOMAIN messages
    BY <1>2, <1>3, <2>3, WakeStepKeepsTypes, ChatsStay, UsedStays, MessagesStay, ServicesStay
  <2> QED
    BY <1>1, <1>2, <1>3, <2>3, <2>4
<1>4. CASE \E w \in Ready(Requeued) : IsFirst(w, Ready(Requeued)) /\ Lease(s, rows, w)
  <2>1. PICK w \in Ready(Requeued) : Lease(s, rows, w)
    BY <1>4
  <2> HIDE DEF rows
  <2>2. w \in DOMAIN wakes /\ Joined(w) \cap Undelivered # {}
        /\ Requeued[w].state \in {"pending", "delivering"}
    BY <2>1, RequeuedRows DEF Ready, Candidates
  <2>3. wakes[w].state \in {"pending", "delivering"}
    BY <2>2, RequeuedRows DEF Claimable, Expired
  <2> QED
    BY <1>1, <1>2, <2>1, <2>2, <2>3, LeaseKeeps
<1> QED
  BY <1>3, <1>4 DEF ClaimNext

LEMMA DeliverKeepsTypes ==
  ASSUME TypeInv, NEW s \in Services, Deliver(s) \/ Fault(s) \/ Crash(s)
  PROVE  TypeInv'
<1>1. CASE ClaimNext(s)
  BY <1>1, ClaimNextKeeps
<1>2. CASE Look(s) \/ Relook(s) \/ Raced(s) \/ Fault(s)
  BY <1>2, LookMoves, RelookMoves, RacedMoves, FaultMoves, MoveKeepsTypes
<1>3. CASE Crash(s)
  BY <1>3, CrashFinishes, MoveKeepsTypes
<1>4. CASE CloseForWake(s)
  BY <1>4, CloseForWakeKeeps
<1>5. CASE CreateWakeChat(s)
  BY <1>5, CreateWakeChatKeeps
<1>6. CASE EnqueueTurn(s)
  BY <1>6, EnqueueTurnKeeps
<1>7. CASE RecordDelivered(s)
  BY <1>7, RecordDeliveredKeeps
<1>8. CASE DeferForceNew(s)
  BY <1>8, DeferForceNewKeeps
<1>9. CASE RecordFailure(s)
  BY <1>9, RecordFailureKeeps
<1> QED
  BY <1>1, <1>2, <1>3, <1>4, <1>5, <1>6, <1>7, <1>8, <1>9 DEF Deliver

LEMMA NextKeepsTypes ==
  ASSUME TypeInv, [Next]_vars
  PROVE  TypeInv'
<1>1. CASE \E type \in Declared : Send(type)
  BY <1>1, SendKeeps
<1>2. CASE \E m \in DOMAIN messages : MarkRead(m)
  BY <1>2, MarkReadKeeps
<1>3. CASE \E s \in Services : Deliver(s) \/ Fault(s) \/ Crash(s)
  BY <1>3, DeliverKeepsTypes
<1>4. CASE RecoverWakes
  BY <1>4, RecoverWakesKeeps
<1>5. CASE Time
  BY <1>5, TimeKeeps DEF Time
<1>6. CASE TurnStarts
  BY <1>6, TurnStartsKeeps
<1>7. CASE TurnEnds
  BY <1>7, TurnEndsKeeps
<1>8. CASE UserPrompts
  BY <1>8, UserPromptsKeeps
<1>9. CASE UserCloses
  BY <1>9, UserClosesKeeps
<1>10. CASE UserOpens
  BY <1>10, UserOpensKeeps
<1>11. CASE UNCHANGED vars
  <2>1. /\ messages' = messages /\ wakes' = wakes /\ chats' = chats /\ active' = active
        /\ live' = live /\ services' = services /\ used' = used
    BY <1>11 DEF vars
  <2>2. TypeOK'
    BY ONLY TypeInv, <2>1 DEF TypeInv, TypeOK
  <2>3. References'
    BY ONLY TypeInv, <2>1 DEF TypeInv, References, NamesItsRows
  <2>4. AttemptLeft'
    BY ONLY TypeInv, <2>1 DEF TypeInv, AttemptLeft
  <2> QED
    BY <2>2, <2>3, <2>4 DEF TypeInv
<1> QED
  BY <1>1, <1>2, <1>3, <1>4, <1>5, <1>6, <1>7, <1>8, <1>9, <1>10, <1>11 DEF Next

LEMMA InitialTypes ==
  ASSUME Init
  PROVE  TypeInv
<1>1. Idle \in Service /\ Idle.at = "idle"
  BY DEF Idle, Service, Steps, Declared
<1>2. /\ messages \in Seq(Message) /\ wakes \in Seq(Wake) /\ chats \in Seq(Chat)
      /\ Len(messages) = 0 /\ Len(wakes) = 0 /\ Len(chats) = 0
      /\ DOMAIN messages = {} /\ DOMAIN wakes = {} /\ DOMAIN chats = {}
  BY EmptySeq, SeqParts DEF Init
<1>3. TypeOK
  <2>1. /\ Len(messages) <= MaxMessage /\ Len(wakes) <= MaxWake
        /\ used \in [crash : 0..MaxCrash, fault : 0..MaxFault,
                    read : 0..MaxRead, stall : 0..MaxStall, acts : 0..MaxActs]
    BY <1>2, BoundAssumption DEF Init
  <2>2. services \in [Services -> Service] /\ active \in 0..Len(chats)
    BY <1>1, <1>2 DEF Init
  <2>3. live \in BOOLEAN
    BY Zenon DEF Init
  <2> QED
    BY <1>2, <2>1, <2>2, <2>3 DEF TypeOK
<1>4. References
  BY <1>1, <1>2 DEF Init, References
<1>5. AttemptLeft
  BY <1>2 DEF AttemptLeft
<1> QED
  BY <1>3, <1>4, <1>5 DEF TypeInv

LEMMA TypesAlways == Spec => []TypeInv
<1>1. Init => TypeInv
  BY InitialTypes
<1>2. TypeInv /\ [Next]_vars => TypeInv'
  BY NextKeepsTypes
<1> QED
  BY <1>1, <1>2, PTL DEF Spec

(* Rows of messages, wakes, chats and leases always have the shape that the
   tables and the code give them, within the bounds. *)
THEOREM WakeTypesAreKept == Spec => []TypeOK
<1>1. TypeInv => TypeOK
  BY DEF TypeInv
<1> QED
  BY <1>1, TypesAlways, PTL

-----------------------------------------------------------------------------
Inv == TypeInv /\ DeliveryInvariant

(* Where a service goes next, the messages of its lease stay what they were. *)
LEMMA GotoAt ==
  ASSUME TypeInv, NEW s \in Services, NEW x \in Steps, Goto(s, x)
  PROVE  OthersStay(s) /\ services'[s].at = x
BY DEF TypeInv, TypeOK, Service, Goto, OthersStay

LEMMA EnqueueInAt ==
  ASSUME TypeInv, NEW s \in Services, NEW c, EnqueueIn(s, c)
  PROVE  /\ OthersStay(s) /\ services'[s].at = "enqueue" /\ services'[s].target = c
         /\ services'[s].wake = services[s].wake /\ services'[s].kind = services[s].kind
BY DEF TypeInv, TypeOK, Service, EnqueueIn, OthersStay

LEMMA LookedAt ==
  ASSUME TypeInv, NEW s \in Services, NEW x \in Steps,
         services' = [services EXCEPT ![s].at = x, ![s].looked = active]
  PROVE  OthersStay(s) /\ services'[s].at = x
BY DEF TypeInv, TypeOK, Service, OthersStay

(* A force-new delivery goes to the chat of its own wake. *)
AimsAtItsOwn(s) == services[s].kind = "force-new" =>
  /\ services[s].at # "raced"
  /\ services[s].at = "enqueue" => chats[services[s].target].wake = services[s].wake

-----------------------------------------------------------------------------
(* What steps leave alone. *)
LEMMA AimsKept ==
  ASSUME Inv, TypeInv', ChatsGrow, NEW s \in Services, OthersStay(s),
         services'[s].at # "record", AimsAtItsOwn(s)'
  PROVE  RecordedAfterQueued' /\ ForceNewAimsAtItsOwnChat'
<1>1. ASSUME NEW t \in Services, t # s, services[t].at \in {"enqueue", "record"}
      PROVE  services[t].target \in DOMAIN chats
  <2>1. services[t].target \in 0..Len(chats) /\ services[t].target # 0
    BY <1>1 DEF Inv, TypeInv, References, NamesItsRows
  <2> QED
    BY <2>1, TypeFacts DEF Inv, TypeInv
<1>2. ASSUME NEW t \in Services, services'[t].at = "record"
      PROVE  \E i \in DOMAIN chats'[services'[t].target].turns :
               services'[t].msgs = chats'[services'[t].target].turns[i].msgs
  <2>1. t # s /\ services'[t] = services[t]
    BY <1>2 DEF OthersStay
  <2>2. services[t].target \in DOMAIN chats
    BY <1>1, <1>2, <2>1
  <2>3. PICK i \in DOMAIN chats[services[t].target].turns :
          services[t].msgs = chats[services[t].target].turns[i].msgs
    BY <1>2, <2>1 DEF Inv, DeliveryInvariant, RecordedAfterQueued
  <2> QED
    BY <2>1, <2>2, <2>3 DEF ChatsGrow
<1>3. ASSUME NEW t \in Services
      PROVE  AimsAtItsOwn(t)'
  <2>1. CASE t = s
    BY <2>1
  <2>2. CASE t # s
    <3>1. services'[t] = services[t] /\ AimsAtItsOwn(t)
      BY <2>2 DEF OthersStay, Inv, DeliveryInvariant, ForceNewAimsAtItsOwnChat, AimsAtItsOwn
    <3> QED
      BY <1>1, <2>2, <3>1 DEF AimsAtItsOwn, ChatsGrow
  <2> QED
    BY <2>1, <2>2
<1>4. RecordedAfterQueued'
  BY <1>2 DEF RecordedAfterQueued
<1>5. ForceNewAimsAtItsOwnChat'
  BY <1>3 DEF ForceNewAimsAtItsOwnChat, AimsAtItsOwn
<1> QED
  BY <1>4, <1>5

LEMMA AimsStay ==
  ASSUME Inv, TypeInv', ChatsGrow,
         \A t \in Services : services'[t] = services[t] \/ services'[t] = Idle
  PROVE  RecordedAfterQueued' /\ ForceNewAimsAtItsOwnChat'
<1>1. ASSUME NEW t \in Services, services[t].at \in {"enqueue", "record"}
      PROVE  services[t].target \in DOMAIN chats
  <2>1. services[t].target \in 0..Len(chats) /\ services[t].target # 0
    BY <1>1 DEF Inv, TypeInv, References, NamesItsRows
  <2> QED
    BY <2>1, TypeFacts DEF Inv, TypeInv
<1>2. RecordedAfterQueued'
  <2> SUFFICES ASSUME NEW t \in Services, services'[t].at = "record"
               PROVE  \E i \in DOMAIN chats'[services'[t].target].turns :
                 services'[t].msgs = chats'[services'[t].target].turns[i].msgs
    BY DEF RecordedAfterQueued
  <2>1. services'[t] = services[t]
    BY DEF Idle
  <2>2. services[t].target \in DOMAIN chats
    BY <1>1, <2>1
  <2>3. PICK i \in DOMAIN chats[services[t].target].turns :
          services[t].msgs = chats[services[t].target].turns[i].msgs
    BY <2>1 DEF Inv, DeliveryInvariant, RecordedAfterQueued
  <2> QED
    BY <2>1, <2>2, <2>3 DEF ChatsGrow
<1>3. ForceNewAimsAtItsOwnChat'
  <2> SUFFICES ASSUME NEW t \in Services
               PROVE  AimsAtItsOwn(t)'
    BY DEF ForceNewAimsAtItsOwnChat, AimsAtItsOwn
  <2>1. AimsAtItsOwn(t)
    BY DEF Inv, DeliveryInvariant, ForceNewAimsAtItsOwnChat, AimsAtItsOwn
  <2> QED
    BY <1>1, <2>1 DEF AimsAtItsOwn, ChatsGrow, Idle
<1> QED
  BY <1>2, <1>3

LEMMA PromptsStay ==
  ASSUME Inv, TypeInv', MessagesGrow, ChatsGrow, NoNewPrompt
  PROVE  ForceNewInOwnChat'
<1> SUFFICES ASSUME NEW c \in DOMAIN chats', NEW i \in DOMAIN chats'[c].turns,
                    NEW m \in chats'[c].turns[i].msgs, messages'[m].type = "force-new"
             PROVE  chats'[c].wake = chats'[c].turns[i].wake
  BY DEF ForceNewInOwnChat
<1>1. c \in DOMAIN chats /\ i \in DOMAIN chats[c].turns
  BY DEF NoNewPrompt
<1>2. m \in chats[c].turns[i].msgs /\ m \in DOMAIN messages
  BY <1>1 DEF ChatsGrow, Inv, TypeInv, References
<1>3. messages[m].type = "force-new"
  BY <1>2 DEF MessagesGrow
<1>4. chats[c].wake = chats[c].turns[i].wake
  BY <1>1, <1>2, <1>3 DEF Inv, DeliveryInvariant, ForceNewInOwnChat
<1> QED
  BY <1>1, <1>4 DEF ChatsGrow

(* No delivery is recorded. *)
NothingDelivered == \A m \in DOMAIN messages' : messages'[m].delivered =>
  m \in DOMAIN messages /\ messages[m].delivered

LEMMA QueuedStays ==
  ASSUME Inv, TypeInv', MessagesGrow, ChatsGrow, NothingDelivered
  PROVE  DeliveredWasQueued' /\ DeliveredInOrder'
<1>1. DeliveredWasQueued'
  <2> SUFFICES ASSUME NEW m \in DOMAIN messages', messages'[m].delivered
               PROVE  \E c \in DOMAIN chats' : \E i \in DOMAIN chats'[c].turns :
                        m \in chats'[c].turns[i].msgs
    BY DEF DeliveredWasQueued, Undelivered
  <2>1. m \in DOMAIN messages \ Undelivered
    BY DEF NothingDelivered, Undelivered
  <2>2. PICK c \in DOMAIN chats : \E i \in DOMAIN chats[c].turns : m \in chats[c].turns[i].msgs
    BY <2>1 DEF Inv, DeliveryInvariant, DeliveredWasQueued
  <2>3. c \in DOMAIN chats'
    BY <2>2, TypeFacts, TypeFactsNext DEF ChatsGrow, Inv, TypeInv
  <2> QED
    BY <2>2, <2>3 DEF ChatsGrow
<1>2. DeliveredInOrder'
  <2> SUFFICES ASSUME NEW m \in DOMAIN messages', NEW n \in DOMAIN messages',
                      m < n, messages'[n].delivered
               PROVE  messages'[m].delivered
    BY DEF DeliveredInOrder
  <2>1. n \in DOMAIN messages /\ messages[n].delivered
    BY DEF NothingDelivered
  <2>2. m \in DOMAIN messages
    BY <2>1, TypeFacts, TypeFactsNext DEF Inv, TypeInv
  <2>3. messages[m].delivered
    BY <2>1, <2>2 DEF Inv, DeliveryInvariant, DeliveredInOrder
  <2> QED
    BY <2>2, <2>3 DEF MessagesGrow
<1> QED
  BY <1>1, <1>2

(* No lease is taken, or takes other messages. *)
LeasesStay == \A t \in Services : services'[t].at # "idle" =>
  /\ services[t].at # "idle"
  /\ services'[t].wake = services[t].wake /\ services'[t].msgs = services[t].msgs

LEMMA WholeStays ==
  ASSUME Inv, TypeInv', MessagesGrow, LeasesStay
  PROVE  LeasesAreWhole'
<1> SUFFICES ASSUME NEW t \in Services, services'[t].at # "idle",
                    NEW m \in DOMAIN messages', NEW n \in services'[t].msgs, m < n
             PROVE  m \in services'[t].msgs \/ messages'[m].delivered
  BY DEF LeasesAreWhole
<1>1. services[t].at # "idle" /\ services'[t].msgs = services[t].msgs
  BY DEF LeasesStay
<1>2. n \in DOMAIN messages
  BY <1>1 DEF Inv, TypeInv, References, NamesItsRows
<1>3. m \in DOMAIN messages
  BY <1>2, TypeFacts, TypeFactsNext DEF Inv, TypeInv
<1>4. m \in services[t].msgs \/ messages[m].delivered
  BY <1>1, <1>3 DEF Inv, DeliveryInvariant, LeasesAreWhole
<1> QED
  BY <1>1, <1>3, <1>4 DEF MessagesGrow

(* A wake that is owned gets no other message. *)
OwnedStay == \A t \in Services : services'[t].at # "idle" /\ Owns(t)' =>
  /\ Owns(t)
  /\ \A m \in DOMAIN messages' :
       messages'[m].wake = services'[t].wake /\ ~messages'[m].delivered =>
         m \in DOMAIN messages /\ messages[m].wake = services[t].wake /\ ~messages[m].delivered

LEMMA OwnersStay ==
  ASSUME Inv, LeasesStay, OwnedStay
  PROVE  OwnersHoldTheMessages'
<1> SUFFICES ASSUME NEW t \in Services, services'[t].at # "idle", Owns(t)',
                    NEW m \in DOMAIN messages', messages'[m].wake = services'[t].wake,
                    ~messages'[m].delivered
             PROVE  m \in services'[t].msgs
  BY DEF OwnersHoldTheMessages, Joined, Undelivered
<1>1. /\ services[t].at # "idle" /\ services'[t].msgs = services[t].msgs
      /\ Owns(t) /\ m \in DOMAIN messages /\ messages[m].wake = services[t].wake
      /\ ~messages[m].delivered
  BY DEF LeasesStay, OwnedStay
<1>2. m \in Joined(services[t].wake) \cap Undelivered
  BY <1>1 DEF Joined, Undelivered
<1> QED
  BY <1>1, <1>2 DEF Inv, DeliveryInvariant, OwnersHoldTheMessages

(* A step of the chats or of a service that changes no row. *)
LEMMA RowsStay ==
  ASSUME Inv, TypeInv', UNCHANGED <<messages, wakes>>, ChatsGrow, LeasesStay
  PROVE  /\ OnePendingWake' /\ IntentKept' /\ LeasesAreWhole' /\ OwnersHoldTheMessages'
         /\ DeliveredWasQueued' /\ DeliveredInOrder'
<1>1. MessagesGrow /\ NothingDelivered
  BY MessagesStay DEF Inv, NothingDelivered
<1>2. OwnedStay
  BY DEF OwnedStay, Owns, LeasesStay
<1>3. OnePendingWake'
  BY DEF Inv, DeliveryInvariant, OnePendingWake, Pending
<1>4. IntentKept'
  BY DEF Inv, DeliveryInvariant, IntentKept, Undelivered
<1> QED
  BY <1>1, <1>2, <1>3, <1>4, QueuedStays, WholeStays, OwnersStay

-----------------------------------------------------------------------------
(* The chats and the services that are on their way. *)
LEMMA ChatStepInv ==
  ASSUME Inv, TurnStarts \/ TurnEnds \/ UserPrompts \/ UserCloses \/ UserOpens
  PROVE  Inv'
<1>1. TypeInv' /\ MessagesGrow /\ ChatsGrow /\ NoNewPrompt
  BY TurnStartsKeeps, TurnEndsKeeps, UserPromptsKeeps, UserClosesKeeps, UserOpensKeeps DEF Inv
<1>2. UNCHANGED <<messages, wakes, services>>
  BY DEF TurnStarts, TurnEnds, UserPrompts, UserCloses, UserOpens
<1>3. LeasesStay
  BY <1>2 DEF LeasesStay
<1> QED
  BY <1>1, <1>2, <1>3, RowsStay, AimsStay, PromptsStay DEF Inv, DeliveryInvariant, TypeInv

LEMMA LookAims ==
  ASSUME Inv, NEW s \in Services, Look(s)
  PROVE  services'[s].at # "record" /\ AimsAtItsOwn(s)'
<1>1. TypeInv /\ UNCHANGED chats
  BY DEF Inv, Look
<1>2. CASE /\ EnqueueIn(s, active)
           /\ services[s].kind = "force-new" => BelongsToWake(active, services[s].wake)
  BY <1>1, <1>2, EnqueueInAt DEF AimsAtItsOwn, BelongsToWake
<1>3. CASE Goto(s, "defer")
  BY <1>1, <1>3, GotoAt DEF AimsAtItsOwn, Steps
<1>4. CASE \E x \in {"relook", "close", "create"} :
             services' = [services EXCEPT ![s].at = x, ![s].looked = active]
  BY <1>1, <1>4, LookedAt DEF AimsAtItsOwn, Steps
<1> QED
  BY <1>2, <1>3, <1>4 DEF Look, Rotate

LEMMA RelookAims ==
  ASSUME Inv, NEW s \in Services, Relook(s)
  PROVE  services'[s].at # "record" /\ AimsAtItsOwn(s)'
<1>1. TypeInv /\ UNCHANGED chats
  BY DEF Inv, Relook
<1>2. CASE /\ EnqueueIn(s, active)
           /\ BelongsToWake(active, services[s].wake)
  BY <1>1, <1>2, EnqueueInAt DEF AimsAtItsOwn, BelongsToWake
<1>3. CASE Goto(s, "defer")
  BY <1>1, <1>3, GotoAt DEF AimsAtItsOwn, Steps
<1>4. CASE \E x \in {"close", "create"} :
             services' = [services EXCEPT ![s].at = x, ![s].looked = active]
  BY <1>1, <1>4, LookedAt DEF AimsAtItsOwn, Steps
<1> QED
  BY <1>2, <1>3, <1>4 DEF Relook, Rotate

LEMMA RacedAims ==
  ASSUME Inv, NEW s \in Services, Raced(s)
  PROVE  services'[s].at # "record" /\ AimsAtItsOwn(s)'
<1>1. TypeInv /\ services[s].kind # "force-new"
  BY DEF Inv, DeliveryInvariant, ForceNewAimsAtItsOwnChat, Raced
<1>2. CASE EnqueueIn(s, active)
  BY <1>1, <1>2, EnqueueInAt DEF AimsAtItsOwn
<1>3. CASE Goto(s, "fail")
  BY <1>1, <1>3, GotoAt DEF AimsAtItsOwn, Steps
<1> QED
  BY <1>2, <1>3 DEF Raced

LEMMA FaultAims ==
  ASSUME Inv, NEW s \in Services, Fault(s)
  PROVE  services'[s].at # "record" /\ AimsAtItsOwn(s)'
BY GotoAt DEF Inv, Fault, AimsAtItsOwn, Steps

LEMMA CloseAims ==
  ASSUME Inv, NEW s \in Services, CloseForWake(s)
  PROVE  services'[s].at # "record" /\ AimsAtItsOwn(s)'
<1>1. CASE Goto(s, Yield(s))
  <2>1. Moved(s)
    BY CloseForWakeKeeps DEF Inv
  <2>2. services'[s].at = Yield(s)
    BY <1>1, GotoAt DEF Inv, Yield, Steps
  <2> QED
    BY <2>1, <2>2 DEF Moved, Yield, AimsAtItsOwn
<1>2. CASE Goto(s, "create")
  BY <1>2, GotoAt DEF Inv, AimsAtItsOwn, Steps
<1> QED
  BY <1>1, <1>2 DEF CloseForWake

LEMMA CreateAims ==
  ASSUME Inv, NEW s \in Services, CreateWakeChat(s)
  PROVE  services'[s].at # "record" /\ AimsAtItsOwn(s)'
<1>1. CASE Goto(s, Yield(s))
  <2>1. Moved(s)
    BY CreateWakeChatKeeps DEF Inv
  <2>2. services'[s].at = Yield(s)
    BY <1>1, GotoAt DEF Inv, Yield, Steps
  <2> QED
    BY <2>1, <2>2 DEF Moved, Yield, AimsAtItsOwn
<1>2. CASE Goto(s, "fail")
  BY <1>2, GotoAt DEF Inv, AimsAtItsOwn, Steps
<1>3. CASE /\ chats' = Append(chats, [wake |-> services[s].wake, open |-> TRUE, turns |-> <<>>])
           /\ EnqueueIn(s, Len(chats) + 1)
  <2> DEFINE k == [wake |-> services[s].wake, open |-> TRUE, turns |-> <<>>]
  <2>1. services'[s].at = "enqueue" /\ services'[s].target = Len(chats) + 1
        /\ services'[s].wake = services[s].wake
    BY <1>3, EnqueueInAt DEF Inv
  <2>2. chats \in Seq(Chat) /\ services[s].wake \in Nat
    BY DEF Inv, TypeInv, TypeOK, Service
  <2>3. <<>> \in Seq(Turn)
    BY EmptySeq
  <2>4. k \in Chat /\ k.wake = services[s].wake
    BY <2>2, <2>3, Zenon DEF Chat
  <2> HIDE DEF k
  <2>5. chats'[Len(chats) + 1] = k
    BY <1>3, <2>2, <2>4, SeqAppended DEF k
  <2> QED
    BY <2>1, <2>4, <2>5 DEF AimsAtItsOwn
<1> QED
  BY <1>1, <1>2, <1>3 DEF CreateWakeChat

LEMMA MoveStepInv ==
  ASSUME Inv, NEW s \in Services,
         \/ Look(s) \/ Relook(s) \/ Raced(s) \/ Fault(s)
         \/ CloseForWake(s) \/ CreateWakeChat(s)
  PROVE  Inv'
<1>1. services'[s].at # "record" /\ AimsAtItsOwn(s)'
  BY LookAims, RelookAims, RacedAims, FaultAims, CloseAims, CreateAims
<1>2. TypeInv' /\ Moved(s) /\ MessagesGrow /\ ChatsGrow /\ NoNewPrompt
  BY LookMoves, RelookMoves, RacedMoves, FaultMoves, MoveKeepsTypes, AllGrow,
     CloseForWakeKeeps, CreateWakeChatKeeps DEF Inv
<1>3. UNCHANGED <<messages, wakes>> /\ services[s].at # "idle"
  BY DEF Look, Relook, Raced, Fault, CloseForWake, CreateWakeChat
<1>4. LeasesStay
  BY <1>2, <1>3 DEF LeasesStay, Moved, OthersStay
<1>5. OthersStay(s)
  BY <1>2 DEF Moved
<1> QED
  BY <1>1, <1>2, <1>3, <1>4, <1>5, RowsStay, AimsKept, PromptsStay
     DEF Inv, DeliveryInvariant, TypeInv

LEMMA CrashInv ==
  ASSUME Inv, NEW s \in Services, Crash(s)
  PROVE  Inv'
<1>1. Finished(s) /\ TypeInv' /\ MessagesGrow /\ ChatsGrow /\ NoNewPrompt
      /\ UNCHANGED <<messages, wakes>>
  BY CrashFinishes, MoveKeepsTypes, AllGrow DEF Inv
<1>2. LeasesStay /\ \A t \in Services : services'[t] = services[t] \/ services'[t] = Idle
  BY <1>1 DEF LeasesStay, Finished, OthersStay, Idle
<1> QED
  BY <1>1, <1>2, RowsStay, AimsStay, PromptsStay DEF Inv, DeliveryInvariant, TypeInv

-----------------------------------------------------------------------------
(* The turn is queued, or found again. *)
LEMMA QueuedOrFound ==
  ASSUME Inv, NEW s \in Services, EnqueueTurn(s), services'[s].at = "record"
  PROVE  LET c == services[s].target IN
         \E i \in DOMAIN chats'[c].turns :
           services[s].msgs = chats'[c].turns[i].msgs
<1> DEFINE c == services[s].target
<1>1. TypeInv /\ services[s].at = "enqueue"
  BY DEF Inv, EnqueueTurn
<1>2. CASE chats' = [chats EXCEPT ![c].turns = Append(@, NewPrompt(s))]
  <2> DEFINE j == Len(chats[c].turns) + 1
  <2>1. j \in DOMAIN chats'[c].turns /\ chats'[c].turns[j] = NewPrompt(s)
    BY <1>1, <1>2, PromptAdded
  <2>2. NewPrompt(s).msgs = services[s].msgs
    BY DEF NewPrompt
  <2> HIDE DEF j
  <2> QED
    BY <2>1, <2>2
<1>3. CASE UNCHANGED chats /\ SameKey(s) # {} /\ Goto(s, IF SamePrompt(s) THEN "record" ELSE "fail")
  <2>1. SamePrompt(s)
    <3>1. CASE ~SamePrompt(s)
      <4>1. services'[s].at = "fail"
        BY <1>1, <1>3, <3>1, GotoAt DEF Steps
      <4> QED
        BY <4>1
    <3> QED
      BY <3>1
  <2>2. PICK i \in SameKey(s) : chats[c].turns[i].msgs = services[s].msgs
    BY <1>3, <2>1 DEF SamePrompt
  <2>3. i \in DOMAIN chats'[c].turns
    BY <1>3, <2>2 DEF SameKey
  <2> QED
    BY <1>3, <2>2, <2>3
<1>4. CASE Goto(s, "fail")
  <2>1. services'[s].at = "fail"
    BY <1>1, <1>4, GotoAt DEF Steps
  <2> QED
    BY <2>1
<1> QED
  BY <1>2, <1>3, <1>4 DEF EnqueueTurn, NewPrompt

LEMMA EnqueueTurnInv ==
  ASSUME Inv, NEW s \in Services, EnqueueTurn(s)
  PROVE  Inv'
<1> DEFINE c == services[s].target
<1>1. /\ TypeInv' /\ Moved(s) /\ MessagesGrow /\ ChatsGrow
      /\ services'[s].target = c /\ services'[s].at \in {"record", "fail"}
  BY EnqueueTurnKeeps DEF Inv
<1>2. UNCHANGED <<messages, wakes>> /\ services[s].at = "enqueue"
  BY DEF EnqueueTurn
<1>3. LeasesStay
  BY <1>1, <1>2 DEF LeasesStay, Moved, OthersStay
<1>4. /\ OnePendingWake' /\ IntentKept' /\ LeasesAreWhole' /\ OwnersHoldTheMessages'
      /\ DeliveredWasQueued' /\ DeliveredInOrder'
  BY <1>1, <1>2, <1>3, RowsStay
<1>5. NamesItsRows(s)
  BY <1>2 DEF Inv, TypeInv, References
<1>6. RecordedAfterQueued'
  <2> SUFFICES ASSUME NEW t \in Services, services'[t].at = "record"
               PROVE  \E i \in DOMAIN chats'[services'[t].target].turns :
                 services'[t].msgs = chats'[services'[t].target].turns[i].msgs
    BY DEF RecordedAfterQueued
  <2>1. CASE t = s
    BY <1>1, <2>1, QueuedOrFound DEF Moved
  <2>2. CASE t # s
    <3>1. services'[t] = services[t]
      BY <1>1, <2>2 DEF Moved, OthersStay
    <3>2. services[t].target \in 0..Len(chats) /\ services[t].target # 0
      BY <3>1 DEF Inv, TypeInv, References, NamesItsRows
    <3>3. services[t].target \in DOMAIN chats
      BY <3>2, TypeFacts DEF Inv, TypeInv
    <3>4. PICK i \in DOMAIN chats[services[t].target].turns :
            services[t].msgs = chats[services[t].target].turns[i].msgs
      BY <3>1 DEF Inv, DeliveryInvariant, RecordedAfterQueued
    <3> QED
      BY <1>1, <3>1, <3>3, <3>4 DEF ChatsGrow
  <2> QED
    BY <2>1, <2>2
<1>7. ForceNewAimsAtItsOwnChat'
  <2> SUFFICES ASSUME NEW t \in Services
               PROVE  AimsAtItsOwn(t)'
    BY DEF ForceNewAimsAtItsOwnChat, AimsAtItsOwn
  <2>1. CASE t = s
    BY <1>1, <2>1 DEF AimsAtItsOwn
  <2>2. CASE t # s
    <3>1. services'[t] = services[t] /\ AimsAtItsOwn(t)
      BY <1>1, <2>2 DEF Moved, OthersStay, Inv, DeliveryInvariant, ForceNewAimsAtItsOwnChat,
                        AimsAtItsOwn
    <3>2. services[t].at = "enqueue" => services[t].target \in DOMAIN chats
      <4>1. services[t].at = "enqueue" => services[t].target \in 0..Len(chats) /\ services[t].target # 0
        BY DEF Inv, TypeInv, References, NamesItsRows
      <4> QED
        BY <4>1, TypeFacts DEF Inv, TypeInv
    <3> QED
      BY <1>1, <3>1, <3>2 DEF AimsAtItsOwn, ChatsGrow
  <2> QED
    BY <2>1, <2>2
<1>8. ForceNewInOwnChat'
  <2>1. CASE UNCHANGED chats
    <3>1. NoNewPrompt
      BY <2>1, Stays DEF Inv, TypeInv
    <3> QED
      BY <1>1, <3>1, PromptsStay
  <2>2. CASE chats' = [chats EXCEPT ![c].turns = Append(@, NewPrompt(s))]
    <3> DEFINE j == Len(chats[c].turns) + 1
    <3>1. /\ DOMAIN chats' = DOMAIN chats /\ c \in DOMAIN chats
          /\ DOMAIN chats'[c].turns = DOMAIN chats[c].turns \cup {j}
          /\ chats'[c].turns[j] = NewPrompt(s)
          /\ \A d \in DOMAIN chats : d # c => chats'[d] = chats[d]
      BY <1>2, <2>2, PromptAdded DEF Inv
    <3> HIDE DEF j
    <3> SUFFICES ASSUME NEW d \in DOMAIN chats', NEW i \in DOMAIN chats'[d].turns,
                        NEW m \in chats'[d].turns[i].msgs, messages[m].type = "force-new"
                 PROVE  chats'[d].wake = chats'[d].turns[i].wake
      BY <1>2 DEF ForceNewInOwnChat
    <3>2. CASE d = c /\ i = j
      <4>1. chats'[d].turns[i].msgs = services[s].msgs /\ chats'[d].turns[i].wake = services[s].wake
        BY <3>1, <3>2 DEF NewPrompt
      <4>2. "force-new" \in {messages[n].type : n \in services[s].msgs}
        BY <4>1
      <4>3. services[s].kind = "force-new"
        BY <1>5, <4>2 DEF NamesItsRows, Strongest
      <4>4. chats[c].wake = services[s].wake
        BY <1>2, <4>3 DEF Inv, DeliveryInvariant, ForceNewAimsAtItsOwnChat
      <4> QED
        BY <1>1, <3>1, <3>2, <4>1, <4>4 DEF ChatsGrow
    <3>3. CASE ~(d = c /\ i = j)
      <4>1. d \in DOMAIN chats /\ i \in DOMAIN chats[d].turns
        BY <3>1, <3>3
      <4>2. m \in chats[d].turns[i].msgs
        BY <1>1, <4>1 DEF ChatsGrow
      <4>3. chats[d].wake = chats[d].turns[i].wake
        BY <4>1, <4>2 DEF Inv, DeliveryInvariant, ForceNewInOwnChat
      <4> QED
        BY <1>1, <4>1, <4>3 DEF ChatsGrow
    <3> QED
      BY <3>2, <3>3
  <2> QED
    BY <2>1, <2>2 DEF EnqueueTurn, NewPrompt
<1> QED
  BY <1>1, <1>4, <1>6, <1>7, <1>8 DEF Inv, DeliveryInvariant, TypeInv

-----------------------------------------------------------------------------
(* The messages and the wakes. *)
LEMMA RowStep ==
  ASSUME Inv, TypeInv', MessagesGrow, ChatsGrow, NoNewPrompt,
         \A t \in Services : services'[t] = services[t] \/ services'[t] = Idle,
         NothingDelivered, OwnedStay, OnePendingWake', IntentKept'
  PROVE  Inv'
<1>1. LeasesStay
  BY DEF LeasesStay, Idle
<1> QED
  BY <1>1, QueuedStays, WholeStays, OwnersStay, AimsStay, PromptsStay
     DEF Inv, DeliveryInvariant, TypeInv

LEMMA StillOnePending ==
  ASSUME Inv, NEW w, JoinedOrNew(w)
  PROVE  OnePendingWake'
BY DEF JoinedOrNew, OnePendingWake, Pending, Inv, DeliveryInvariant

LEMMA SendInv ==
  ASSUME Inv, NEW type \in Declared, Send(type)
  PROVE  Inv'
<1> DEFINE new == Len(messages) + 1
           w == messages'[new].wake
<1>1. /\ TypeInv' /\ MessagesGrow /\ UNCHANGED <<chats, services>>
      /\ DOMAIN messages' = DOMAIN messages \cup {new}
      /\ \A m \in DOMAIN messages : messages'[m] = messages[m]
      /\ ~messages'[new].delivered /\ JoinedOrNew(w)
  BY SendKeeps DEF Inv
<1> HIDE DEF new
<1>2. ChatsGrow /\ NoNewPrompt
  BY <1>1, Stays DEF Inv, TypeInv
<1>3. NothingDelivered
  BY <1>1 DEF NothingDelivered
<1>4. OnePendingWake'
  BY <1>1, StillOnePending
<1>5. OwnedStay
  <2> SUFFICES ASSUME NEW t \in Services, services'[t].at # "idle", Owns(t)'
               PROVE  /\ Owns(t)
                      /\ \A m \in DOMAIN messages' :
                           messages'[m].wake = services'[t].wake /\ ~messages'[m].delivered =>
                             /\ m \in DOMAIN messages
                             /\ messages[m].wake = services[t].wake /\ ~messages[m].delivered
    BY DEF OwnedStay
  <2>1. services[t].wake \in DOMAIN wakes
    BY <1>1 DEF Inv, TypeInv, References, NamesItsRows
  <2>2. Owns(t) /\ services[t].wake # w
    BY <1>1, <2>1 DEF JoinedOrNew, Owns
  <2> QED
    BY <1>1, <2>2
<1>6. IntentKept'
  <2> SUFFICES ASSUME NEW m \in DOMAIN messages', ~messages'[m].delivered
               PROVE  \/ messages'[m].read
                      \/ wakes'[messages'[m].wake].state \in {"pending", "delivering", "failed"}
    BY DEF IntentKept, Undelivered
  <2>1. CASE m = new
    BY <1>1, <2>1 DEF JoinedOrNew
  <2>2. CASE m \in DOMAIN messages
    <3>1. messages[m].wake \in DOMAIN wakes /\ m \in Undelivered /\ messages'[m] = messages[m]
      BY <1>1, <2>2 DEF Inv, TypeInv, References, Undelivered
    <3> QED
      BY <1>1, <3>1 DEF Inv, DeliveryInvariant, IntentKept, JoinedOrNew
  <2> QED
    BY <1>1, <2>1, <2>2
<1> QED
  BY <1>1, <1>2, <1>3, <1>4, <1>5, <1>6, RowStep

LEMMA RecoverWakesInv ==
  ASSUME Inv, RecoverWakes
  PROVE  Inv'
<1>1. /\ TypeInv' /\ MessagesGrow /\ UNCHANGED <<chats, services>>
      /\ DOMAIN messages' = DOMAIN messages
  BY RecoverWakesKeeps DEF Inv
<1>2. PICK w \in 1..MaxWake :
        /\ JoinedOrNew(w)
        /\ \A m \in DOMAIN messages :
             \/ messages'[m] = messages[m]
             \/ m \in Undelivered /\ messages'[m] = [messages[m] EXCEPT !.wake = w]
  BY RecoverWakesKeeps DEF Inv
<1>3. \A m \in DOMAIN messages :
        \/ messages'[m] = messages[m]
        \/ /\ m \in Undelivered /\ messages'[m].wake = w
           /\ messages'[m].delivered = messages[m].delivered
  <2> TAKE m \in DOMAIN messages
  <2>1. messages[m] \in Message
    BY TypeFacts DEF Inv, TypeInv
  <2>2. /\ [messages[m] EXCEPT !.wake = w].wake = w
        /\ [messages[m] EXCEPT !.wake = w].delivered = messages[m].delivered
    BY <2>1, MessageRows
  <2> QED
    BY <1>2, <2>2
<1>4. ChatsGrow /\ NoNewPrompt
  BY <1>1, Stays DEF Inv, TypeInv
<1>5. NothingDelivered
  BY <1>1, <1>3 DEF NothingDelivered
<1>6. OnePendingWake'
  BY <1>2, StillOnePending
<1>7. OwnedStay
  <2> SUFFICES ASSUME NEW t \in Services, services'[t].at # "idle", Owns(t)'
               PROVE  /\ Owns(t)
                      /\ \A m \in DOMAIN messages' :
                           messages'[m].wake = services'[t].wake /\ ~messages'[m].delivered =>
                             /\ m \in DOMAIN messages
                             /\ messages[m].wake = services[t].wake /\ ~messages[m].delivered
    BY DEF OwnedStay
  <2>1. services[t].wake \in DOMAIN wakes
    BY <1>1 DEF Inv, TypeInv, References, NamesItsRows
  <2>2. Owns(t) /\ services[t].wake # w
    BY <1>1, <1>2, <2>1 DEF JoinedOrNew, Owns
  <2> QED
    BY <1>1, <1>3, <2>2
<1>8. IntentKept'
  <2> SUFFICES ASSUME NEW m \in DOMAIN messages', ~messages'[m].delivered
               PROVE  \/ messages'[m].read
                      \/ wakes'[messages'[m].wake].state \in {"pending", "delivering", "failed"}
    BY DEF IntentKept, Undelivered
  <2>1. CASE messages'[m].wake = w
    BY <1>2, <2>1 DEF JoinedOrNew
  <2>2. CASE messages'[m] = messages[m]
    <3>1. messages[m].wake \in DOMAIN wakes /\ m \in Undelivered
      BY <1>1, <2>2 DEF Inv, TypeInv, References, Undelivered
    <3> QED
      BY <1>2, <2>2, <3>1 DEF Inv, DeliveryInvariant, IntentKept, JoinedOrNew
  <2> QED
    BY <1>1, <1>3, <2>1, <2>2
<1> QED
  BY <1>1, <1>4, <1>5, <1>6, <1>7, <1>8, RowStep

LEMMA TimeInv ==
  ASSUME Inv, NEW w \in DOMAIN wakes, LeaseExpires(w) \/ BackoffEnds(w) \/ QuietPasses(w)
  PROVE  Inv'
<1>1. /\ TypeInv' /\ UNCHANGED <<messages, chats, services>>
      /\ DOMAIN wakes' = DOMAIN wakes
      /\ \A v \in DOMAIN wakes : /\ wakes'[v].state = wakes[v].state
                                 /\ wakes'[v].owner = wakes[v].owner
  BY TimeKeeps DEF Inv
<1>2. MessagesGrow /\ ChatsGrow /\ NoNewPrompt
  BY <1>1, Stays DEF Inv, TypeInv
<1>3. NothingDelivered
  BY <1>1 DEF NothingDelivered
<1>4. OnePendingWake'
  BY <1>1 DEF OnePendingWake, Pending, Inv, DeliveryInvariant
<1>5. OwnedStay
  BY <1>1 DEF OwnedStay, Owns, Inv, TypeInv, References, NamesItsRows
<1>6. IntentKept'
  BY <1>1 DEF IntentKept, Undelivered, Inv, DeliveryInvariant, TypeInv, References
<1> QED
  BY <1>1, <1>2, <1>3, <1>4, <1>5, <1>6, RowStep

LEMMA MarkReadInv ==
  ASSUME Inv, NEW m \in DOMAIN messages, MarkRead(m)
  PROVE  Inv'
<1> DEFINE w == messages[m].wake
<1>1. /\ TypeInv' /\ MessagesGrow /\ ChatsGrow /\ NoNewPrompt
      /\ DOMAIN messages' = DOMAIN messages /\ w \in DOMAIN wakes
      /\ \A n \in DOMAIN messages : messages'[n] =
           IF n = m THEN [messages[n] EXCEPT !.read = TRUE] ELSE messages[n]
      /\ \/ UNCHANGED wakes
         \/ /\ wakes' = [wakes EXCEPT ![w] = Cancelled(@)]
            /\ \A n \in Joined(w) \ {m} : messages[n].read
  BY MarkReadKeeps DEF Inv
<1>2. UNCHANGED services
  BY DEF MarkRead
<1>3. \A n \in DOMAIN messages :
        /\ messages'[n].wake = messages[n].wake
        /\ messages'[n].delivered = messages[n].delivered
        /\ n = m \/ messages[n].read => messages'[n].read
  <2> TAKE n \in DOMAIN messages
  <2>1. messages[n] \in Message
    BY TypeFacts DEF Inv, TypeInv
  <2>2. /\ [messages[n] EXCEPT !.read = TRUE].wake = messages[n].wake
        /\ [messages[n] EXCEPT !.read = TRUE].delivered = messages[n].delivered
        /\ [messages[n] EXCEPT !.read = TRUE].read
    BY <2>1 DEF Message
  <2> QED
    BY <1>1, <2>2
<1>4. \/ UNCHANGED wakes
      \/ /\ wakes'[w].state = "cancelled"
         /\ \A v \in DOMAIN wakes : v # w => wakes'[v] = wakes[v]
         /\ DOMAIN wakes' = DOMAIN wakes
         /\ \A n \in Joined(w) \ {m} : messages[n].read
  <2>1. wakes[w] \in Wake
    BY <1>1, TypeFacts DEF Inv, TypeInv
  <2>2. Cancelled(wakes[w]).state = "cancelled"
    BY <2>1, CancelledFields
  <2> QED
    BY <1>1, <2>2
<1>5. NothingDelivered
  BY <1>1, <1>3 DEF NothingDelivered
<1>6. OnePendingWake'
  BY <1>1, <1>4 DEF OnePendingWake, Pending, Inv, DeliveryInvariant
<1>7. OwnedStay
  <2> SUFFICES ASSUME NEW t \in Services, services'[t].at # "idle", Owns(t)'
               PROVE  Owns(t)
    BY <1>1, <1>2, <1>3 DEF OwnedStay
  <2>1. services[t].wake \in DOMAIN wakes
    BY <1>2 DEF Inv, TypeInv, References, NamesItsRows
  <2> QED
    BY <1>2, <1>4, <2>1 DEF Owns
<1>8. IntentKept'
  <2> SUFFICES ASSUME NEW n \in DOMAIN messages, ~messages[n].delivered, ~messages'[n].read
               PROVE  wakes'[messages[n].wake].state \in {"pending", "delivering", "failed"}
    BY <1>1, <1>3 DEF IntentKept, Undelivered
  <2>1. n # m /\ ~messages[n].read
    BY <1>3
  <2>2. messages[n].wake \in DOMAIN wakes /\ n \in Undelivered
    BY DEF Inv, TypeInv, References, Undelivered
  <2>3. messages[n].wake = w => UNCHANGED wakes
    BY <1>4, <2>1 DEF Joined
  <2> QED
    BY <1>4, <2>1, <2>2, <2>3 DEF Inv, DeliveryInvariant, IntentKept
<1> QED
  BY <1>1, <1>2, <1>5, <1>6, <1>7, <1>8, RowStep

LEMMA FinishedServices ==
  ASSUME NEW s \in Services, Finished(s)
  PROVE  /\ \A t \in Services : services'[t] = services[t] \/ services'[t] = Idle
         /\ \A t \in Services : services'[t].at # "idle" => t # s /\ services'[t] = services[t]
BY DEF Finished, OthersStay, Idle

LEMMA RecordFailureInv ==
  ASSUME Inv, NEW s \in Services, RecordFailure(s)
  PROVE  Inv'
<1> DEFINE w == services[s].wake
<1>1. /\ TypeInv' /\ Finished(s) /\ UNCHANGED messages /\ ChatsGrow /\ NoNewPrompt
      /\ DOMAIN wakes' = DOMAIN wakes
      /\ \/ UNCHANGED wakes
         \/ /\ Owns(s) /\ w \in DOMAIN wakes
            /\ \/ wakes'[w].state = "failed"
               \/ wakes'[w].state = "pending" /\ Pending = {}
            /\ \A v \in DOMAIN wakes : v # w => wakes'[v] = wakes[v]
  BY RecordFailureKeeps DEF Inv
<1>2. MessagesGrow /\ NothingDelivered
  BY <1>1, Stays DEF Inv, TypeInv, NothingDelivered
<1>3. OnePendingWake'
  BY <1>1 DEF OnePendingWake, Pending, Inv, DeliveryInvariant
<1>4. OwnedStay
  <2> SUFFICES ASSUME NEW t \in Services, services'[t].at # "idle", Owns(t)'
               PROVE  Owns(t) /\ services'[t] = services[t]
    BY <1>1 DEF OwnedStay
  <2>1. services'[t] = services[t]
    BY <1>1, FinishedServices
  <2>2. services[t].wake \in DOMAIN wakes
    BY <2>1 DEF Inv, TypeInv, References, NamesItsRows
  <2> QED
    BY <1>1, <2>1, <2>2 DEF Owns
<1>5. IntentKept'
  BY <1>1 DEF IntentKept, Undelivered, Inv, DeliveryInvariant, TypeInv, References
<1> QED
  BY <1>1, <1>2, <1>3, <1>4, <1>5, RowStep, FinishedServices

LEMMA DeferForceNewInv ==
  ASSUME Inv, NEW s \in Services, DeferForceNew(s)
  PROVE  Inv'
<1> DEFINE w == services[s].wake
<1>1. /\ TypeInv' /\ MessagesGrow /\ Finished(s) /\ UNCHANGED chats
      /\ DOMAIN messages' = DOMAIN messages /\ DOMAIN wakes' = DOMAIN wakes
  BY DeferForceNewKeeps DEF Inv
<1>2. ChatsGrow /\ NoNewPrompt
  BY <1>1, Stays DEF Inv, TypeInv
<1>3. CASE UNCHANGED <<messages, wakes>>
  <2>1. LeasesStay
    BY <1>1, FinishedServices DEF LeasesStay
  <2> QED
    BY <1>1, <1>2, <1>3, <2>1, RowsStay, AimsStay, PromptsStay, FinishedServices
       DEF Inv, DeliveryInvariant, TypeInv
<1>4. CASE ~UNCHANGED <<messages, wakes>>
  <2>1. /\ w \in DOMAIN wakes
        /\ \A m \in DOMAIN messages : messages'[m] =
             IF messages[m].wake \in Pending THEN [messages[m] EXCEPT !.wake = w]
             ELSE messages[m]
        /\ wakes'[w].state = "pending"
        /\ \A v \in Pending : wakes'[v].state = "cancelled"
        /\ \A v \in DOMAIN wakes \ Pending : v # w => wakes'[v] = wakes[v]
    BY <1>4, DeferForceNewKeeps DEF Inv
  <2> HIDE DEF w
  <2>2. \A m \in DOMAIN messages :
          /\ messages'[m].delivered = messages[m].delivered
          /\ \/ messages'[m].wake = w
             \/ messages'[m] = messages[m] /\ messages[m].wake \notin Pending
    <3> TAKE m \in DOMAIN messages
    <3>1. messages[m] \in Message
      BY TypeFacts DEF Inv, TypeInv
    <3>2. w \in 1..MaxWake
      BY <2>1, TypeFacts DEF Inv, TypeInv
    <3>3. /\ [messages[m] EXCEPT !.wake = w].wake = w
          /\ [messages[m] EXCEPT !.wake = w].delivered = messages[m].delivered
      BY <3>1, <3>2, MessageRows
    <3> QED
      BY <2>1, <3>3
  <2>3. NothingDelivered
    BY <1>1, <2>2 DEF NothingDelivered
  <2>4. OnePendingWake'
    BY <1>1, <2>1 DEF OnePendingWake, Pending
  <2>5. OwnedStay
    <3> SUFFICES ASSUME NEW t \in Services, services'[t].at # "idle", Owns(t)'
                 PROVE  /\ Owns(t) /\ services'[t] = services[t]
                        /\ services[t].wake # w
      BY <1>1, <2>2 DEF OwnedStay
    <3>1. services'[t] = services[t]
      BY <1>1, FinishedServices
    <3>2. services[t].wake \in DOMAIN wakes
      BY <3>1 DEF Inv, TypeInv, References, NamesItsRows
    <3>3. wakes'[services[t].wake].state = "delivering"
      BY <3>1 DEF Owns
    <3>4. services[t].wake # w /\ services[t].wake \notin Pending
      BY <2>1, <3>3
    <3> QED
      BY <2>1, <3>1, <3>2, <3>4 DEF Owns
  <2>6. IntentKept'
    <3> SUFFICES ASSUME NEW m \in DOMAIN messages, ~messages'[m].delivered, ~messages'[m].read
                 PROVE  wakes'[messages'[m].wake].state \in {"pending", "delivering", "failed"}
      BY <1>1 DEF IntentKept, Undelivered
    <3>1. CASE messages'[m].wake = w
      BY <2>1, <3>1
    <3>2. CASE messages'[m].wake # w
      <4>1. messages'[m] = messages[m] /\ messages[m].wake \in DOMAIN wakes \ Pending
            /\ m \in Undelivered
        BY <2>2, <3>2 DEF Inv, TypeInv, References, Undelivered
      <4> QED
        BY <2>1, <3>2, <4>1 DEF Inv, DeliveryInvariant, IntentKept
    <3> QED
      BY <3>1, <3>2
  <2> QED
    BY <1>1, <1>2, <2>3, <2>4, <2>5, <2>6, RowStep, FinishedServices
<1> QED
  BY <1>3, <1>4

LEMMA ClaimLeaves ==
  ASSUME Inv, ~Collision, DOMAIN wakes' = DOMAIN wakes, NEW S, S \subseteq DOMAIN wakes,
         \A v \in S : Claimable(v, wakes'[v]) \/ wakes'[v].state = "cancelled",
         \A v \in DOMAIN wakes \ S : wakes'[v].state # "pending"
  PROVE  OnePendingWake'
<1> SUFFICES ASSUME NEW u \in DOMAIN wakes, NEW v \in DOMAIN wakes,
                    wakes'[u].state = "pending", wakes'[v].state = "pending"
             PROVE  u = v
  BY DEF OnePendingWake, Pending
<1>1. Claimable(u, wakes'[u]) /\ Claimable(v, wakes'[v])
  OBVIOUS
<1>2. CASE Pending = {}
  <2>1. u \in Expired /\ v \in Expired
    BY <1>1, <1>2 DEF Claimable, Pending
  <2> QED
    BY <1>2, <2>1 DEF Collision
<1>3. CASE Pending # {}
  <2>1. u \in Pending /\ v \in Pending
    BY <1>1, <1>3 DEF Claimable, Pending
  <2> QED
    BY <2>1 DEF Inv, DeliveryInvariant, OnePendingWake
<1> QED
  BY <1>2, <1>3

LEMMA ClaimNextInv ==
  ASSUME Inv, NEW s \in Services, ClaimNext(s)
  PROVE  Inv'
<1>1. /\ TypeInv' /\ MessagesGrow /\ UNCHANGED chats /\ ~Collision
      /\ DOMAIN messages' = DOMAIN messages /\ DOMAIN wakes' = DOMAIN wakes
  BY ClaimNextKeeps DEF Inv
<1>2. ChatsGrow /\ NoNewPrompt
  BY <1>1, Stays DEF Inv, TypeInv
<1>3. CASE /\ UNCHANGED <<messages, services>>
           /\ \A v \in DOMAIN wakes : Claimable(v, wakes'[v])
  <2>1. OnePendingWake'
    BY <1>1, <1>3, ClaimLeaves
  <2>2. NothingDelivered
    BY <1>3 DEF NothingDelivered
  <2>3. OwnedStay
    <3> SUFFICES ASSUME NEW t \in Services, services[t].at # "idle", Owns(t)'
                 PROVE  Owns(t)
      BY <1>3 DEF OwnedStay
    <3>1. services[t].wake \in DOMAIN wakes
      BY DEF Inv, TypeInv, References, NamesItsRows
    <3> QED
      BY <1>3, <3>1 DEF Owns, Claimable
  <2>4. IntentKept'
    <3> SUFFICES ASSUME NEW m \in Undelivered, ~messages[m].read
                 PROVE  wakes'[messages[m].wake].state \in {"pending", "delivering", "failed"}
      BY <1>3 DEF IntentKept, Undelivered
    <3>1. messages[m].wake \in DOMAIN wakes
      BY DEF Inv, TypeInv, References, Undelivered
    <3>2. wakes[messages[m].wake].state \in {"pending", "delivering", "failed"}
      BY DEF Inv, DeliveryInvariant, IntentKept
    <3> QED
      BY <1>3, <3>1, <3>2 DEF Claimable
  <2> QED
    BY <1>1, <1>2, <1>3, <2>1, <2>2, <2>3, <2>4, RowStep
<1>4. CASE \E w \in DOMAIN wakes : Leased(s, w)
  <2>1. PICK w \in DOMAIN wakes : Leased(s, w)
    BY <1>4
  <2>2. \A m \in DOMAIN messages :
          /\ messages'[m].delivered = messages[m].delivered
          /\ m \in Undelivered => messages'[m].wake = w
    <3> TAKE m \in DOMAIN messages
    <3>1. messages[m] \in Message /\ w \in 1..MaxWake
      BY TypeFacts DEF Inv, TypeInv
    <3>2. /\ [messages[m] EXCEPT !.wake = w].wake = w
          /\ [messages[m] EXCEPT !.wake = w].delivered = messages[m].delivered
      BY <3>1, MessageRows
    <3> QED
      BY <2>1, <3>2 DEF Leased
  <2>3. OthersStay(s) /\ services'[s].at = "look" /\ services'[s].msgs = Undelivered
        /\ services'[s].wake = w /\ wakes'[w].state = "delivering" /\ wakes'[w].owner = s
    BY <2>1 DEF Leased
  <2>4. OnePendingWake'
    <3>1. \A v \in DOMAIN wakes \ {w} : Claimable(v, wakes'[v]) \/ wakes'[v].state = "cancelled"
      BY <2>1 DEF Leased
    <3>2. \A v \in DOMAIN wakes \ (DOMAIN wakes \ {w}) : wakes'[v].state # "pending"
      BY <2>3
    <3> QED
      BY <1>1, <3>1, <3>2, ClaimLeaves
  <2>5. IntentKept'
    BY <1>1, <2>2, <2>3 DEF IntentKept, Undelivered
  <2>6. LeasesAreWhole'
    <3> SUFFICES ASSUME NEW t \in Services, services'[t].at # "idle",
                        NEW m \in DOMAIN messages, NEW n \in services'[t].msgs, m < n
                 PROVE  m \in services'[t].msgs \/ messages[m].delivered
      BY <1>1, <2>2 DEF LeasesAreWhole
    <3>1. CASE t = s
      BY <2>3, <3>1 DEF Undelivered
    <3>2. CASE t # s
      <4>1. services'[t] = services[t]
        BY <2>3, <3>2 DEF OthersStay
      <4> QED
        BY <4>1 DEF Inv, DeliveryInvariant, LeasesAreWhole
    <3> QED
      BY <3>1, <3>2
  <2>7. OwnersHoldTheMessages'
    <3> SUFFICES ASSUME NEW t \in Services, Owns(t)',
                        NEW m \in DOMAIN messages, ~messages'[m].delivered,
                        messages'[m].wake = services'[t].wake
                 PROVE  m \in services'[t].msgs
      BY <1>1 DEF OwnersHoldTheMessages, Joined, Undelivered
    <3>1. m \in Undelivered /\ services'[t].wake = w
      BY <2>2 DEF Undelivered
    <3>2. t = s
      BY <2>3, <3>1 DEF Owns
    <3> QED
      BY <2>3, <3>1, <3>2
  <2>8. NothingDelivered
    BY <1>1, <2>2 DEF NothingDelivered
  <2>9. services'[s].at # "record" /\ AimsAtItsOwn(s)'
    BY <2>3 DEF AimsAtItsOwn
  <2> QED
    BY <1>1, <1>2, <2>3, <2>4, <2>5, <2>6, <2>7, <2>8, <2>9, QueuedStays, AimsKept, PromptsStay
       DEF Inv, DeliveryInvariant, TypeInv
<1> QED
  BY <1>3, <1>4, ClaimNextKeeps DEF Inv

LEMMA RecordDeliveredInv ==
  ASSUME Inv, NEW s \in Services, RecordDelivered(s)
  PROVE  Inv'
<1> DEFINE w == services[s].wake
<1>1. /\ TypeInv' /\ MessagesGrow /\ Finished(s) /\ UNCHANGED chats
      /\ DOMAIN messages' = DOMAIN messages /\ DOMAIN wakes' = DOMAIN wakes
  BY RecordDeliveredKeeps DEF Inv
<1>2. ChatsGrow /\ NoNewPrompt
  BY <1>1, Stays DEF Inv, TypeInv
<1>3. LeasesStay
  BY <1>1, FinishedServices DEF LeasesStay
<1>4. CASE UNCHANGED <<messages, wakes>>
  BY <1>1, <1>2, <1>3, <1>4, RowsStay, AimsStay, PromptsStay, FinishedServices
     DEF Inv, DeliveryInvariant, TypeInv
<1>5. CASE ~UNCHANGED <<messages, wakes>>
  <2>1. /\ Owns(s) /\ w \in DOMAIN wakes
        /\ \A m \in DOMAIN messages : messages'[m] =
             IF m \in services[s].msgs THEN [messages[m] EXCEPT !.delivered = TRUE]
             ELSE messages[m]
        /\ wakes'[w].state = "delivered"
        /\ \A v \in DOMAIN wakes : v # w => wakes'[v] = wakes[v]
    BY <1>5, RecordDeliveredKeeps DEF Inv
  <2>2. services[s].at = "record"
    BY DEF RecordDelivered
  <2>3. \A m \in DOMAIN messages :
          /\ messages'[m].wake = messages[m].wake
          /\ m \in services[s].msgs => messages'[m].delivered
          /\ m \notin services[s].msgs => messages'[m] = messages[m]
    <3> TAKE m \in DOMAIN messages
    <3>1. messages[m] \in Message
      BY TypeFacts DEF Inv, TypeInv
    <3> QED
      BY <2>1, <3>1, MessageRows
  <2>4. OnePendingWake'
    BY <1>1, <2>1 DEF OnePendingWake, Pending, Inv, DeliveryInvariant
  <2>5. IntentKept'
    <3> SUFFICES ASSUME NEW m \in DOMAIN messages, ~messages'[m].delivered, ~messages'[m].read
                 PROVE  wakes'[messages'[m].wake].state \in {"pending", "delivering", "failed"}
      BY <1>1 DEF IntentKept, Undelivered
    <3>1. m \notin services[s].msgs /\ messages'[m] = messages[m] /\ m \in Undelivered
      BY <2>3 DEF Undelivered
    <3>2. messages[m].wake # w
      BY <2>1, <2>2, <3>1 DEF Inv, DeliveryInvariant, OwnersHoldTheMessages, Joined
    <3>3. messages[m].wake \in DOMAIN wakes
      BY DEF Inv, TypeInv, References
    <3> QED
      BY <2>1, <3>1, <3>2, <3>3 DEF Inv, DeliveryInvariant, IntentKept
  <2>6. DeliveredInOrder'
    <3> SUFFICES ASSUME NEW m \in DOMAIN messages, NEW n \in DOMAIN messages, m < n,
                        messages'[n].delivered
                 PROVE  messages'[m].delivered
      BY <1>1 DEF DeliveredInOrder
    <3>1. CASE n \in services[s].msgs
      <4>1. m \in services[s].msgs \/ messages[m].delivered
        BY <2>2, <3>1 DEF Inv, DeliveryInvariant, LeasesAreWhole
      <4> QED
        BY <1>1, <2>3, <4>1 DEF MessagesGrow
    <3>2. CASE n \notin services[s].msgs
      <4>1. messages[m].delivered
        BY <2>3, <3>2 DEF Inv, DeliveryInvariant, DeliveredInOrder
      <4> QED
        BY <1>1, <4>1 DEF MessagesGrow
    <3> QED
      BY <3>1, <3>2
  <2>7. DeliveredWasQueued'
    <3> SUFFICES ASSUME NEW m \in DOMAIN messages, messages'[m].delivered
                 PROVE  \E c \in DOMAIN chats : \E i \in DOMAIN chats[c].turns :
                          m \in chats[c].turns[i].msgs
      BY <1>1 DEF DeliveredWasQueued, Undelivered
    <3>1. CASE m \in services[s].msgs
      <4>1. services[s].target \in 0..Len(chats) /\ services[s].target # 0
        BY <2>2 DEF Inv, TypeInv, References, NamesItsRows
      <4>2. services[s].target \in DOMAIN chats
        BY <4>1, TypeFacts DEF Inv, TypeInv
      <4>3. PICK i \in DOMAIN chats[services[s].target].turns :
              services[s].msgs = chats[services[s].target].turns[i].msgs
        BY <2>2 DEF Inv, DeliveryInvariant, RecordedAfterQueued
      <4> QED
        BY <3>1, <4>2, <4>3
    <3>2. CASE m \notin services[s].msgs
      <4>1. m \in DOMAIN messages \ Undelivered
        BY <2>3, <3>2 DEF Undelivered
      <4> QED
        BY <4>1 DEF Inv, DeliveryInvariant, DeliveredWasQueued
    <3> QED
      BY <3>1, <3>2
  <2>8. OwnedStay
    <3> SUFFICES ASSUME NEW t \in Services, services'[t].at # "idle", Owns(t)'
                 PROVE  Owns(t) /\ services'[t] = services[t]
      BY <1>1, <2>3 DEF OwnedStay, MessagesGrow
    <3>1. services'[t] = services[t]
      BY <1>1, FinishedServices
    <3>2. services[t].wake \in DOMAIN wakes
      BY <3>1 DEF Inv, TypeInv, References, NamesItsRows
    <3> QED
      BY <2>1, <3>1, <3>2 DEF Owns
  <2> QED
    BY <1>1, <1>2, <1>3, <2>4, <2>5, <2>6, <2>7, <2>8, WholeStays, OwnersStay, AimsStay,
       PromptsStay, FinishedServices DEF Inv, DeliveryInvariant, TypeInv
<1> QED
  BY <1>4, <1>5

-----------------------------------------------------------------------------
LEMMA DeliverInv ==
  ASSUME Inv, NEW s \in Services, Deliver(s) \/ Fault(s) \/ Crash(s)
  PROVE  Inv'
<1>1. CASE ClaimNext(s)
  BY <1>1, ClaimNextInv
<1>2. CASE \/ Look(s) \/ Relook(s) \/ Raced(s) \/ Fault(s)
           \/ CloseForWake(s) \/ CreateWakeChat(s)
  BY <1>2, MoveStepInv
<1>3. CASE EnqueueTurn(s)
  BY <1>3, EnqueueTurnInv
<1>4. CASE RecordDelivered(s)
  BY <1>4, RecordDeliveredInv
<1>5. CASE DeferForceNew(s)
  BY <1>5, DeferForceNewInv
<1>6. CASE RecordFailure(s)
  BY <1>6, RecordFailureInv
<1>7. CASE Crash(s)
  BY <1>7, CrashInv
<1> QED
  BY <1>1, <1>2, <1>3, <1>4, <1>5, <1>6, <1>7 DEF Deliver

LEMMA NextInv ==
  ASSUME Inv, [Next]_vars
  PROVE  Inv'
<1>1. CASE \E type \in Declared : Send(type)
  BY <1>1, SendInv
<1>2. CASE \E m \in DOMAIN messages : MarkRead(m)
  BY <1>2, MarkReadInv
<1>3. CASE \E s \in Services : Deliver(s) \/ Fault(s) \/ Crash(s)
  BY <1>3, DeliverInv
<1>4. CASE RecoverWakes
  BY <1>4, RecoverWakesInv
<1>5. CASE Time
  BY <1>5, TimeInv DEF Time
<1>6. CASE TurnStarts \/ TurnEnds \/ UserPrompts \/ UserCloses \/ UserOpens
  BY <1>6, ChatStepInv
<1>7. CASE UNCHANGED vars
  <2>1. TypeInv' /\ UNCHANGED <<messages, wakes, chats, services>>
    BY <1>7, NextKeepsTypes DEF vars, Inv
  <2>2. ChatsGrow /\ NoNewPrompt /\ MessagesGrow /\ LeasesStay
    BY <2>1, Stays DEF Inv, TypeInv, LeasesStay
  <2> QED
    BY <2>1, <2>2, RowsStay, AimsStay, PromptsStay DEF Inv, DeliveryInvariant, TypeInv
<1> QED
  BY <1>1, <1>2, <1>3, <1>4, <1>5, <1>6, <1>7 DEF Next

LEMMA InitialInv ==
  ASSUME Init
  PROVE  Inv
<1>1. TypeInv
  BY InitialTypes
<1>2. DOMAIN messages = {} /\ DOMAIN wakes = {} /\ DOMAIN chats = {}
  <2>1. messages = <<>> /\ wakes = <<>> /\ chats = <<>>
    BY DEF Init
  <2> QED
    BY <1>1, <2>1, TypeFacts, EmptySeq DEF TypeInv
<1>3. \A s \in Services : services[s].at = "idle" /\ services[s].kind = "re-enter"
  BY DEF Init, Idle
<1>4. OnePendingWake /\ LeasesAreWhole /\ DeliveredInOrder /\ IntentKept
  BY <1>2, <1>3 DEF OnePendingWake, LeasesAreWhole, DeliveredInOrder, IntentKept, Pending,
                    Undelivered
<1>5. OwnersHoldTheMessages /\ RecordedAfterQueued /\ DeliveredWasQueued
  BY <1>2, <1>3 DEF OwnersHoldTheMessages, RecordedAfterQueued, DeliveredWasQueued
<1>6. ForceNewAimsAtItsOwnChat /\ ForceNewInOwnChat
  BY <1>2, <1>3 DEF ForceNewAimsAtItsOwnChat, ForceNewInOwnChat
<1> QED
  BY <1>1, <1>4, <1>5, <1>6 DEF Inv, DeliveryInvariant, TypeInv

LEMMA AlwaysInv == Spec => []Inv
<1>1. Init => Inv
  BY InitialInv
<1>2. Inv /\ [Next]_vars => Inv'
  BY NextInv
<1> QED
  BY <1>1, <1>2, PTL DEF Spec

(* Whatever services, senders, readers, users and crashes do, in any order and
   number, the guarantees of delivery and what they rest on hold together. *)
THEOREM DeliveryInvariantHolds == Spec => []DeliveryInvariant
<1>1. Inv => DeliveryInvariant
  BY DEF Inv
<1> QED
  BY <1>1, AlwaysInv, PTL

(* The unique index on pending wakes is never met by a second one: sending,
   requeueing, deferring, failing and recovering leave a shell one at most. *)
THEOREM OnePendingWakeAlways == Spec => []OnePendingWake
<1>1. Inv => OnePendingWake
  BY DEF Inv, DeliveryInvariant
<1> QED
  BY <1>1, AlwaysInv, PTL

(* However often a message is handed from wake to wake, by several services, it
   is never left with a wake that was cancelled or delivered without it. *)
THEOREM NoIntentIsDropped == Spec => []IntentKept
<1>1. Inv => IntentKept
  BY DEF Inv, DeliveryInvariant
<1> QED
  BY <1>1, AlwaysInv, PTL

(* No recorded delivery passes over a message that was sent earlier. *)
THEOREM DeliveriesAreInOrder == Spec => []DeliveredInOrder
<1>1. Inv => DeliveredInOrder
  BY DEF Inv, DeliveryInvariant
<1> QED
  BY <1>1, AlwaysInv, PTL

(* delivered_at is set only for messages that a turn of some chat carries. *)
THEOREM DeliveredMessagesWereQueued == Spec => []DeliveredWasQueued
<1>1. Inv => DeliveredWasQueued
  BY DEF Inv, DeliveryInvariant
<1> QED
  BY <1>1, AlwaysInv, PTL

(* No chat but the one made for its wake is ever given a force-new message. *)
THEOREM ForceNewIsNeverAbsorbed == Spec => []ForceNewInOwnChat
<1>1. Inv => ForceNewInOwnChat
  BY DEF Inv, DeliveryInvariant
<1> QED
  BY <1>1, AlwaysInv, PTL

-----------------------------------------------------------------------------
(* The promise.  What the receiver sees changes in four ways only: a message
   is sent, is read, is in a new turn, or is recorded as delivered. *)
SameLetters ==
  /\ DOMAIN messages' = DOMAIN messages
  /\ \A m \in DOMAIN messages : /\ messages'[m].type = messages[m].type
                                /\ messages'[m].read = messages[m].read
                                /\ messages'[m].delivered = messages[m].delivered

LEMMA InboxStays ==
  ASSUME SameLetters
  PROVE  UNCHANGED Inbox
<1>1. \A m \in DOMAIN messages : Letter(m)' = Letter(m)
  BY DEF SameLetters, Letter
<1> QED
  BY <1>1 DEF SameLetters, Inbox

LEMMA InPrompted ==
  \A p : p \in Prompted <=>
    /\ p.msgs # {}
    /\ \E c \in DOMAIN chats : \E i \in DOMAIN chats[c].turns : p = Carried(c, i)
BY DEF Prompted

LEMMA InPromptedNext ==
  \A p : p \in Prompted' <=>
    /\ p.msgs # {}
    /\ \E c \in DOMAIN chats' : \E i \in DOMAIN chats'[c].turns : p = Carried(c, i)'
BY DEF Prompted

LEMMA CarriedStays ==
  ASSUME ChatsGrow, NEW c \in DOMAIN chats, NEW i \in DOMAIN chats[c].turns
  PROVE  Carried(c, i)' = Carried(c, i)
BY DEF ChatsGrow, Carried

LEMMA PromptedStays ==
  ASSUME TypeOK, TypeOK', ChatsGrow, NoNewPrompt
  PROVE  UNCHANGED Prompted
<1>1. \A c \in DOMAIN chats : c \in DOMAIN chats'
  BY TypeFacts, TypeFactsNext DEF ChatsGrow
<1>2. ASSUME NEW p \in Prompted PROVE p \in Prompted'
  <2>1. PICK c \in DOMAIN chats : \E i \in DOMAIN chats[c].turns : p = Carried(c, i)
    BY InPrompted
  <2>2. PICK i \in DOMAIN chats[c].turns : p = Carried(c, i)
    BY <2>1
  <2>3. c \in DOMAIN chats' /\ i \in DOMAIN chats'[c].turns
    BY <1>1 DEF ChatsGrow
  <2>4. p = Carried(c, i)'
    BY <2>2, CarriedStays
  <2> QED
    BY <2>3, <2>4, InPrompted, InPromptedNext
<1>3. ASSUME NEW p \in Prompted' PROVE p \in Prompted
  <2>1. PICK c \in DOMAIN chats' : \E i \in DOMAIN chats'[c].turns : p = Carried(c, i)'
    BY InPromptedNext
  <2>2. PICK i \in DOMAIN chats'[c].turns : p = Carried(c, i)'
    BY <2>1
  <2>3. p.msgs # {} /\ p.msgs = chats'[c].turns[i].msgs
    BY <2>2, InPromptedNext DEF Carried
  <2>4. c \in DOMAIN chats /\ i \in DOMAIN chats[c].turns
    BY <2>3 DEF NoNewPrompt
  <2>5. p = Carried(c, i)
    BY <2>2, <2>4, CarriedStays
  <2> QED
    BY <2>3, <2>4, <2>5, InPrompted
<1> QED
  BY <1>2, <1>3

(* A message the receiver did not have. *)
LEMMA SendReceives ==
  ASSUME TypeInv, NEW type \in Declared, Send(type)
  PROVE  Inbox' = Append(Inbox, [type |-> type, read |-> FALSE, delivered |-> FALSE])
<1> DEFINE Letters == [type : Declared, read : BOOLEAN, delivered : BOOLEAN]
           letter == [type |-> type, read |-> FALSE, delivered |-> FALSE]
<1>n. PICK new : new = Len(messages) + 1
  OBVIOUS
<1>1. /\ TypeOK /\ TypeOK' /\ DOMAIN messages' = DOMAIN messages \cup {new}
      /\ \A m \in DOMAIN messages : messages'[m] = messages[m]
  BY <1>n, SendKeeps DEF TypeInv
<1>2. /\ Len(messages) \in Nat /\ DOMAIN messages = 1..Len(messages)
      /\ \A m \in DOMAIN messages : messages[m] \in Message
  BY <1>1, TypeFacts
<1>3. Letter(new)' = letter
  <2>1. PICK w : messages' = Append(messages,
                   [type |-> type, read |-> FALSE, delivered |-> FALSE, wake |-> w])
    BY DEF Send
  <2> DEFINE row == [type |-> type, read |-> FALSE, delivered |-> FALSE, wake |-> w]
  <2>2. row.type = type /\ row.read = FALSE /\ row.delivered = FALSE
    OBVIOUS
  <2> HIDE DEF row
  <2>3. messages'[new] = row
    <3>1. messages' = Append(messages, row) /\ messages \in Seq(Message)
      BY <1>1, <2>1 DEF row, TypeOK
    <3> QED
      BY <1>n, <3>1
  <2> QED
    BY <2>2, <2>3 DEF Letter
<1>4. \A m \in DOMAIN messages : Letter(m)' = Letter(m)
  BY <1>1 DEF Letter
<1>5. \A m \in DOMAIN messages : Letter(m) \in Letters
  BY <1>2 DEF Letter, Message
<1>6. letter \in Letters
  OBVIOUS
<1> HIDE DEF Letters, letter
<1>7. /\ Inbox \in Seq(Letters) /\ Len(Inbox) = Len(messages)
      /\ Inbox \in [1..Len(messages) -> Letters]
  <2>1. Inbox \in [1..Len(messages) -> Letters]
    BY <1>2, <1>5 DEF Inbox
  <2> QED
    BY <1>2, <2>1, SeqMade
<1>8. Inbox' \in Seq(Letters) /\ Len(Inbox') = new
  <2>1. DOMAIN messages' = 1..new /\ new \in Nat
    BY <1>n, <1>1, <1>2
  <2>2. Inbox' = [m \in 1..new |-> Letter(m)']
    BY <2>1 DEF Inbox
  <2>3. \A m \in 1..new : Letter(m)' \in Letters
    BY <1>n, <1>2, <1>3, <1>4, <1>5, <1>6
  <2>4. Inbox' \in [1..new -> Letters]
    BY ONLY <2>2, <2>3
  <2> QED
    BY <2>1, <2>4, SeqMade
<1>9. Append(Inbox, letter) \in Seq(Letters) /\ Len(Append(Inbox, letter)) = new
  BY <1>n, <1>6, <1>7, AppendProperties
<1>10. \A m \in 1..new : Inbox'[m] = Append(Inbox, letter)[m]
  <2>1. \A m \in DOMAIN messages : Inbox'[m] = Letter(m) /\ Inbox[m] = Letter(m)
    BY <1>1, <1>4 DEF Inbox
  <2>2. Inbox'[new] = letter
    BY <1>1, <1>3 DEF Inbox
  <2>3. /\ \A m \in DOMAIN messages : Append(Inbox, letter)[m] = Inbox[m]
        /\ Append(Inbox, letter)[new] = letter
    BY <1>n, <1>2, <1>6, <1>7, AppendProperties
  <2>4. \A m \in 1..new : m = new \/ m \in DOMAIN messages
    BY ONLY <1>n, <1>2
  <2> QED
    BY ONLY <2>1, <2>2, <2>3, <2>4
<1>11. Inbox' = Append(Inbox, letter)
  BY ONLY <1>8, <1>9, <1>10, SeqEqual
<1> QED
  BY <1>11 DEF letter

LetterOf(type, read, delivered) == [type |-> type, read |-> read, delivered |-> delivered]
WasRead(letter)      == [letter EXCEPT !.read = TRUE]
WasDelivered(letter) == [letter EXCEPT !.delivered = TRUE]

LEMMA LetterFields ==
  ASSUME NEW type, NEW read, NEW delivered
  PROVE  /\ WasRead(LetterOf(type, read, delivered)) = LetterOf(type, TRUE, delivered)
         /\ WasDelivered(LetterOf(type, read, delivered)) = LetterOf(type, read, TRUE)
<1>1. ASSUME NEW x
      PROVE  /\ [LetterOf(type, read, delivered) EXCEPT !.read = x]
                   = LetterOf(type, x, delivered)
             /\ [LetterOf(type, read, delivered) EXCEPT !.delivered = x]
                   = LetterOf(type, read, x)
  BY SMT DEF LetterOf
<1> QED
  BY ONLY <1>1, Zenon DEF WasRead, WasDelivered

LEMMA MarkReadReads ==
  ASSUME TypeInv, NEW m \in DOMAIN messages, MarkRead(m)
  PROVE  Mail!Read(m)
<1>1. /\ ChatsGrow /\ NoNewPrompt /\ TypeOK /\ TypeOK'
      /\ DOMAIN messages' = DOMAIN messages
      /\ \A n \in DOMAIN messages : messages'[n] =
           IF n = m THEN [messages[n] EXCEPT !.read = TRUE] ELSE messages[n]
  BY MarkReadKeeps DEF TypeInv
<1>2. /\ messages[m] \in Message
      /\ messages[m].delivered \/ messages[m].type # "force-new"
  BY <1>1, TypeFacts DEF MarkRead
<1>3. /\ messages'[m].type = messages[m].type
      /\ messages'[m].delivered = messages[m].delivered
      /\ messages'[m].read = TRUE
  BY <1>1, <1>2 DEF Message
<1>4. Letter(m)' = WasRead(Letter(m))
  <2>1. Letter(m) = LetterOf(messages[m].type, messages[m].read, messages[m].delivered)
    BY DEF Letter, LetterOf
  <2>2. Letter(m)' = LetterOf(messages[m].type, TRUE, messages[m].delivered)
    BY <1>3 DEF Letter, LetterOf
  <2> QED
    BY ONLY <2>1, <2>2, LetterFields
<1>5. \A n \in DOMAIN messages \ {m} : Letter(n)' = Letter(n)
  BY <1>1 DEF Letter
<1>6. Inbox' = [Inbox EXCEPT ![m].read = TRUE]
  BY <1>1, <1>4, <1>5 DEF Inbox, WasRead
<1>7. Inbox[m].delivered \/ Inbox[m].type # "force-new"
  BY <1>2 DEF Inbox, Letter
<1>8. UNCHANGED Prompted
  BY <1>1, PromptedStays
<1> QED
  BY <1>6, <1>7, <1>8 DEF Mail!Read

(* A new turn. *)
LEMMA EnqueuePrompts ==
  ASSUME Inv, NEW s \in Services, EnqueueTurn(s)
  PROVE  \/ UNCHANGED Mail!mailVars
         \/ \E msgs \in SUBSET DOMAIN Inbox, own \in BOOLEAN : Mail!Prompt(msgs, own)
<1> DEFINE c == services[s].target
           msgs == services[s].msgs
           own == chats[c].wake = services[s].wake
           prompt == [msgs |-> msgs, own |-> own]
<1>1. /\ TypeInv /\ TypeOK /\ TypeOK' /\ ChatsGrow /\ UNCHANGED messages
      /\ services[s].at = "enqueue"
  BY EnqueueTurnKeeps DEF Inv, TypeInv, EnqueueTurn
<1>2. UNCHANGED Inbox
  BY <1>1 DEF Inbox, Letter
<1>3. CASE UNCHANGED chats
  <2>1. UNCHANGED Prompted
    BY <1>3 DEF Prompted, Carried
  <2> QED
    BY <1>2, <2>1 DEF Mail!mailVars
<1>4. CASE chats' = [chats EXCEPT ![c].turns = Append(@, NewPrompt(s))]
  <2>n. PICK j : j = Len(chats[c].turns) + 1
    OBVIOUS
  <2>1. /\ DOMAIN chats' = DOMAIN chats /\ c \in DOMAIN chats
        /\ DOMAIN chats'[c].turns = DOMAIN chats[c].turns \cup {j}
        /\ chats'[c].turns[j] = NewPrompt(s)
        /\ \A d \in DOMAIN chats : d # c => chats'[d] = chats[d]
    BY <2>n, <1>1, <1>4, PromptAdded
  <2>2. NewPrompt(s).msgs = msgs /\ NewPrompt(s).wake = services[s].wake
    BY DEF NewPrompt
  <2>3. PICK d \in DOMAIN chats : d = c
    BY <2>1
  <2>4. Carried(d, j)' = prompt
    BY <1>1, <2>1, <2>2, <2>3 DEF Carried, ChatsGrow
  <2>5. \A p \in Prompted' : p \in Prompted \/ (p = prompt /\ msgs # {})
    <3> SUFFICES ASSUME NEW p \in Prompted'
                 PROVE  p \in Prompted \/ (p = prompt /\ msgs # {})
      OBVIOUS
    <3>1. PICK e \in DOMAIN chats' : \E i \in DOMAIN chats'[e].turns : p = Carried(e, i)'
      BY InPromptedNext
    <3>2. PICK i \in DOMAIN chats'[e].turns : p = Carried(e, i)'
      BY <3>1
    <3>3. p.msgs # {}
      BY InPromptedNext
    <3>4. CASE e = d /\ i = j
      BY <2>4, <3>2, <3>3, <3>4
    <3>5. CASE e # d \/ i # j
      <4>1. e \in DOMAIN chats /\ i \in DOMAIN chats[e].turns
        BY <2>1, <2>3, <3>5
      <4>2. p = Carried(e, i)
        BY <1>1, <3>2, <4>1, CarriedStays
      <4> QED
        BY <3>3, <4>1, <4>2, InPrompted
    <3> QED
      BY <3>4, <3>5
  <2>6. \A p \in Prompted : p \in Prompted'
    <3> SUFFICES ASSUME NEW p \in Prompted
                 PROVE  p \in Prompted'
      OBVIOUS
    <3>1. PICK e \in DOMAIN chats : \E i \in DOMAIN chats[e].turns : p = Carried(e, i)
      BY InPrompted
    <3>2. PICK i \in DOMAIN chats[e].turns : p = Carried(e, i)
      BY <3>1
    <3>3. e \in DOMAIN chats' /\ i \in DOMAIN chats'[e].turns
      BY <1>1, <2>1 DEF ChatsGrow
    <3>4. p = Carried(e, i)'
      BY <1>1, <3>2, CarriedStays
    <3> QED
      BY <3>3, <3>4, InPrompted, InPromptedNext
  <2>7. msgs # {} => prompt \in Prompted'
    <3>1. d \in DOMAIN chats' /\ j \in DOMAIN chats'[d].turns
      BY <2>1, <2>3
    <3>2. prompt.msgs = msgs
      OBVIOUS
    <3> QED
      BY <2>4, <3>1, <3>2, InPromptedNext
  <2> HIDE DEF prompt
  <2>8. CASE msgs = {}
    <3>1. UNCHANGED Prompted
      BY <2>5, <2>6, <2>8
    <3> QED
      BY <1>2, <3>1 DEF Mail!mailVars
  <2>9. CASE msgs # {}
    <3>1. Prompted' = Prompted \cup {prompt}
      BY <2>5, <2>6, <2>7, <2>9
    <3>2. NamesItsRows(s)
      BY <1>1 DEF Inv, TypeInv, References
    <3>3. msgs \in SUBSET DOMAIN Inbox /\ own \in BOOLEAN
      BY <3>2 DEF NamesItsRows, Inbox
    <3>4. Mail!LeavesNothingBehind(msgs)
      <4>1. \A m \in DOMAIN messages \ msgs, n \in msgs : m < n => messages[m].delivered
        BY <1>1 DEF Inv, DeliveryInvariant, LeasesAreWhole
      <4> QED
        BY <4>1 DEF Mail!LeavesNothingBehind, Inbox, Letter
    <3>5. (\E m \in msgs : Inbox[m].type = "force-new") => own
      <4> SUFFICES ASSUME NEW m \in msgs, Inbox[m].type = "force-new"
                   PROVE  own
        OBVIOUS
      <4>1. messages[m].type = "force-new"
        BY <3>3 DEF Inbox, Letter
      <4>2. "force-new" \in {messages[n].type : n \in msgs}
        BY <4>1
      <4>3. services[s].kind = "force-new"
        BY <3>2, <4>2 DEF NamesItsRows, Strongest
      <4> QED
        BY <1>1, <4>3 DEF Inv, DeliveryInvariant, ForceNewAimsAtItsOwnChat
    <3>6. Mail!Prompt(msgs, own)
      BY <1>2, <3>1, <3>4, <3>5 DEF Mail!Prompt, prompt
    <3> QED
      BY <3>3, <3>6
  <2> QED
    BY <2>8, <2>9
<1> QED
  BY <1>3, <1>4 DEF EnqueueTurn, NewPrompt

(* A delivery is recorded. *)
LEMMA RecordDelivers ==
  ASSUME Inv, NEW s \in Services, RecordDelivered(s)
  PROVE  \/ UNCHANGED Mail!mailVars
         \/ \E prompt \in Prompted : Mail!Deliver(prompt)
<1> DEFINE c == services[s].target
           msgs == services[s].msgs
<1>1. /\ TypeInv /\ TypeOK /\ TypeOK' /\ UNCHANGED chats
      /\ DOMAIN messages' = DOMAIN messages
  BY RecordDeliveredKeeps DEF Inv, TypeInv
<1>2. UNCHANGED Prompted
  BY <1>1 DEF Prompted, Carried
<1>3. CASE UNCHANGED messages
  <2>1. UNCHANGED Inbox
    BY <1>3 DEF Inbox, Letter
  <2> QED
    BY <1>2, <2>1 DEF Mail!mailVars
<1>4. CASE ~UNCHANGED messages
  <2>1. \A m \in DOMAIN messages : messages'[m] =
          IF m \in msgs THEN [messages[m] EXCEPT !.delivered = TRUE] ELSE messages[m]
    BY <1>1, <1>4, RecordDeliveredKeeps
  <2>2. \A m \in DOMAIN messages :
          /\ messages'[m].type = messages[m].type /\ messages'[m].read = messages[m].read
          /\ messages'[m].delivered = (IF m \in msgs THEN TRUE ELSE messages[m].delivered)
    <3> TAKE m \in DOMAIN messages
    <3>1. messages[m] \in Message
      BY <1>1, TypeFacts
    <3> QED
      BY <2>1, <3>1 DEF Message
  <2>3. \A m \in DOMAIN messages : Inbox'[m] =
          IF m \in msgs THEN WasDelivered(Inbox[m]) ELSE Inbox[m]
    <3> TAKE m \in DOMAIN messages
    <3>1. Inbox'[m] = Letter(m)' /\ Inbox[m] = Letter(m)
      BY <1>1 DEF Inbox
    <3>2. Letter(m) = LetterOf(messages[m].type, messages[m].read, messages[m].delivered)
      BY DEF Letter, LetterOf
    <3>3. Letter(m)' = IF m \in msgs
                       THEN LetterOf(messages[m].type, messages[m].read, TRUE) ELSE Letter(m)
      BY <2>2 DEF Letter, LetterOf
    <3>4. WasDelivered(Letter(m)) = LetterOf(messages[m].type, messages[m].read, TRUE)
      BY ONLY <3>2, LetterFields
    <3> QED
      BY ONLY <3>1, <3>3, <3>4
  <2>4. CASE msgs = {}
    <3>1. SameLetters
      BY <1>1, <2>2, <2>4 DEF SameLetters
    <3> QED
      BY <1>2, <3>1, InboxStays DEF Mail!mailVars
  <2>5. CASE msgs # {}
    <3>1. services[s].at = "record"
      BY DEF RecordDelivered
    <3>2. c \in DOMAIN chats
      <4>1. c \in 0..Len(chats) /\ c # 0
        BY <1>1, <3>1 DEF TypeInv, References, NamesItsRows
      <4> QED
        BY <1>1, <4>1, TypeFacts
    <3>3. PICK i \in DOMAIN chats[c].turns : msgs = chats[c].turns[i].msgs
      BY <3>1 DEF Inv, DeliveryInvariant, RecordedAfterQueued
    <3>4. Carried(c, i).msgs = msgs
      BY <3>3 DEF Carried
    <3>5. PICK prompt : prompt = Carried(c, i)
      OBVIOUS
    <3>6. prompt \in Prompted /\ prompt.msgs = msgs
      BY <2>5, <3>2, <3>3, <3>4, <3>5, InPrompted
    <3>7. Inbox' = [m \in DOMAIN Inbox |->
            IF m \in prompt.msgs THEN [Inbox[m] EXCEPT !.delivered = TRUE] ELSE Inbox[m]]
      <4>1. DOMAIN Inbox = DOMAIN messages /\ DOMAIN Inbox' = DOMAIN messages
            /\ Inbox' = [m \in DOMAIN Inbox' |-> Inbox'[m]]
        BY <1>1 DEF Inbox
      <4> QED
        BY ONLY <2>3, <3>6, <4>1 DEF WasDelivered
    <3> QED
      BY <1>2, <3>6, <3>7 DEF Mail!Deliver
  <2> QED
    BY <2>4, <2>5
<1> QED
  BY <1>3, <1>4

(* All the rest is invisible. *)
LEMMA RowsLetters ==
  ASSUME Inv, \/ RecoverWakes
              \/ \E s \in Services : ClaimNext(s) \/ DeferForceNew(s) \/ RecordFailure(s)
  PROVE  SameLetters /\ ChatsGrow /\ NoNewPrompt
<1>1. /\ TypeInv /\ TypeOK /\ TypeOK' /\ ChatsGrow /\ NoNewPrompt
      /\ DOMAIN messages' = DOMAIN messages
  BY RecoverWakesKeeps, ClaimNextKeeps, DeferForceNewKeeps, RecordFailureKeeps, Stays
     DEF Inv, TypeInv
<1>2. ASSUME NEW m \in DOMAIN messages
      PROVE  \/ messages'[m] = messages[m]
             \/ \E w \in 1..MaxWake : messages'[m] = [messages[m] EXCEPT !.wake = w]
  <2>1. \A w \in DOMAIN wakes : w \in 1..MaxWake
    BY <1>1, TypeFacts
  <2>2. CASE RecoverWakes
    BY <1>1, <2>2, RecoverWakesKeeps
  <2>3. ASSUME NEW s \in Services, ClaimNext(s)
        PROVE  \/ messages'[m] = messages[m]
               \/ \E w \in 1..MaxWake : messages'[m] = [messages[m] EXCEPT !.wake = w]
    BY <1>1, <2>1, <2>3, ClaimNextKeeps DEF Leased
  <2>4. ASSUME NEW s \in Services, DeferForceNew(s)
        PROVE  \/ messages'[m] = messages[m]
               \/ \E w \in 1..MaxWake : messages'[m] = [messages[m] EXCEPT !.wake = w]
    BY <1>1, <2>1, <2>4, DeferForceNewKeeps
  <2>5. ASSUME NEW s \in Services, RecordFailure(s)
        PROVE  messages'[m] = messages[m]
    BY <1>1, <2>5, RecordFailureKeeps
  <2> QED
    BY <2>2, <2>3, <2>4, <2>5
<1>3. SameLetters
  <2> SUFFICES ASSUME NEW m \in DOMAIN messages
               PROVE  /\ messages'[m].type = messages[m].type
                      /\ messages'[m].read = messages[m].read
                      /\ messages'[m].delivered = messages[m].delivered
    BY <1>1 DEF SameLetters
  <2>1. messages[m] \in Message
    BY <1>1, TypeFacts
  <2>2. CASE messages'[m] = messages[m]
    BY <2>2
  <2>3. ASSUME NEW w \in 1..MaxWake, messages'[m] = [messages[m] EXCEPT !.wake = w]
        PROVE  /\ messages'[m].type = messages[m].type
               /\ messages'[m].read = messages[m].read
               /\ messages'[m].delivered = messages[m].delivered
    <3> DEFINE row == [messages[m] EXCEPT !.wake = w]
    <3>1. /\ row.type = messages[m].type /\ row.read = messages[m].read
          /\ row.delivered = messages[m].delivered
      BY <2>1, MessageRows
    <3> HIDE DEF row
    <3>2. messages'[m] = row
      BY <2>3 DEF row
    <3> QED
      BY ONLY <3>1, <3>2
  <2> QED
    BY <1>2, <2>2, <2>3
<1> QED
  BY <1>1, <1>3

LEMMA RowsInvisible ==
  ASSUME Inv, TypeInv',
         \/ RecoverWakes
         \/ \E s \in Services : ClaimNext(s) \/ DeferForceNew(s) \/ RecordFailure(s)
  PROVE  UNCHANGED Mail!mailVars
BY RowsLetters, InboxStays, PromptedStays DEF Mail!mailVars, Inv, TypeInv

LEMMA MovesInvisible ==
  ASSUME Inv,
         \/ Time \/ TurnStarts \/ TurnEnds \/ UserPrompts \/ UserCloses \/ UserOpens
         \/ UNCHANGED vars
         \/ \E s \in Services : \/ Look(s) \/ Relook(s) \/ Raced(s) \/ Fault(s) \/ Crash(s)
                               \/ CloseForWake(s) \/ CreateWakeChat(s)
  PROVE  UNCHANGED Mail!mailVars
<1>1. UNCHANGED messages
  BY DEF Time, LeaseExpires, BackoffEnds, QuietPasses, TurnStarts, TurnEnds, UserPrompts,
         UserCloses, UserOpens, vars, Look, Relook, Raced, Fault, Crash, CloseForWake,
         CreateWakeChat
<1>2. TypeInv /\ TypeOK /\ TypeOK'
  <2>1. [Next]_vars
    BY DEF Next, Deliver
  <2> QED
    BY <2>1, NextKeepsTypes DEF Inv, TypeInv
<1>3. ChatsGrow /\ NoNewPrompt
  <2>1. CASE UNCHANGED chats
    BY <1>2, <2>1, Stays
  <2>2. CASE TurnStarts \/ TurnEnds \/ UserPrompts \/ UserCloses \/ UserOpens
    BY <1>2, <2>2, TurnStartsKeeps, TurnEndsKeeps, UserPromptsKeeps, UserClosesKeeps,
       UserOpensKeeps
  <2>3. CASE \E s \in Services : CloseForWake(s) \/ CreateWakeChat(s)
    BY <1>2, <2>3, CloseForWakeKeeps, CreateWakeChatKeeps
  <2>4. CASE Time \/ UNCHANGED vars
    BY <2>1, <2>4 DEF Time, LeaseExpires, BackoffEnds, QuietPasses, vars
  <2>5. CASE \E s \in Services : Look(s) \/ Relook(s) \/ Raced(s) \/ Fault(s) \/ Crash(s)
    BY <2>1, <2>5 DEF Look, Relook, Raced, Fault, Crash
  <2> QED
    BY <2>2, <2>3, <2>4, <2>5
<1>4. UNCHANGED Inbox
  BY <1>1 DEF Inbox, Letter
<1> QED
  BY <1>2, <1>3, <1>4, PromptedStays DEF Mail!mailVars

LEMMA MailStep ==
  ASSUME Inv, [Next]_vars
  PROVE  [Mail!MailNext]_(Mail!mailVars)
<1>1. CASE \E type \in Declared : Send(type)
  <2>1. PICK type \in Declared : Send(type)
    BY <1>1
  <2>2. /\ TypeOK /\ TypeOK' /\ UNCHANGED chats
    BY <2>1, SendKeeps DEF Inv, TypeInv
  <2>3. UNCHANGED Prompted
    BY <2>2 DEF Prompted, Carried
  <2>4. Mail!Receive(type)
    BY <2>1, <2>3, SendReceives DEF Mail!Receive, Inv
  <2> QED
    BY <2>4 DEF Mail!MailNext
<1>2. CASE \E m \in DOMAIN messages : MarkRead(m)
  <2>1. PICK m \in DOMAIN messages : MarkRead(m)
    BY <1>2
  <2>2. Mail!Read(m) /\ m \in DOMAIN Inbox
    BY <2>1, MarkReadReads DEF Inv, Inbox
  <2> QED
    BY <2>2 DEF Mail!MailNext
<1>3. CASE \E s \in Services : EnqueueTurn(s)
  BY <1>3, EnqueuePrompts DEF Mail!MailNext
<1>4. CASE \E s \in Services : RecordDelivered(s)
  BY <1>4, RecordDelivers DEF Mail!MailNext
<1>5. CASE \/ RecoverWakes
           \/ \E s \in Services : ClaimNext(s) \/ DeferForceNew(s) \/ RecordFailure(s)
  BY <1>5, NextKeepsTypes, RowsInvisible DEF Inv
<1>6. CASE \/ Time \/ TurnStarts \/ TurnEnds \/ UserPrompts \/ UserCloses \/ UserOpens
           \/ UNCHANGED vars
           \/ \E s \in Services : \/ Look(s) \/ Relook(s) \/ Raced(s) \/ Fault(s) \/ Crash(s)
                                 \/ CloseForWake(s) \/ CreateWakeChat(s)
  BY <1>6, MovesInvisible
<1> QED
  BY <1>1, <1>2, <1>3, <1>4, <1>5, <1>6 DEF Next, Deliver

LEMMA MailStart ==
  ASSUME Init
  PROVE  Mail!MailInit
<1>1. DOMAIN messages = {} /\ DOMAIN chats = {}
  <2>1. messages = <<>> /\ chats = <<>>
    BY DEF Init
  <2> QED
    BY <2>1, EmptySeq
<1>2. Inbox = <<>>
  <2>1. Inbox \in [1..0 -> {}]
    BY <1>1 DEF Inbox
  <2>2. Inbox \in Seq({}) /\ Len(Inbox) = 0
    BY <2>1, SeqMade
  <2> QED
    BY <2>2, EmptySeq
<1>3. Prompted = {}
  BY <1>1 DEF Prompted
<1> QED
  BY <1>2, <1>3 DEF Mail!MailInit

(* Whatever wakes, leases, attempts, services and crashes a message goes
   through, its receiver sees what Mailbox promises. *)
THEOREM DeliveryImplementsMailbox == Spec => ImplementsMailbox
<1>1. Init => Mail!MailInit
  BY MailStart
<1>2. Inv /\ [Next]_vars => [Mail!MailNext]_(Mail!mailVars)
  BY MailStep
<1> QED
  BY <1>1, <1>2, AlwaysInv, PTL DEF Spec, ImplementsMailbox, Mail!MailSpec

-----------------------------------------------------------------------------
(* Where one service delivers. *)
LoneService == \A s, t \in Services : s = t
Once == Inv /\ HoldsItsLease /\ TurnsAreRecorded /\ PromptedOnce

LEMMA CrashSeen ==
  ASSUME TypeInv, NEW s \in Services, Crash(s)
  PROVE  used'.crash # 0
<1>1. used \in [crash : 0..MaxCrash, fault : 0..MaxFault,
                read : 0..MaxRead, stall : 0..MaxStall, acts : 0..MaxActs]
  BY DEF TypeInv, TypeOK
<1>2. used.crash \in Nat /\ [used EXCEPT !.crash = @ + 1].crash = used.crash + 1
  BY <1>1
<1>3. used' = [used EXCEPT !.crash = @ + 1]
  BY DEF Crash
<1> QED
  BY <1>2, <1>3

LEMMA CrashesStay ==
  ASSUME TypeInv, [Next]_vars
  PROVE  used'.crash = 0 => used.crash = 0
<1>1. used \in [crash : 0..MaxCrash, fault : 0..MaxFault,
                read : 0..MaxRead, stall : 0..MaxStall, acts : 0..MaxActs]
  BY DEF TypeInv, TypeOK
<1>2. /\ [used EXCEPT !.fault = @ + 1].crash = used.crash
      /\ [used EXCEPT !.read = @ + 1].crash = used.crash
      /\ [used EXCEPT !.stall = @ + 1].crash = used.crash
      /\ [used EXCEPT !.acts = @ + 1].crash = used.crash
  BY <1>1
<1>3. CASE UNCHANGED used
  BY <1>3
<1>4. CASE \/ used' = [used EXCEPT !.fault = @ + 1] \/ used' = [used EXCEPT !.read = @ + 1]
           \/ used' = [used EXCEPT !.stall = @ + 1] \/ used' = [used EXCEPT !.acts = @ + 1]
  BY <1>2, <1>4
<1>5. CASE \E s \in Services : Deliver(s)
  BY <1>3, <1>5 DEF Deliver, ClaimNext, Look, Relook, CloseForWake, Raced, CreateWakeChat,
     EnqueueTurn, RecordDelivered, DeferForceNew, RecordFailure
<1>6. CASE \E s \in Services : Fault(s)
  BY <1>4, <1>6 DEF Fault
<1>7. CASE \E s \in Services : Crash(s)
  BY <1>7, CrashSeen
<1>8. CASE Time
  BY <1>3, <1>4, <1>8 DEF Time, LeaseExpires, BackoffEnds, QuietPasses
<1>9. CASE TurnStarts \/ TurnEnds \/ UserPrompts \/ UserCloses \/ UserOpens
  BY <1>3, <1>4, <1>9 DEF TurnStarts, TurnEnds, UserPrompts, UserCloses, UserOpens, Act
<1>10. CASE \/ RecoverWakes
            \/ \E type \in Declared : Send(type)
            \/ \E m \in DOMAIN messages : MarkRead(m)
  BY <1>3, <1>4, <1>10 DEF Send, RecoverWakes, MarkRead
<1>11. CASE UNCHANGED vars
  BY <1>3, <1>11 DEF vars
<1> QED
  BY <1>5, <1>6, <1>7, <1>8, <1>9, <1>10, <1>11 DEF Next

(* No turn is new. *)
LEMMA OnceStays ==
  ASSUME Once, TypeInv', MessagesGrow, ChatsGrow, NoNewPrompt, used'.crash = 0 => used.crash = 0,
         \A m \in DOMAIN messages : used'.crash = 0 /\ Recorded(m) => Recorded(m)'
  PROVE  TurnsAreRecorded' /\ PromptedOnce'
<1>1. \A c \in DOMAIN chats' : \A i \in DOMAIN chats'[c].turns : chats'[c].turns[i].msgs # {} =>
        /\ c \in DOMAIN chats /\ i \in DOMAIN chats[c].turns
        /\ chats'[c].turns[i].msgs = chats[c].turns[i].msgs
  BY DEF NoNewPrompt, ChatsGrow
<1>2. TurnsAreRecorded'
  <2> SUFFICES ASSUME used'.crash = 0, NEW c \in DOMAIN chats', NEW i \in DOMAIN chats'[c].turns,
                      NEW m \in chats'[c].turns[i].msgs
               PROVE  Recorded(m)'
    BY DEF TurnsAreRecorded
  <2>1. /\ c \in DOMAIN chats /\ i \in DOMAIN chats[c].turns
        /\ m \in chats[c].turns[i].msgs
    BY <1>1
  <2>2. m \in DOMAIN messages
    BY <2>1 DEF Once, Inv, TypeInv, References
  <2>3. Recorded(m)
    BY <2>1 DEF Once, TurnsAreRecorded
  <2> QED
    BY <2>2, <2>3
<1>3. PromptedOnce'
  <2> SUFFICES ASSUME used'.crash = 0, NEW c \in DOMAIN chats', NEW d \in DOMAIN chats',
                      NEW i \in DOMAIN chats'[c].turns, NEW j \in DOMAIN chats'[d].turns,
                      chats'[c].turns[i].msgs \cap chats'[d].turns[j].msgs # {}
               PROVE  c = d /\ i = j
    BY DEF PromptedOnce
  <2>1. /\ c \in DOMAIN chats /\ i \in DOMAIN chats[c].turns
        /\ d \in DOMAIN chats /\ j \in DOMAIN chats[d].turns
        /\ chats[c].turns[i].msgs \cap chats[d].turns[j].msgs # {}
    BY <1>1
  <2> QED
    BY <2>1 DEF Once, PromptedOnce
<1> QED
  BY <1>2, <1>3

(* The services stay where they are. *)
LEMMA ServicesStayOnce ==
  ASSUME Once, TypeInv', MessagesGrow, ChatsGrow, NoNewPrompt, NothingDelivered,
         UNCHANGED services, used'.crash = 0 => used.crash = 0,
         \A w \in DOMAIN wakes : wakes[w].state = "delivering" =>
           wakes'[w].state = "delivering" /\ wakes'[w].owner = wakes[w].owner
  PROVE  HoldsItsLease' /\ TurnsAreRecorded' /\ PromptedOnce'
<1>1. DOMAIN messages \subseteq DOMAIN messages'
  BY TypeFacts, TypeFactsNext DEF Once, Inv, TypeInv, MessagesGrow
<1>2. HoldsItsLease'
  <2> SUFFICES ASSUME NEW s \in Services, services[s].at # "idle"
               PROVE  Owns(s)' /\ services[s].msgs \subseteq Undelivered'
    BY DEF HoldsItsLease
  <2>1. /\ Owns(s) /\ services[s].msgs \subseteq Undelivered
        /\ services[s].wake \in DOMAIN wakes
    BY DEF Once, HoldsItsLease, Inv, TypeInv, References, NamesItsRows
  <2>2. Owns(s)'
    BY <2>1 DEF Owns
  <2>3. services[s].msgs \subseteq Undelivered'
    BY <1>1, <2>1 DEF Undelivered, NothingDelivered
  <2> QED
    BY <2>2, <2>3
<1>3. \A m \in DOMAIN messages : Recorded(m) => Recorded(m)'
  BY DEF Recorded, MessagesGrow
<1> QED
  BY <1>2, <1>3, OnceStays

LEMMA RowStepOnce ==
  ASSUME Once, [Next]_vars,
         \/ RecoverWakes
         \/ \E type \in Declared : Send(type)
         \/ \E m \in DOMAIN messages : MarkRead(m)
         \/ Time \/ TurnStarts \/ TurnEnds \/ UserPrompts \/ UserCloses \/ UserOpens
         \/ UNCHANGED vars
  PROVE  HoldsItsLease' /\ TurnsAreRecorded' /\ PromptedOnce'
<1> DEFINE Delivering == \A w \in DOMAIN wakes : wakes[w].state = "delivering" =>
             wakes'[w].state = "delivering" /\ wakes'[w].owner = wakes[w].owner
<1>1. TypeInv /\ TypeInv' /\ (used'.crash = 0 => used.crash = 0)
  BY NextKeepsTypes, CrashesStay DEF Once, Inv
<1>2. CASE \E type \in Declared : Send(type)
  <2>1. /\ MessagesGrow /\ UNCHANGED <<chats, services>> /\ NothingDelivered /\ Delivering
    BY <1>1, <1>2, SendKeeps DEF NothingDelivered, JoinedOrNew
  <2> QED
    BY <1>1, <2>1, Stays, ServicesStayOnce DEF TypeInv
<1>3. CASE RecoverWakes
  <2>1. /\ MessagesGrow /\ UNCHANGED <<chats, services>> /\ Delivering
    BY <1>1, <1>3, RecoverWakesKeeps DEF JoinedOrNew
  <2>2. SameLetters
    BY <1>3, RowsLetters DEF Once
  <2> QED
    BY <1>1, <2>1, <2>2, Stays, ServicesStayOnce DEF TypeInv, SameLetters, NothingDelivered
<1>4. CASE \E m \in DOMAIN messages : MarkRead(m)
  <2>1. PICK m \in DOMAIN messages : MarkRead(m)
    BY <1>4
  <2>2. MessagesGrow /\ ChatsGrow /\ NoNewPrompt /\ UNCHANGED services /\ DOMAIN messages' = DOMAIN messages
    BY <1>1, <2>1, MarkReadKeeps DEF MarkRead
  <2>3. NothingDelivered
    <3>1. \A n \in DOMAIN messages : messages'[n] = messages[n]
             \/ messages'[n] = [messages[n] EXCEPT !.read = TRUE]
      BY <1>1, <2>1, MarkReadKeeps
    <3>2. \A n \in DOMAIN messages :
            [messages[n] EXCEPT !.read = TRUE].delivered = messages[n].delivered
      BY <1>1, TypeFacts, MessageRows DEF TypeInv
    <3> QED
      BY <2>2, <3>1, <3>2 DEF NothingDelivered
  <2>4. Delivering
    BY <2>1 DEF MarkRead
  <2> QED
    BY <1>1, <2>2, <2>3, <2>4, ServicesStayOnce
<1>5. CASE Time
  <2>1. UNCHANGED <<messages, chats, services>> /\ Delivering
    BY <1>1, <1>5, TimeKeeps DEF Time
  <2> QED
    BY <1>1, <2>1, Stays, ServicesStayOnce DEF TypeInv, NothingDelivered
<1>6. CASE TurnStarts \/ TurnEnds \/ UserPrompts \/ UserCloses \/ UserOpens \/ UNCHANGED vars
  <2>1. UNCHANGED <<messages, wakes, services>>
    BY <1>6 DEF TurnStarts, TurnEnds, UserPrompts, UserCloses, UserOpens, vars
  <2>2. MessagesGrow /\ ChatsGrow /\ NoNewPrompt
    BY <1>1, <1>6, <2>1, TurnStartsKeeps, TurnEndsKeeps, UserPromptsKeeps, UserClosesKeeps,
       UserOpensKeeps, Stays DEF TypeInv, vars
  <2> QED
    BY <1>1, <2>1, <2>2, ServicesStayOnce DEF NothingDelivered
<1> QED
  BY <1>2, <1>3, <1>4, <1>5, <1>6

(* A service that only moves keeps its lease. *)
LEMMA MoveOnce ==
  ASSUME Once, NEW s \in Services, Moved(s), services[s].at \notin {"idle", "record"},
         TypeInv', ChatsGrow, NoNewPrompt, UNCHANGED <<messages, wakes>>,
         used'.crash = 0 => used.crash = 0
  PROVE  HoldsItsLease' /\ TurnsAreRecorded' /\ PromptedOnce'
<1>1. HoldsItsLease'
  <2> SUFFICES ASSUME NEW t \in Services, services'[t].at # "idle"
               PROVE  Owns(t)' /\ services'[t].msgs \subseteq Undelivered'
    BY DEF HoldsItsLease
  <2>1. /\ services[t].at # "idle"
        /\ services'[t].wake = services[t].wake /\ services'[t].msgs = services[t].msgs
    BY DEF Moved, OthersStay
  <2>2. Owns(t) /\ services[t].msgs \subseteq Undelivered
    BY <2>1 DEF Once, HoldsItsLease
  <2> QED
    BY <2>1, <2>2 DEF Owns, Undelivered
<1>2. \A m \in DOMAIN messages : Recorded(m) => Recorded(m)'
  BY DEF Recorded, Moved, OthersStay
<1>3. MessagesGrow
  BY Stays DEF Once, Inv, TypeInv
<1> QED
  BY <1>1, <1>2, <1>3, OnceStays

LEMMA MoveStepOnce ==
  ASSUME Once, [Next]_vars, NEW s \in Services,
         \/ Look(s) \/ Relook(s) \/ Raced(s) \/ Fault(s)
         \/ CloseForWake(s) \/ CreateWakeChat(s)
  PROVE  HoldsItsLease' /\ TurnsAreRecorded' /\ PromptedOnce'
<1>1. TypeInv /\ TypeInv' /\ (used'.crash = 0 => used.crash = 0)
  BY NextKeepsTypes, CrashesStay DEF Once, Inv
<1>2. Moved(s) /\ ChatsGrow /\ NoNewPrompt
  <2>1. CASE Look(s) \/ Relook(s) \/ Raced(s) \/ Fault(s)
    BY <1>1, <2>1, LookMoves, RelookMoves, RacedMoves, FaultMoves, Stays DEF TypeInv
  <2>2. CASE CloseForWake(s) \/ CreateWakeChat(s)
    BY <1>1, <2>2, CloseForWakeKeeps, CreateWakeChatKeeps
  <2> QED
    BY <2>1, <2>2
<1>3. services[s].at \notin {"idle", "record"} /\ UNCHANGED <<messages, wakes>>
  BY DEF Look, Relook, Raced, Fault, CloseForWake, CreateWakeChat
<1> QED
  BY <1>1, <1>2, <1>3, MoveOnce

(* The turn that is queued is the first of its messages: what other turns have
   is delivered, for the service that could be about to record it is this one. *)
LEMMA TurnQueued ==
  ASSUME TypeInv, NEW s \in Services, EnqueueTurn(s)
  PROVE  \/ UNCHANGED chats
         \/ /\ services'[s].at = "record"
            /\ \E c, j :
                 \A d \in DOMAIN chats' : \A i \in DOMAIN chats'[d].turns :
                   \/ /\ d \in DOMAIN chats /\ i \in DOMAIN chats[d].turns
                      /\ chats'[d].turns[i].msgs = chats[d].turns[i].msgs
                   \/ d = c /\ i = j /\ chats'[d].turns[i].msgs = services[s].msgs
<1> DEFINE c == services[s].target
           j == Len(chats[c].turns) + 1
<1>1. services[s].at = "enqueue" /\ ChatsGrow
  BY EnqueueTurnKeeps DEF EnqueueTurn
<1>2. CASE /\ chats' = [chats EXCEPT ![c].turns = Append(@, NewPrompt(s))]
           /\ Goto(s, "record")
  <2>1. services'[s].at = "record"
    BY <1>2, GotoAt DEF Steps
  <2>2. /\ DOMAIN chats' = DOMAIN chats
        /\ DOMAIN chats'[c].turns = DOMAIN chats[c].turns \cup {j}
        /\ chats'[c].turns[j] = NewPrompt(s)
        /\ \A d \in DOMAIN chats : d # c => chats'[d] = chats[d]
    BY <1>1, <1>2, PromptAdded
  <2>3. NewPrompt(s).msgs = services[s].msgs
    BY DEF NewPrompt
  <2> HIDE DEF c, j
  <2>4. ASSUME NEW d \in DOMAIN chats', NEW i \in DOMAIN chats'[d].turns
        PROVE  \/ /\ d \in DOMAIN chats /\ i \in DOMAIN chats[d].turns
                  /\ chats'[d].turns[i].msgs = chats[d].turns[i].msgs
               \/ d = c /\ i = j /\ chats'[d].turns[i].msgs = services[s].msgs
    <3>1. CASE d = c
      BY <1>1, <2>2, <2>3, <2>4, <3>1 DEF ChatsGrow
    <3>2. CASE d # c
      BY <2>2, <2>4, <3>2
    <3> QED
      BY <3>1, <3>2
  <2> QED
    BY <2>1, <2>4
<1> QED
  BY <1>2 DEF EnqueueTurn, NewPrompt

LEMMA EnqueueTurnOnce ==
  ASSUME Once, LoneService, [Next]_vars, NEW s \in Services, EnqueueTurn(s)
  PROVE  HoldsItsLease' /\ TurnsAreRecorded' /\ PromptedOnce'
<1>1. TypeInv /\ TypeInv' /\ Moved(s) /\ MessagesGrow /\ ChatsGrow
  BY EnqueueTurnKeeps DEF Once, Inv
<1>2. services[s].at = "enqueue" /\ UNCHANGED <<messages, wakes, used>>
  BY DEF EnqueueTurn
<1>3. services[s].msgs \subseteq Undelivered
  BY <1>2 DEF Once, HoldsItsLease
<1>4. ASSUME used.crash = 0, NEW d \in DOMAIN chats, NEW i \in DOMAIN chats[d].turns,
             NEW m \in chats[d].turns[i].msgs
      PROVE  messages[m].delivered /\ m \notin services[s].msgs
  <2>1. Recorded(m)
    BY <1>4 DEF Once, TurnsAreRecorded
  <2>2. \A t \in Services : services[t].at # "record"
    BY <1>2 DEF LoneService
  <2> QED
    BY <1>3, <2>1, <2>2 DEF Recorded, Undelivered
<1>5. CASE UNCHANGED chats
  <2>1. NoNewPrompt
    BY <1>1, <1>5, Stays DEF TypeInv
  <2> QED
    BY <1>1, <1>2, <2>1, MoveOnce
<1>6. CASE /\ services'[s].at = "record"
           /\ \E c, j :
                \A d \in DOMAIN chats' : \A i \in DOMAIN chats'[d].turns :
                  \/ /\ d \in DOMAIN chats /\ i \in DOMAIN chats[d].turns
                     /\ chats'[d].turns[i].msgs = chats[d].turns[i].msgs
                  \/ d = c /\ i = j /\ chats'[d].turns[i].msgs = services[s].msgs
  <2>1. PICK c, j :
          \A d \in DOMAIN chats' : \A i \in DOMAIN chats'[d].turns :
            \/ /\ d \in DOMAIN chats /\ i \in DOMAIN chats[d].turns
               /\ chats'[d].turns[i].msgs = chats[d].turns[i].msgs
            \/ d = c /\ i = j /\ chats'[d].turns[i].msgs = services[s].msgs
    BY <1>6
  <2>2. HoldsItsLease'
    <3> SUFFICES ASSUME NEW t \in Services, services'[t].at # "idle"
                 PROVE  Owns(t)' /\ services'[t].msgs \subseteq Undelivered'
      BY DEF HoldsItsLease
    <3>1. /\ services[t].at # "idle"
          /\ services'[t].wake = services[t].wake /\ services'[t].msgs = services[t].msgs
      BY <1>1, <1>2 DEF Moved, OthersStay
    <3>2. Owns(t) /\ services[t].msgs \subseteq Undelivered
      BY <3>1 DEF Once, HoldsItsLease
    <3> QED
      BY <1>2, <3>1, <3>2 DEF Owns, Undelivered
  <2>3. TurnsAreRecorded'
    <3> SUFFICES ASSUME used'.crash = 0, NEW d \in DOMAIN chats', NEW i \in DOMAIN chats'[d].turns,
                        NEW m \in chats'[d].turns[i].msgs
                 PROVE  Recorded(m)'
      BY DEF TurnsAreRecorded
    <3>1. messages[m].delivered \/ m \in services'[s].msgs
      BY <1>1, <1>2, <1>4, <2>1 DEF Moved
    <3> QED
      BY <1>2, <1>6, <3>1 DEF Recorded
  <2>4. PromptedOnce'
    <3> SUFFICES ASSUME used'.crash = 0, NEW d \in DOMAIN chats', NEW e \in DOMAIN chats',
                        NEW i \in DOMAIN chats'[d].turns, NEW k \in DOMAIN chats'[e].turns,
                        chats'[d].turns[i].msgs \cap chats'[e].turns[k].msgs # {}
                 PROVE  d = e /\ i = k
      BY DEF PromptedOnce
    <3>1. used.crash = 0
      BY <1>2
    <3>2. CASE /\ d \in DOMAIN chats /\ i \in DOMAIN chats[d].turns
               /\ chats'[d].turns[i].msgs = chats[d].turns[i].msgs
      <4>1. chats'[d].turns[i].msgs \cap services[s].msgs = {}
        BY <1>4, <3>1, <3>2
      <4>2. /\ e \in DOMAIN chats /\ k \in DOMAIN chats[e].turns
            /\ chats'[e].turns[k].msgs = chats[e].turns[k].msgs
        BY <2>1, <4>1
      <4> QED
        BY <3>1, <3>2, <4>2 DEF Once, PromptedOnce
    <3>3. CASE d = c /\ i = j /\ chats'[d].turns[i].msgs = services[s].msgs
      <4>1. CASE /\ e \in DOMAIN chats /\ k \in DOMAIN chats[e].turns
                 /\ chats'[e].turns[k].msgs = chats[e].turns[k].msgs
        BY <1>4, <3>1, <3>3, <4>1
      <4> QED
        BY <2>1, <3>3, <4>1
    <3> QED
      BY <2>1, <3>2, <3>3
  <2> QED
    BY <2>2, <2>3, <2>4
<1> QED
  BY <1>5, <1>6, <1>1, TurnQueued

(* A service that ends has recorded its messages, or never queued their turn. *)
LEMMA FinishOnce ==
  ASSUME Once, LoneService, NEW s \in Services, Finished(s), TypeInv', MessagesGrow,
         ChatsGrow, NoNewPrompt, used'.crash = 0 => used.crash = 0,
         used'.crash = 0 /\ services[s].at = "record" =>
           \A m \in services[s].msgs : messages'[m].delivered
  PROVE  HoldsItsLease' /\ TurnsAreRecorded' /\ PromptedOnce'
<1>1. \A t \in Services : services'[t].at = "idle"
  BY DEF LoneService, Finished, Idle
<1>2. HoldsItsLease'
  BY <1>1 DEF HoldsItsLease
<1>3. \A m \in DOMAIN messages : used'.crash = 0 /\ Recorded(m) => Recorded(m)'
  BY DEF LoneService, Recorded, MessagesGrow
<1> QED
  BY <1>2, <1>3, OnceStays

LEMMA RecordOnce ==
  ASSUME Once, LoneService, [Next]_vars, NEW s \in Services,
         RecordDelivered(s) \/ DeferForceNew(s) \/ RecordFailure(s) \/ Crash(s)
  PROVE  HoldsItsLease' /\ TurnsAreRecorded' /\ PromptedOnce'
<1>1. TypeInv /\ TypeInv' /\ (used'.crash = 0 => used.crash = 0)
  BY NextKeepsTypes, CrashesStay DEF Once, Inv
<1>2. CASE RecordDelivered(s)
  <2>1. /\ Finished(s) /\ MessagesGrow /\ UNCHANGED chats
        /\ services[s].at = "record"
    BY <1>1, <1>2, RecordDeliveredKeeps DEF RecordDelivered
  <2>2. /\ Owns(s) /\ services[s].msgs \subseteq DOMAIN messages
    BY <2>1 DEF Once, HoldsItsLease, Undelivered
  <2>3. \A m \in services[s].msgs : messages'[m] = [messages[m] EXCEPT !.delivered = TRUE]
    BY <1>2, <2>2 DEF RecordDelivered
  <2>4. \A m \in DOMAIN messages : [messages[m] EXCEPT !.delivered = TRUE].delivered
    BY <1>1, TypeFacts, MessageRows DEF TypeInv
  <2> QED
    BY <1>1, <2>1, <2>2, <2>3, <2>4, Stays, FinishOnce DEF TypeInv
<1>3. CASE DeferForceNew(s)
  <2>1. /\ Finished(s) /\ MessagesGrow /\ UNCHANGED chats /\ services[s].at # "record"
    BY <1>1, <1>3, DeferForceNewKeeps DEF DeferForceNew
  <2> QED
    BY <1>1, <2>1, Stays, FinishOnce DEF TypeInv
<1>4. CASE RecordFailure(s)
  <2>1. /\ Finished(s) /\ UNCHANGED messages /\ ChatsGrow /\ NoNewPrompt
        /\ services[s].at # "record"
    BY <1>1, <1>4, RecordFailureKeeps DEF RecordFailure
  <2> QED
    BY <1>1, <2>1, Stays, FinishOnce DEF TypeInv
<1>5. CASE Crash(s)
  <2>1. Finished(s) /\ UNCHANGED <<messages, chats>> /\ used'.crash # 0
    BY <1>1, <1>5, CrashFinishes, CrashSeen
  <2> QED
    BY <1>1, <2>1, Stays, FinishOnce DEF TypeInv
<1> QED
  BY <1>2, <1>3, <1>4, <1>5

(* A service that claims had nothing; what it takes is undelivered. *)
LEMMA ClaimOnce ==
  ASSUME Once, LoneService, [Next]_vars, NEW s \in Services, ClaimNext(s)
  PROVE  HoldsItsLease' /\ TurnsAreRecorded' /\ PromptedOnce'
<1>1. /\ TypeInv /\ TypeInv' /\ (used'.crash = 0 => used.crash = 0)
      /\ MessagesGrow /\ UNCHANGED chats
  BY NextKeepsTypes, CrashesStay, ClaimNextKeeps DEF Once, Inv
<1>2. \A t \in Services : services[t].at = "idle"
  BY DEF LoneService, ClaimNext
<1>3. \A m \in DOMAIN messages : Recorded(m) => Recorded(m)'
  BY <1>1, <1>2 DEF Recorded, MessagesGrow
<1>4. TurnsAreRecorded' /\ PromptedOnce'
  BY <1>1, <1>3, Stays, OnceStays DEF TypeInv
<1>5. CASE UNCHANGED services
  BY <1>2, <1>4, <1>5 DEF HoldsItsLease
<1>6. CASE \E w \in DOMAIN wakes : Leased(s, w)
  <2>1. PICK w \in DOMAIN wakes : Leased(s, w)
    BY <1>6
  <2>2. \A m \in DOMAIN messages : [messages[m] EXCEPT !.wake = w].delivered = messages[m].delivered
    BY <1>1, TypeFacts, MessageRows DEF TypeInv
  <2>3. DOMAIN messages' = DOMAIN messages
    BY <1>1, ClaimNextKeeps
  <2>4. Undelivered \subseteq Undelivered'
    BY <2>1, <2>2, <2>3 DEF Leased, Undelivered
  <2>5. \A t \in Services : Owns(t)' /\ services'[t].msgs \subseteq Undelivered'
    BY <2>1, <2>4 DEF LoneService, Leased, Owns
  <2> QED
    BY <1>4, <2>5 DEF HoldsItsLease
<1> QED
  BY <1>1, <1>5, <1>6, ClaimNextKeeps

LEMMA NextOnce ==
  ASSUME Once, LoneService, [Next]_vars
  PROVE  Once'
<1>1. ASSUME NEW s \in Services, Deliver(s) \/ Fault(s) \/ Crash(s)
      PROVE  HoldsItsLease' /\ TurnsAreRecorded' /\ PromptedOnce'
  <2>1. CASE \/ Look(s) \/ Relook(s) \/ Raced(s) \/ Fault(s)
             \/ CloseForWake(s) \/ CreateWakeChat(s)
    BY <2>1, MoveStepOnce
  <2>2. CASE RecordDelivered(s) \/ DeferForceNew(s) \/ RecordFailure(s) \/ Crash(s)
    BY <2>2, RecordOnce
  <2>3. CASE ClaimNext(s)
    BY <2>3, ClaimOnce
  <2>4. CASE EnqueueTurn(s)
    BY <2>4, EnqueueTurnOnce
  <2> QED
    BY <1>1, <2>1, <2>2, <2>3, <2>4 DEF Deliver
<1>2. ASSUME \/ RecoverWakes
             \/ \E type \in Declared : Send(type)
             \/ \E m \in DOMAIN messages : MarkRead(m)
             \/ Time \/ TurnStarts \/ TurnEnds \/ UserPrompts \/ UserCloses \/ UserOpens
             \/ UNCHANGED vars
      PROVE  HoldsItsLease' /\ TurnsAreRecorded' /\ PromptedOnce'
  BY <1>2, RowStepOnce
<1>3. HoldsItsLease' /\ TurnsAreRecorded' /\ PromptedOnce'
  BY <1>1, <1>2 DEF Next
<1>4. Inv'
  BY NextInv DEF Once
<1> QED
  BY <1>3, <1>4 DEF Once

LEMMA InitialOnce ==
  ASSUME Init
  PROVE  Once
<1>1. TypeOK /\ DOMAIN chats = {}
  <2>1. TypeOK /\ chats = <<>>
    BY InitialTypes DEF TypeInv, Init
  <2> QED
    BY <2>1, TypeFacts, EmptySeq
<1>2. \A s \in Services : services[s].at = "idle"
  BY DEF Init, Idle
<1>3. HoldsItsLease /\ TurnsAreRecorded /\ PromptedOnce
  BY <1>1, <1>2 DEF HoldsItsLease, TurnsAreRecorded, PromptedOnce
<1> QED
  BY <1>3, InitialInv DEF Once

(* Where one service delivers and none dies, a message is in one turn: failed
   attempts, lapsed leases, deferrals, recoveries and races with users never
   queue it again. *)
THEOREM LoneServicePromptsOnce ==
  ASSUME LoneService
  PROVE  Spec => []PromptedOnce
<1>1. Init => Once
  BY InitialOnce
<1>2. Once /\ [Next]_vars => Once'
  BY NextOnce
<1>3. Once => PromptedOnce
  BY DEF Once
<1> QED
  BY <1>1, <1>2, <1>3, PTL DEF Spec
=============================================================================
