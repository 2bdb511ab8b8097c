----------------------------- MODULE WorkSchedule -----------------------------
(***************************************************************************)
(* What the release of Sprint work promises, whatever moves the units:     *)
(* work goes out to one person at a time, after all that it needs is done, *)
(* and only while the schedule runs; what is done or dropped stays so.     *)
(***************************************************************************)
CONSTANTS
  Items,    \* units of work
  People    \* who may be given one

VARIABLES
  stage,    \* of each item
  who,      \* the person it is planned for
  needs,    \* the items it depends on
  running   \* the schedule runs

vars == <<stage, who, needs, running>>

Stages == {"none", "waiting", "out", "done", "dropped"}

Init ==
  /\ stage = [i \in Items |-> "none"] /\ who \in [Items -> People]
  /\ needs \in [Items -> SUBSET Items] /\ running = FALSE

Is(i, at) == stage[i] = at

(* Plan an item, or plan again one that has not gone out. *)
Plan(i) ==
  /\ stage[i] \in {"none", "waiting"}
  /\ stage' = [stage EXCEPT ![i] = "waiting"]
  /\ \E p \in People, S \in SUBSET Items :
       who' = [who EXCEPT ![i] = p] /\ needs' = [needs EXCEPT ![i] = S]
  /\ UNCHANGED running

(* An item comes back: declined by the person, or recalled. *)
Return(i) ==
  /\ Is(i, "out") /\ stage' = [stage EXCEPT ![i] = "waiting"]
  /\ UNCHANGED <<who, needs, running>>

(* Planning ends an item that never went out, or a stopped one by decree. *)
Drop(i) ==
  /\ Is(i, "waiting") \/ (Is(i, "out") /\ ~running)
  /\ stage' = [stage EXCEPT ![i] = "dropped"]
  /\ running' \in BOOLEAN /\ (running' => running)
  /\ UNCHANGED <<who, needs>>

Declare(i) ==
  /\ stage[i] \in {"waiting", "out"} /\ ~running
  /\ stage' = [stage EXCEPT ![i] = "done"]
  /\ UNCHANGED <<who, needs, running>>

(* A turn: items are finished, and then others go out. *)
Finishes(i) == Is(i, "out") /\ stage'[i] = "done"

GoesOut(i) ==
  /\ Is(i, "waiting") /\ stage'[i] = "out"
  /\ \A j \in needs[i] : stage'[j] = "done"
  /\ \A j \in Items \ {i} : who[j] = who[i] => stage'[j] # "out"

Turn ==
  /\ stage' \in [Items -> Stages] /\ running' \in BOOLEAN
  /\ \A i \in Items : stage'[i] = stage[i] \/ Finishes(i) \/ (GoesOut(i) /\ running')
  /\ UNCHANGED <<who, needs>>

Next == Turn \/ \E i \in Items : Plan(i) \/ Return(i) \/ Drop(i) \/ Declare(i)

Spec == Init /\ [][Next]_vars

-----------------------------------------------------------------------------
(* No person has two items, and none has gone out before what it needs. *)
OneEach ==
  \A i, j \in Items : Is(i, "out") /\ Is(j, "out") /\ who[i] = who[j] => i = j

NeedsFirst == \A i \in Items : Is(i, "out") => \A j \in needs[i] : Is(j, "done")
=============================================================================
