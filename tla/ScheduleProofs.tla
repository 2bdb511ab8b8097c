---------------------------- MODULE ScheduleProofs ----------------------------
(***************************************************************************)
(* Proofs about WorkSchedule, for any items and people.                    *)
(***************************************************************************)
EXTENDS WorkSchedule, TLAPS

TypeOK ==
  /\ stage \in [Items -> Stages] /\ who \in [Items -> People]
  /\ needs \in [Items -> SUBSET Items] /\ running \in BOOLEAN

LEMMA TypeStep == ASSUME TypeOK, [Next]_vars PROVE TypeOK'
<1>1. CASE Turn
  BY <1>1 DEF TypeOK, Turn
<1>2. ASSUME NEW i \in Items, Plan(i) PROVE TypeOK'
  BY <1>2 DEF TypeOK, Plan, Stages
<1>3. ASSUME NEW i \in Items, Return(i) PROVE TypeOK'
  BY <1>3 DEF TypeOK, Return, Stages
<1>4. ASSUME NEW i \in Items, Drop(i) PROVE TypeOK'
  BY <1>4 DEF TypeOK, Drop, Stages
<1>5. ASSUME NEW i \in Items, Declare(i) PROVE TypeOK'
  BY <1>5 DEF TypeOK, Declare, Stages
<1>6. CASE UNCHANGED vars
  BY <1>6 DEF TypeOK, vars
<1> QED BY <1>1, <1>2, <1>3, <1>4, <1>5, <1>6 DEF Next

(* The two promises are kept by every step, given the types. *)
Promise == OneEach /\ NeedsFirst

LEMMA PromiseStep == ASSUME TypeOK, Promise, [Next]_vars PROVE Promise'
<1>1. CASE Turn
  <2>1. OneEach'
    BY <1>1 DEF TypeOK, Promise, OneEach, Turn, Finishes, GoesOut, Is
  <2>2. NeedsFirst'
    BY <1>1 DEF TypeOK, Promise, NeedsFirst, Turn, Finishes, GoesOut, Is
  <2> QED BY <2>1, <2>2 DEF Promise
<1>2. ASSUME NEW i \in Items, Plan(i) PROVE Promise'
  <2>1. OneEach'
    BY <1>2 DEF TypeOK, Promise, OneEach, Plan, Is
  <2>2. NeedsFirst'
    BY <1>2 DEF TypeOK, Promise, NeedsFirst, Plan, Is
  <2> QED BY <2>1, <2>2 DEF Promise
<1>3. ASSUME NEW i \in Items, Return(i) \/ Drop(i) \/ Declare(i) PROVE Promise'
  <2>1. OneEach'
    BY <1>3 DEF TypeOK, Promise, OneEach, Return, Drop, Declare, Is
  <2>2. NeedsFirst'
    BY <1>3 DEF TypeOK, Promise, NeedsFirst, Return, Drop, Declare, Is
  <2> QED BY <2>1, <2>2 DEF Promise
<1>4. CASE UNCHANGED vars
  BY <1>4 DEF Promise, OneEach, NeedsFirst, Is, vars
<1> QED BY <1>1, <1>2, <1>3, <1>4 DEF Next

(* No person has two items out and none is out before what it needs is done,
   in every behaviour of the schedule. *)
THEOREM PromiseKept == Spec => [](TypeOK /\ Promise)
<1>1. Init => TypeOK /\ Promise
  BY DEF Init, TypeOK, Promise, OneEach, NeedsFirst, Is, Stages
<1>2. TypeOK /\ Promise /\ [Next]_vars => (TypeOK /\ Promise)'
  BY TypeStep, PromiseStep
<1> QED BY <1>1, <1>2, PTL DEF Spec
=============================================================================
