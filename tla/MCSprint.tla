------------------------------- MODULE MCSprint -------------------------------
(* Instances of SprintLanes for TLC. *)
EXTENDS SprintProperties

(* Reports by anyone that wait for any of two units; code that waits for none. *)
PairPlans ==
  {[dev |-> d, kind |-> "report", deps |-> S, wave |-> 0] : d \in Developers, S \in SUBSET {1, 2}}

CodePlans == {[dev |-> d, kind |-> "code", deps |-> {}, wave |-> 0] : d \in Developers}
=============================================================================
