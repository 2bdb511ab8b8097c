------------------------------ MODULE MCCleanup ------------------------------
(* Instances of SprintCleanup for TLC. *)
EXTENDS CleanupProperties

(* Two shells in the first Sprint, one of them in the second too. *)
CONSTANTS a, b

SharedShell == [s \in Sprints |-> IF s = 1 THEN Shells ELSE {a}]

SessionOnly == {<<"cli", b>>}
TurnOnly == {<<"turn", a>>}
=============================================================================
