----------------------------- MODULE MCWakeDelivery -----------------------------
(* Small instances of WakeDelivery for TLC. *)
EXTENDS WakeProperties, TLC

Interchangeable == Permutations(Services)
=============================================================================
