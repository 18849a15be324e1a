---------------------------- MODULE MCSetupStore ----------------------------
(* SetupStore with a setup of three bytes. *)
EXTENDS SetupStore
MCDefault == [i \in 1 .. 3 |-> 0]
===============================================================================
