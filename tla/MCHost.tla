-------------------------------- MODULE MCHost --------------------------------
(* What the setup program does with one controller: single requests with their  *)
(* repetition, or the operations on a configuration; one of the two in a        *)
(* behaviour.                                                                   *)
EXTENDS MCControllerConfig, HostRequest

VARIABLE part

MCInit == Init /\ RequestInit /\ part \in {"request", "config"}

MCNext ==
  \/ part = "request" /\ RequestNext /\ UNCHANGED <<vars, part>>
  \/ part = "config" /\ Next /\ UNCHANGED <<requestVars, part>>

MCSpec == MCInit /\ [][MCNext]_<<vars, requestVars, part>> /\ RequestFairness

\* The values of the variables of ControllerConfig and HostRequest.
MCTypeOK == TypeOK /\ RequestTypeOK
================================================================================
