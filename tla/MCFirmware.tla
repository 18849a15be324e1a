------------------------------ MODULE MCFirmware ------------------------------
(* A firmware file is loaded, or an update is made with a given one: one of the two *)
(* in a behaviour.                                                                  *)
EXTENDS FirmwareUpdate, FlashImage

VARIABLE part

Fresh == /\ flash = [c \in Ctrls |-> [p \in Pages |-> "old"]]
         /\ target = "DF10CH-PWM" /\ ctrl = CHOOSE c \in Ctrls : TRUE

MCInit ==
  /\ Init /\ LoadInit
  /\ part \in {"file", "update"} /\ (part = "file" => Fresh)

MCNext ==
  \/ part = "file" /\ LoadNext /\ UNCHANGED <<vars, part>>
  \/ part = "update" /\ Next /\ UNCHANGED <<loadVars, part>>

MCSpec == MCInit /\ [][MCNext]_<<vars, loadVars, part>>

\* The values of the variables of FirmwareUpdate and FlashImage; no two pages of the image
\* have one address.
MCTypeOK == TypeOK /\ ImageTypeOK /\ PagesDistinct

===============================================================================
