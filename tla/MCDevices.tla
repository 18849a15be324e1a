------------------------------- MODULE MCDevices -------------------------------
(* The handles and transfers of the libusb bindings: the device sheet with two   *)
(* controllers, or asynchronous transfers; one of the two in a behaviour.        *)
EXTENDS AsyncTransfer, DeviceDialog

CONSTANTS d1, d2

MCOrders == {<<d1, d2>>}

VARIABLE part

MCInit ==
    /\ Init /\ DialogInit
    /\ \/ part = "transfers" /\ plugged = {} /\ mode = [c \in Controllers |-> "appl"]
       \/ part = "dialog" /\ buffer = [t \in Transfers |-> CHOOSE b \in Buffers : TRUE]

MCNext ==
    \/ part = "transfers" /\ Next /\ UNCHANGED <<dialogVars, part>>
    \/ part = "dialog" /\ DialogNext /\ UNCHANGED <<vars, part>>

MCSpec == MCInit /\ [][MCNext]_<<vars, dialogVars, part>> /\ DialogFairness

\* The values of the variables of AsyncTransfer and DeviceDialog.
MCTypeOK == TypeOK /\ DialogTypeOK
===============================================================================
