--------------------------- MODULE AsyncTransfer ---------------------------
(***************************************************************************)
(* Asynchronous USB transfers of the libusb bindings (usb1.py, USBTransfer *)
(* and USBTransferHelper).  A transfer object wraps a C structure that     *)
(* libusb owns from libusb_submit_transfer until its completion callback.  *)
(* The object does not ask libusb: it keeps a flag of its own,             *)
(* __submitted, and every method that changes the structure checks it.     *)
(* Two threads use the objects: the program's own and the one that handles *)
(* libusb's events and so runs the callbacks, which may set up and submit  *)
(* the transfer they were called for.  While a callback runs, the program  *)
(* leaves that transfer to it.                                             *)
(*                                                                         *)
(* A call of libusb is one step; submit and cancel have a step before or   *)
(* after it, so that a completion may be handled in between.               *)
(*                                                                         *)
(* setIsochronous has no action: it asks the handle for its device, which  *)
(* the handle that getTransfer passes cannot tell, and so always raises    *)
(* before it has changed anything.                                         *)
(***************************************************************************)
EXTENDS Naturals

CONSTANTS
    Transfers,      \* the transfer objects
    Buffers,        \* contents of a transfer's buffer
    Callbacks,      \* user callbacks
    None,           \* no callback, no transfer
    Cancelling      \* the transfers that the program may cancel

ASSUME TransfersAssumption ==
    /\ None \notin Transfers \cup Callbacks
    /\ Cancelling \subseteq Transfers

Kinds == {"control", "bulk", "interrupt"}
Threads == {"program", "events"}

VARIABLES
    submitted,      \* __submitted of each transfer
    initialized,    \* __initialized
    callback,       \* __callback
    kind, buffer,   \* the C structure: its type and the data it points to
    pending,        \* libusb owns the structure: "no", "yes", "cancelled"
    handling,       \* the transfer whose callback the events thread runs
    call            \* what each thread is doing: a call that is not finished

vars == <<submitted, initialized, callback, kind, buffer, pending, handling, call>>
object == <<submitted, initialized, callback>>
structure == <<kind, buffer>>

Idle == [op |-> "none", on |-> None]
Calls == {Idle} \cup [op : {"submit", "cancel"}, on : Transfers]
             \cup [op : {"submitted", "failed"}, on : Transfers]

TypeOK ==
    /\ submitted \in [Transfers -> BOOLEAN]
    /\ initialized \in [Transfers -> BOOLEAN]
    /\ callback \in [Transfers -> Callbacks \cup {None}]
    /\ kind \in [Transfers -> Kinds]
    /\ buffer \in [Transfers -> Buffers]
    /\ pending \in [Transfers -> {"no", "yes", "cancelled"}]
    /\ handling \in Transfers \cup {None}
    /\ call \in [Threads -> Calls]

\* __init__: libusb_alloc_transfer returns a structure of zeros, whose type
\* is the control transfer.
Init ==
    /\ submitted = [t \in Transfers |-> FALSE]
    /\ initialized = [t \in Transfers |-> FALSE]
    /\ callback = [t \in Transfers |-> None]
    /\ kind = [t \in Transfers |-> "control"]
    /\ buffer \in {[t \in Transfers |-> b] : b \in Buffers}
    /\ pending = [t \in Transfers |-> "no"]
    /\ handling = None
    /\ call = [h \in Threads |-> Idle]

\* The events thread may use the transfer whose callback it runs, the program
\* any other one.
MayUse(h, t) ==
    /\ call[h] = Idle
    /\ IF h = "events" THEN handling = t ELSE handling # t

-----------------------------------------------------------------------------
(* Methods that change the structure.                                      *)

Unsubmitted_Never(t) == TRUE
Unsubmitted(t) == ~submitted[t]

\* setControl, setBulk and setInterrupt fill the structure and take the
\* callback.
SetUp(h, t, k, b, c) ==
    /\ MayUse(h, t) /\ Unsubmitted(t)
    /\ kind' = [kind EXCEPT ![t] = k]
    /\ buffer' = [buffer EXCEPT ![t] = b]
    /\ callback' = [callback EXCEPT ![t] = c]
    /\ initialized' = [initialized EXCEPT ![t] = TRUE]
    /\ UNCHANGED <<submitted, pending, handling, call>>

\* setBuffer: another buffer for the same set up; a control transfer's buffer
\* holds its set up and is refused.
SetBuffer(h, t, b) ==
    /\ MayUse(h, t) /\ Unsubmitted(t)
    /\ kind[t] # "control"
    /\ buffer' = [buffer EXCEPT ![t] = b]
    /\ UNCHANGED <<object, kind, pending, handling, call>>

SetCallback(h, t, c) ==
    /\ MayUse(h, t) /\ Unsubmitted(t)
    /\ callback' = [callback EXCEPT ![t] = c]
    /\ UNCHANGED <<submitted, initialized, structure, pending,
                   handling, call>>

Close(h, t) ==
    /\ MayUse(h, t) /\ Unsubmitted(t)
    /\ initialized' = [initialized EXCEPT ![t] = FALSE]
    /\ callback' = [callback EXCEPT ![t] = None]
    /\ UNCHANGED <<submitted, structure, pending, handling, call>>

-----------------------------------------------------------------------------
(* submit and cancel, and what libusb does.                                *)

FlagAtSubmit_Later(t) == submitted[t]
FlagAtSubmit(t) == TRUE

Ready_Any(t) == TRUE
Ready(t) == initialized[t]

\* submit sets the flag before it calls libusb.
Submit(h, t) ==
    /\ MayUse(h, t) /\ Unsubmitted(t) /\ Ready(t)
    /\ submitted' = [submitted EXCEPT ![t] = FlagAtSubmit(t)]
    /\ call' = [call EXCEPT ![h] = [op |-> "submit", on |-> t]]
    /\ UNCHANGED <<initialized, callback, structure, pending, handling>>

\* libusb_submit_transfer takes the transfer, or returns an error: the device
\* is gone, there is no memory, the transfer is already submitted.
LibSubmit(h, t) ==
    /\ call[h] = [op |-> "submit", on |-> t]
    /\ \/ /\ pending[t] = "no"
          /\ pending' = [pending EXCEPT ![t] = "yes"]
          /\ call' = [call EXCEPT ![h] = [op |-> "submitted", on |-> t]]
       \/ /\ call' = [call EXCEPT ![h] = [op |-> "failed", on |-> t]]
          /\ pending' = pending
    /\ UNCHANGED <<object, structure, handling>>

FlagAfterSubmit_Set(t) == TRUE
FlagAfterSubmit(t) == submitted[t]

FlagAfterError(t) == FALSE

\* submit returns, or takes the flag back and raises.
SubmitEnds(h, t) ==
    /\ \/ /\ call[h] = [op |-> "submitted", on |-> t]
          /\ submitted' = [submitted EXCEPT ![t] = FlagAfterSubmit(t)]
       \/ /\ call[h] = [op |-> "failed", on |-> t]
          /\ submitted' = [submitted EXCEPT ![t] = FlagAfterError(t)]
    /\ call' = [call EXCEPT ![h] = Idle]
    /\ UNCHANGED <<initialized, callback, structure, pending, handling>>

\* cancel asks libusb to cancel; it raises when the transfer is not pending.
Cancel(h, t) ==
    /\ t \in Cancelling
    /\ MayUse(h, t)
    /\ pending[t] = "yes"
    /\ pending' = [pending EXCEPT ![t] = "cancelled"]
    /\ call' = [call EXCEPT ![h] = [op |-> "cancel", on |-> t]]
    /\ UNCHANGED <<object, structure, handling>>

\* ... and then marks the transfer as not submitted.
CancelEnds(h, t) ==
    /\ call[h] = [op |-> "cancel", on |-> t]
    /\ submitted' = [submitted EXCEPT ![t] = FALSE]
    /\ call' = [call EXCEPT ![h] = Idle]
    /\ UNCHANGED <<initialized, callback, structure, pending, handling>>

FlagAtEvent(t) == FALSE

\* __callbackWrapper: libusb has completed the transfer, with success, an
\* error, a time out or as cancelled; it owns it no longer.  The flag is
\* reset before the user's callback runs.
Event(t) ==
    /\ handling = None /\ call["events"] = Idle
    /\ pending[t] # "no"
    /\ pending' = [pending EXCEPT ![t] = "no"]
    /\ submitted' = [submitted EXCEPT ![t] = FlagAtEvent(t)]
    /\ handling' = t
    /\ UNCHANGED <<initialized, callback, structure, call>>

\* The callback returns: with USBTransferHelper.__call__ after the submit that
\* a true result asks for.
EventEnds ==
    /\ handling # None /\ call["events"] = Idle
    /\ handling' = None
    /\ UNCHANGED <<object, structure, pending, call>>

Method(h, t) ==
    \/ \E k \in Kinds, b \in Buffers, c \in Callbacks \cup {None} :
          SetUp(h, t, k, b, c)
    \/ \E b \in Buffers : SetBuffer(h, t, b)
    \/ \E c \in Callbacks \cup {None} : SetCallback(h, t, c)
    \/ Close(h, t)
    \/ Submit(h, t) \/ LibSubmit(h, t) \/ SubmitEnds(h, t)
    \/ Cancel(h, t) \/ CancelEnds(h, t)

Next ==
    \/ \E h \in Threads, t \in Transfers : Method(h, t)
    \/ \E t \in Transfers : Event(t)
    \/ EventEnds

Spec == Init /\ [][Next]_vars

-----------------------------------------------------------------------------
(* Properties.                                                             *)

Submitting(t) ==
    \E h \in Threads : call[h].on = t /\ call[h].op \in {"submit", "failed"}

\* A transfer that says it is submitted is one libusb will call back for: the
\* program never waits for, nor is locked out of, a transfer nobody owns.
\* (submit, usb1.py:426-439, against a completion in the other thread before
\* libusb_submit_transfer has returned.)
SubmittedIsPending ==
    \A t \in Transfers : submitted[t] /\ ~Submitting(t) => pending[t] # "no"

\* isSubmitted (usb1.py:420-424) "Tells if this transfer is submitted and
\* still pending": what libusb owns says that it is submitted.  cancel
\* (usb1.py:450) resets the flag before libusb gives the transfer back, so
\* this and the next two hold for transfers that nobody cancels.
PendingIsSubmitted ==
    \A t \in Transfers \ Cancelling : pending[t] # "no" => submitted[t]

\* What libusb owns is set up: a transfer that was never set up, or was closed
\* since, cannot be submitted (submit, usb1.py:432), and one that is submitted
\* cannot be closed (usb1.py:143), whichever thread tries.
PendingIsSetUp ==
    \A t \in Transfers \ Cancelling : pending[t] # "no" => initialized[t]

\* The structure and the callback are not touched while libusb owns the
\* transfer ("All modification methods will raise if called on a submitted
\* transfer", usb1.py:83), so that the completion reaches the callback the
\* transfer was submitted with.
OwnedIsUntouched ==
    [][\A t \in Transfers \ Cancelling :
          pending[t] # "no" =>
             /\ kind'[t] = kind[t] /\ buffer'[t] = buffer[t]
             /\ callback'[t] = callback[t]]_vars

\* The flag says who owns a transfer, and what libusb owns is set up.
TransfersAreSound == SubmittedIsPending /\ PendingIsSubmitted /\ PendingIsSetUp

=============================================================================
