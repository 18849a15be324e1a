---------------------------- MODULE FirmwareUpdate ----------------------------
(***************************************************************************)
(* The firmware update (df10ch_setup_pkg/device_dlg.py, firmwareUpdate)    *)
(* with the boot loaders it talks to (usb_boot, pwm_boot): start the boot  *)
(* loaders, flash every controller, the first page blank at first and its  *)
(* contents last, verify, start the application.  Every request can fail,  *)
(* and a controller can restart at any moment.                             *)
(***************************************************************************)
EXTENDS Integers

CONSTANTS Ctrls,       \* the controllers at the bus
          Pages,       \* the application's pages of the flash memory
          Image,       \* the pages of the firmware file
          TARGETS,     \* targets of firmware files: "DF10CH-USB", "DF10CH-PWM"
          MaxUpdates,  \* bound: updates of a behaviour
          MaxRestarts  \* bound: restarts that nobody asked for

ASSUME UpdateAssumption ==
  /\ Pages \subseteq Nat /\ 0 \in Image /\ Image \subseteq Pages
  /\ TARGETS \subseteq {"DF10CH-USB", "DF10CH-PWM"}
  /\ MaxUpdates \in Nat /\ MaxRestarts \in Nat

\* "bad" is what a write leaves that went wrong, with the first word programmed.
Contents == {"old", "new", "blank", "bad"}

VARIABLES
  flash,       \* of the controller that is the target
  mode,        \* what it runs: "appl" or "boot"
  handle,      \* the USB device can still be reached by the handle in DeviceList
  DeviceList,
  serialBL,    \* bootloader_mode() of these: the serial number when they were found
  target,      \* target of the firmware file
  pc,          \* "idle" or the loop of firmwareUpdate
  todo,        \* controllers that the loop has still to do
  ctrl, step,  \* the controller that is flashed, and the next request
  left,        \* pages that are still to be written to it
  doFlash, doRefresh,
  told,        \* history: an error was shown since the controller was written to
  quiet,       \* history: no error was shown in this update
  updates, restarts

device  == <<flash, mode, handle>>
list    == <<DeviceList, serialBL>>
loop    == <<pc, todo, ctrl, step, left>>
flags   == <<doFlash, doRefresh>>
history == <<told, quiet, updates, restarts>>
vars == <<device, list, target, loop, flags, history>>

\* main of both boot loaders: the application is started if its first word is programmed.
Booted(f) == IF f[0] = "blank" THEN "boot" ELSE "appl"

Init ==
  /\ \E k \in {"old", "blank"} : flash = [c \in Ctrls |-> [p \in Pages |-> k]]
  /\ mode = [c \in Ctrls |-> Booted(flash[c])]
  /\ handle = [c \in Ctrls |-> TRUE]
  /\ target \in TARGETS
  /\ DeviceList = Ctrls
  /\ serialBL = [c \in Ctrls |-> target = "DF10CH-USB" /\ mode[c] = "boot"]
  /\ pc = "idle" /\ todo = {} /\ ctrl \in Ctrls /\ step = "mode" /\ left = {}
  /\ doFlash = FALSE /\ doRefresh = FALSE
  /\ told = [c \in Ctrls |-> TRUE] /\ quiet = FALSE
  /\ updates = 0 /\ restarts = 0

Usb == target = "DF10CH-USB"

(***************************************************************************)
(* The controllers                                                         *)
(***************************************************************************)

\* A reset.  The USB controller connects to the bus anew.
Restarted(c) ==
  /\ mode' = [mode EXCEPT ![c] = Booted(flash[c])]
  /\ UNCHANGED flash
OldHandle(c) == handle' = [handle EXCEPT ![c] = FALSE]
AfterReset(c) == Restarted(c) /\ IF Usb THEN OldHandle(c) ELSE UNCHANGED handle

\* Watch dog, loss of power.

Restart ==
  /\ restarts < MaxRestarts /\ restarts' = restarts + 1
  /\ \E c \in Ctrls : AfterReset(c) \/ (Restarted(c) /\ OldHandle(c))
  /\ UNCHANGED <<list, target, loop, flags, told, quiet, updates>>

\* The request to start the boot loader holds the sense pin low over the reset.
BootStarted(c) ==
  /\ mode' = [mode EXCEPT ![c] = "boot"]
  /\ IF Usb THEN OldHandle(c) ELSE UNCHANGED handle
  /\ UNCHANGED flash

\* What a page write that is reported as done leaves in the page, and one that failed.  The
\* PWM application acknowledges the requests of the boot loader and does nothing.
WrongWrites(p) == IF p = 0 THEN {"blank", "bad"} ELSE {"bad"}
Written(c, p, v) ==
  /\ flash' \in IF mode[c] = "boot" THEN {[flash EXCEPT ![c][p] = w] : w \in WrongWrites(p) \cup {v}}
                ELSE {flash}
  /\ UNCHANGED <<mode, handle>>
PartlyWritten(c, p, v) ==
  /\ flash' \in IF mode[c] = "boot" /\ handle[c]
                THEN {flash} \cup {[flash EXCEPT ![c][p] = w] : w \in {v, "blank", "bad"}}
                ELSE {flash}
  /\ UNCHANGED <<mode, handle>>

\* A request of the boot loader can be answered.
Answers(c) == handle[c] /\ (mode[c] = "boot" \/ ~Usb)

(***************************************************************************)
(* firmwareUpdate                                                          *)
(***************************************************************************)
ShowsError == quiet' = FALSE /\ told' = [c \in Ctrls |-> TRUE]
NoError    == UNCHANGED <<quiet, told>>

\* The PWM firmware is refused while a USB controller is in its boot loader.
Start ==
  /\ pc = "idle" /\ updates < MaxUpdates /\ updates' = updates + 1
  /\ DeviceList # {}
  /\ Usb \/ \A c \in DeviceList : ~serialBL[c]
  /\ pc' = "start" /\ todo' = DeviceList
  /\ doFlash' = TRUE /\ doRefresh' = FALSE
  /\ quiet' = TRUE
  /\ UNCHANGED <<device, list, target, ctrl, step, left, told, restarts>>

InBoot(c) == IF Usb THEN serialBL[c] ELSE mode[c] = "boot"

\* The end of the first loop.
ToFlash == pc' = "each" /\ todo' = DeviceList
AfterStart == IF doRefresh' THEN pc' = "refresh" /\ todo' = {} ELSE ToFlash

StartBootloader ==
  /\ pc = "start"
  /\ \E c \in todo :
       /\ \/ /\ InBoot(c) /\ (Usb \/ handle[c])
             /\ UNCHANGED <<device, doRefresh>>
          \/ /\ ~InBoot(c) /\ handle[c] /\ mode[c] = "appl"
             /\ BootStarted(c)
             /\ doRefresh' = Usb
       /\ IF todo = {c} THEN AfterStart ELSE pc' = "start" /\ todo' = todo \ {c}
  /\ NoError
  /\ UNCHANGED <<list, target, ctrl, step, left, doFlash, updates, restarts>>

\* An exception ends the loop.
StartFails ==
  /\ pc = "start"
  /\ \E c \in todo :
       /\ ~(Usb /\ serialBL[c])
       /\ \/ UNCHANGED device
          \/ handle[c] /\ mode[c] = "appl" /\ BootStarted(c)
  /\ doRefresh' = (doRefresh \/ Usb)
  /\ AfterStart
  /\ doFlash' = FALSE /\ ShowsError
  /\ UNCHANGED <<list, target, ctrl, step, left, updates, restarts>>

\* FindDevices: a controller that has not connected yet, or cannot be opened, is left out
\* without a message.
Finds(S) ==
  /\ DeviceList' = S
  /\ handle' = [c \in Ctrls |-> handle[c] \/ c \in S]
  /\ serialBL' = [c \in Ctrls |-> IF c \in S /\ Usb THEN mode[c] = "boot" ELSE serialBL[c]]
  /\ UNCHANGED <<flash, mode>>

Refresh ==
  /\ pc = "refresh"
  /\ \E S \in SUBSET Ctrls : Finds(S)
  /\ pc' = "each" /\ todo' = DeviceList'
  /\ UNCHANGED <<target, ctrl, step, left, flags, history>>

\* The loop that flashes: the next controller, the end of the loop.
\* Mutant: the first page is among the others.
PagesBetween_All == Image
PagesBetween == Image \ {0}

Each ==
  /\ pc = "each" /\ todo # {}
  /\ ctrl' \in todo /\ todo' = todo \ {ctrl'}
  /\ pc' = "one" /\ step' = "mode" /\ left' = PagesBetween
  /\ UNCHANGED <<device, list, target, flags, history>>

EndOfFlash ==
  /\ pc = "each" /\ todo = {}
  /\ pc' = "leave" /\ todo' = DeviceList
  /\ UNCHANGED <<device, list, target, ctrl, step, left, flags, history>>

One(at) == pc = "one" /\ step = at /\ UNCHANGED <<list, target, todo, ctrl, doRefresh>>
Go(next) == pc' = "one" /\ step' = next
NextOne == pc' = "each" /\ UNCHANGED step
SameHistory == UNCHANGED <<quiet, updates, restarts>>

CheckMode ==
  /\ One("mode")
  /\ \/ /\ InBoot(ctrl) /\ (Usb \/ handle[ctrl])
        /\ IF doFlash THEN Go("size") ELSE NextOne
        /\ UNCHANGED <<doFlash, quiet, told>>
     \/ /\ ~InBoot(ctrl) /\ (Usb \/ handle[ctrl])      \* "Bootloader ... does not start!"
        /\ NextOne /\ doFlash' = FALSE /\ ShowsError
  /\ UNCHANGED <<device, left, updates, restarts>>

PageSize ==
  /\ One("size") /\ handle[ctrl] /\ mode[ctrl] = "boot"
  /\ Go("blank")
  /\ UNCHANGED <<device, left, doFlash, told>> /\ SameHistory

\* Mutant: the first page is written as it is in the file.
BlankFirst_Not == "new"
BlankFirst == "blank"

WriteBlank ==
  /\ One("blank") /\ Answers(ctrl)
  /\ Written(ctrl, 0, BlankFirst)
  /\ Go("pages")
  /\ told' = [told EXCEPT ![ctrl] = FALSE]
  /\ UNCHANGED <<left, doFlash>> /\ SameHistory

WritePage ==
  /\ One("pages") /\ Answers(ctrl)
  /\ \E p \in left : Written(ctrl, p, "new") /\ left' = left \ {p}
  /\ Go("pages")
  /\ told' = [told EXCEPT ![ctrl] = FALSE]
  /\ UNCHANGED doFlash /\ SameHistory

AllWritten == left = {}

WriteFirst ==
  /\ One("pages") /\ AllWritten /\ Answers(ctrl)
  /\ Written(ctrl, 0, "new")
  /\ Go("verify")
  /\ told' = [told EXCEPT ![ctrl] = FALSE]
  /\ UNCHANGED <<left, doFlash>> /\ SameHistory

\* Mutant: the verification compares nothing.
Equal_Any(f) == TRUE
Equal(f) == \A p \in Image : f[p] = "new"

Verify ==
  /\ One("verify") /\ handle[ctrl] /\ mode[ctrl] = "boot" /\ Equal(flash[ctrl])
  /\ NextOne
  /\ UNCHANGED <<device, left, doFlash, told>> /\ SameHistory

VerifyFails ==
  /\ One("verify") /\ ~Equal(flash[ctrl])
  /\ NextOne /\ doFlash' = FALSE /\ ShowsError
  /\ UNCHANGED <<device, left, updates, restarts>>

\* Any request for this controller raises an exception.
FlashFails ==
  /\ pc = "one" /\ (step = "mode" => ~Usb)
  /\ CASE step = "blank" -> PartlyWritten(ctrl, 0, BlankFirst)
       [] step = "pages" -> \/ \E p \in left : PartlyWritten(ctrl, p, "new")
                            \/ AllWritten /\ PartlyWritten(ctrl, 0, "new")
       [] OTHER          -> UNCHANGED device
  /\ NextOne /\ doFlash' = FALSE /\ ShowsError
  /\ UNCHANGED <<list, target, todo, ctrl, left, doRefresh, updates, restarts>>

\* The applications are started, whatever happened before.
Leave ==
  /\ pc = "leave" /\ todo # {}
  /\ \E c \in todo :
       /\ todo' = todo \ {c}
       /\ \/ /\ ~InBoot(c) /\ (Usb \/ handle[c])
             /\ NoError /\ UNCHANGED device
          \/ /\ InBoot(c) /\ handle[c] /\ mode[c] = "boot"
             /\ AfterReset(c) /\ NoError
          \/ /\ ~Usb \/ InBoot(c)                                 \* an exception
             /\ ShowsError
             /\ \/ UNCHANGED device
                \/ handle[c] /\ mode[c] = "boot" /\ AfterReset(c)
  /\ UNCHANGED <<list, target, pc, ctrl, step, left, flags, updates, restarts>>

\* scanDevices
Finish ==
  /\ pc = "leave" /\ todo = {}
  /\ pc' = "idle"
  /\ \E S \in SUBSET Ctrls : Finds(S)
  /\ UNCHANGED <<target, todo, ctrl, step, left, flags, history>>

Next ==
  \/ Start \/ StartBootloader \/ StartFails \/ Refresh
  \/ Each \/ EndOfFlash
  \/ CheckMode \/ PageSize \/ WriteBlank \/ WritePage \/ WriteFirst \/ Verify
  \/ VerifyFails \/ FlashFails
  \/ Leave \/ Finish \/ Restart

Spec == Init /\ [][Next]_vars

(***************************************************************************)
(* Properties                                                              *)
(***************************************************************************)

\* The values of the variables.
TypeOK ==
  /\ flash \in [Ctrls -> [Pages -> Contents]] /\ mode \in [Ctrls -> {"appl", "boot"}]
  /\ handle \in [Ctrls -> BOOLEAN] /\ serialBL \in [Ctrls -> BOOLEAN]
  /\ DeviceList \subseteq Ctrls /\ target \in TARGETS
  /\ pc \in {"idle", "start", "refresh", "each", "one", "leave"}
  /\ todo \subseteq Ctrls /\ ctrl \in Ctrls
  /\ step \in {"mode", "size", "blank", "pages", "verify"} /\ left \subseteq Image \ {0}
  /\ doFlash \in BOOLEAN /\ doRefresh \in BOOLEAN
  /\ told \in [Ctrls -> BOOLEAN] /\ quiet \in BOOLEAN
  /\ updates \in 0 .. MaxUpdates /\ restarts \in 0 .. MaxRestarts

\* firmwareUpdate flashes a blank first page before all others: wherever an update breaks
\* off, and whenever the controller restarts, no application runs that has pages of two
\* firmwares, or lacks one.  (Pages that were written wrong are FaultIsTold's.)
NeverMixed ==
  \A c \in Ctrls :
    mode[c] = "appl" /\ (\A p \in Image : flash[c][p] # "bad") =>
      \E k \in {"old", "new"} : \A p \in Image : flash[c][p] = k

\* The verification: once the update is through, an application that runs with a page that
\* was written wrong has been reported to the user, in this or an earlier update.
FaultIsTold ==
  pc = "idle" => \A c \in Ctrls :
    mode[c] = "appl" /\ (\E p \in Image : flash[c][p] = "bad") => told[c]

\* The errors of one controller: an update that showed none has flashed and started every
\* controller in the list, also when one of them restarted in between.  The list is what
\* FindDevices finds five seconds after the boot loaders were started (device_dlg.py:350):
\* a controller that takes longer is in its boot loader and in no list, and no error is shown.
QuietIsComplete ==
  pc = "leave" /\ todo = {} /\ quiet =>
    \A c \in DeviceList : mode[c] = "appl" /\ \A p \in Image : flash[c][p] = "new"

\* What the update says, or does not say, of the controllers is true.
UpdateIsHonest == FaultIsTold /\ QuietIsComplete

===============================================================================
