---------------------------- MODULE DeviceDialog ----------------------------
(***************************************************************************)
(* The device sheet of the setup program (device_dlg.py) and the search    *)
(* for controllers below it (device_drv.py FindDevices, ReleaseDevices,    *)
(* LoadConfigs; usb1.py USBDeviceHandle): the handles the program holds,   *)
(* the list it shows, the controller that is selected, and the echo test.  *)
(*                                                                         *)
(* Everything runs in the one thread of the window system.  The echo test  *)
(* calls root.update() between two requests, so that every callback of the *)
(* sheet, another echo test included, can run inside it: echo is the stack *)
(* of echo tests that have not returned.                                   *)
(*                                                                         *)
(* A handle is written [ctrl, scan]: the controller it was opened on and   *)
(* the attempt of the search that opened it.  Controllers come and go and  *)
(* change between application and boot loader (firmware update) by         *)
(* themselves.                                                             *)
(***************************************************************************)
EXTENDS Naturals, SequencesExt

CONSTANTS
    Controllers,    \* that may be on the bus
    Orders,         \* in which libusb may list them: another one each time
    NoHandle,       \* nothing selected, nothing shown
    MaxScans,       \* bound: attempts of the search
    MaxEcho         \* bound: echo tests inside each other

Modes == {"appl", "pwmboot", "usbboot"}

Handles == [ctrl : Controllers, scan : 1..MaxScans]

ASSUME DialogAssumption ==
    /\ IsFiniteSet(Controllers) /\ NoHandle \notin Handles
    /\ MaxScans \in Nat \ {0} /\ MaxEcho \in Nat \ {0}

VARIABLES
    plugged, mode,      \* the controllers on the bus and what they run; "appl" for others
    open,               \* handles that are open with interface 0 claimed
    DeviceList,         \* the controllers found, as handles
    bootLoaders,        \* those whose serial number, read by the search, says USB boot loader
    ConfigMap,          \* those whose configuration was read
    selectedConfig, selectedIdx,    \* index from 1, 0 for the code's -1
    listed,             \* the ids in the list box
    version, values,    \* whose version, and whose settings, are shown
    echo, running,      \* echo tests and echo_test_running
    scans,              \* attempts made
    quitting,           \* root.quit() was called
    pc                  \* "start", "scan": in scanDevices; "loop"; "ended"

bus == <<plugged, mode>>
devices == <<open, DeviceList, bootLoaders, ConfigMap>>
screen == <<selectedConfig, selectedIdx, listed, version, values>>
dialogVars == <<bus, devices, screen, echo, running, scans, quitting, pc>>

DialogTypeOK ==
    /\ plugged \subseteq Controllers
    /\ mode \in [Controllers -> Modes]
    /\ open \subseteq Handles
    /\ DeviceList \in Seq(Handles) /\ Len(DeviceList) <= Cardinality(Controllers)
    /\ bootLoaders \subseteq Handles /\ ConfigMap \subseteq Handles
    /\ selectedConfig \in Handles \cup {NoHandle}
    /\ selectedIdx \in 0..Cardinality(Controllers)
    /\ listed \in Seq(Controllers) /\ Len(listed) <= Cardinality(Controllers)
    /\ {version, values} \subseteq Handles \cup {NoHandle}
    /\ echo \in Seq(Handles) /\ Len(echo) <= MaxEcho
    /\ running \in BOOLEAN /\ quitting \in BOOLEAN
    /\ scans \in 0..MaxScans
    /\ pc \in {"start", "scan", "loop", "ended"}

DialogInit ==
    /\ plugged \in SUBSET Controllers
    /\ mode \in [Controllers -> Modes]
    /\ \A c \in Controllers \ plugged : mode[c] = "appl"
    /\ open = {} /\ DeviceList = <<>> /\ bootLoaders = {} /\ ConfigMap = {}
    /\ selectedConfig = NoHandle /\ selectedIdx = 0 /\ listed = <<>>
    /\ version = NoHandle /\ values = NoHandle
    /\ echo = <<>> /\ running = FALSE
    /\ scans = 0 /\ quitting = FALSE /\ pc = "start"

-----------------------------------------------------------------------------
(* The bus.                                                                *)

Unplug(c) ==
    /\ pc # "ended" /\ c \in plugged
    /\ plugged' = plugged \ {c}
    /\ mode' = [mode EXCEPT ![c] = "appl"]
    /\ UNCHANGED <<devices, screen, echo, running, scans, quitting, pc>>

Plug(c, m) ==
    /\ pc # "ended" /\ c \notin plugged
    /\ plugged' = plugged \cup {c}
    /\ mode' = [mode EXCEPT ![c] = m]
    /\ UNCHANGED <<devices, screen, echo, running, scans, quitting, pc>>

-----------------------------------------------------------------------------
(* Searching.                                                              *)

\* ReleaseDevices: each handle is released and closed.  When the controller
\* is gone the release raises before the close; the handle is then closed
\* with the last reference to it, which an echo test may still hold.
Released ==
    {h \in open : h \in Range(DeviceList)
                     => h.ctrl \notin plugged /\ h \in Range(echo)}

\* The sheet of a controller with a configuration shows its values; for a
\* boot loader only the version is shown, and everything else stays.  Asking
\* the PWM controller's boot loader for its version may fail: the exception
\* leaves the callback with the index set and nothing shown.
Reloads_Never(h) == selectedConfig = NoHandle
Reloads(h) == selectedConfig # h

Show(h, configs, boots) ==
    IF h \in configs
    THEN IF Reloads(h)
         THEN selectedConfig' = h /\ version' = h /\ values' = h
         ELSE UNCHANGED <<selectedConfig, version, values>>
    ELSE /\ UNCHANGED <<selectedConfig, values>>
         /\ \/ version' = h
            \/ h \notin boots /\ version' = version

\* scanDevices forgets what was selected ...
Forgotten_Not == selectedConfig
Forgotten == NoHandle

cbScanDevices ==
    /\ pc = "loop" /\ scans < MaxScans
    /\ selectedConfig' = Forgotten /\ selectedIdx' = 0
    /\ pc' = "scan"
    /\ UNCHANGED <<bus, devices, listed, version, values, echo, running,
                   scans, quitting>>

\* ... and tries: release, open and claim what libusb lists, in one of its
\* orders (what cannot be opened or claimed is skipped),
\* then read the configurations in order until a request fails.  A controller
\* in its USB boot loader is asked nothing.
Listed == SetToAllKPermutations(plugged) \cap UNION {AllSubSeqs(o) : o \in Orders}
Opened_Appended(here) ==
    DeviceList \o [i \in DOMAIN here |-> [ctrl |-> here[i], scan |-> scans + 1]]
Opened(here) == [i \in DOMAIN here |-> [ctrl |-> here[i], scan |-> scans + 1]]
Configured(list, n) ==
    {list[i] : i \in {j \in 1..n : mode[list[j].ctrl] = "appl"}}
ReadsUpTo(list, n) ==
    n < Len(list) => mode[list[n + 1].ctrl] # "usbboot"

\* When the user cancels: the search ends with what was opened, or with
\* nothing.
GivesUp_Always(list) == TRUE
GivesUp(list) == list = <<>>

\* The list box, the layout sheet and the selection follow the new list.
Ids(list) == [i \in DOMAIN list |-> list[i].ctrl]
ShowFound(list, configs) ==
    /\ listed' = Ids(list)
    /\ selectedIdx' = 1
    /\ Show(list[1], configs, bootLoaders')
    /\ pc' \in IF pc = "start" /\ version' = version /\ list[1] \notin configs
               THEN {"ended"} ELSE {"loop"}

Attempt ==
    /\ pc \in {"start", "scan"}
    /\ scans < MaxScans
    /\ \E here \in Listed :
          LET list == Opened(here) IN
          \E n \in 0..Len(list) :
             /\ ReadsUpTo(list, n)
             /\ open' = Released \cup Range(list)
             /\ DeviceList' = list
             /\ bootLoaders' = {h \in Range(list) : mode[h.ctrl] = "usbboot"}
             /\ ConfigMap' = Configured(list, n)
             /\ \/ list # <<>> /\ n = Len(list) /\ ShowFound(list, ConfigMap')
                \/ /\ list = <<>> \/ n < Len(list)      \* "Retry"
                   /\ scans + 1 < MaxScans
                   /\ UNCHANGED <<screen, pc>>
                \/ /\ list = <<>> \/ n < Len(list)      \* "Cancel"
                   /\ IF GivesUp(list)
                      THEN /\ pc' = IF pc = "start" THEN "ended" ELSE "loop"
                           /\ UNCHANGED screen
                      ELSE ShowFound(list, ConfigMap')
    /\ scans' = scans + 1
    /\ UNCHANGED <<bus, echo, running, quitting>>

-----------------------------------------------------------------------------
(* The other callbacks.                                                    *)

\* A click on a line of the list box; the list may be longer than
\* DeviceList, whose IndexError comes after the index was set.
cbSelectDevice(i) ==
    /\ pc = "loop" /\ i \in DOMAIN listed
    /\ selectedIdx' = i
    /\ IF i \in DOMAIN DeviceList
       THEN Show(DeviceList[i], ConfigMap, bootLoaders)
       ELSE UNCHANGED <<selectedConfig, version, values>>
    /\ UNCHANGED <<bus, devices, listed, echo, running, scans, quitting, pc>>

cbSheetSelected ==
    /\ pc = "loop" /\ selectedConfig # NoHandle
    /\ version' = selectedConfig /\ values' = selectedConfig
    /\ UNCHANGED <<bus, devices, selectedConfig, selectedIdx, listed, echo,
                   running, scans, quitting, pc>>

\* The button stops the echo test that runs or starts one.
cbEchoTest ==
    /\ pc = "loop"
    /\ \/ running /\ running' = FALSE /\ echo' = echo
       \/ /\ ~running /\ selectedIdx # 0 /\ Len(echo) < MaxEcho
          /\ running' = TRUE
          /\ echo' = IF selectedIdx \in DOMAIN DeviceList
                     THEN Append(echo, DeviceList[selectedIdx])
                     ELSE echo
    /\ UNCHANGED <<bus, devices, screen, scans, quitting, pc>>

\* After root.update() the innermost echo test leaves its loop when the flag
\* is down; the main loop, reached when none is left, ends after root.quit().
LeavesLoop_Outermost == ~running /\ Len(echo) = 1
LeavesLoop == ~running
EchoStep ==
    /\ pc = "loop" /\ echo # <<>> /\ LeavesLoop
    /\ echo' = Front(echo)
    /\ pc' = IF Len(echo) = 1 /\ quitting THEN "ended" ELSE "loop"
    /\ UNCHANGED <<bus, devices, screen, running, scans, quitting>>

\* storeAndQuit, after the setup was stored and the controllers were reset.
storeAndQuit ==
    /\ pc = "loop"
    /\ open' = Released /\ DeviceList' = <<>>
    /\ quitting' = TRUE
    /\ pc' = IF echo = <<>> THEN "ended" ELSE "loop"
    /\ UNCHANGED <<bus, bootLoaders, ConfigMap, screen, echo, running, scans>>

Ended == pc = "ended" /\ UNCHANGED dialogVars

DialogNext ==
    \/ \E c \in Controllers : Unplug(c) \/ \E m \in Modes : Plug(c, m)
    \/ cbScanDevices \/ Attempt
    \/ \E i \in 1..Cardinality(Controllers) : cbSelectDevice(i)
    \/ cbSheetSelected \/ cbEchoTest \/ EchoStep \/ storeAndQuit
    \/ Ended

\* The loop of the echo test goes on, and the user answers the message box of
\* a search that failed.
DialogFairness == WF_dialogVars(EchoStep) /\ WF_dialogVars(Attempt)
DialogSpec == DialogInit /\ [][DialogNext]_dialogVars /\ DialogFairness

-----------------------------------------------------------------------------
(* Properties.                                                             *)

AtRest == pc = "loop" /\ ~quitting

\* The configuration that the scales, "Backup" and "Restore" write to, and
\* those that "Store Setup" goes through, belong to handles of the last
\* search, which are open: none is left from an earlier one (scanDevices,
\* device_dlg.py:165-167).
ConfigIsOpen ==
    AtRest => ConfigMap \cup ({selectedConfig} \ {NoHandle})
                 \subseteq open \cap Range(DeviceList)

\* The lines of the list box are the controllers of DeviceList, whose index a
\* click is taken for, unless the last search was cancelled with nothing
\* found.
ListedIsFound == AtRest => DeviceList = <<>> \/ listed = Ids(DeviceList)

\* When every controller runs its application, the version and the values on
\* the sheet, and the scales, are those of the line that is selected.
ScreenIsSelected ==
    AtRest /\ selectedIdx \in DOMAIN DeviceList
           /\ Range(DeviceList) = ConfigMap =>
        \A shown \in {selectedConfig, version, values} :
            shown = DeviceList[selectedIdx]

\* "Stop echo test" ends it, also with echo tests inside each other.
EchoStops == (echo # <<>> /\ ~running) ~> (echo = <<>> \/ running)

\* The sheet shows, and its buttons act on, what the last search has found.
SheetIsCurrent == ConfigIsOpen /\ ListedIsFound /\ ScreenIsSelected

=============================================================================
