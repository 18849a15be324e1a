# Verification of the DF10CH Atmolight controller

TLA+ models of the DF10CH firmware and of its setup program, the TLC runs that check them and the
TLAPS proofs about them. The models are translated from the C sources of the two microcontrollers and
the Python sources of the setup program (`df10ch_setup_pkg/`); paths below are relative to the
repository's root (`src/`).

## 1. The system and its parts

A host (Linux or Windows) talks over USB to the **USB controller** (ATmega8, `usb_appl/`). This
forwards the PWM requests over a serial line to the **PWM controller** (ATmega162, `pwm_appl/`),
which switches 30 channels of LEDs by pulse width modulation. Both controllers have boot loaders
(`usb_boot/`, `pwm_boot/`); the host has a setup program (`df10ch_setup_pkg/`) and a test program
(`test_appl/`).

| Component | State | Operations | What is hard | What makes it correct |
|---|---|---|---|---|
| PWM generation, `pwm_appl` 292-308, 421-588 | two step pages, `shadow_`/`active_pwm_page`, `actual_pwm_step`, `update_pwm_page` | requests that set brightness, channel map and frequency; compute, activate and show a page | an interrupt walks along linked lists that the main loop rebuilds | the interrupt only meets finished pages; each frame shown is exact; no frame is lost |
| Setup storage, `pwm_appl` 594-640, 801-807 | `setup`, `ee_setup`, `ee_valid` | read at start, store, reset | restart or loss of power in a write | an acknowledged store survives; what is marked valid was stored |
| Request reception, `pwm_appl` 314-341, 880-928 | receive ring, `header_pos`, `payload_count`, `rx_err_status` | interrupt, `read_data`, `process_request` | lost bytes, a new request before the old one is complete, one start position only | only a request that was sent is carried out, or an error is flagged |
| Reply reception, `usb_appl` 215-508 | receive ring, `rxspos`, `actual_req_id`, `reply_start`, `reply_count` | interrupt, `send_request`, `wait_for_reply_start`, `wait_for_reply` | late replies, time outs, lost bytes | success means that this request was answered, with its data |
| USB transfers, `usb_appl` 514-724 | `usb_last_rc`, `usb_last_data_token`, `payload_count` | `usbFunctionSetup`, `usbFunctionWrite`, `usbFunctionRead` | duplicate packets, CRC errors, sticky STALL | each packet is used once |
| Standby, `usb_appl` 730-842 | `usb_sof_time`, `usb_is_resetting` | sleep, wake up, start of the boot loader | stops the PWM controller whatever it does | after wake up both controllers work |
| Boot loaders, `pwm_boot`, `usb_boot` | flash pages, erase and fill state | write and read pages, start the application | payload waits in the ring during the erase; repeated packets | no half-written application is started |
| Requests of the host, `device_drv.py` 317-379 | `error_count`; errors kept by both controllers | `ctrl_write`, `ctrl_read` with their retries | the PWM controller may carry out what the host takes for failed, and later | what a call reports is true; what got lost leaves an error to be read |
| Configuration, `device_drv.py` 725-919, `device_dlg.py` 208-306 | `ControllerConfig`, EEPROM of the USB controller, map and setup of the PWM controller, backup files | read, store, reset, backup, restore, frequency and brightness | two memories in two controllers, a format with shared channels, any request fails | read returns what store stored; what is shown is set |
| Device search and sheet, `device_dlg.py`, `device_drv.py` 175-312, `usb1.py` handles | `DeviceList`, `ConfigMap`, `selectedConfig`, open handles | search, select, echo test, quit | callbacks inside the echo test; controllers come and go | the sheet works with open handles of the last search |
| Firmware file, `firmware.py` | pages of the flash image, the remembered page | load a file | lines in any order, pages created on demand | the pages hold what the file says |
| Firmware update, `device_dlg.py` 308-444, boot loaders | flash contents, mode, handles | start boot loaders, blank first page, write, verify, start the application | interruption at any point | no mixture is started; a fault is told |
| Channel mapping sheet, `map_dlg.py` | `channelList`, `actualIdx`, `actualArea`, lights, colours on the screen | select, map, set a group, step | early returns when a request fails; list kept beside the configurations | the channel that is lit is the one that is changed |
| Calibration sheets, `white_cal_dlg.py`, `bright_dlg.py` | `areasMap`, scales, lights | select an area, move a scale, type a gamma | floating point fractions, failing requests, areas without channels | the lights show what is stored |
| Area geometry, `areas_dlg.py` 97-291 | polygons of the areas | `configAreas` | integer divisions on four sides with and without corners | the areas tile the border of the screen |
| Layout sheet, `layout_dlg.py`, `areas_dlg.py` | entries, attributes, screen, weight picture, configurations | apply, load, restore, show weights | the layout is kept in five places | what would be stored is what is on the screen |
| libusb bindings, `usb1.py` | flags of the transfer objects, libusb's ownership | set up, submit, cancel, completion | two threads | a submitted transfer is left alone until its completion |
| Test program, `test_appl` | pending transfers | submit to several controllers, wait for all | callbacks and cancellation | each transfer ends once |
| V-USB, `libusb1.py`, widget construction, build files, hardware design | | | | third-party code, or no behaviour to check |

How they interact: the host sends control transfers; the USB controller turns each into a serial
message (start marked by the ninth bit, six bit request id) and polls its receive ring for the
reply; the PWM controller parses messages in its main loop, changes its settings and answers. The
main loop shares the step pages with the timer interrupt, both controllers share a receive ring with
their receive interrupt, and the USB controller can reset the PWM controller by a port line.

On the host the sheets of the setup program share the list of controllers, one configuration per controller
and the screen with the areas. They run in the one thread of the window system; a callback runs inside
another one only where the code calls `root.update()`. Every sheet talks to the controllers
through `ctrl_write` and `ctrl_read`, whose exception `AtmoControllerError` it catches, shows and survives. A
backup file and the two memories of a controller outlive the program.

## 2. Modules

| Module | Models | Kind |
|---|---|---|
| `PwmDisplay` | what page switching promises: a one-place mailbox of whole frames | abstract |
| `PwmPages` | main loop, requests and timer interrupt over two pages that are sequences of steps | component |
| `PwmPagesProofs` | theorems about `PwmPages` | proofs |
| `PwmStepList` | the same with the pages as arrays of linked entries; implements `PwmPages` | detailed |
| `PwmStepListProofs` | theorems about `PwmStepList`, the refinement included | proofs |
| `SetupStore` | setup in RAM and EEPROM, valid mark, restarts | component |
| `SetupStoreProofs` | theorems about `SetupStore` | proofs |
| `ReplyLink` | receive ring and reply search of the USB controller, with the PWM controller as a queue of requests | component |
| `ReplyLinkProofs` | theorems about `ReplyLink` | proofs |
| `HostRequest` | the retries of one call, with the PWM controller that works behind the host's back | component |
| `ControllerConfig` | one configuration in the program, in two controllers and in a file | component |
| `HostProofs` | theorems about `HostRequest` and `ControllerConfig` | proofs |
| `FlashContents` | what loading a firmware file promises: a flat memory | abstract |
| `FlashImage` | the same with pages, lookups and the remembered page; implements `FlashContents` | component |
| `FirmwareUpdate` | host, boot loaders and flash of several controllers | composition |
| `FirmwareProofs` | theorems about `FlashImage`, the refinement included, and `FirmwareUpdate` | proofs |
| `DeviceDialog` | search, handles, selection and echo test | component |
| `ChannelMapping`, `Calibration` | the sheets that light the channels they edit | components |
| `AreaGeometry` | the division of the screen | algorithm |
| `LayoutDialog` | the copies of the layout | component |
| `SheetProofs` | theorems about `LayoutDialog`, `ChannelMapping`, `Calibration` and `AreaGeometry` | proofs |
| `AsyncTransfer` | transfer objects between two threads and libusb | component |
| `DeviceProofs` | theorems about `DeviceDialog` and `AsyncTransfer` | proofs |
| `MCPwmPages`, `MCPwmStepList`, `MCSetupStore`, `MCControllerConfig` | small instances for TLC | |
| `MCHost` | `HostRequest` or `ControllerConfig` | TLC, two parts |
| `MCFirmware` | `FlashImage` or `FirmwareUpdate` | TLC, two parts |
| `MCDevices` | `DeviceDialog` or `AsyncTransfer` | TLC, two parts |
| `MCSheets` | `LayoutDialog`, `AreaGeometry`, `ChannelMapping` or `Calibration` | TLC, four parts |

The modules with several parts are disjoint unions: the variable `part` says which component a behaviour is
about, only that one moves, and the others stay in one fixed initial state. Every part reaches all the states
and transitions it has alone. The components with theorems come by EXTENDS, the others by INSTANCE.

### PwmPages

State: `bright_vals`, `channel_map`, `max_pwm` (the settings), `update_pwm_page`, and the pages.
`steps[p]` is the list of page `p`, `link[p]` the page its last step leads to; a step keeps the
outputs that are on and its timer value. Ports are sets of output bits: the fixed `Px_INIT` levels
are the outputs that no channel drives.

The main loop is a program counter: `loop` (a request may be processed), `synced` (SYNCED waits),
`update` (the test of `update_pwm_page`), `calc` (`calc_pwm_page`, one channel map entry a step),
`install` and `swap` (the last parts of `activate_pwm_page`), `start` (end of
`init_pwm_step_tab`). `TimerInterrupt` may come between any two of them, because all the main loop
does between two of them touches either no shared variable or only the shadow page. A request is
one step of the main loop since the interrupt reads nothing it writes. Every value a request can
carry (any start channel and length) is a choice within the given sets of brightnesses and map
entries: `Mapped` says what one request makes of the map, for any range, and `Checked` is the clamp of
`req_set_channel_map`. The controller starts with the default map or with one that such a request has made and the
EEPROM has kept.

`frame` and `syncOwed` are history variables: the settings a page was built from, and whether an
answered SYNCED request is not yet in a page.

### PwmStepList

The pages are arrays of `NCHANNELS + 2` entries with `next_step` pointers (page and index).
`RowOf` is the row of entries that the pointers make from the first entry on. A loop of the code that
walks along the list is said by the place in the row at which it stops: `StopsAt` is the end of the first
loop of `set_channel`, `Used` that of the search for the last step, and `EndTime` and `LastStep` are the
local variables `t` and `l` of `activate_pwm_page`. The changes are those of the code: `Cover` switches outputs on along the way,
`CutStep` unlinks the free entry behind the last step, copies the later step into it and links it
behind the new one, `Finish` sets durations, pause and the closing pointer. The refinement mapping reads the row up to the
free entry or the closing pointer as the sequence of `PwmPages`; steps that do not touch the page
memory are those of `PwmPages`. Page memory begins with all outputs on, the worst content that
uninitialized memory can have, and port values of old steps stay in the free entries.

### SetupStore

Bytes of the setup are written one by one (`write_at`, `write_val`: the write that is going on).
`Reset` lets a write finish, as the hardware does; `PowerLoss` leaves any value in that one byte.
`Boot` is `read_setup_values`. Requests come only when the main loop is free, so `Change` and
`ResetSetup` need `pc = "idle"`. The history variables `last`, `target`, `stored` and `wasMarked`
say what the last request on the EEPROM was, how far it came, and what it found.

### ReplyLink

Time is abstract: `TimeOut` may come at any moment of a wait. The PWM controller answers queued requests
in order with the bytes of `send_reply_start` and `send_reply_data`, and may send several keep alive replies
before (`MaxKeepAlives` in the ring at a time). `Setup` is one step, but `rxspos = rxwpos - 1` is two for the
processor: a byte the interrupt stores between the load and the assignment is passed over, which is the choice
`back` of `StartReset`. A byte carries, for the properties only, the number of its request and its place in the
reply. `LoseByte` drops a byte and sets the overrun flag on the next one (DOR), as the USART does;
`LoseRequest` is a request the PWM controller discards. The host gives a transfer up by sending the
next setup packet, also between two data packets. `errs` holds the bits set in `reply_err_status`
since the last request. Left out: frame errors (they leave the byte in place), the transmit ring, the
restart of the wait while the transmitter is busy (`TXC`; any wait may be of any length), and CRC and duplicate
packets of USB.

### HostRequest

A call is `Call` and then, `retry` times at most, `Transfer` and its end: an answer, a time out (the USB
controller answers with STALL, which the host sees as a pipe error and repeats), or another USB error
(raised at once). `queue` holds requests the USB controller has passed on; `CarryOut` serves them in
order, also when nobody waits any more, so a repeated request may be carried out several times, and late. The
two status calls are calls like others; they clear what they read, also when the reply gets lost. The PWM controller
reads and clears its errors in two instructions (`pwm_appl` 812): an error between them is wiped with the request
it belongs to, the second alternative of `CarryOut`.

What is taken over from the link is that the USB controller accepts no reply but the one to the transfer under way. This is
`AckMeansAnswered` of `ReplyLink`, with the exceptions named there; finding 1 is one. `CallsAreHonest` says nothing of a
call that takes a stale byte for its reply.

### ControllerConfig

The numbers of a configuration are kept as they are stored: `EeData` and `PwmMap` are `write`,
`ReadChannelMap` and `ReadLayout` are `read`, with every clamp. `Key` is the string that two ports
must share to share a request channel, as the sequence of its digits. The loop of `write` over the ports is given by what
it computes: of the ports with one key the first gets the channel (`FirstWithKey`), and its number is the number of such
ports before it (`ReqChannel`). The EEPROM is a sequence of bytes and `Cuts`
says after which byte a write can be cut short. An operation (`op`) is a sequence of requests
(`pc`); each may fail, and the controller may be unplugged or lose its supply between any two. `op` keeps the name of the
operation when it has ended, until the user does something else. `promise`
says what a store that ended well is to be read back as, and is given up when a later request fails.

### FlashImage and FirmwareUpdate

`FlashImage` inserts one byte a step: `Remembered`, `Found` and the new page are the three branches of
`getPageForAddr`. Its refinement mapping forgets the pages: the contents at an address are the byte in the page with
its base address.

`FirmwareUpdate` takes a page as one value (old, new, blank, or bad for one that a write left
wrong) and composes the loop of `firmwareUpdate` with both boot loaders. `target` selects the USB or the PWM
controller; the differences are kept (the USB controller gets a new handle when it restarts, and `bootloader_mode`
is what its serial number said at the search). `Restart` is a restart that nobody asked for, of any controller
at any time.

### DeviceDialog

A handle is the controller and the search it was opened by, so that an old one can be told from a new one.
`echo` is the stack of echo tests that have not returned, because `root.update()` runs any other callback
before the test goes on. A search and the end of the program are among them. Controllers come, go
and change their mode whenever they like, and libusb may list them in another order each time. What the program
shows of the mode is the serial number read at the search (`bootLoaders`), whatever the controller does since.

### ChannelMapping and Calibration

Both have the configurations, what the sheet keeps beside them, what the lights show, and the area outlined on
the screen. Any request may fail (`MaxErrors`), and a failed one may have been carried out; the handlers go
on or return early as the code does. White values are fractions `<<numerator, denominator>>` in place of
floating point, truncated where the code calls `int`; this is exact where a double would have rounded, which
the instance makes visible only by whole steps. A gamma field can be typed into (`Typed`): a number is taken as it
is, also out of range or below 0, and text raises. The field is kept in hundredths and the configuration in tenths, since
`update` lights with the number in the field and stores its whole tenths (`Light`, `GammaVal`). A negative gamma makes
`pow` raise at brightness 0, and may make the brightness too large for `pow` or for a byte of the request below 1; this is after
the value was stored (`PowRaises`, `MayRaise`).

### AreaGeometry and LayoutDialog

`AreaGeometry` computes the polygons of `configAreas` from the numbers of areas; there are no actions but the choice
of another layout. Division is that of Python 2, on integers. `LayoutDialog` takes a layout as a record of
small numbers in three groups and follows it through entries, attributes, screen, weight picture and
configurations; the picture is what it was painted for. The numbers are those of the spin boxes (section 4 on others).

### AsyncTransfer

A call of libusb is one step; `submit` and `cancel` have a step before or after it, so that the events thread can
handle the completion in between. A callback owns its transfer while it runs. `Cancelling` is the set of
transfers the program may cancel; see the deviations of section 4 for what fails for them. Control, bulk and interrupt
transfers are set up alike. There is no action for isochronous ones: `setIsochronous` raises before it changes anything,
for every object that `getTransfer` makes (`usb1.py:303`), because that passes the raw handle (942), which has no
`getDevice`.

## 3. Runs

| Run | Instance and bounds | States | What it shows |
|---|---|---|---|
| `pages` | 2 channels, 2 bits, brightness 0, 1, 3 of 2 (clamped), a map request with a channel that does not exist | 1.25 M | the safety properties of `PwmPages` |
| `pages_live` | 2 channels, brightness 0 and 2 of 3, a map request that sends both entries to one channel | 128 k | implements `PwmDisplay`; the latest settings are shown; SYNCED is answered |
| `step_list` | 3 channels, brightness 0, 1, 2, 4 of 3, two requests (`MaxRequests`) | 16 k | the lists implement the sequences; no entry is lost |
| `replies` | ring of 5, ids modulo 2, 3 requests or resets (`MaxRequests`), backlog 2 (`MaxBacklog`), one loss (`MaxLost`), 2 keep alives in the ring (`MaxKeepAlives`), replies of 0 and 2 bytes, packets of 1 byte | 9.8 M | success and data belong to the request |
| `replies_stale` | the same with ids modulo 4, so that no id comes back, and one keep alive | | finding 1 |
| `store` | 3 bytes of 2 values, any first content of the EEPROM | 28 k | stores and resets survive restarts |
| `store_torn` | the same | | finding 2 |
| `host` | | 533 k | |
| — requests | 2 transfers a call, 4 calls (`MaxCalls`), 3 requests under way (`MaxQueue`), 2 values, 1 error bit | 283 k | what a call reports is true; every call ends |
| — configuration | 2 ports, 3 mappings (two that differ in the area number only, one clamped at the higher frequency), 2 layouts, 2 frequencies, writes cut short after 2, 16, 20, 25 bytes, 5 operations (`MaxOps`) | 250 k | what was stored is read back; what is shown is set |
| `config_keys` | 2 mappings with one key | | finding 3 |
| `firmware` | | 975 k | |
| — file | pages of 2 bytes, addresses 0 to 5, lines of up to 2 bytes (`MaxLine`), bytes of 2 values or no number | 337 k | pages are distinct; refinement of `FlashContents` |
| — update | 2 controllers, 2 pages, either target, 2 updates (`MaxUpdates`), 2 restarts (`MaxRestarts`) | | no mixture is started; faults are told |
| `devices` | | 698 k | |
| — device sheet | 2 controllers, 2 searches (`MaxScans`), 2 echo tests inside each other (`MaxEcho`), 3 modes, listed in one order | | the sheet works with open handles; an echo test that is stopped ends |
| — transfers | 2 transfers, one of them one that the program may cancel, 2 buffers, 1 callback | | no transfer waits for ever; libusb's transfers were set up and are untouched |
| `sheets` | | 607 k | |
| — layout | one field of each group, values 0 and 1, an entry that is no number, 2 interchangeable configurations | 117 k | the copies of the layout agree |
| — screen | every layout of 0 to 3 areas a side and each corner and the centre (`MaxSide`), with and without overscan, in a window of 13 by 7 | 16 k | the areas divide the screen |
| — mapping | 4 channels of 2 controllers (a connector of three), 2 areas, 4 clicks (`MaxClicks`), 1 failing request (`MaxErrors`) | 225 k | light, list, screen and mapping agree |
| — calibration | 4 channels of 2 controllers with resolutions 1110 and 276, 3 areas of which one has no channels, white value 157 and scale positions 0 and 0.33, gammas 1.0 from the arrows and 2.25, -1 and no number typed, 4 moves (`MaxMoves`), 1 failing request (`MaxFailures`) | 249 k | the lights show what is stored; only the outlined area changes |

Why the bounds suffice. Two channels give every relation of two steps (before, equal, after, cut at
the maximum) and both ways to share an output or a channel; a cut in the middle of a list needs three
and is the subject of `step_list`, where a second request rebuilds a page over an old one. For every number of channels the
main properties are proved (section 5). In `replies`, three requests with two ids are
the least for an id to come back while an old reply is under way; a ring of five holds a whole reply
and is overrun by a reply and a keep alive or an old reply, as the real ring of 256 is by two replies of 130
bytes. Data bytes take the values of both ids, so that data can look like a reply. Three bytes are
the least for a store to be cut short before, at and after a byte that changes.

In `host`, two transfers are the least for a repetition, and four calls let a request of the first be carried out
in the third and be asked for in the fourth. For a configuration, two ports are the least to share a channel or not,
and five operations are a change, a store, a failing store, a search and a change of the frequency. In an
update, two controllers are the least for one to be missing or left behind while the other goes on; page 0 and one more are
the least for an order; a second update repeats what the first left. In `devices`, two searches are the least for
an old handle, two echo tests for one inside another. On the mapping sheet, a connector of three channels has a
group with two members that are not selected. For the calibration, two channels of one area and colour on one controller and one on
the other let values that started equal be scaled apart; four moves open the sheet, type a gamma, set the
brightness to 0 and update. On the screen, a window of 13 by 7 leaves a remainder in
every division by 2 to 5 areas of a side. In a file, three pages let a lookup miss the remembered page and find or
not find another. Fields of a layout in one group are treated alike by the code, so one of each is
enough; this is also proved for any number.

`CHECK_DEADLOCK` is off in `pages` and `pages_live` because before the timer runs the main loop is the only actor,
and in `step_list`, `replies`, `host`, `firmware` and `sheets` (and the violating runs beside
them) because the operations of a behaviour are bounded or the program's work comes to its end. The store, the
transfers and the device sheet never stop.

### Properties

* Hand-over: `ShadowExclusive`, `NoDanglingStep`, `WholeCycles`, `DisplaySpec`.
* Frames: `ShownExact` (each output is on for exactly its brightness, from the start of the cycle and
  without a gap, in every page the interrupt can reach), `PageFits`, `NoEntryLost`,
  `ListImplementsSteps`.
* Requests: `SyncedNotSkipped`, `SyncedAnswered`, `LatestShown`.
* Replies: `AckMeansAnswered`, `DataIntact`, `NothingLeft`, each for a request that begins with an
  empty ring (`CleanStart`) and with the errors the status byte reports excepted.
* Setup: `StoreIsDurable`, `FirstStoreIsAtomic`, `ResetIsDurable`.
* Host requests: `CallsAreHonest`, made up of `SuccessIsLast` (after a call that succeeded, nothing but its value, or an
  older request that is still under way, is in the controller), `LossIsFlagged` and `RaisedIsCounted`; `CallEnds`.
* Configuration: `StoredIsPromised`; `ConfigIsKept`, made up of `ShownIsLive` and `FailedStoreKeepsMap`.
* Firmware: `LoadsContents`, with `PagesDistinct` beside the types; `NeverMixed`; `UpdateIsHonest`, made up of
  `FaultIsTold` and `QuietIsComplete`.
* Device sheet: `SheetIsCurrent`, made up of `ConfigIsOpen`, `ListedIsFound` and `ScreenIsSelected`; `EchoStops`.
* Transfers: `TransfersAreSound`, made up of `SubmittedIsPending`, `PendingIsSubmitted` and `PendingIsSetUp`;
  `OwnedIsUntouched`.
* Sheets: `MappingIsSound` (what the sheet shows: `ListedIsMapped`, `OneAreaColoured`; what it changes: `ChangedIsLit`,
  `GroupIsOneLight`), `CalibrationIsSound` (likewise `ShownIsStored`, `CommonIsCommon`; `OutlinedIsChanged`, `StaysAlike`), `ScreenIsDivided`
  (`AreasTile`, `SideIsDivided`), `LayoutIsDrawn` (`StoredIsDrawn`, `PictureIsDrawn`), `LoadDrawsAll`.

`MCTypeOK` of the instances with several parts joins the type invariants of their modules.

### Fairness

`PwmPages!Fairness` is weak fairness of the main loop as a whole and of the timer interrupt. The main
loop is one thread that never blocks but in the SYNCED wait, and the watchdog restarts a controller
whose loop stands still; the timer runs in CTC mode from the end of `init_pwm_step_tab` on, and
`ShownExact` shows each step to last at least the time the interrupt needs. Nothing is assumed about requests:
`LatestShown` says that *if* they stop changing the settings the outputs follow.

`RequestFairness` is weak fairness of the steps of a call on the host. It is one thread in a loop, and every
transfer has a time-out, so each ends whatever the controllers do; nothing is assumed about them. `CallEnds` is then
a matter of `retry`.

`DialogFairness` is weak fairness of the running echo test and of a search that has begun. Both are
loops of the one thread, and their requests have time-outs. Nothing is assumed about the user: `EchoStops` says that
a test whose button was pressed again ends, also with others inside it.

## 4. Findings

1. **A stale byte is taken as a reply** (`replies_stale`, `usb_appl/df10ch_usb_appl.c:332`).
   `send_request` means to say "no reply has started" by `rxspos = rxwpos - 1`. With bytes left in the ring,
   this is the position of the last of them. If its low six bits are the new request's id, the
   wait ends with success although the PWM controller may not even have received the request. It takes
   a byte that arrives just as the wait for its own request times out.
2. **A mixture of two setups marked as valid** (`store_torn`, `pwm_appl/df10ch_pwm_appl.c:618`).
   A store over a valid setup leaves the mark in place while it overwrites the bytes. A restart in
   between (the USB controller resets the PWM controller also when it goes to standby) makes the
   next start load a mixture. Only the first store, and the first after RESET_SETUP, is atomic, which is
   proved.

3. **Two areas stored as one** (`config_keys`, `df10ch_setup_pkg/device_drv.py:819`). `write` gives
   ports with the same key one request channel. The key is made of numbers without separators: Top-23 green and Right-3
   red have the same one, and the second is read back as the first.

### Deviations met while modelling

The code also does things its users may not expect. No line of the repository rules them out plainly, so the
properties name them as their exceptions.

* At 400 Hz the controller reports 401, which it ignores when it is set: a backup made there leaves
  the frequency of the restored controller as it was (`pwm_appl/df10ch_pwm_appl.c:836-851`, `device_dlg.py:297`).
  The instance uses frequencies that can be set.
* A controller that is not back five seconds after the start of its boot loader is in no list, and the update ends
  without a message (`device_dlg.py:350-352`). `QuietIsComplete` speaks of the controllers in the list.
* Group colours set while no area was selected yet show channels as not mapped whose mapping stays in the
  configuration (`map_dlg.py:161`). `ListedIsMapped` is the direction that holds.
* `cancel` resets the flag although libusb owns the structure until the completion (`usb1.py:450`).
  `PendingIsSubmitted`, `PendingIsSetUp` and `OwnedIsUntouched` are about transfers nobody cancels.
* The digits of a typed gamma beyond the tenths are shown by the lights and not stored: 2.25 is shown as 2.25 and stored as
  22 (`white_cal_dlg.py:161-168`). `ShownIsStored` has it as its exception: what is stored is the whole tenths of what is shown,
  and anything shown beyond them was typed.
* A negative gamma is stored before the brightness is computed with it; `pow`, or the request, may then raise, and the channels
  after it are left as they were (`white_cal_dlg.py:163-168`). `ShownIsStored` is about sheets where nothing raised.
* An edge weighting of -1, which can be typed but not reached by the spin box, is the value the screen keeps for "no
  picture" (`areas_dlg.py:54`, 325), so that its picture would not be painted. `LayoutDialog` has the values of the spin boxes.
* A search, or the end of the program, inside the `root.update()` of an echo test closes the handle that the test goes
  on with (`device_dlg.py:479-483`). `ConfigIsOpen` is about the handles of the sheet.
* A lone area of a side with a corner only at its far end is drawn over the whole side, the
  corner included (`areas_dlg.py:161`, 186, 210 and 232). `SideIsDivided` excepts it.

## 5. Proofs

All theorems hold for every value of the constants that satisfies the named assumptions in the
module (sizes positive, default values of the right type, timer values of 16 bits).

`PwmPagesProofs`: the invariant `PageInv` strengthens the checked ones. `ShadowExclusive` alone is not
inductive: that the interrupt stays out of the shadow page while it is built holds because no pointer leads
there, so the invariant follows the link of both pages and the place of the interrupt through each value
of `pc`. `PageFits` comes from the number of entries done, and `MappedType` says that a map request of any range leaves only
entries of the right type; `NoDanglingStep` adds that a finished
list is not empty (the pause or the last step), which is why `max_pwm` must be positive. The proof has one
step per action. `CyclesAreWhole` and `PagesImplementMailbox` (each step of the pages is a step of the
mailbox or leaves it alone) follow from the invariant, step by step.

`ShownIsExact` is about what the pages show. `ListShows` says of a list under construction that it is sorted,
that it has a step ending at a time exactly when a processed entry asks for it, and that an output is on in a step
exactly when an entry that drives it asks for the end of the step or later. `SetChannelShows` is the proof that
`set_channel` keeps this, whatever the list and the new time. `FinishedShows` goes from there to the finished page: durations
telescope, so the steps before the end of an output's longest time add up to that time, and the pause completes the
cycle. The sum over a list is a recursive function; `TicksSum` equates it with any function that
grows by the timer values, by the least counterexample (no induction theorem is needed). `ShowInv` says which
page shows what at each value of `pc`; it needs `PageInv` for the pages the interrupt is not in. `StepsFitTimer` draws
from it that no duration is cut to the 16 bits of `timer_val`: durations are not negative and add up to the cycle, so
each is at most the whole one.

`PwmStepListProofs`: the linked list. A page in memory is *open* while it is built (`OpenPage`: the row runs through all
entries, each once, and the first `n` are steps) or *closed* (`ClosedPage`: the row has `n` steps and the last leads to
the first entry of a page). `ListInv` says that the page being built is open with at most as many steps as map
entries were done, so that a free entry is always left, that every other page is closed or was never filled, that
`active_pwm_page` and `last` are the last steps of their pages and that the pointer of the interrupt is at a step of a
closed one. It is not enough to know that the pointers stay inside the page: `set_channel` moves the later step into the
free entry that it takes out behind the last one, and only that this row has all entries and none twice makes the rest of it the
old rest (`RowMoved`, `TakenOver`). That is `NoEntryIsLost`, and the heart of `ListRefinesSteps`, which has
a lemma for each action: what it does to the row is what `PwmPages` does to the sequence (`SetChannelIs` and
`HasSteps` for `SetChannel`, `Timed` and `FinishedAs` for `Finish`, `Relinked` for `InstallLink`), and what does not
change the row of a page keeps its sequence. The invariants of `PwmPages` enter by the refinement mapping: `PP` is
`PwmPagesProofs` at the mapped variables, `PP!PageInv` and `PP!ShowInv` are carried along in the same induction, and
they give that the interrupt is not in the open page, that the page is sorted, and that it fits. `InterruptLoadsSteps` brings the
timing back from the sequences to the memory: what the interrupt reads through its pointer is never a
free entry, nor an end time that was not yet turned into a duration.

`SetupStoreProofs`: `IInv` has a part for each value of `pc`. While storing, all bytes before `pos`
are in the EEPROM, or the one being written is the last of them, and a mark that was not set
still is not; at the acknowledge all bytes agree; between requests only RESET_SETUP leaves a write behind.

`ReplyLinkProofs`: the ring holds bytes of several replies, and only the number each carries in the model tells them
apart. `ActualIsLast` and `OnlyActualHasId` say that the actual request is the last that is answered and, after a clean start, the
only one with its id. `RestOfReply` is about the bytes the PWM controller has still to send, `ReplyFollows` about those in the
ring from `rxspos` on once the reply has begun: they are the reply, byte after byte, up to where sending goes on; `ReadSoFar`
places the host's reads in it. `StartIsReply` and `NoLap` are why a byte of an old reply is not taken for a start.
The ring's size enters in one place: `n + 3 <= RXBUF_SIZE` for
every reply of `n` bytes (`SizeAssumption`; a payload has at most 128 bytes, `df10ch_usb_proto.h:85`, and the ring 256). A longer
rest of an old reply could come round to the position `rxspos` and be taken for the start of a reply. `NoLap` is claimed for
clean starts only, as the interrupt may come between the two halves of the assignment to `rxspos`. Replies are also
shorter than four rounds of ids. `LinkType` holds of any such ring, id range, backlog and number of losses.

`HostProofs`, the requests: what a call believes is true only because the answer it accepts is the one to its last
transfer, and a controller serves requests in order. The invariant says that the request of the running transfer is the
last of the queue (`NowIsLast`), that nothing is under way when it is answered (`ReadyIsDone`), and that a
request an earlier transfer of the call has left behind, or the bits it took with it, has set the time-out flag of the USB
controller (`RepeatIsFlagged`).

`HostProofs`, the values: `ConfigType` says that `read` makes a legal configuration of any bytes, since an interrupted write, or
another program, may leave any in the EEPROM, and that the bytes `write` sends fit into it. `ConfigAssumption` asks that the ports
have different names and at most 255 of them, that the user's mappings and layouts are within the limits of the dialogs, and that
`None` is none of the values.

`HostProofs`, store and read: `StoredIsRead` has two halves. The first is about the format: what `write` makes of
a configuration, `read` makes this configuration of, for any number of ports (`LayoutReadBack`, `MapReadBack`). A request
channel belongs to the first port with its key, which exists because a set of numbers has a smallest one
(`SmallestNumber`, from the well-foundedness of the numbers); the channels are numbered without a gap
(`ChannelFacts`, by injections between finite sets), the record of channel `k` is at byte `14 + 6 * k`, and its six bytes
give back the area, colour, gamma and calibration (`CodeFacts`, `WordFacts`). The second is the invariant `Promising`, which
follows the two halves through an operation: what is still to be written is the configuration with the resolution the
PWM controller has by then (`ToBeStored`), then the EEPROM together with the map the controller is about to get, or has
(`HalfStored`), then the EEPROM with the map it has stored (`FullyStored`). The theorem has the
hypothesis `[]KeysTellApart`: whenever `write` is about to run, no two ports of the configuration have the same key and different
mappings. Without it the statement is false (finding 3, run `config_keys`). It is fulfilled in every state of the run `host`, where
two ports may also share a mapping, and so a channel. It is one of behaviours, not of
constants, as a configuration may also come from the bytes of an EEPROM.

`HostProofs`, the dialog: `ConfigStaysKept` follows the values through every request of an operation (`Kept`).
While the program reads, the part it has read agrees with the controller (`AgreesWhileReading`), so that the last request of
a read leaves what `AgreesAtRest` wants; while it stores, and when that failed, the mapping is the one of the user up
to the white calibration, which `write` caps at the resolution (`MapIsKept`). The controller stores a maximum and reports a frequency, both
rounded. `FreqReadBack` is the proof that the frequency reported for a maximum has this maximum again;
it needs a maximum that comes from a frequency (`MaxIsLegal`), which the clamp of the request and the range of the dialog's
scale (`FreqAssumption`, `device_dlg.py:65`) give. So the values agree also where the frequency reported is one that
cannot be set (400 Hz, section 4). Nothing is assumed of the mappings: ports may share keys.

`FirmwareProofs`, the image: the invariant is `ImageTypeOK /\ PagesDistinct`. Distinct base addresses make the byte at an address
unique, so that changing one page changes the flat memory at one address (`InsertCases`: a page is
changed or appended). Without it the refinement fails, since a second page with the same address would
hide the first. `ImageImplementsContents` is the whole specification `FlashContents!Spec`, which has no fairness.

`FirmwareProofs`, the update: `NeverMixed` is not inductive, because it says nothing of a controller in its boot
loader. `Protected` does: the first page is blank, or some page was written wrong, or all pages are of one firmware.
`Progress` says how far the controller is that is being written: while other pages are written, its first page is
blank or wrong. One step per action; restarts leave the pages alone. `UpdateHonest` adds what the user was told.
`WrittenIsVerified`: a controller whose pages differ from the file and from what it had is the one being flashed, or its fault
was shown. `QuietSoFar` says, for each part of an update that has shown no error, which controllers of the list are
verified, and that the boot loader that wrote them is known, so that it is the one the start of the application is sent to.

`DeviceProofs`, the device sheet: `SheetStaysCurrent` needs four facts beside the parts of `SheetIsCurrent` (`Current`). What is
selected has a configuration (`Chosen`); nothing is selected during a search (`NoneWhileSearching`), which is what
`scanDevices` clears the selection for: an attempt that fails half way has replaced the list. The configurations stay those of
open handles until the sheet is left (`ConfigsAreOpen`). And `selectDevice` does not load again what is selected
already, so that what is selected must be what is shown (`ShownTogether`). The buses, the modes, the order in which libusb lists
the controllers and the echo tests are arbitrary.

`DeviceProofs`, the transfers: `SubmittedIsPending` needs the steps in between: the calls `submit` and
`cancel` that are going on, and the callback that runs. The other three are proved of the transfers
outside `Cancelling`, whatever happens to those in it.

`SheetProofs`, the layout: `StoredIsDrawn` and `PictureIsDrawn` are inductive together with the types and the fact that
the screen's weights are those of the attributes. `Merged` (the largest number of areas of any configuration) enters only as a
set of layouts.

`SheetProofs`, the mappings: `ListedIsMapped` is not inductive, because a step writes the channel of the light and the
entry of the list at the position selected. `ListIsComplete` says that, unless a request failed, the two are the same channel and each
channel is in the list once, so that writing one entry leaves the others true. `BrokenIsFailed` is needed for a sheet that was
opened with an error. `LightIsActual` follows the light through every way `selectLight` can end: whatever failed, what is on
belongs to the connector of the actual channel, as long as no failed request was carried out all the same. Group
colours end at the last pin found (`GroupFacts`), which the light then leaves. `MappingAssumption` asks
that a channel is listed once and has one of three pins (`PORT_NAME_MAP`, `device_drv.py:143`); the numbers of controllers,
connectors and areas, the old mappings and the failures are arbitrary.

`SheetProofs`, the calibration: `UpdatesFacts` says of `update`, however it ends, that it changes no channel of another area than the
selected one, treats channels of one area, colour and resolution alike, and, if it gets to its end, has shown every
channel that is loaded. `LoadedOnWhite` (an open sheet has loaded all of them) makes that `ShownIsStored`; `OutlinedIsChosen`
(if the outlined area has channels, it is the one selected, and not all are) makes it `OutlinedIsChanged`. The type
invariant has the arithmetic: a product that is truncated, and perhaps one less than it should be, stays within the resolution
(`ScaledFacts`), as does the fraction on a scale that rounds (`KeptFacts`), and the stored gamma is the whole tenths of
a value entered, positive or negative (`TruncatedFacts`, `GammaFacts`), which is how `Shows` relates it to the light.
`CalibrationAssumption` asks for positive resolutions
and for text in a gamma field to be no number.

`SheetProofs`, the screen: `SidesAreDivided` is `SideIsDivided` for every screen, analyze window and number of areas. The sizes
of a side are integer parts of fractions that grow from 0 to its length (`CutsAreShares`); each area lies between two
neighbouring ones (`StripIsBetween`), except the lone area of section 4; so the row of areas is the row of cuts (`RowIsCut`).
`ScreenType` adds that no depth passes the half of the window (`DepthsAreApart`). The theorems are about the instance
`Screen` of `AreaGeometry`, under its `GeometryAssumption`.

`ScreenTiled` is the whole of `ScreenIsDivided`: the polygons tile the window too, whenever each side has no area or at
least three, its corners counted (with fewer they may overlap, section 4). It needs no induction over the areas, because a pixel determines
the area it is in:

- A pixel is inside a polygon when the ray to its right crosses an odd number of edges. A level edge is never crossed, an
  upright one exactly by the rays that start to its left at its height, and a slanted one as its two ends say, unless the
  pixel lies between them (`LevelEdge`, `UprightEdge`, `EdgeBounds`); turning an edge changes nothing (`EdgeTurned`).
- The four borders from the corners of the window to those of the centre divide it into five zones, and the borders do
  not meet (`BordersAreApart`, `Zones`). An area of a side holds exactly the pixels of the side's zone between
  its two cuts, the slanted end of an outermost one included (`TopHolds`, `BottomHolds`, `LeftHolds`, `RightHolds`); a
  corner area holds the first or last strip of each of its two sides (`CornersHold`), and the centre its own (`CenterHolds`, `AreasAreHeld`).
- The cuts of a side grow, so a pixel lies between two neighbours of them in at most one place, and in some place if
  the side has areas (`OnePlace`, `SomePlace`); hence at most one area holds it, and one does if no side is
  empty and there is a centre (`OneHolder`, `SomeHolder`, `WindowIsTiled`).

The theorem has a hypothesis, `WindowIsLarge`: the analyze window is at least `MaxSide + 2` wide and high, a pixel for each
area of a side and its two corners, and no wider than the canvas. The window is 64 to 384 wide (`areas_dlg.py:84`), a side has
at most 30 areas (`device_drv.py:260`) and the overscan leaves most of the screen, so it holds of the usual screens: at 16:9 the smallest window is 36
high. It does exclude something: on a screen much flatter than 2:1 the smallest window has fewer rows than a full side has
areas, and nothing is claimed of the tiling there. `SidesAreDivided` holds of those as well. The values of `MCSheets.cfg` satisfy the
hypothesis.

Only model-checked: liveness and fairness (`LatestShown`, `SyncedAnswered`, `CallEnds`, `EchoStops` and the fair part
of `DisplaySpec`), which is out of the provers' reach. Every safety invariant and action property of a passing run is
proved.

The runs check the type invariants of the parts of an `MC` module as one, `MCTypeOK`. `HostType`, `FirmwareType`,
`DevicesType` and `SheetsType` prove it of the disjoint union: every step is a step of one part and leaves the
variables of the others alone, so the invariants of the parts hold side by side.

## 6. Plan

Written so far: the modules above. Next, in this order:

1. `PwmParser`: receive ring, receive interrupt, `read_data` and `rx_err_status` of the PWM controller,
   byte by byte; what is carried out was sent, or an error is flagged. Abstract specification: a lossy
   queue of whole requests, the one `ReplyLink` uses. To be proved: the ring is a FIFO for every size.
2. `UsbTransfer`: packets, data tokens, CRC errors, `usb_last_rc`, the EEPROM requests; abstract
   specification: each packet is applied once.
3. `PwmNumbers`: `ms_to_ticks`, frequency and resolution, channel map codes, with their widths.
4. `Standby` and `TestDriver`.
5. `Link`: `ReplyLink` composed with `PwmParser` in place of the queue.
6. Proofs: the ring of `PwmParser`.

## 7. Not modelled

V-USB (`usbdrv/`) is third-party code, and `libusb1.py` declares the constants and functions of a C library.
Of `usb1.py`, the reading of descriptors has no state, and `USBPoller` is used by no program here; the end of
a transfer object by the garbage collector (`__del__`) is not a step. Of `device_drv.py`, the simulated
controllers (538-719) and the test code (925-1089) are left out. Of the dialogs, the construction of the
widgets, the tabs of `setup_dlg.py`, and the pixels of the weight picture (`calcEdgeWeighting`) are; the
last is a computation without a property. A gamma typed out of range or below 0 is in `Calibration` and not in
`ControllerConfig`, whose `write` would raise for one that does not fit a byte (`device_drv.py:829`);
a setup that is torn in the PWM controller is in `SetupStore` and not in
`ControllerConfig`. The PWM common brightness is one timer register. Electrical behaviour, build files and the board are
out of scope. What is planned but not yet there is listed in section 6.
