--------------------------- MODULE ControllerConfig ---------------------------
(***************************************************************************)
(* The configuration of one controller (df10ch_setup_pkg/device_drv.py,    *)
(* class ControllerConfig, and its buttons in device_dlg.py).  One half is *)
(* stored in the EEPROM of the USB controller (which area and colour each  *)
(* request channel shows), the other half in the PWM controller (which     *)
(* request channel drives which port).  Store writes them one after the    *)
(* other, and every request in between can fail.                           *)
(***************************************************************************)
EXTENDS Integers, Sequences, FiniteSets, FiniteSetsExt, SequencesExt

CONSTANTS PortNames,   \* the ports in the order of channelMap.keys()
          Mappings,     \* what the user maps to a port: area, color, gamma, whiteCal
          Layouts,     \* what the user enters in the layout dialog
          Freqs,       \* PWM frequencies the user sets
          Brights,     \* common brightness values the user sets
          Cuts,        \* bytes of an EEPROM write that were written when it is cut short
          MaxOps,      \* bound: operations of the user
          None         \* Python's None

Ports == ToSet(PortNames)
NCHANNELS == Len(PortNames)
Place(p) == CHOOSE i \in 1 .. NCHANNELS : PortNames[i] = p

CONFIG_VALID_ID == <<161, 160>>
NumBaseAreas == 9
MAX_AREAS == <<30, 30, 30, 30, 1, 1, 1, 1, 1>>
HEADER == 5 + NumBaseAreas
EeSize == HEADER + NCHANNELS * 6 + 4

Clamp(v, lo, hi) == IF v > hi THEN hi ELSE IF v < lo THEN lo ELSE v
AtMost(v, hi) == Clamp(v, 0, hi)

(***************************************************************************)
(* The PWM controller's side                                               *)
(***************************************************************************)
MIN_PWM_FREQ == 50
MAX_PWM_FREQ == 400
MaxPwm(f)     == 16000000 \div (144 * f) - 1
GetFreq(max)  == 16000000 \div (144 * (max + 1))

DefaultSetup == [map  |-> [p \in Ports |-> Place(p) - 1],
                 max  |-> MaxPwm(100), bright |-> 255]

(***************************************************************************)
(* The format of the EEPROM                                                *)
(***************************************************************************)
AreaCode(area, color) == area.idx * 4 + color
AreaNum(area) == IF area.idx < 4 THEN area.num ELSE 0
AreaName(code, num) ==
  LET idx == code \div 4 IN
  IF idx < NumBaseAreas THEN [idx |-> idx, num |-> IF idx < 4 THEN num ELSE 0] ELSE None

Digits[n \in Nat] == IF n < 10 THEN <<n>> ELSE Append(Digits[n \div 10], n % 10)

\* '{0}{1}{2}{3}'.format(areaCode, areaNum, gamma, whiteCal)
\* Mutant: areaNum is not part of the key.
Key_NoNumber(c, res) ==
  Digits[AreaCode(c.area, c.color)] \o Digits[c.gamma] \o Digits[AtMost(c.whiteCal, res)]
Key(c, res) ==
  Digits[AreaCode(c.area, c.color)] \o Digits[AreaNum(c.area)]
    \o Digits[c.gamma] \o Digits[AtMost(c.whiteCal, res)]

\* Ports with equal keys share a request channel, the one of the first of them; the
\* channels are numbered in the order of the ports.
MappedPorts(cf) == {p \in Ports : cf.channelMap[p] # None}
WithSameKey(cf, p) ==
  {q \in MappedPorts(cf) : Key(cf.channelMap[q], cf.pwmRes) = Key(cf.channelMap[p], cf.pwmRes)}
FirstWithKey(cf, p) ==
  CHOOSE q \in WithSameKey(cf, p) : \A r \in WithSameKey(cf, p) : Place(q) <= Place(r)
ReqPorts(cf) == {p \in MappedPorts(cf) : FirstWithKey(cf, p) = p}
ReqPortsBefore(cf, p) == {q \in ReqPorts(cf) : Place(q) < Place(p)}
ReqChannel(cf, p) == Cardinality(ReqPortsBefore(cf, FirstWithKey(cf, p)))

ChannelRecord(cf, n) ==
  LET c == cf.channelMap[CHOOSE p \in ReqPorts(cf) : ReqChannel(cf, p) = n]
      w == AtMost(c.whiteCal, cf.pwmRes)
  IN  <<n, AreaCode(c.area, c.color), AreaNum(c.area), c.gamma, w % 256, w \div 256>>

EeData(cf) ==
  LET n == Cardinality(ReqPorts(cf)) IN
  CONFIG_VALID_ID \o <<3, 0>> \o cf.layout.numAreas \o <<n>>
    \o [i \in 1 .. n * 6 |-> ChannelRecord(cf, (i - 1) \div 6)[1 + ((i - 1) % 6)]]
    \o <<cf.layout.overscan, cf.layout.analyzeSize, cf.layout.edgeWeighting, cf.layout.weightLimit>>

PwmMap(cf) == [p \in Ports |-> IF cf.channelMap[p] = None THEN None ELSE ReqChannel(cf, p)]

\* read: a valid configuration may be of any version and have any bytes.
ConfigValid(e)   == SubSeq(e, 1, 2) = CONFIG_VALID_ID
ConfigVersion(e) == e[3] + 256 * e[4]
NumReqChannels(e) == AtMost(e[HEADER], NCHANNELS)

DefaultLayout == [numAreas |-> [i \in 1 .. NumBaseAreas |-> 0], overscan |-> 30,
                  analyzeSize |-> 1, edgeWeighting |-> 60, weightLimit |-> 12]

\* Mutant: the number of areas is taken as it is.
AreaCount_Any(v, i) == v
AreaCount(v, i) == AtMost(v, MAX_AREAS[i])

LayoutAt(e) == HEADER + NumReqChannels(e) * 6
ReadLayout(e) ==
  LET at == LayoutAt(e) IN
  IF ~ConfigValid(e) THEN DefaultLayout
  ELSE [ [numAreas |-> [i \in 1 .. NumBaseAreas |-> AreaCount(e[4 + i], i)],
          overscan      |-> Clamp(e[at + 1], 0, 200),
          analyzeSize   |-> Clamp(e[at + 2], 0, 5),
          edgeWeighting |-> Clamp(e[at + 3], 10, 200),
          weightLimit   |-> Clamp(e[at + 4], 0, 255)]
         EXCEPT !.overscan      = IF ConfigVersion(e) > 1 THEN @ ELSE 30,
                !.analyzeSize   = IF ConfigVersion(e) > 1 THEN @ ELSE 1,
                !.edgeWeighting = IF ConfigVersion(e) > 1 THEN @ ELSE 60,
                !.weightLimit   = IF ConfigVersion(e) > 2 THEN @ ELSE 12 ]

ReadChannelMap(e, map, res) ==
  [p \in Ports |->
     LET at(i) == HEADER + 6 * (i - 1)
         hits  == {i \in 1 .. NumReqChannels(e) :
                     e[at(i) + 1] = map[p] /\ AreaName(e[at(i) + 2], e[at(i) + 3]) # None}
         a     == at(Min(hits))
     IN  IF map[p] = None \/ ~ConfigValid(e) \/ hits = {} THEN None
         ELSE [area     |-> AreaName(e[a + 2], e[a + 3]),
               color    |-> e[a + 2] % 4,
               gamma    |-> Clamp(e[a + 4], 10, 50),
               whiteCal |-> AtMost(e[a + 5] + 256 * e[a + 6], res)]]

(***************************************************************************)
(* The values                                                              *)
(***************************************************************************)
MaxByte == 255
MaxWord == 65535
Byte == 0 .. MaxByte
Word == 0 .. MaxWord

Areas == {a \in [idx : 0 .. NumBaseAreas - 1, num : Byte] : a.idx > 3 => a.num = 0}
Channels == [area : Areas, color : 0 .. 3, gamma : 10 .. 50, whiteCal : Nat]
ChannelMaps == [Ports -> Channels \cup {None}]
LegalLayouts ==
  {l \in [numAreas : [1 .. NumBaseAreas -> Nat], overscan : 0 .. 200, analyzeSize : 0 .. 5,
          edgeWeighting : 10 .. 200, weightLimit : Byte] :
     \A i \in 1 .. NumBaseAreas : l.numAreas[i] <= MAX_AREAS[i]}
Configs == [channelMap : ChannelMaps, layout : LegalLayouts, pwmRes : Word,
            pwmFreq : Nat, commonBright : Byte]
Setups  == [map : [Ports -> Nat \cup {None}], max : Word, bright : Byte]
Stored  == [channelMap : ChannelMaps, layout : LegalLayouts]

\* The scale of the dialog goes from MIN_PWM_FREQ to MAX_PWM_FREQ.
ASSUME FreqAssumption == Freqs \subseteq MIN_PWM_FREQ .. MAX_PWM_FREQ

\* Each port has a name of its own, the number of channels fits into its byte, and the
\* dialogs limit what the user enters.
ASSUME ConfigAssumption ==
  /\ PortNames \in Seq(Ports) /\ IsInjective(PortNames) /\ NCHANNELS \in 1 .. MaxByte
  /\ Mappings \subseteq Channels /\ Layouts \subseteq LegalLayouts /\ Brights \subseteq Byte
  /\ Cuts \subseteq Nat /\ MaxOps \in Nat
  /\ None \notin Areas \cup Channels \cup Nat \cup Configs

(***************************************************************************)
(* State                                                                   *)
(***************************************************************************)
VARIABLES
  ee,       \* the EEPROM of the USB controller, from address 1 on
  live,     \* the setup the PWM controller works with
  stored,   \* the setup it has stored and starts with
  gone,     \* it was unplugged since the last scan: every request fails
  cfg,      \* the ControllerConfig object, or None
  layout,   \* the values of the layout dialog
  file,     \* the backup file
  pc,       \* the next request of the running operation, or "idle"
  op,       \* that operation
  result,   \* how the last one ended
  doubt,    \* history: an exception since the configuration was last read
  wanted,   \* history: what the running or last operation is to store
  promise,  \* history: what was stored, as long as every operation ended well
  ops       \* history: operations so far

devices == <<ee, live, stored>>
history == <<doubt, wanted, promise, ops>>
vars == <<devices, gone, cfg, layout, file, pc, op, result, history>>

Init ==
  /\ ee = [i \in 1 .. EeSize |-> 255]
  /\ live = DefaultSetup /\ stored = DefaultSetup /\ gone = FALSE
  /\ cfg = None /\ layout = DefaultLayout /\ file = None
  /\ pc = "idle" /\ op = "none" /\ result = "ok"
  /\ doubt = TRUE /\ wanted = None /\ promise = None /\ ops = 0

UserActs == pc = "idle" /\ ops < MaxOps /\ ops' = ops + 1

\* What a configuration is once it is stored: white calibration within the resolution.
Storable(cf, max) ==
  [channelMap |-> [p \in Ports |->
                     IF cf.channelMap[p] = None THEN None
                     ELSE [cf.channelMap[p] EXCEPT !.whiteCal = AtMost(AtMost(@, cf.pwmRes), max)]],
   layout     |-> cf.layout]

Empty == [channelMap |-> [p \in Ports |-> None], layout |-> DefaultLayout]

(***************************************************************************)
(* Changes of the configuration                                            *)
(***************************************************************************)
EditMap ==
  /\ UserActs /\ cfg # None
  /\ \E m \in [Ports -> Mappings \cup {None}] : cfg' = [cfg EXCEPT !.channelMap = m]
  /\ op' = "none"
  /\ UNCHANGED <<devices, gone, layout, file, pc, result, doubt, wanted, promise>>

EditLayout ==
  /\ UserActs
  /\ layout' \in Layouts
  /\ UNCHANGED <<devices, gone, cfg, file, pc, op, result, doubt, wanted, promise>>

\* A request that sets one value of the PWM controller; an exception leaves open whether
\* it was carried out.
Sets(new) == live' = new /\ ~gone
MaySet(new) == live' = live \/ Sets(new)

SetupWithFreq(f) ==
  IF f \in MIN_PWM_FREQ .. MAX_PWM_FREQ THEN [live EXCEPT !.max = MaxPwm(f)] ELSE live

\* Mutant: the resolution is not read again.
NewRes_Old == cfg.pwmRes
NewRes == live'.max

SetPWMFreq ==
  /\ UserActs /\ cfg # None
  /\ \E f \in Freqs :
       /\ cfg.pwmFreq # f
       /\ \/ /\ Sets(SetupWithFreq(f))
             /\ cfg' = [cfg EXCEPT !.pwmFreq = f, !.pwmRes = NewRes]
             /\ result' = "ok" /\ UNCHANGED doubt
          \/ /\ MaySet(SetupWithFreq(f))        \* set_pwm_freq or get_max_pwm_value fails
             /\ result' = "raised" /\ doubt' = TRUE /\ UNCHANGED cfg
  /\ op' = "none"
  /\ UNCHANGED <<ee, stored, gone, layout, file, pc, wanted, promise>>

SetCommonBright ==
  /\ UserActs /\ cfg # None
  /\ \E v \in Brights :
       /\ cfg.commonBright # v
       /\ \/ /\ Sets([live EXCEPT !.bright = v])
             /\ cfg' = [cfg EXCEPT !.commonBright = v]
             /\ result' = "ok" /\ UNCHANGED doubt
          \/ /\ MaySet([live EXCEPT !.bright = v])
             /\ result' = "raised" /\ doubt' = TRUE /\ UNCHANGED cfg
  /\ op' = "none"
  /\ UNCHANGED <<ee, stored, gone, layout, file, pc, wanted, promise>>

BackupSetup ==
  /\ UserActs /\ cfg # None
  /\ cfg' = [cfg EXCEPT !.layout = layout]
  /\ file' = cfg'
  /\ UNCHANGED <<devices, gone, layout, pc, op, result, doubt, wanted, promise>>

(***************************************************************************)
(* The operations of several requests                                      *)
(***************************************************************************)
Begin(o, first) == UserActs /\ op' = o /\ pc' = first
                   /\ UNCHANGED <<devices, file, result, doubt, promise>>

\* storeSetup: setConfigFromLayout, then write.
StoreSetup ==
  /\ cfg # None /\ Begin("store", "write_ee")
  /\ cfg' = [cfg EXCEPT !.layout = layout]
  /\ wanted' = Storable(cfg', live.max)
  /\ UNCHANGED <<gone, layout>>

ResetSetup ==
  /\ cfg # None /\ Begin("reset", "clear_ee")
  /\ wanted' = Empty
  /\ UNCHANGED <<gone, cfg, layout>>

\* restoreSetup: whatever happens, the configuration of the file becomes the actual one.
RestoreSetup ==
  /\ cfg # None /\ file # None /\ Begin("restore", "set_bright")
  /\ cfg' = file
  /\ wanted' = Storable(file, SetupWithFreq(file.pwmFreq).max)
  /\ UNCHANGED <<gone, layout>>

\* LoadConfigs: a new ControllerConfig object, here or in the next program run.
Scan ==
  /\ Begin("scan", "reset_pwm")
  /\ cfg' = [channelMap |-> Empty.channelMap, layout |-> DefaultLayout,
             pwmRes |-> 0, pwmFreq |-> 0, commonBright |-> 0]
  /\ gone' = FALSE
  /\ UNCHANGED <<layout, wanted>>

Step(from, to) == pc = from /\ ~gone /\ pc' = to
                  /\ UNCHANGED <<gone, file, op, result, history>>

RestoreBright ==
  /\ Step("set_bright", "set_freq")
  /\ live' = [live EXCEPT !.bright = cfg.commonBright]
  /\ UNCHANGED <<ee, stored, cfg, layout>>

RestoredSetup == SetupWithFreq(cfg.pwmFreq)

RestoreFreq ==
  /\ Step("set_freq", "write_ee")
  /\ live' = RestoredSetup
  /\ UNCHANGED <<ee, stored, cfg, layout>>

Overwritten(data, n) == [i \in DOMAIN ee |-> IF i <= n /\ i <= Len(data) THEN data[i] ELSE ee[i]]

\* The bytes of the running write_ee_data.
WriteData == IF pc = "clear_ee" THEN <<255, 255>> ELSE EeData(cfg)

\* write_ee_data, which reads back what it wrote.
WriteEe ==
  /\ \/ Step("write_ee", "set_map")
     \/ Step("clear_ee", "reset_setup")
  /\ ee' = Overwritten(WriteData, EeSize)
  /\ UNCHANGED <<live, stored, cfg, layout>>

SetChannelMap ==
  /\ Step("set_map", "store")
  /\ live' = [live EXCEPT !.map = PwmMap(cfg)]
  /\ UNCHANGED <<ee, stored, cfg, layout>>

StoreRequest ==
  /\ Step("store", "reset_pwm")
  /\ stored' = live
  /\ UNCHANGED <<ee, live, cfg, layout>>

ResetRequest ==
  /\ Step("reset_setup", "reset_pwm")
  /\ live' = DefaultSetup /\ stored' = DefaultSetup
  /\ UNCHANGED <<ee, cfg, layout>>

(***************************************************************************)
(* read                                                                    *)
(***************************************************************************)
ReadReset ==
  /\ Step("reset_pwm", "get_pwm")
  /\ live' = stored
  /\ UNCHANGED <<ee, stored, cfg, layout>>

\* What read assigns between two of its requests.
\* Mutant: the channel map is cleared with the other attributes.
Blank_Map(cf) == [cf EXCEPT !.layout = DefaultLayout, !.channelMap = Empty.channelMap]
Blank(cf) == [cf EXCEPT !.layout = DefaultLayout]
WithPwm(cf) == [cf EXCEPT !.pwmRes = live.max, !.pwmFreq = GetFreq(live.max),
                          !.commonBright = live.bright]

ReadPwm ==
  /\ Step("get_pwm", "read_ee")
  /\ cfg' = Blank(WithPwm(cfg))
  /\ UNCHANGED <<devices, layout>>

ReadEe ==
  /\ Step("read_ee", "read_map")
  /\ cfg' = [cfg EXCEPT !.layout = ReadLayout(ee)]
  /\ UNCHANGED <<devices, layout>>

\* setLayoutFromConfig, after Scan and Restore.
LayoutAfter(cf) == IF op \in {"scan", "restore"} /\ cf # None THEN cf.layout ELSE layout

\* The last request of read; the operation has ended well.
ReadMap ==
  /\ pc = "read_map" /\ ~gone /\ pc' = "idle"
  /\ cfg' = [cfg EXCEPT !.channelMap = ReadChannelMap(ee, live.map, cfg.pwmRes)]
  /\ layout' = LayoutAfter(cfg')
  /\ result' = "ok" /\ doubt' = FALSE
  /\ promise' = IF op = "scan" THEN promise ELSE wanted
  /\ UNCHANGED <<devices, gone, file, op, wanted, ops>>

(***************************************************************************)
(* Failures                                                                *)
(***************************************************************************)
\* A request raises an exception: it was not carried out, or carried out in part or in full.

Fails ==
  /\ pc # "idle" /\ pc' = "idle"
  /\ CASE pc \in {"write_ee", "clear_ee"} ->
            /\ \E n \in Cuts \cup {0, EeSize} : ee' = Overwritten(WriteData, n) /\ (gone => n = 0)
            /\ UNCHANGED <<live, stored, cfg>>
       [] pc = "store"       -> stored' \in {stored, live} /\ (gone => stored' = stored)
                                /\ UNCHANGED <<ee, live, cfg>>
       [] pc = "reset_setup" -> \/ UNCHANGED <<devices, cfg>>
                                \/ /\ ~gone /\ live' = DefaultSetup
                                   /\ stored' \in {stored, DefaultSetup}
                                   /\ UNCHANGED <<ee, cfg>>
       [] pc = "get_pwm"     -> /\ cfg' \in {cfg, [cfg EXCEPT !.pwmRes = live.max],
                                             [WithPwm(cfg) EXCEPT !.commonBright = cfg.commonBright]}
                                /\ (gone => cfg' = cfg)
                                /\ UNCHANGED devices
       [] OTHER -> /\ MaySet(CASE pc = "set_bright" -> [live EXCEPT !.bright = cfg.commonBright]
                               [] pc = "set_freq"   -> SetupWithFreq(cfg.pwmFreq)
                               [] pc = "set_map"    -> [live EXCEPT !.map = PwmMap(cfg)]
                               [] pc = "reset_pwm"  -> stored
                               [] OTHER             -> live)
                   /\ UNCHANGED <<ee, stored, cfg>>
  /\ UNCHANGED <<gone, file, op, wanted, ops>>

\* The object of a failed LoadConfigs does not get into the ConfigMap.
Raise ==
  /\ pc # "idle"
  /\ result' = "raised" /\ doubt' = TRUE
  /\ promise' = IF op = "scan" THEN promise ELSE None

Failure ==
  /\ op # "scan" /\ Fails /\ Raise /\ layout' = LayoutAfter(cfg')

ScanFailure ==
  /\ op = "scan" /\ Raise
  /\ pc' = "idle" /\ cfg' = None
  /\ MaySet(IF pc = "reset_pwm" THEN stored ELSE live)
  /\ UNCHANGED <<ee, stored, gone, layout, file, op, wanted, ops>>

\* The controller loses power or is unplugged; it starts with what is stored.
PowerLoss ==
  /\ ~gone /\ gone' = TRUE
  /\ live' = stored /\ doubt' = TRUE
  /\ UNCHANGED <<ee, stored, cfg, layout, file, pc, op, result, wanted, promise, ops>>

Next ==
  \/ EditMap \/ EditLayout \/ SetPWMFreq \/ SetCommonBright \/ BackupSetup
  \/ StoreSetup \/ ResetSetup \/ RestoreSetup \/ Scan
  \/ RestoreBright \/ RestoreFreq \/ WriteEe \/ SetChannelMap \/ StoreRequest \/ ResetRequest
  \/ ReadReset \/ ReadPwm \/ ReadEe \/ ReadMap
  \/ Failure \/ ScanFailure \/ PowerLoss

Spec == Init /\ [][Next]_vars

(***************************************************************************)
(* Properties                                                              *)
(***************************************************************************)
\* The values of the variables; read makes a legal configuration of any bytes that an
\* interrupted write has left in the EEPROM.
TypeOK ==
  /\ ee \in [1 .. EeSize -> Byte] /\ live \in Setups /\ stored \in Setups
  /\ gone \in BOOLEAN /\ doubt \in BOOLEAN /\ ops \in 0 .. MaxOps
  /\ cfg \in Configs \cup {None} /\ file \in Configs \cup {None} /\ layout \in LegalLayouts
  /\ pc \in {"idle", "set_bright", "set_freq", "write_ee", "clear_ee", "set_map", "store",
             "reset_setup", "reset_pwm", "get_pwm", "read_ee", "read_map"}
  /\ op \in {"none", "store", "reset", "restore", "scan"} /\ result \in {"ok", "raised"}
  /\ wanted \in Stored \cup {None} /\ promise \in Stored \cup {None}
  /\ pc # "idle" => cfg # None /\ op # "none"

\* write, reset: as long as every Store, Reset and Restore ended without an exception, the
\* two halves in the two controllers make up, at any later start, the configuration that
\* was stored last: every port its area, colour, gamma and white calibration, and the
\* layout.
StoredIsPromised ==
  promise # None /\ pc = "idle" =>
    /\ ReadLayout(ee) = promise.layout
    /\ ReadChannelMap(ee, stored.map, stored.max) = promise.channelMap

\* The case of finding 3 does not come up: of the configurations that are written, none has
\* two ports with the same key and different mappings.
Clamped(cf, p) == [cf.channelMap[p] EXCEPT !.whiteCal = AtMost(@, cf.pwmRes)]
KeysApart(cf) ==
  \A p \in MappedPorts(cf) : \A q \in WithSameKey(cf, p) : Clamped(cf, q) = Clamped(cf, p)
KeysTellApart == pc = "write_ee" => KeysApart(cfg)

\* setPWMFreq, setCommonBright compare with what they set last: unless an exception was
\* shown since the configuration was read, what the dialog shows is what the controller has.
ShownIsLive ==
  pc = "idle" /\ ~doubt /\ cfg # None =>
    /\ cfg.pwmRes = live.max /\ MaxPwm(cfg.pwmFreq) = live.max
    /\ cfg.commonBright = live.bright

\* write, read: a Store that failed at any request can be repeated, the mapping that the
\* user made is not lost: only the white calibration may differ from what is stored.
FailedStoreKeepsMap ==
  pc = "idle" /\ op = "store" /\ result = "raised" /\ cfg # None =>
    \A p \in Ports :
      LET c == cfg.channelMap[p]
          w == wanted.channelMap[p]
      IN  w = IF c = None THEN None ELSE [c EXCEPT !.whiteCal = w.whiteCal]

\* What the dialog shows and what the user made is neither wrong nor lost.
ConfigIsKept == ShownIsLive /\ FailedStoreKeepsMap
===============================================================================
