------------------------------- MODULE PwmPages -------------------------------
(***************************************************************************)
(* The PWM generation of the PWM controller (pwm_appl/df10ch_pwm_appl.c):  *)
(* two step pages, one walked by the timer 3 interrupt, the other rebuilt  *)
(* by the main loop from the actual settings.                              *)
(*                                                                         *)
(* A page is the sequence of its steps in list order; a step keeps the     *)
(* outputs that are on while it lasts and its timer value.  `link` is the  *)
(* next_step pointer of a page's last step; every other next_step pointer  *)
(* leads to the next element of the sequence.  PwmStepList shows that the  *)
(* linked lists in memory implement these sequences.                       *)
(*                                                                         *)
(* The main loop and the interrupt interleave between any two steps of     *)
(* the main loop; a request is one step of the main loop, because the      *)
(* interrupt shares no variable with it.                                   *)
(***************************************************************************)
EXTENDS Integers, Sequences, FiniteSets

CONSTANTS NCHANNELS,      \* number of channels and of channel map entries
          Bits,           \* the bits of a port
          Brights,        \* brightness values a request can carry
          MapRequests,    \* channel map entries a request can carry
          DefaultMap,     \* default_channel_map
          PwmResolutions, \* values of setup.max_pwm
          DefMaxPwm,      \* DEF_MAX_PWM
          PWM_PRESCALE,   \* timer ticks of one pwm step
          Dark            \* see PwmDisplay

Channels == 0 .. NCHANNELS - 1
Pages == {1, 2}

\* The code of a map entry names a port and a channel (df10ch_usb_proto.h).
CM_CHANNEL(code) == code \div 4
CM_PORT(code)    == code % 4
MapEntries == {e \in [code : 0 .. 255, port_bits : SUBSET Bits] :
                 CM_CHANNEL(e.code) \in Channels}
Driven(e) == {CM_PORT(e.code)} \X e.port_bits
Outputs   == (0 .. 3) \X Bits

\* A channel number has six bits in the code of a map entry.
ASSUME SizeAssumption == NCHANNELS \in 1 .. 64 /\ PWM_PRESCALE \in Nat \ {0}
ASSUME BrightAssumption == Brights \subseteq Nat /\ 0 \in Brights
ASSUME MapAssumption ==
  /\ MapRequests \subseteq [code : 0 .. 255, port_bits : SUBSET Bits]
  /\ DefaultMap \in [Channels -> MapEntries]
\* A timer value never wraps: at MIN_PWM_FREQ (50 Hz) max_pwm is 2221.
ASSUME WidthAssumption ==
  /\ PwmResolutions \subseteq Nat \ {0} /\ DefMaxPwm \in PwmResolutions
  /\ \A r \in PwmResolutions : r * PWM_PRESCALE < 65536

Settings == [bright : [Channels -> Brights],
             map    : [Channels -> MapEntries],
             max    : PwmResolutions]

ASSUME DarkNotSettings == Dark \notin Settings

VARIABLES
  bright_vals,      \* brightness of each channel
  channel_map,      \* setup.channel_map: channel and port bits of each entry
  max_pwm,          \* setup.max_pwm
  update_pwm_page,  \* settings changed since the last page was built
  steps,            \* the step list of each page
  link,             \* the page the last step of each page leads to
  shadow_pwm_page,  \* the page the main loop builds next
  active_pwm_page,  \* the page whose last step this pointer holds
  actual_pwm_step,  \* the step the timer interrupt loads next
  pc,               \* where the main loop is
  c,                \* calc_pwm_page: channel map entries still to do
  running,          \* timer 3 runs
  frame,            \* history: the settings each page was built from
  syncOwed          \* history: a SYNCED request changed the settings and
                    \* no page has been built from them yet

settings == <<bright_vals, channel_map, max_pwm>>
pages    == <<steps, link, shadow_pwm_page, active_pwm_page>>
vars     == <<settings, update_pwm_page, pages, actual_pwm_step, pc, c,
              running, frame, syncOwed>>

OtherPage(p) == IF p = 1 THEN 2 ELSE 1
Snapshot == [bright |-> bright_vals, map |-> channel_map, max |-> max_pwm]

(***************************************************************************)
(* The step list while it is built: timer_val is the time at which the     *)
(* step ends, and the list is sorted by it.                                *)
(***************************************************************************)

\* Mutant: a step that ends exactly at v is left out.
SetChannel_Strict(list, outs, v) ==
  LET covered == {i \in DOMAIN list : list[i].timer_val < v}
      k   == Cardinality(covered)
      lit == [i \in DOMAIN list |->
                IF i \in covered THEN [list[i] EXCEPT !.on = @ \cup outs]
                                 ELSE list[i]]
      cut == [on |-> outs \cup (IF k < Len(list) THEN list[k+1].on ELSE {}),
              timer_val |-> v]
  IN SubSeq(lit, 1, k) \o <<cut>> \o SubSeq(lit, k + 1, Len(lit))

\* set_channel: switch `outs` on for the first v units of the cycle.
SetChannel(list, outs, v) ==
  LET covered == {i \in DOMAIN list : list[i].timer_val <= v}
      k   == Cardinality(covered)
      lit == [i \in DOMAIN list |->
                IF i \in covered THEN [list[i] EXCEPT !.on = @ \cup outs]
                                 ELSE list[i]]
      cut == [on |-> outs \cup (IF k < Len(list) THEN list[k+1].on ELSE {}),
              timer_val |-> v]
  IN IF \E i \in covered : list[i].timer_val = v
       THEN lit
       ELSE SubSeq(lit, 1, k) \o <<cut>> \o SubSeq(lit, k + 1, Len(lit))

\* calc_pwm_page, the body of the loop for channel map entry e.
CalcEntry(list, e) ==
  LET v == bright_vals[CM_CHANNEL(e.code)]
  IN IF e.port_bits = {} \/ v = 0
       THEN list
       ELSE SetChannel(list, Driven(e), IF v > max_pwm THEN max_pwm ELSE v)

LastTime(list) == IF list = <<>> THEN 0 ELSE list[Len(list)].timer_val

\* activate_pwm_page, first part: end times become durations in timer ticks
\* and a pause completes the cycle.
Durations(list) ==
  [i \in DOMAIN list |->
     [on |-> list[i].on,
      timer_val |-> PWM_PRESCALE *
        (list[i].timer_val - (IF i = 1 THEN 0 ELSE list[i-1].timer_val))]]

\* Mutant: no pause entry.
Finished_NoPause(list) == Durations(list)

Finished(list) ==
  LET pause == max_pwm - LastTime(list)
  IN IF pause = 0
       THEN Durations(list)
       ELSE Append(Durations(list),
                   [on |-> {}, timer_val |-> pause * PWM_PRESCALE])

(***************************************************************************)
(* Requests.  process_request runs in the main loop, between two turns.    *)
(***************************************************************************)

\* The values of a channel range; what lies beyond the last channel is dropped.
Written(table, first, vals) ==
  [ch \in Channels |-> IF ch - first + 1 \in DOMAIN vals
                         THEN vals[ch - first + 1] ELSE table[ch]]

Payloads(S) == UNION {[1 .. n -> S] : n \in 0 .. NCHANNELS}

AtRequest == pc = "loop"

\* Mutant: the update flag is not set.
WriteBrightness_NoUpdate ==
  \E first \in Channels, vals \in Payloads(Brights) :
    /\ bright_vals' = Written(bright_vals, first, vals)
    /\ UNCHANGED <<channel_map, max_pwm, update_pwm_page, pages, actual_pwm_step, c,
                   running, frame>>

\* req_set_brightness
WriteBrightness ==
  \E first \in Channels, vals \in Payloads(Brights) :
    /\ bright_vals' = Written(bright_vals, first, vals)
    /\ update_pwm_page' = (update_pwm_page \/ bright_vals' # bright_vals)
    /\ UNCHANGED <<channel_map, max_pwm, pages, actual_pwm_step, c, running, frame>>

SetBrightness ==
  /\ AtRequest
  /\ WriteBrightness
  /\ pc' = "update"
  /\ UNCHANGED syncOwed

\* Mutant: the reply does not wait.
SetBrightnessSynced_NoWait ==
  /\ AtRequest
  /\ WriteBrightness
  /\ pc' = "update"
  /\ syncOwed' = (syncOwed \/ bright_vals' # bright_vals)

\* The reply waits until the interrupt has left the shadow page.
SetBrightnessSynced ==
  /\ AtRequest
  /\ WriteBrightness
  /\ pc' = IF update_pwm_page' THEN "synced" ELSE "update"
  /\ syncOwed' = (syncOwed \/ bright_vals' # bright_vals)

SyncedReply ==
  /\ pc = "synced"
  /\ actual_pwm_step.page # shadow_pwm_page
  /\ pc' = "update"
  /\ UNCHANGED <<settings, update_pwm_page, pages, actual_pwm_step, c, running,
                 frame, syncOwed>>

\* Mutant: the channel number is not checked.
Checked_NoClamp(e) == e

\* A code with no such channel is replaced by the code NCHANNELS - 1.
Checked(e) ==
  IF CM_CHANNEL(e.code) >= NCHANNELS THEN [e EXCEPT !.code = NCHANNELS - 1] ELSE e

\* A request sets a range of the entries of a channel map.
Mapped(table, new) ==
  \E first \in Channels, es \in Payloads(MapRequests) :
    new = Written(table, first, [i \in DOMAIN es |-> Checked(es[i])])

\* req_set_channel_map
SetChannelMap ==
  /\ AtRequest
  /\ Mapped(channel_map, channel_map')
  /\ update_pwm_page' = (update_pwm_page \/ channel_map' # channel_map)
  /\ pc' = "update"
  /\ UNCHANGED <<bright_vals, max_pwm, pages, actual_pwm_step, c, running, frame,
                 syncOwed>>

\* The update flag is set even when the frequency stays the same.
SetPwmFreq ==
  /\ AtRequest
  /\ max_pwm' \in PwmResolutions
  /\ update_pwm_page' = TRUE
  /\ pc' = "update"
  /\ UNCHANGED <<bright_vals, channel_map, pages, actual_pwm_step, c, running, frame,
                 syncOwed>>

ResetSetup ==
  /\ AtRequest
  /\ channel_map' = DefaultMap /\ max_pwm' = DefMaxPwm
  /\ update_pwm_page' = TRUE
  /\ pc' = "update"
  /\ UNCHANGED <<bright_vals, pages, actual_pwm_step, c, running, frame, syncOwed>>

Request == \/ SetBrightness \/ SetBrightnessSynced
           \/ SetChannelMap \/ SetPwmFreq \/ ResetSetup

\* A turn of the main loop that completes no request.
NoRequest ==
  /\ AtRequest
  /\ pc' = "update"
  /\ UNCHANGED <<settings, update_pwm_page, pages, actual_pwm_step, c, running,
                 frame, syncOwed>>

(***************************************************************************)
(* The second half of a turn: build the shadow page and install it.        *)
(***************************************************************************)

\* Mutant: the check is dropped.
ShadowFree_Unchecked == TRUE

\* init_pwm_page: the check that the interrupt is not in the shadow page.
ShadowFree == actual_pwm_step.page # shadow_pwm_page

NoUpdate ==
  /\ pc = "update"
  /\ ~(update_pwm_page /\ ShadowFree)
  /\ pc' = "loop"
  /\ UNCHANGED <<settings, update_pwm_page, pages, actual_pwm_step, c, running,
                 frame, syncOwed>>

\* Mutant: the old steps are not removed.
InitPwmPage_NoReset ==
  /\ pc = "update"
  /\ update_pwm_page /\ ShadowFree
  /\ c' = NCHANNELS
  /\ pc' = "calc"
  /\ frame' = [frame EXCEPT ![shadow_pwm_page] = Snapshot]
  /\ syncOwed' = FALSE
  /\ UNCHANGED <<settings, update_pwm_page, pages, actual_pwm_step, running>>

\* All entries are linked in a row again, the last one too: no entry of the
\* page leads to the other page any more.
InitPwmPage ==
  /\ pc = "update"
  /\ update_pwm_page /\ ShadowFree
  /\ steps' = [steps EXCEPT ![shadow_pwm_page] = <<>>]
  /\ link' = [link EXCEPT ![shadow_pwm_page] = shadow_pwm_page]
  /\ c' = NCHANNELS
  /\ pc' = "calc"
  /\ frame' = [frame EXCEPT ![shadow_pwm_page] = Snapshot]
  /\ syncOwed' = FALSE
  /\ UNCHANGED <<settings, update_pwm_page, shadow_pwm_page, active_pwm_page,
                 actual_pwm_step, running>>

CalcPwmPage ==
  /\ pc = "calc" /\ c > 0
  /\ c' = c - 1
  /\ steps' = [steps EXCEPT ![shadow_pwm_page] = CalcEntry(@, channel_map[c-1])]
  /\ UNCHANGED <<settings, update_pwm_page, link, shadow_pwm_page, active_pwm_page,
                 actual_pwm_step, pc, running, frame, syncOwed>>

\* activate_pwm_page: durations, pause, and the page made cyclic.
FinishPage ==
  /\ pc = "calc" /\ c = 0
  /\ steps' = [steps EXCEPT ![shadow_pwm_page] = Finished(@)]
  /\ link' = [link EXCEPT ![shadow_pwm_page] = shadow_pwm_page]
  /\ pc' = "install"
  /\ UNCHANGED <<settings, update_pwm_page, shadow_pwm_page, active_pwm_page,
                 actual_pwm_step, c, running, frame, syncOwed>>

\* activate_pwm_page: the link from the active page, with interrupts off.
InstallLink ==
  /\ pc = "install"
  /\ link' = [link EXCEPT ![active_pwm_page] = shadow_pwm_page]
  /\ active_pwm_page' = shadow_pwm_page
  /\ pc' = "swap"
  /\ UNCHANGED <<settings, update_pwm_page, steps, shadow_pwm_page, actual_pwm_step,
                 c, running, frame, syncOwed>>

\* Mutant: the pages are not swapped.
SwapPages_NoSwap ==
  /\ pc = "swap"
  /\ update_pwm_page' = FALSE
  /\ pc' = IF running THEN "loop" ELSE "start"
  /\ UNCHANGED <<settings, pages, actual_pwm_step, c, running, frame, syncOwed>>

\* activate_pwm_page: swap the pages; interrupts are on again.
SwapPages ==
  /\ pc = "swap"
  /\ shadow_pwm_page' = OtherPage(shadow_pwm_page)
  /\ update_pwm_page' = FALSE
  /\ pc' = IF running THEN "loop" ELSE "start"
  /\ UNCHANGED <<settings, steps, link, active_pwm_page, actual_pwm_step, c, running,
                 frame, syncOwed>>

(***************************************************************************)
(* The timer interrupt, and the start of the timer.                        *)
(***************************************************************************)

FirstStep(p) == [page |-> p, pos |-> 1]

\* Mutant: every step of the old page leads to the new page once it is there.
Successor_AtOnce(s) ==
  IF s.pos < Len(steps[s.page]) /\ link[s.page] = s.page
    THEN [s EXCEPT !.pos = @ + 1]
    ELSE FirstStep(link[s.page])

\* p->next_step
Successor(s) ==
  IF s.pos < Len(steps[s.page]) THEN [s EXCEPT !.pos = @ + 1]
                                ELSE FirstStep(link[s.page])

TimerInterrupt ==
  /\ running
  /\ actual_pwm_step' = Successor(actual_pwm_step)
  /\ UNCHANGED <<settings, update_pwm_page, pages, pc, c, running, frame, syncOwed>>

\* init_pwm_step_tab, after the first page has been activated.
StartTimer ==
  /\ pc = "start"
  /\ actual_pwm_step' = FirstStep(link[active_pwm_page])
  /\ running' = TRUE
  /\ pc' = "loop"
  /\ UNCHANGED <<settings, update_pwm_page, pages, c, frame, syncOwed>>

\* init_pwm_step_tab has prepared the first page; the memory of the pages and
\* update_pwm_page are not initialized.
Init ==
  /\ bright_vals = [ch \in Channels |-> 0]
  /\ Mapped(DefaultMap, channel_map)
  /\ max_pwm \in PwmResolutions
  /\ update_pwm_page \in BOOLEAN
  /\ shadow_pwm_page = 1 /\ active_pwm_page = 2
  /\ actual_pwm_step = FirstStep(2)
  /\ steps = [p \in Pages |-> <<>>]
  /\ link \in [Pages -> Pages] /\ link[1] = 1
  /\ pc = "calc" /\ c = NCHANNELS
  /\ running = FALSE
  /\ frame = [p \in Pages |-> Snapshot]
  /\ syncOwed = FALSE

Main == \/ SyncedReply \/ NoRequest \/ NoUpdate \/ InitPwmPage \/ CalcPwmPage
        \/ FinishPage \/ InstallLink \/ SwapPages \/ StartTimer

Next == Request \/ Main \/ TimerInterrupt

\* The watchdog keeps the main loop turning and the timer runs freely.
Fairness == WF_vars(Main) /\ WF_vars(TimerInterrupt)

SafetySpec == Init /\ [][Next]_vars
Spec == SafetySpec /\ Fairness

(***************************************************************************)
(* Properties                                                              *)
(***************************************************************************)

Step == [on : SUBSET Outputs, timer_val : Int]

TypeOK ==
  /\ bright_vals \in [Channels -> Brights]
  /\ channel_map \in [Channels -> MapEntries]
  /\ max_pwm \in PwmResolutions
  /\ update_pwm_page \in BOOLEAN
  /\ steps \in [Pages -> Seq(Step)]
  /\ link \in [Pages -> Pages]
  /\ shadow_pwm_page \in Pages /\ active_pwm_page \in Pages
  /\ actual_pwm_step \in [page : Pages, pos : Nat \ {0}]
  /\ pc \in {"loop", "synced", "update", "calc", "install", "swap", "start"}
  /\ c \in 0 .. NCHANNELS
  /\ running \in BOOLEAN
  /\ frame \in [Pages -> Settings]
  /\ syncOwed \in BOOLEAN

\* While the main loop rebuilds the shadow page, and until it is linked in, the
\* timer interrupt cannot load a step of it: it would put half-built port values
\* on the outputs or follow a next_step pointer into a step that is being moved.
Building == pc \in {"calc", "install"}
ShadowExclusive == running /\ Building => actual_pwm_step.page # shadow_pwm_page

\* A step the interrupt loads exists: the pointer it follows always leads to a
\* step in use, never to one behind the end of the list (whose timer_val is 0).
NoDanglingStep ==
  running => actual_pwm_step.pos \in DOMAIN steps[actual_pwm_step.page]

\* The page memory (NCHANNELS + 2 entries) always keeps an entry free behind the
\* list, which set_channel and activate_pwm_page need as end mark and as pause.
PageFits ==
  \A p \in Pages :
    Len(steps[p]) <= IF p = shadow_pwm_page /\ pc = "calc"
                       THEN NCHANNELS - c ELSE NCHANNELS + 1

\* How long output o is on in one cycle of settings s, in pwm steps: the longest
\* of the brightnesses of the map entries that drive it, cut at max_pwm.
OnSteps(s, o) ==
  LET times == {s.bright[CM_CHANNEL(s.map[i].code)] :
                  i \in {j \in Channels : o \in Driven(s.map[j])}} \cup {0}
      longest == CHOOSE t \in times : \A u \in times : u <= t
  IN IF longest > s.max THEN s.max ELSE longest

Ticks(list) ==
  LET sum[i \in 0 .. Len(list)] == IF i = 0 THEN 0 ELSE sum[i-1] + list[i].timer_val
  IN sum[Len(list)]

IsOn(o, step) == o \in step.on

\* A cycle of a finished page lasts exactly max_pwm steps and each output is on
\* for exactly its brightness, from the start of the cycle and without a gap.
FrameExact(p) ==
  /\ Ticks(steps[p]) = frame[p].max * PWM_PRESCALE
  /\ \A o \in Outputs :
       \E n \in 0 .. Len(steps[p]) :
         /\ \A i \in DOMAIN steps[p] : IsOn(o, steps[p][i]) <=> i <= n
         /\ Ticks(SubSeq(steps[p], 1, n)) = OnSteps(frame[p], o) * PWM_PRESCALE

\* Every page the interrupt can reach shows the settings it was built from
\* exactly (calc_pwm_page, set_channel, activate_pwm_page), and no step of it is
\* shorter than PWM_PRESCALE ticks, the time the interrupt itself needs.
Reachable == {actual_pwm_step.page, link[actual_pwm_step.page]}
ShownExact ==
  running => \A p \in Reachable :
    /\ FrameExact(p)
    /\ \A i \in DOMAIN steps[p] : steps[p][i].timer_val >= PWM_PRESCALE

\* The interrupt changes the page only at the end of a cycle, and starts the
\* next page at its first step.
WholeCycles ==
  [][running /\ actual_pwm_step'.page # actual_pwm_step.page
       => /\ actual_pwm_step.pos = Len(steps[actual_pwm_step.page])
          /\ actual_pwm_step'.pos = 1]_vars

\* PWM_REQ_SET_BRIGHTNESS_SYNCED, "wait until buffer flip": once its reply is
\* sent, no later request is processed before its values are in a page, so a host
\* that sends only SYNCED requests gets every one of them shown.
SyncedNotSkipped == AtRequest => ~syncOwed

\* Once requests stop changing the settings, the outputs follow them for good.
Shown == frame[actual_pwm_step.page]
LatestShown ==
  \/ []<><<settings' # settings>>_vars
  \/ <>[](running /\ Shown = Snapshot)

\* A SYNCED request is answered, whatever the interrupt is doing when it comes.
SyncedAnswered == pc = "synced" ~> pc = "loop"

\* The pages implement the one-place mailbox of PwmDisplay.
Display ==
  INSTANCE PwmDisplay WITH
    Frames  <- Settings,
    shown   <- IF running THEN Shown ELSE Dark,
    pending <- IF running /\ link[actual_pwm_step.page] # actual_pwm_step.page
                 THEN frame[link[actual_pwm_step.page]] ELSE Dark
DisplaySpec == Display!Spec

\* The safety part of DisplaySpec: no frame is lost between the main loop and the
\* interrupt, none is shown in part, and none replaces one that still waits.
DisplaySafe == Display!Init /\ [][Display!Next]_(Display!vars)
===============================================================================
