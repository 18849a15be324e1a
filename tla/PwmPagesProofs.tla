---------------------------- MODULE PwmPagesProofs ----------------------------
(***************************************************************************)
(* Proofs about PwmPages, for any number of channels and any settings.     *)
(***************************************************************************)
EXTENDS PwmPages, FiniteSetTheorems, SequenceTheorems, WellFoundedInduction, TLAPS

(***************************************************************************)
(* The operators on step lists.                                            *)
(***************************************************************************)

\* Adding an output to a step list gives a step list with at most one step more
\* (set_channel uses at most one free entry of the page).
LEMMA SetChannelType ==
  ASSUME NEW list \in Seq(Step), NEW outs \in SUBSET Outputs, NEW v \in Int
  PROVE  /\ SetChannel(list, outs, v) \in Seq(Step)
         /\ Len(SetChannel(list, outs, v)) <= Len(list) + 1
<1> DEFINE covered == {i \in DOMAIN list : list[i].timer_val <= v}
           k   == Cardinality(covered)
           lit == [i \in DOMAIN list |->
                     IF i \in covered THEN [list[i] EXCEPT !.on = @ \cup outs]
                                      ELSE list[i]]
           cut == [on |-> outs \cup (IF k < Len(list) THEN list[k+1].on ELSE {}),
                   timer_val |-> v]
           low  == SubSeq(lit, 1, k)
           high == SubSeq(lit, k + 1, Len(lit))
<1>1. Len(list) \in Nat /\ DOMAIN list = 1 .. Len(list)
  OBVIOUS
<1>2. k \in 0 .. Len(list)
  <2>1. covered \in SUBSET (1 .. Len(list))
    BY <1>1
  <2>2. IsFiniteSet(1 .. Len(list)) /\ Cardinality(1 .. Len(list)) = Len(list)
    BY <1>1, FS_Interval
  <2>3. k \in Nat /\ k <= Len(list)
    BY <2>1, <2>2, FS_Subset, FS_CardinalityType
  <2> QED
    BY <2>3, <1>1
<1>3. \A i \in 1 .. Len(list) : list[i] \in Step
  BY <1>1
<1>4. lit \in Seq(Step) /\ Len(lit) = Len(list)
  <2>1. \A i \in 1 .. Len(list) : lit[i] \in Step
    BY <1>1, <1>3 DEF Step
  <2> QED
    BY <2>1, <1>1
<1> HIDE DEF covered, lit
<1>5. cut \in Step
  BY <1>2, <1>3, <1>1 DEF Step
<1>6. low \in Seq(Step) /\ Len(low) = k
  BY <1>2, <1>4, SubSeqProperties
<1>7. high \in Seq(Step) /\ Len(high) = Len(list) - k
  BY <1>2, <1>4, SubSeqProperties
<1> HIDE DEF cut, low, high, k
<1>8. <<cut>> \in Seq(Step) /\ Len(<<cut>>) = 1
  BY <1>5
<1>9. /\ low \o <<cut>> \o high \in Seq(Step)
      /\ Len(low \o <<cut>> \o high) = Len(list) + 1
  <2> DEFINE front == low \o <<cut>>
  <2>1. front \in Seq(Step) /\ Len(front) = k + 1
    BY <1>6, <1>8, ConcatProperties, <1>2
  <2> HIDE DEF front
  <2>2. /\ front \o high \in Seq(Step)
        /\ Len(front \o high) = Len(front) + Len(high)
    BY <2>1, <1>7, ConcatProperties, Zenon
  <2>3. Len(front) + Len(high) = Len(list) + 1
    BY <2>1, <1>7, <1>1, <1>2
  <2> QED
    BY <2>2, <2>3 DEF front
<1>10. SetChannel(list, outs, v) \in {lit, low \o <<cut>> \o high}
  BY DEF SetChannel, covered, k, lit, cut, low, high
<1>11. CASE SetChannel(list, outs, v) = lit
  BY <1>1, <1>4, <1>11
<1>12. CASE SetChannel(list, outs, v) = low \o <<cut>> \o high
  BY <1>1, <1>9, <1>12
<1> QED
  BY <1>10, <1>11, <1>12

LEMMA DrivenType == \A e \in MapEntries : Driven(e) \in SUBSET Outputs
  BY DEF MapEntries, Driven, Outputs, CM_PORT

LEMMA CalcEntryType ==
  ASSUME TypeOK, NEW list \in Seq(Step), NEW e \in MapEntries
  PROVE  /\ CalcEntry(list, e) \in Seq(Step)
         /\ Len(CalcEntry(list, e)) <= Len(list) + 1
<1>1. bright_vals[CM_CHANNEL(e.code)] \in Int
  <2>1. CM_CHANNEL(e.code) \in Channels
    BY Zenon DEF MapEntries
  <2>2. bright_vals \in [Channels -> Brights]
    BY DEF TypeOK
  <2>3. bright_vals[CM_CHANNEL(e.code)] \in Brights
    BY <2>1, <2>2, Zenon
  <2>4. \A b \in Brights : b \in Int
    BY BrightAssumption
  <2> QED
    BY <2>3, <2>4, Zenon
<1>2. max_pwm \in Int
  BY WidthAssumption DEF TypeOK
<1>3. Driven(e) \in SUBSET Outputs
  BY DrivenType
<1>4. Len(list) \in Nat
  OBVIOUS
<1> DEFINE v == bright_vals[CM_CHANNEL(e.code)]
           w == IF v > max_pwm THEN max_pwm ELSE v
<1>5. w \in Int
  BY <1>1, <1>2
<1>6. \/ CalcEntry(list, e) = list
      \/ CalcEntry(list, e) = SetChannel(list, Driven(e), w)
  BY DEF CalcEntry
<1> HIDE DEF v, w
<1>7. /\ SetChannel(list, Driven(e), w) \in Seq(Step)
      /\ Len(SetChannel(list, Driven(e), w)) <= Len(list) + 1
  BY <1>3, <1>5, SetChannelType
<1>8. CASE CalcEntry(list, e) = list
  BY <1>4, <1>8
<1>9. CASE CalcEntry(list, e) = SetChannel(list, Driven(e), w)
  BY <1>7, <1>9
<1> QED
  BY <1>6, <1>8, <1>9

\* activate_pwm_page needs at most one entry more, the pause, and never leaves
\* a page without a step.
LEMMA FinishedType ==
  ASSUME TypeOK, NEW list \in Seq(Step)
  PROVE  /\ Finished(list) \in Seq(Step)
         /\ Len(Finished(list)) \in 1 .. Len(list) + 1
<1>1. Len(list) \in Nat /\ DOMAIN list = 1 .. Len(list)
  OBVIOUS
<1>2. \A i \in 1 .. Len(list) : list[i] \in Step
  BY <1>1
<1>3. Durations(list) \in Seq(Step) /\ Len(Durations(list)) = Len(list)
  <2>1. DOMAIN Durations(list) = 1 .. Len(list)
    BY <1>1 DEF Durations
  <2>2. \A i \in 1 .. Len(list) : Durations(list)[i] \in Step
    <3> SUFFICES ASSUME NEW i \in 1 .. Len(list) PROVE Durations(list)[i] \in Step
      OBVIOUS
    <3> DEFINE before == IF i = 1 THEN 0 ELSE list[i-1].timer_val
               ticks  == PWM_PRESCALE * (list[i].timer_val - before)
    <3>1. Durations(list)[i] = [on |-> list[i].on, timer_val |-> ticks]
      BY <1>1 DEF Durations
    <3>2. before \in Int
      <4>1. i # 1 => i - 1 \in 1 .. Len(list)
        BY <1>1
      <4> QED
        BY <4>1, <1>2 DEF Step
    <3> HIDE DEF before
    <3>3. list[i].timer_val \in Int /\ list[i].on \in SUBSET Outputs
      BY <1>2 DEF Step
    <3>4. ticks \in Int
      BY <3>2, <3>3, SizeAssumption
    <3> HIDE DEF ticks
    <3> QED
      BY <3>1, <3>3, <3>4 DEF Step
  <2>3. Durations(list) = [i \in 1 .. Len(list) |-> Durations(list)[i]]
    BY <1>1 DEF Durations
  <2> QED
    BY <1>1, <2>1, <2>2, <2>3
<1>4. max_pwm \in Nat \ {0}
  BY WidthAssumption DEF TypeOK
<1>5. LastTime(list) \in Int /\ (list = <<>> => LastTime(list) = 0)
  BY <1>1, <1>2 DEF LastTime, Step
<1> DEFINE pause == max_pwm - LastTime(list)
           last  == [on |-> {}, timer_val |-> pause * PWM_PRESCALE]
<1>6. last \in Step
  BY <1>4, <1>5, SizeAssumption DEF Step
<1>7. CASE pause = 0
  <2>1. Finished(list) = Durations(list)
    BY <1>7 DEF Finished
  <2>2. Len(list) # 0
    BY <1>4, <1>5, <1>7
  <2> QED
    BY <2>1, <2>2, <1>1, <1>3
<1>8. CASE pause # 0
  <2>1. Finished(list) = Append(Durations(list), last)
    BY <1>8 DEF Finished
  <2> HIDE DEF last
  <2> QED
    BY <2>1, <1>1, <1>3, <1>6
<1> QED
  BY <1>7, <1>8

(***************************************************************************)
(* The inductive invariant: which page each pointer can be on, phase by    *)
(* phase of the main loop.                                                 *)
(***************************************************************************)

\* A page has been linked in.
Installed == running \/ pc \in {"swap", "start"}

PageInv ==
  /\ TypeOK
  /\ PageFits
  /\ ~running => pc \in {"calc", "install", "swap", "start"}
  /\ pc = "start" => ~running
  /\ pc = "swap" <=> active_pwm_page = shadow_pwm_page
  /\ pc = "install" => /\ link[shadow_pwm_page] = shadow_pwm_page
                       /\ Len(steps[shadow_pwm_page]) > 0
  /\ Installed => /\ link[active_pwm_page] = active_pwm_page
                  /\ Len(steps[active_pwm_page]) > 0
  /\ running => /\ link[actual_pwm_step.page] = active_pwm_page
                /\ actual_pwm_step.pos <= Len(steps[actual_pwm_step.page])
  /\ running /\ Building => actual_pwm_step.page = active_pwm_page
  /\ syncOwed => /\ update_pwm_page
                 /\ pc \in {"synced", "update"}
                 /\ pc = "update" => ShadowFree


(***************************************************************************)
(* Requests only change the settings, and keep them well-formed.           *)
(***************************************************************************)

LEMMA WrittenType ==
  ASSUME NEW S, NEW table \in [Channels -> S], NEW first \in Channels,
         NEW vals \in Payloads(S)
  PROVE  Written(table, first, vals) \in [Channels -> S]
<1>1. PICK n \in 0 .. NCHANNELS : vals \in [1 .. n -> S]
  BY DEF Payloads
<1> QED
  BY <1>1 DEF Written

\* A channel map entry that has been checked never makes calc_pwm_page read
\* behind the end of bright_vals.
LEMMA CheckedType == \A e \in MapRequests : Checked(e) \in MapEntries
<1> SUFFICES ASSUME NEW e \in MapRequests PROVE Checked(e) \in MapEntries
  OBVIOUS
<1>1. e \in [code : 0 .. 255, port_bits : SUBSET Bits]
  BY MapAssumption
<1>2. e.code \in 0 .. 255 /\ e.port_bits \in SUBSET Bits
  BY <1>1
<1>3. CASE CM_CHANNEL(e.code) >= NCHANNELS
  <2>1. Checked(e) = [code |-> NCHANNELS - 1, port_bits |-> e.port_bits]
    BY <1>1, <1>3 DEF Checked
  <2>2. NCHANNELS - 1 \in 0 .. 255 /\ (NCHANNELS - 1) \div 4 \in 0 .. NCHANNELS - 1
    BY SizeAssumption
  <2> QED
    BY <1>2, <2>1, <2>2 DEF MapEntries, CM_CHANNEL, Channels
<1>4. CASE ~(CM_CHANNEL(e.code) >= NCHANNELS)
  <2>1. Checked(e) = e
    BY <1>4 DEF Checked
  <2>2. e.code \div 4 \in 0 .. NCHANNELS - 1
    BY <1>2, <1>4, SizeAssumption DEF CM_CHANNEL
  <2> QED
    BY <1>1, <2>1, <2>2 DEF MapEntries, CM_CHANNEL, Channels
<1> QED
  BY <1>3, <1>4

SettingsOK ==
  /\ bright_vals \in [Channels -> Brights]
  /\ channel_map \in [Channels -> MapEntries]
  /\ max_pwm \in PwmResolutions
  /\ update_pwm_page \in BOOLEAN

\* What a request makes of a channel map is one.
LEMMA MappedType ==
  ASSUME NEW table \in [Channels -> MapEntries], NEW new, Mapped(table, new)
  PROVE  new \in [Channels -> MapEntries]
<1>0. PICK first \in Channels, es \in Payloads(MapRequests) :
        new = Written(table, first, [i \in DOMAIN es |-> Checked(es[i])])
  BY Zenon DEF Mapped
<1> DEFINE set == [i \in DOMAIN es |-> Checked(es[i])]
<1>1. PICK n \in 0 .. NCHANNELS : es \in [1 .. n -> MapRequests]
  BY DEF Payloads
<1>2. set \in [1 .. n -> MapEntries]
  BY <1>1, CheckedType
<1>3. set \in Payloads(MapEntries)
  BY <1>2 DEF Payloads
<1> HIDE DEF set
<1>4. Written(table, first, set) \in [Channels -> MapEntries]
  BY <1>3, WrittenType
<1> QED BY <1>0, <1>4 DEF set

\* All requests: the settings stay well-formed, and of the page switching only
\* pc and syncOwed change.
LEMMA RequestEffect ==
  ASSUME TypeOK, Request
  PROVE  /\ SettingsOK'
         /\ pc = "loop" /\ pc' \in {"update", "synced"}
         /\ UNCHANGED <<pages, actual_pwm_step, c, running, frame>>
         /\ syncOwed' \in BOOLEAN
         /\ (syncOwed' /\ ~syncOwed) => update_pwm_page' /\ pc' = "synced"
<1> USE DEF AtRequest
<1>1. ASSUME WriteBrightness
      PROVE  /\ SettingsOK'
             /\ bright_vals' # bright_vals => update_pwm_page'
             /\ UNCHANGED <<pages, actual_pwm_step, c, running, frame>>
  <2>1. bright_vals' \in [Channels -> Brights]
    <3>1. PICK first \in Channels, vals \in Payloads(Brights) :
            bright_vals' = Written(bright_vals, first, vals)
      BY <1>1, Zenon DEF WriteBrightness
    <3>2. bright_vals \in [Channels -> Brights]
      BY DEF TypeOK
    <3> QED
      BY <3>1, <3>2, WrittenType, Zenon
  <2> QED
    BY <1>1, <2>1 DEF WriteBrightness, TypeOK, SettingsOK
<1>2. CASE SetBrightness
  BY <1>1, <1>2 DEF SetBrightness, TypeOK
<1>3. CASE SetBrightnessSynced
  BY <1>1, <1>3 DEF SetBrightnessSynced, TypeOK
<1>4. CASE SetChannelMap
  <2>1. channel_map \in [Channels -> MapEntries]
    BY DEF TypeOK
  <2>2. channel_map' \in [Channels -> MapEntries]
    BY <1>4, <2>1, MappedType DEF SetChannelMap
  <2> QED
    BY <1>4, <2>2 DEF SetChannelMap, TypeOK, SettingsOK
<1>5. CASE SetPwmFreq
  BY <1>5 DEF SetPwmFreq, TypeOK, SettingsOK
<1>6. CASE ResetSetup
  BY <1>6, MapAssumption, WidthAssumption DEF ResetSetup, TypeOK, SettingsOK
<1> QED
  BY <1>2, <1>3, <1>4, <1>5, <1>6 DEF Request


(***************************************************************************)
(* PageInv is inductive.                                                   *)
(***************************************************************************)

LEMMA SnapshotType == SettingsOK => Snapshot \in Settings
  BY DEF SettingsOK, Snapshot, Settings

LEMMA InitInv == Init => PageInv
<1> SUFFICES ASSUME Init PROVE PageInv
  OBVIOUS
<1> USE DEF Init
<1>1. SettingsOK
  <2>1. channel_map \in [Channels -> MapEntries]
    BY MapAssumption, MappedType
  <2> QED BY <2>1, BrightAssumption DEF SettingsOK
<1>2. Snapshot \in Settings
  BY <1>1, SnapshotType
<1>3. actual_pwm_step = [page |-> 2, pos |-> 1]
  BY DEF FirstStep
<1>4. TypeOK
  <2>1. steps \in [Pages -> Seq(Step)] /\ frame \in [Pages -> Settings]
    BY <1>2
  <2>2. c \in 0 .. NCHANNELS
    BY SizeAssumption
  <2>3. actual_pwm_step \in [page : Pages, pos : Nat \ {0}]
    BY <1>3 DEF Pages
  <2> QED
    BY <1>1, <2>1, <2>2, <2>3 DEF TypeOK, SettingsOK, Pages
<1>5. PageFits
  BY SizeAssumption DEF PageFits
<1> QED
  BY <1>4, <1>5 DEF PageInv, Installed, Building

LEMMA RequestInv == PageInv /\ Request => PageInv'
<1> SUFFICES ASSUME PageInv, Request PROVE PageInv'
  OBVIOUS
<1>1. TypeOK
  BY DEF PageInv
<1>2. /\ SettingsOK'
      /\ pc = "loop" /\ pc' \in {"update", "synced"}
      /\ UNCHANGED <<pages, actual_pwm_step, c, running, frame>>
      /\ syncOwed' \in BOOLEAN
      /\ (syncOwed' /\ ~syncOwed) => update_pwm_page' /\ pc' = "synced"
  BY <1>1, RequestEffect
<1>3. ~syncOwed
  BY <1>2 DEF PageInv
<1>4. TypeOK'
  BY <1>1, <1>2 DEF TypeOK, SettingsOK, pages
<1>5. PageFits'
  BY <1>2 DEF PageInv, PageFits, pages
<1> QED
  BY <1>2, <1>3, <1>4, <1>5 DEF PageInv, Installed, Building, pages

LEMMA SyncedReplyInv == PageInv /\ SyncedReply => PageInv'
  BY DEF PageInv, SyncedReply, TypeOK, PageFits, Installed, Building, ShadowFree,
         settings, pages

LEMMA NoRequestInv == PageInv /\ NoRequest => PageInv'
  BY DEF PageInv, NoRequest, TypeOK, PageFits, Installed, Building, ShadowFree,
         AtRequest, settings, pages

LEMMA NoUpdateInv == PageInv /\ NoUpdate => PageInv'
  BY DEF PageInv, NoUpdate, TypeOK, PageFits, Installed, Building, ShadowFree,
         settings, pages

LEMMA InitPwmPageInv == PageInv /\ InitPwmPage => PageInv'
<1> SUFFICES ASSUME PageInv, InitPwmPage PROVE PageInv'
  OBVIOUS
<1> USE DEF InitPwmPage
<1>1. TypeOK /\ PageFits
  BY DEF PageInv
<1>2. Snapshot \in Settings
  BY <1>1, SnapshotType DEF TypeOK, SettingsOK
<1>3. running /\ active_pwm_page # shadow_pwm_page
  BY DEF PageInv
<1>4. actual_pwm_step.page = active_pwm_page
  BY <1>1, <1>3 DEF ShadowFree, TypeOK, Pages
<1>5. TypeOK'
  <2>1. steps' \in [Pages -> Seq(Step)] /\ link' \in [Pages -> Pages]
    BY <1>1 DEF TypeOK
  <2>2. c' \in 0 .. NCHANNELS
    BY SizeAssumption
  <2>3. frame' \in [Pages -> Settings]
    BY <1>1, <1>2 DEF TypeOK
  <2> QED
    BY <1>1, <2>1, <2>2, <2>3 DEF TypeOK, settings
<1>6. PageFits'
  BY <1>1, SizeAssumption DEF PageFits, TypeOK
<1> QED
  BY <1>1, <1>3, <1>4, <1>5, <1>6 DEF PageInv, Installed, Building, TypeOK, settings

LEMMA CalcPwmPageInv == PageInv /\ CalcPwmPage => PageInv'
<1> SUFFICES ASSUME PageInv, CalcPwmPage PROVE PageInv'
  OBVIOUS
<1> USE DEF CalcPwmPage
<1>1. TypeOK /\ PageFits
  BY DEF PageInv
<1>2. channel_map[c-1] \in MapEntries
  <2>1. c - 1 \in Channels
    BY <1>1, SizeAssumption DEF TypeOK, Channels
  <2>2. channel_map \in [Channels -> MapEntries]
    BY <1>1 DEF TypeOK
  <2> QED
    BY <2>1, <2>2
<1> DEFINE list == CalcEntry(steps[shadow_pwm_page], channel_map[c-1])
<1>3. /\ list \in Seq(Step)
      /\ Len(list) <= Len(steps[shadow_pwm_page]) + 1
  BY <1>1, <1>2, CalcEntryType DEF TypeOK
<1>4. steps' = [steps EXCEPT ![shadow_pwm_page] = list]
  OBVIOUS
<1> HIDE DEF list
<1>5. TypeOK'
  <2>1. steps' \in [Pages -> Seq(Step)]
    BY <1>1, <1>3, <1>4 DEF TypeOK
  <2>2. c' \in 0 .. NCHANNELS
    BY <1>1, SizeAssumption DEF TypeOK
  <2> QED
    BY <1>1, <2>1, <2>2 DEF TypeOK, settings
<1>6. PageFits'
  <2> SUFFICES ASSUME NEW p \in Pages
               PROVE  Len(steps[p])' <= IF p = shadow_pwm_page
                                          THEN NCHANNELS - (c - 1) ELSE NCHANNELS + 1
    BY DEF PageFits
  <2>1. CASE p = shadow_pwm_page
    <3>1. Len(steps[p]) <= NCHANNELS - c
      BY <1>1, <2>1 DEF PageFits
    <3>2. Len(steps[p])' <= Len(steps[p]) + 1
      BY <1>1, <1>3, <1>4, <2>1 DEF TypeOK
    <3>3. Len(steps[p]) \in Nat /\ Len(steps[p])' \in Nat
      BY <1>1, <1>5 DEF TypeOK
    <3> QED
      BY <1>1, <2>1, <3>1, <3>2, <3>3, SizeAssumption DEF TypeOK
  <2>2. CASE p # shadow_pwm_page
    BY <1>1, <1>4, <2>2 DEF PageFits, TypeOK
  <2> QED
    BY <2>1, <2>2
<1>7. \A p \in Pages : p # shadow_pwm_page => steps'[p] = steps[p]
  BY <1>1, <1>4 DEF TypeOK
<1> QED
  BY <1>1, <1>5, <1>6, <1>7 DEF PageInv, Installed, Building, TypeOK, settings

LEMMA FinishPageInv == PageInv /\ FinishPage => PageInv'
<1> SUFFICES ASSUME PageInv, FinishPage PROVE PageInv'
  OBVIOUS
<1> USE DEF FinishPage
<1>1. TypeOK /\ PageFits
  BY DEF PageInv
<1> DEFINE list == Finished(steps[shadow_pwm_page])
<1>2. /\ list \in Seq(Step)
      /\ Len(list) \in 1 .. Len(steps[shadow_pwm_page]) + 1
  BY <1>1, FinishedType DEF TypeOK
<1>3. steps' = [steps EXCEPT ![shadow_pwm_page] = list]
  OBVIOUS
<1> HIDE DEF list
<1>4. TypeOK'
  <2>1. steps' \in [Pages -> Seq(Step)] /\ link' \in [Pages -> Pages]
    BY <1>1, <1>2, <1>3 DEF TypeOK
  <2> QED
    BY <1>1, <2>1 DEF TypeOK, settings
<1>5. PageFits'
  <2> SUFFICES ASSUME NEW p \in Pages PROVE Len(steps[p])' <= NCHANNELS + 1
    BY DEF PageFits
  <2>1. CASE p = shadow_pwm_page
    <3>1. Len(steps[p]) <= NCHANNELS
      BY <1>1, <2>1, SizeAssumption DEF PageFits
    <3>2. Len(steps[p])' <= Len(steps[p]) + 1
      BY <1>1, <1>2, <1>3, <2>1 DEF TypeOK
    <3>3. Len(steps[p]) \in Nat /\ Len(steps[p])' \in Nat
      BY <1>1, <1>4 DEF TypeOK
    <3> QED
      BY <3>1, <3>2, <3>3, SizeAssumption
  <2>2. CASE p # shadow_pwm_page
    BY <1>1, <1>3, <2>2 DEF PageFits, TypeOK
  <2> QED
    BY <2>1, <2>2
<1>6. /\ \A p \in Pages : p # shadow_pwm_page => steps'[p] = steps[p] /\ link'[p] = link[p]
      /\ link'[shadow_pwm_page] = shadow_pwm_page
      /\ Len(steps'[shadow_pwm_page]) > 0
  BY <1>1, <1>2, <1>3 DEF TypeOK
<1> QED
  BY <1>1, <1>4, <1>5, <1>6 DEF PageInv, Installed, Building, TypeOK, settings

LEMMA InstallLinkInv == PageInv /\ InstallLink => PageInv'
<1> SUFFICES ASSUME PageInv, InstallLink PROVE PageInv'
  OBVIOUS
<1> USE DEF InstallLink
<1>1. TypeOK'
  BY DEF PageInv, TypeOK, settings
<1>2. PageFits'
  BY DEF PageInv, PageFits
<1> QED
  BY <1>1, <1>2 DEF PageInv, Installed, Building, TypeOK, Pages, settings

LEMMA SwapPagesInv == PageInv /\ SwapPages => PageInv'
<1> SUFFICES ASSUME PageInv, SwapPages PROVE PageInv'
  OBVIOUS
<1> USE DEF SwapPages
<1>1. OtherPage(shadow_pwm_page) \in Pages \ {shadow_pwm_page}
  BY DEF PageInv, TypeOK, Pages, OtherPage
<1>2. TypeOK'
  BY <1>1 DEF PageInv, TypeOK, settings
<1>3. PageFits'
  BY DEF PageInv, PageFits
<1> QED
  BY <1>1, <1>2, <1>3 DEF PageInv, Installed, Building, TypeOK, settings

LEMMA StartTimerInv == PageInv /\ StartTimer => PageInv'
<1> SUFFICES ASSUME PageInv, StartTimer PROVE PageInv'
  OBVIOUS
<1> USE DEF StartTimer
<1>1. actual_pwm_step' = [page |-> link[active_pwm_page], pos |-> 1]
  BY DEF FirstStep
<1>2. link[active_pwm_page] = active_pwm_page /\ Len(steps[active_pwm_page]) > 0
  BY DEF PageInv, Installed
<1>3. TypeOK'
  BY <1>1, <1>2 DEF PageInv, TypeOK, settings, pages
<1>4. PageFits'
  BY DEF PageInv, PageFits, pages
<1> QED
  BY <1>1, <1>2, <1>3, <1>4 DEF PageInv, Installed, Building, TypeOK, settings, pages

LEMMA TimerInterruptInv == PageInv /\ TimerInterrupt => PageInv'
<1> SUFFICES ASSUME PageInv, TimerInterrupt PROVE PageInv'
  OBVIOUS
<1> USE DEF TimerInterrupt
<1> DEFINE s == actual_pwm_step
<1>1. /\ s \in [page : Pages, pos : Nat \ {0}]
      /\ link \in [Pages -> Pages] /\ link[active_pwm_page] = active_pwm_page
      /\ Len(steps[active_pwm_page]) > 0
      /\ link[s.page] = active_pwm_page
  BY DEF PageInv, TypeOK, Installed
<1>2. Len(steps[s.page]) \in Nat
  BY <1>1 DEF PageInv, TypeOK
<1>3. CASE s.pos < Len(steps[s.page])
  <2>1. s' = [page |-> s.page, pos |-> s.pos + 1]
    BY <1>1, <1>3 DEF Successor
  <2>2. TypeOK'
    BY <1>1, <2>1 DEF PageInv, TypeOK, settings, pages
  <2>3. PageFits'
    BY DEF PageInv, PageFits, pages
  <2>4. s'.page = s.page /\ s'.pos <= Len(steps[s.page])
    BY <1>1, <1>2, <1>3, <2>1
  <2> QED
    BY <2>2, <2>3, <2>4 DEF PageInv, Installed, Building, ShadowFree, settings, pages
<1>4. CASE ~(s.pos < Len(steps[s.page]))
  <2>1. s' = [page |-> active_pwm_page, pos |-> 1]
    BY <1>1, <1>4 DEF Successor, FirstStep
  <2>2. TypeOK'
    BY <1>1, <2>1 DEF PageInv, TypeOK, settings, pages
  <2>3. PageFits'
    BY DEF PageInv, PageFits, pages
  <2>4. Len(steps[active_pwm_page]) \in Nat
    BY DEF PageInv, TypeOK
  <2>5. s'.page = active_pwm_page /\ s'.pos <= Len(steps[active_pwm_page])
    BY <1>1, <2>1, <2>4
  <2> QED
    BY <1>1, <2>2, <2>3, <2>5
    DEF PageInv, Installed, Building, ShadowFree, settings, pages
<1> QED
  BY <1>3, <1>4

LEMMA NextInv == PageInv /\ [Next]_vars => PageInv'
<1> SUFFICES ASSUME PageInv, [Next]_vars PROVE PageInv'
  OBVIOUS
<1>1. CASE Request
  BY <1>1, RequestInv
<1>2. CASE Main
  BY <1>2, SyncedReplyInv, NoRequestInv, NoUpdateInv, InitPwmPageInv, CalcPwmPageInv,
     FinishPageInv, InstallLinkInv, SwapPagesInv, StartTimerInv DEF Main
<1>3. CASE TimerInterrupt
  BY <1>3, TimerInterruptInv
<1>4. CASE UNCHANGED vars
  BY <1>4 DEF PageInv, TypeOK, PageFits, Installed, Building, ShadowFree, vars,
              settings, pages
<1> QED
  BY <1>1, <1>2, <1>3, <1>4 DEF Next


LEMMA SpecInv == Spec => []PageInv
  BY InitInv, NextInv, PTL DEF Spec, SafetySpec

(***************************************************************************)
(* The theorems.                                                           *)
(***************************************************************************)

\* The state stays well-formed; in particular every stored channel map entry
\* names a channel, so calc_pwm_page never reads behind bright_vals.
THEOREM TypeCorrect == Spec => []TypeOK
<1>1. PageInv => TypeOK
  BY DEF PageInv
<1> QED
  BY <1>1, SpecInv, PTL

\* The timer interrupt never loads a step of the page under construction.
THEOREM ShadowNeverEntered == Spec => []ShadowExclusive
<1>1. PageInv => ShadowExclusive
  BY DEF PageInv, ShadowExclusive, Building
<1> QED
  BY <1>1, SpecInv, PTL

\* The step pointer always leads to a step in use.
THEOREM StepNeverDangles == Spec => []NoDanglingStep
<1>1. PageInv => NoDanglingStep
  <2> SUFFICES ASSUME PageInv, running
               PROVE  actual_pwm_step.pos \in DOMAIN steps[actual_pwm_step.page]
    BY DEF NoDanglingStep
  <2>1. /\ actual_pwm_step.page \in Pages /\ actual_pwm_step.pos \in Nat \ {0}
        /\ steps[actual_pwm_step.page] \in Seq(Step)
    BY DEF PageInv, TypeOK
  <2>2. actual_pwm_step.pos <= Len(steps[actual_pwm_step.page])
    BY DEF PageInv
  <2> QED
    BY <2>1, <2>2
<1> QED
  BY <1>1, SpecInv, PTL

\* PWM_STEP_PAGE_SIZE = NCHANNELS + 2 entries are enough for every map and every
\* brightness.
THEOREM PageAlwaysFits == Spec => []PageFits
<1>1. PageInv => PageFits
  BY DEF PageInv
<1> QED
  BY <1>1, SpecInv, PTL

\* No request is processed between a SYNCED request and the page built from it.
THEOREM SyncedNeverSkipped == Spec => []SyncedNotSkipped
<1>1. PageInv => SyncedNotSkipped
  BY DEF PageInv, SyncedNotSkipped, AtRequest
<1> QED
  BY <1>1, SpecInv, PTL

\* The interrupt changes the page only between two cycles.
THEOREM CyclesAreWhole == Spec => WholeCycles
<1>1. PageInv /\ [Next]_vars =>
        [running /\ actual_pwm_step'.page # actual_pwm_step.page
           => /\ actual_pwm_step.pos = Len(steps[actual_pwm_step.page])
              /\ actual_pwm_step'.pos = 1]_vars
  <2> SUFFICES ASSUME PageInv, Next, running,
                      actual_pwm_step'.page # actual_pwm_step.page
               PROVE  /\ actual_pwm_step.pos = Len(steps[actual_pwm_step.page])
                      /\ actual_pwm_step'.pos = 1
    OBVIOUS
  <2>1. ~Request
    BY RequestEffect DEF PageInv
  <2>2. ~Main
    BY DEF PageInv, Main, SyncedReply, NoRequest, NoUpdate, InitPwmPage, CalcPwmPage,
           FinishPage, InstallLink, SwapPages, StartTimer, pages
  <2>3. actual_pwm_step' = Successor(actual_pwm_step)
    BY <2>1, <2>2 DEF Next, TimerInterrupt
  <2>4. /\ actual_pwm_step \in [page : Pages, pos : Nat \ {0}]
        /\ steps[actual_pwm_step.page] \in Seq(Step)
        /\ actual_pwm_step.pos <= Len(steps[actual_pwm_step.page])
    BY DEF PageInv, TypeOK
  <2>5. ~(actual_pwm_step.pos < Len(steps[actual_pwm_step.page]))
    BY <2>3, <2>4 DEF Successor
  <2>6. actual_pwm_step'.pos = 1
    BY <2>3, <2>5 DEF Successor, FirstStep
  <2> QED
    BY <2>4, <2>5, <2>6
<1> QED
  BY <1>1, SpecInv, PTL DEF Spec, SafetySpec, WholeCycles

(***************************************************************************)
(* The two pages implement the one-place mailbox of PwmDisplay.            *)
(***************************************************************************)

\* The two abstract variables.
showing == IF running THEN frame[actual_pwm_step.page] ELSE Dark
waiting == IF running /\ link[actual_pwm_step.page] # actual_pwm_step.page
             THEN frame[link[actual_pwm_step.page]] ELSE Dark

\* Every step of the pages is a step of the mailbox or leaves it unchanged.
LEMMA DisplayStep ==
  PageInv /\ [Next]_vars => [Display!Next]_(Display!vars)
<1> SUFFICES ASSUME PageInv, [Next]_vars PROVE [Display!Next]_(Display!vars)
  OBVIOUS
<1>0. TypeOK /\ TypeOK' /\ PageInv'
  BY NextInv DEF PageInv
<1> DEFINE Same == UNCHANGED <<showing, waiting>>
<1>1. ASSUME Same PROVE [Display!Next]_(Display!vars)
  BY <1>1 DEF showing, waiting, Display!vars, Shown
<1>2. CASE Request
  <2>1. UNCHANGED <<pages, actual_pwm_step, running, frame>>
    BY <1>0, <1>2, RequestEffect
  <2> QED
    BY <1>1, <2>1 DEF showing, waiting, pages
<1>3. CASE SyncedReply \/ NoRequest \/ NoUpdate \/ CalcPwmPage \/ SwapPages
  <2>1. UNCHANGED <<link, actual_pwm_step, running, frame>>
    BY <1>3 DEF SyncedReply, NoRequest, NoUpdate, CalcPwmPage, SwapPages, pages
  <2> QED
    BY <1>1, <2>1 DEF showing, waiting
<1>4. CASE InitPwmPage
  <2>1. /\ running /\ active_pwm_page # shadow_pwm_page
        /\ link[actual_pwm_step.page] = active_pwm_page
        /\ actual_pwm_step.page # shadow_pwm_page
    BY <1>4 DEF PageInv, InitPwmPage, ShadowFree
  <2>2. \A p \in Pages : p # shadow_pwm_page => frame'[p] = frame[p] /\ link'[p] = link[p]
    BY <1>0, <1>4 DEF InitPwmPage, TypeOK
  <2>3. UNCHANGED <<actual_pwm_step, running>>
    BY <1>4 DEF InitPwmPage
  <2> QED
    BY <1>0, <1>1, <2>1, <2>2, <2>3 DEF showing, waiting, TypeOK
<1>5. CASE FinishPage
  <2>1. running => actual_pwm_step.page # shadow_pwm_page
    BY <1>5 DEF PageInv, FinishPage, Building
  <2>2. \A p \in Pages : p # shadow_pwm_page => link'[p] = link[p]
    BY <1>0, <1>5 DEF FinishPage, TypeOK
  <2>3. UNCHANGED <<frame, actual_pwm_step, running>>
    BY <1>5 DEF FinishPage
  <2> QED
    BY <1>0, <1>1, <2>1, <2>2, <2>3 DEF showing, waiting, TypeOK
<1>6. CASE InstallLink
  <2>1. UNCHANGED <<frame, actual_pwm_step, running>>
    BY <1>6 DEF InstallLink
  <2>2. CASE ~running
    BY <1>1, <2>1, <2>2 DEF showing, waiting
  <2>3. CASE running
    <3>1. /\ actual_pwm_step.page = active_pwm_page
          /\ link[active_pwm_page] = active_pwm_page
          /\ active_pwm_page # shadow_pwm_page
      BY <1>6, <2>3 DEF PageInv, InstallLink, Building, Installed
    <3>2. link'[active_pwm_page] = shadow_pwm_page
      BY <1>0, <1>6 DEF InstallLink, TypeOK
    <3>3. showing # Dark /\ showing' = showing
      BY <1>0, <2>1, <2>3, DarkNotSettings DEF showing, TypeOK
    <3>4. waiting = Dark /\ waiting' \in Settings
      BY <1>0, <2>1, <2>3, <3>1, <3>2 DEF waiting, TypeOK
    <3>5. Display!Publish
      BY <3>3, <3>4 DEF Display!Publish, showing, waiting, Shown
    <3> QED
      BY <3>5 DEF Display!Next
  <2> QED
    BY <2>2, <2>3
<1>7. CASE StartTimer
  <2>1. ~running /\ running' /\ frame' = frame /\ link' = link
    BY <1>7 DEF PageInv, StartTimer, pages
  <2>2. link[active_pwm_page] = active_pwm_page
    BY <1>7 DEF PageInv, StartTimer, Installed
  <2>3. actual_pwm_step'.page = active_pwm_page
    BY <1>7, <2>2 DEF StartTimer, FirstStep
  <2>4. showing = Dark /\ waiting = Dark
    BY <2>1 DEF showing, waiting
  <2>5. showing' \in Settings /\ waiting' = Dark
    BY <1>0, <2>1, <2>2, <2>3 DEF showing, waiting, TypeOK
  <2>6. Display!Start
    BY <2>4, <2>5 DEF Display!Start, showing, waiting, Shown
  <2> QED
    BY <2>6 DEF Display!Next
<1>8. CASE TimerInterrupt
  <2>1. running /\ running' /\ UNCHANGED <<link, frame>>
    BY <1>8 DEF TimerInterrupt, pages
  <2>2. /\ link[actual_pwm_step.page] = active_pwm_page
        /\ link[active_pwm_page] = active_pwm_page
    BY <2>1 DEF PageInv, Installed
  <2>3. actual_pwm_step'.page \in {actual_pwm_step.page, active_pwm_page}
    BY <1>0, <1>8, <2>2 DEF TimerInterrupt, Successor, FirstStep, TypeOK
  <2>4. CASE actual_pwm_step'.page = actual_pwm_step.page
    BY <1>1, <2>1, <2>4 DEF showing, waiting
  <2>5. CASE actual_pwm_step'.page # actual_pwm_step.page
    <3>1. actual_pwm_step'.page = active_pwm_page
      BY <2>3, <2>5
    <3>2. waiting = frame[active_pwm_page] /\ waiting # Dark
      BY <1>0, <2>1, <2>2, <2>5, <3>1, DarkNotSettings DEF waiting, TypeOK
    <3>3. showing' = waiting /\ waiting' = Dark
      BY <2>1, <2>2, <3>1, <3>2 DEF showing, waiting
    <3>4. Display!Switch
      BY <3>2, <3>3 DEF Display!Switch, showing, waiting, Shown
    <3> QED
      BY <3>4 DEF Display!Next
  <2> QED
    BY <2>4, <2>5
<1>9. CASE UNCHANGED vars
  BY <1>1, <1>9 DEF showing, waiting, vars, pages
<1> QED
  BY <1>2, <1>3, <1>4, <1>5, <1>6, <1>7, <1>8, <1>9 DEF Next, Main

\* No frame is lost, shown in part, or replaced while it waits.
THEOREM PagesImplementMailbox == Spec => DisplaySafe
<1>1. Init => Display!Init
  BY DEF Init, Display!Init
<1> QED
  BY <1>1, DisplayStep, SpecInv, PTL DEF Spec, SafetySpec, DisplaySafe

(***************************************************************************)
(* What a page shows: the sums of timer values, the longest brightness,    *)
(* and the steps of a sorted list that end by a given time.                *)
(***************************************************************************)

LEMMA Least ==
  ASSUME NEW T \in SUBSET Nat, T # {}
  PROVE  \E x \in T : \A y \in T : x <= y
<1>1. PICK x \in T : \A y \in T : ~ (<<y, x>> \in OpToRel(<, Nat))
  BY NatLessThanWellFounded, WFMin
<1>2. \A y \in T : ~(y < x)
  BY <1>1 DEF OpToRel
<1> QED BY <1>2

\* The cycle time is the end of the last step, however the sum is computed.
LEMMA TicksSum ==
  ASSUME NEW list \in Seq(Step), NEW T \in [0 .. Len(list) -> Int], T[0] = 0,
         \A i \in 1 .. Len(list) : T[i] = T[i-1] + list[i].timer_val
  PROVE  Ticks(list) = T[Len(list)]
<1> DEFINE R(f) == f = [i \in 0 .. Len(list) |->
                          IF i = 0 THEN 0 ELSE f[i-1] + list[i].timer_val]
           S == CHOOSE f : R(f)
<1>1. R(T)
  OBVIOUS
<1>2. R(S)
  BY <1>1
<1>3. Ticks(list) = S[Len(list)]
  BY Zenon DEF Ticks
<1> HIDE DEF S
<1>4. /\ Len(list) \in Nat /\ S[0] = 0
      /\ \A i \in 1 .. Len(list) : S[i] = S[i-1] + list[i].timer_val
  BY <1>2
<1> DEFINE Bad == {i \in 0 .. Len(list) : S[i] # T[i]}
<1>5. Bad = {}
  <2> SUFFICES ASSUME Bad # {} PROVE FALSE
    OBVIOUS
  <2>1. PICK i \in Bad : \A j \in Bad : i <= j
    <3>1. Bad \in SUBSET Nat
      BY <1>4
    <3> QED BY <3>1, Least
  <2>2. i # 0 /\ i \in 1 .. Len(list)
    BY <1>4, <2>1
  <2>3. i - 1 \in 0 .. Len(list) /\ i - 1 \notin Bad
    BY <1>4, <2>1, <2>2
  <2>4. S[i-1] = T[i-1]
    BY <2>3
  <2> QED BY <1>4, <2>1, <2>2, <2>4
<1> QED BY <1>3, <1>4, <1>5

\* Of finitely many times one is the longest.
LEMMA Greatest ==
  ASSUME NEW n \in Nat, NEW f, NEW J \in SUBSET (0 .. n - 1), \A j \in J : f[j] \in Nat
  PROVE  \E x \in {f[j] : j \in J} \cup {0} : \A y \in {f[j] : j \in J} \cup {0} : y <= x
<1> DEFINE Times(m) == {f[j] : j \in {i \in J : i < m}} \cup {0}
           HasMax(m) == \E x \in Times(m) : \A y \in Times(m) : y <= x
           Bad == {m \in 0 .. n : ~HasMax(m)}
<1>1. Bad = {}
  <2> SUFFICES ASSUME Bad # {} PROVE FALSE
    OBVIOUS
  <2>1. PICK m \in Bad : \A k \in Bad : m <= k
    <3>1. Bad \in SUBSET Nat
      OBVIOUS
    <3> HIDE DEF Bad
    <3> QED BY <3>1, Least
  <2>2. m # 0
    <3>1. Times(0) = {0}
      OBVIOUS
    <3>2. HasMax(0)
      BY <3>1
    <3> QED BY <2>1, <3>2
  <2>3. HasMax(m - 1) /\ m - 1 \in Nat
    <3>1. m \in 1 .. n /\ m - 1 \in 0 .. n /\ ~(m <= m - 1)
      BY <2>1, <2>2
    <3>2. m - 1 \notin Bad
      BY <2>1, <3>1
    <3> HIDE DEF HasMax
    <3> QED BY <3>1, <3>2
  <2>4. PICK x \in Times(m - 1) : \A y \in Times(m - 1) : y <= x
    BY <2>3
  <2>5. Times(m - 1) \subseteq Nat
    OBVIOUS
  <2>6. CASE m - 1 \notin J
    <3>1. Times(m) = Times(m - 1)
      BY <2>1, <2>2, <2>6
    <3> QED BY <2>1, <2>4, <3>1
  <2>7. CASE m - 1 \in J
    <3>1. Times(m) = Times(m - 1) \cup {f[m-1]} /\ f[m-1] \in Nat
      BY <2>1, <2>2, <2>7
    <3> HIDE DEF Times
    <3>2. HasMax(m)
      <4>1. CASE f[m-1] <= x
        BY <2>4, <3>1, <4>1
      <4>2. CASE ~(f[m-1] <= x)
        BY <2>4, <2>5, <3>1, <4>2
      <4> QED BY <4>1, <4>2
    <3> QED BY <2>1, <3>2
  <2> QED BY <2>6, <2>7
<1>2. HasMax(n)
  <2>1. n \in 0 .. n
    OBVIOUS
  <2> HIDE DEF HasMax
  <2> QED BY <1>1, <2>1
<1>3. {i \in J : i < n} = J
  <2>1. \A i \in J : i \in Int /\ i <= n - 1
    OBVIOUS
  <2>2. \A i \in J : i < n
    BY <2>1
  <2> QED BY <2>2
<1> QED BY <1>2, <1>3

\* The steps of a sorted list that end by a time are the first ones.
Sorted(list) ==
  \A i, j \in DOMAIN list : i < j => list[i].timer_val < list[j].timer_val

LEMMA CoveredPrefix ==
  ASSUME NEW list \in Seq(Step), Sorted(list), NEW v \in Int
  PROVE  LET covered == {i \in DOMAIN list : list[i].timer_val <= v}
         IN /\ Cardinality(covered) \in 0 .. Len(list)
            /\ covered = 1 .. Cardinality(covered)
<1> DEFINE covered == {i \in DOMAIN list : list[i].timer_val <= v}
           T == {i \in 1 .. Len(list) + 1 : i \notin covered}
<1>1. /\ Len(list) \in Nat /\ DOMAIN list = 1 .. Len(list)
      /\ \A i \in 1 .. Len(list) : list[i].timer_val \in Int
  <2>1. Len(list) \in Nat /\ DOMAIN list = 1 .. Len(list)
    OBVIOUS
  <2>2. \A i \in 1 .. Len(list) : list[i] \in Step
    BY <2>1
  <2> QED BY <2>1, <2>2 DEF Step
<1>2. Len(list) + 1 \in T
  BY <1>1
<1>3. PICK m \in T : \A i \in T : m <= i
  <2>1. T \in SUBSET Nat
    BY <1>1
  <2> QED BY <1>2, <2>1, Least
<1>4. covered = 1 .. m - 1
  <2>1. 1 .. m - 1 \subseteq covered
    BY <1>1, <1>3
  <2>2. ASSUME NEW i \in covered, i >= m PROVE FALSE
    <3>1. i # m /\ m \in DOMAIN list /\ i \in DOMAIN list
      BY <1>1, <1>3, <2>2
    <3>2. list[m].timer_val < list[i].timer_val
      BY <1>1, <2>2, <3>1 DEF Sorted
    <3> QED BY <1>1, <1>3, <3>1, <3>2
  <2> QED BY <1>1, <1>3, <2>1, <2>2
<1>5. Cardinality(1 .. m - 1) = m - 1 /\ m - 1 \in 0 .. Len(list)
  BY <1>1, <1>3, FS_Interval
<1> QED BY <1>4, <1>5

\* A step is inserted behind the first k steps.
InsertedBehind(s, k, e) == SubSeq(s, 1, k) \o <<e>> \o SubSeq(s, k + 1, Len(s))

LEMMA Inserted ==
  ASSUME NEW s \in Seq(Step), NEW k \in 0 .. Len(s), NEW e \in Step
  PROVE  LET r == InsertedBehind(s, k, e)
         IN /\ r \in Seq(Step) /\ Len(r) = Len(s) + 1
            /\ \A i \in 1 .. Len(s) + 1 :
                 r[i] = IF i <= k THEN s[i] ELSE IF i = k + 1 THEN e ELSE s[i - 1]
<1> DEFINE low == SubSeq(s, 1, k)
           high == SubSeq(s, k + 1, Len(s))
           front == low \o <<e>>
<1>1. Len(s) \in Nat
  OBVIOUS
<1>2. low \in Seq(Step) /\ Len(low) = k /\ \A i \in 1 .. k : low[i] = s[i]
  BY <1>1, SubSeqProperties
<1>3. /\ high \in Seq(Step) /\ Len(high) = Len(s) - k
      /\ \A i \in 1 .. Len(s) - k : high[i] = s[k + i]
  <2>1. /\ high \in Seq(Step) /\ Len(high) = Len(s) - k
        /\ \A i \in 1 .. Len(s) - (k + 1) + 1 : high[i] = s[(k + 1) + i - 1]
    BY <1>1, SubSeqProperties
  <2>2. Len(s) - (k + 1) + 1 = Len(s) - k /\ \A i \in Int : (k + 1) + i - 1 = k + i
    BY <1>1
  <2> HIDE DEF high, low, front
  <2>3. \A i \in 1 .. Len(s) - k : high[i] = s[(k + 1) + i - 1]
    BY <2>1, <2>2
  <2>4. ASSUME NEW i \in 1 .. Len(s) - k PROVE high[i] = s[k + i]
    <3>1. (k + 1) + i - 1 = k + i
      BY <1>1
    <3>2. high[i] = s[(k + 1) + i - 1]
      BY <2>3
    <3> QED BY <3>1, <3>2, Zenon
  <2> QED BY <2>1, <2>4, <1>1
<1> HIDE DEF low, high
<1>4. <<e>> \in Seq(Step) /\ Len(<<e>>) = 1 /\ <<e>>[1] = e
  OBVIOUS
<1>5. /\ front \in Seq(Step) /\ Len(front) = k + 1
      /\ \A i \in 1 .. k + 1 : front[i] = IF i <= k THEN low[i] ELSE e
  <2>1. /\ front \in Seq(Step) /\ Len(front) = Len(low) + Len(<<e>>)
        /\ \A i \in 1 .. Len(low) + Len(<<e>>) :
             front[i] = IF i <= Len(low) THEN low[i] ELSE <<e>>[i - Len(low)]
    BY <1>2, <1>4, ConcatProperties
  <2>2. \A i \in 1 .. k + 1 : ~(i <= k) => i - k = 1
    OBVIOUS
  <2> QED BY <1>2, <1>4, <2>1, <2>2
<1> HIDE DEF front
<1>6. /\ front \o high \in Seq(Step) /\ Len(front \o high) = Len(front) + Len(high)
      /\ \A i \in 1 .. Len(front) + Len(high) :
           (front \o high)[i] = IF i <= Len(front) THEN front[i] ELSE high[i - Len(front)]
  BY <1>3, <1>5, ConcatProperties
<1>7. /\ front \o high \in Seq(Step) /\ Len(front \o high) = Len(s) + 1
      /\ \A i \in 1 .. Len(s) + 1 :
           (front \o high)[i] = IF i <= k + 1 THEN front[i] ELSE high[i - (k + 1)]
  BY <1>1, <1>3, <1>5, <1>6
<1>8. ASSUME NEW i \in 1 .. Len(s) + 1
      PROVE  (front \o high)[i] = IF i <= k THEN s[i] ELSE IF i = k + 1 THEN e ELSE s[i - 1]
  <2>1. CASE i <= k
    BY <1>1, <1>2, <1>5, <1>7, <2>1
  <2>2. CASE i = k + 1
    BY <1>1, <1>5, <1>7, <2>2
  <2>3. CASE i > k + 1
    <3>1. i - (k + 1) \in 1 .. Len(s) - k /\ k + (i - (k + 1)) = i - 1 /\ ~(i <= k + 1)
      BY <1>1, <2>3
    <3>2. (front \o high)[i] = s[i - 1]
      BY <1>3, <1>7, <3>1
    <3> QED BY <2>3, <3>2
  <2>4. i <= k \/ i = k + 1 \/ i > k + 1
    BY <1>1
  <2> QED BY <2>1, <2>2, <2>3, <2>4
<1>9. InsertedBehind(s, k, e) = front \o high
  BY DEF front, low, high, InsertedBehind
<1> QED BY <1>7, <1>8, <1>9

(***************************************************************************)
(* What a list shows while it is built: W are the outputs and times that   *)
(* have been put into it.                                                  *)
(***************************************************************************)

Wants == [outs : SUBSET Outputs, v : Nat \ {0}]
ListShows(list, W) ==
  /\ Sorted(list)
  /\ \A i \in DOMAIN list : \E w \in W : list[i].timer_val = w.v
  /\ \A w \in W : \E i \in DOMAIN list : list[i].timer_val = w.v
  /\ \A i \in DOMAIN list, o \in Outputs :
       o \in list[i].on <=> \E w \in W : o \in w.outs /\ list[i].timer_val <= w.v

\* set_channel: what the list has shown it shows still, and the outputs for that time.
LEMMA SetChannelShows ==
  ASSUME NEW list \in Seq(Step), NEW W \in SUBSET Wants, ListShows(list, W),
         NEW outs \in SUBSET Outputs, NEW v \in Nat \ {0}
  PROVE  ListShows(SetChannel(list, outs, v), W \cup {[outs |-> outs, v |-> v]})
<1> DEFINE covered == {i \in DOMAIN list : list[i].timer_val <= v}
           k   == Cardinality(covered)
           n   == Len(list)
           lit == [i \in DOMAIN list |->
                     IF i \in covered THEN [list[i] EXCEPT !.on = @ \cup outs]
                                      ELSE list[i]]
           cut == [on |-> outs \cup (IF k < Len(list) THEN list[k+1].on ELSE {}),
                   timer_val |-> v]
           new == [outs |-> outs, v |-> v]
           W2  == W \cup {new}
           res == SetChannel(list, outs, v)
<1>1. /\ n \in Nat /\ DOMAIN list = 1 .. n /\ \A i \in 1 .. n : list[i] \in Step
  OBVIOUS
<1>2. \A i \in 1 .. n : list[i].timer_val \in Int /\ list[i].on \in SUBSET Outputs
  BY <1>1 DEF Step
<1>3. Sorted(list)
  BY DEF ListShows
<1>4. k \in 0 .. n /\ covered = 1 .. k
  BY <1>3, CoveredPrefix
<1>5. \A i \in 1 .. n : (list[i].timer_val <= v) <=> (i <= k)
  <2>1. \A i \in 1 .. n : (list[i].timer_val <= v) <=> i \in covered
    BY <1>1
  <2> HIDE DEF covered, k
  <2> QED BY <1>1, <1>4, <2>1
<1>6. /\ lit \in Seq(Step) /\ Len(lit) = n
      /\ \A i \in 1 .. n :
           /\ lit[i].timer_val = list[i].timer_val
           /\ lit[i].on = IF i <= k THEN list[i].on \cup outs ELSE list[i].on
  <2>1. \A i \in 1 .. n :
          /\ lit[i] \in Step /\ lit[i].timer_val = list[i].timer_val
          /\ lit[i].on = IF i \in covered THEN list[i].on \cup outs ELSE list[i].on
    BY <1>1 DEF Step
  <2>2. lit = [i \in 1 .. n |-> lit[i]]
    BY <1>1
  <2>3. lit \in Seq(Step) /\ Len(lit) = n
    BY <1>1, <2>1, <2>2
  <2>4. \A i \in 1 .. n : (i \in covered) <=> (i <= k)
    <3> HIDE DEF covered, k
    <3> QED BY <1>1, <1>4
  <2> QED BY <2>1, <2>3, <2>4
<1>7. /\ \A w \in W : w.v \in Nat \ {0} /\ w.outs \in SUBSET Outputs
      /\ new.v = v /\ new.outs = outs
  BY DEF Wants
<1>8. res = IF \E i \in covered : list[i].timer_val = v
              THEN lit
              ELSE SubSeq(lit, 1, k) \o <<cut>> \o SubSeq(lit, k + 1, Len(lit))
  BY DEF SetChannel
<1>9. (\E i \in covered : list[i].timer_val = v) <=> (\E i \in 1 .. n : list[i].timer_val = v)
  BY <1>1
<1>10. /\ \A i \in 1 .. n : \E w \in W : list[i].timer_val = w.v
       /\ \A w \in W : \E i \in 1 .. n : list[i].timer_val = w.v
       /\ \A i \in 1 .. n, o \in Outputs :
            o \in list[i].on <=> \E w \in W : o \in w.outs /\ list[i].timer_val <= w.v
       /\ \A i, j \in 1 .. n : i < j => list[i].timer_val < list[j].timer_val
  BY <1>1 DEF ListShows, Sorted
<1>11. CASE \E i \in 1 .. n : list[i].timer_val = v
  <2>1. res = lit
    BY <1>8, <1>9, <1>11
  <2> HIDE DEF covered, k, lit, cut, res, new, n
  <2>2. DOMAIN res = 1 .. n
    BY <1>1, <1>6, <2>1
  <2>3. \A i \in 1 .. n : res[i].timer_val = list[i].timer_val
    BY <1>6, <2>1
  <2>sorted. Sorted(res)
    BY <1>10, <2>2, <2>3 DEF Sorted
  <2>4. \A i \in DOMAIN res : \E w \in W2 : res[i].timer_val = w.v
    BY <1>10, <2>2, <2>3
  <2>5. \A w \in W2 : \E i \in DOMAIN res : res[i].timer_val = w.v
    BY <1>7, <1>10, <1>11, <2>2, <2>3
  <2>6. ASSUME NEW i \in DOMAIN res, NEW o \in Outputs
        PROVE  o \in res[i].on <=> \E w \in W2 : o \in w.outs /\ res[i].timer_val <= w.v
    <3>1. res[i].on = IF i <= k THEN list[i].on \cup outs ELSE list[i].on
      BY <1>6, <2>1, <2>2
    <3>2. o \in res[i].on <=> o \in list[i].on \/ (i <= k /\ o \in outs)
      BY <3>1
    <3>3. o \in list[i].on <=> \E w \in W : o \in w.outs /\ list[i].timer_val <= w.v
      BY <1>10, <2>2
    <3>4. i <= k <=> list[i].timer_val <= v
      BY <1>5, <2>2
    <3>5. res[i].timer_val = list[i].timer_val
      BY <2>2, <2>3
    <3> QED BY <1>7, <3>2, <3>3, <3>4, <3>5
  <2> QED BY <2>sorted, <2>4, <2>5, <2>6 DEF ListShows, res, new
<1>12. CASE ~\E i \in 1 .. n : list[i].timer_val = v
  <2>1. res = SubSeq(lit, 1, k) \o <<cut>> \o SubSeq(lit, k + 1, Len(lit))
    BY <1>8, <1>9, <1>12
  <2>2. /\ cut \in Step /\ cut.timer_val = v
        /\ \A o : o \in cut.on <=> o \in outs \/ (k < n /\ o \in list[k+1].on)
    <3> HIDE DEF k
    <3>1. k < n => k + 1 \in 1 .. n
      BY <1>1, <1>4
    <3>2. cut.on = outs \cup (IF k < n THEN list[k+1].on ELSE {}) /\ cut.timer_val = v
      OBVIOUS
    <3>3. cut.on \in SUBSET Outputs
      BY <1>2, <3>1, <3>2
    <3>4. cut \in Step
      BY <3>3 DEF Step
    <3> QED BY <3>2, <3>4
  <2> HIDE DEF covered, k, lit, cut, res, new, n
  <2>3. /\ res \in Seq(Step) /\ Len(res) = n + 1
        /\ \A i \in 1 .. n + 1 :
             res[i] = IF i <= k THEN lit[i] ELSE IF i = k + 1 THEN cut ELSE lit[i - 1]
    <3>1. k \in 0 .. Len(lit)
      BY <1>4, <1>6
    <3> DEFINE r == SubSeq(lit, 1, k) \o <<cut>> \o SubSeq(lit, k + 1, Len(lit))
    <3>2. /\ r \in Seq(Step) /\ Len(r) = Len(lit) + 1
          /\ \A i \in 1 .. Len(lit) + 1 :
               r[i] = IF i <= k THEN lit[i] ELSE IF i = k + 1 THEN cut ELSE lit[i - 1]
      BY <1>6, <2>2, <3>1, Inserted DEF InsertedBehind
    <3> HIDE DEF r
    <3>3. res = r
      BY <2>1 DEF r
    <3> QED BY <1>6, <3>2, <3>3
  <2>4. DOMAIN res = 1 .. n + 1
    BY <1>1, <2>3
  \* The timer values around the new step.
  <2>5. /\ \A i \in 1 .. k : i \in 1 .. n /\ list[i].timer_val < v
        /\ \A i \in k + 1 .. n : i \in 1 .. n /\ list[i].timer_val > v
    BY <1>1, <1>2, <1>4, <1>5, <1>12
  <2>6. /\ \A i \in 1 .. k : i \in 1 .. n /\ res[i].timer_val = list[i].timer_val
        /\ res[k + 1].timer_val = v /\ k + 1 \in 1 .. n + 1
        /\ \A i \in k + 2 .. n + 1 : i - 1 \in k + 1 .. n /\ res[i].timer_val = list[i - 1].timer_val
    <3>1. \A i \in 1 .. k : i \in 1 .. n /\ i \in 1 .. n + 1 /\ i <= k
      BY <1>1, <1>4
    <3>2. \A i \in 1 .. k : res[i] = lit[i]
      BY <2>3, <3>1
    <3>3. k + 1 \in 1 .. n + 1 /\ ~(k + 1 <= k)
      BY <1>1, <1>4
    <3>4. res[k + 1] = cut
      BY <2>3, <3>3
    <3>5. \A i \in k + 2 .. n + 1 :
            i \in 1 .. n + 1 /\ ~(i <= k) /\ i # k + 1 /\ i - 1 \in k + 1 .. n /\ i - 1 \in 1 .. n
      BY <1>1, <1>4
    <3>6. \A i \in k + 2 .. n + 1 : res[i] = lit[i - 1]
      BY <2>3, <3>5
    <3> QED BY <1>6, <2>2, <3>1, <3>2, <3>3, <3>4, <3>5, <3>6
  <2>7. Sorted(res)
    <3> SUFFICES ASSUME NEW i \in 1 .. n + 1, NEW j \in 1 .. n + 1, i < j
                 PROVE  res[i].timer_val < res[j].timer_val
      BY <2>4 DEF Sorted
    <3>1. CASE j <= k
      BY <1>1, <1>4, <1>10, <2>6, <3>1
    <3>2. CASE j = k + 1
      BY <1>1, <1>4, <2>5, <2>6, <3>2
    <3>3. CASE j > k + 1
      <4>1. j \in k + 2 .. n + 1 /\ j - 1 \in k + 1 .. n /\ j - 1 \in 1 .. n
        BY <1>1, <1>4, <3>3
      <4>2. CASE i <= k
        <5>1. i \in 1 .. k /\ i < j - 1 /\ i \in 1 .. n
          BY <1>1, <1>4, <4>1, <4>2
        <5> QED BY <1>10, <2>6, <4>1, <5>1
      <4>3. CASE i = k + 1
        BY <2>5, <2>6, <4>1, <4>3
      <4>4. CASE i > k + 1
        <5>1. i \in k + 2 .. n + 1 /\ i - 1 \in 1 .. n /\ i - 1 < j - 1
          BY <1>1, <1>4, <4>4
        <5> QED BY <1>10, <2>6, <4>1, <5>1
      <4> QED BY <1>1, <1>4, <4>2, <4>3, <4>4
    <3> QED BY <1>1, <1>4, <3>1, <3>2, <3>3
  <2>8. \A i \in 1 .. n + 1 : i \in 1 .. k \/ i = k + 1 \/ i \in k + 2 .. n + 1
    BY <1>1, <1>4
  <2>9. \A i \in DOMAIN res : \E w \in W2 : res[i].timer_val = w.v
    <3> SUFFICES ASSUME NEW i \in 1 .. n + 1 PROVE \E w \in W2 : res[i].timer_val = w.v
      BY <2>4
    <3>1. CASE i \in 1 .. k
      BY <1>10, <2>6, <3>1
    <3>2. CASE i = k + 1
      BY <1>7, <2>6, <3>2
    <3>3. CASE i \in k + 2 .. n + 1
      BY <1>10, <2>5, <2>6, <3>3
    <3> QED BY <2>8, <3>1, <3>2, <3>3
  <2>10. \A w \in W2 : \E i \in DOMAIN res : res[i].timer_val = w.v
    <3> SUFFICES ASSUME NEW w \in W2 PROVE \E i \in 1 .. n + 1 : res[i].timer_val = w.v
      BY <2>4
    <3>1. CASE w = new
      BY <1>7, <2>6, <3>1
    <3>2. CASE w \in W
      <4>1. PICK j \in 1 .. n : list[j].timer_val = w.v
        BY <1>10, <3>2
      <4>2. CASE j <= k
        <5>1. j \in 1 .. k /\ j \in 1 .. n + 1
          BY <1>1, <1>4, <4>2
        <5> QED BY <2>6, <4>1, <5>1
      <4>3. CASE j > k
        <5>1. j + 1 \in k + 2 .. n + 1 /\ (j + 1) - 1 = j /\ j + 1 \in 1 .. n + 1
          BY <1>1, <1>4, <4>3
        <5> QED BY <2>6, <4>1, <5>1
      <4> QED BY <1>1, <1>4, <4>2, <4>3
    <3> QED BY <3>1, <3>2
  <2>11. ASSUME NEW i \in DOMAIN res, NEW o \in Outputs
         PROVE  o \in res[i].on <=> \E w \in W2 : o \in w.outs /\ res[i].timer_val <= w.v
    <3>1. CASE i \in 1 .. k
      <4>1. i \in 1 .. n /\ i <= k /\ res[i] = lit[i] /\ i \in 1 .. n + 1
        BY <1>1, <1>4, <2>3, <3>1
      <4>2. res[i].on = list[i].on \cup outs /\ res[i].timer_val = list[i].timer_val
        BY <1>6, <4>1
      <4>3. list[i].timer_val <= v
        BY <1>5, <4>1
      <4>4. o \in list[i].on <=> \E w \in W : o \in w.outs /\ list[i].timer_val <= w.v
        BY <1>10, <4>1
      <4> QED BY <1>7, <4>2, <4>3, <4>4
    <3>2. CASE i = k + 1
      <4>1. res[i] = cut /\ res[i].timer_val = v
        BY <1>1, <1>4, <2>2, <2>3, <3>2
      <4>2. k < n => k + 1 \in k + 1 .. n /\ k + 1 \in 1 .. n /\ list[k+1].timer_val > v
        BY <1>1, <1>4, <2>5
      <4>3. o \in res[i].on => \E w \in W2 : o \in w.outs /\ v <= w.v
        <5>1. CASE o \in outs
          BY <1>7, <5>1
        <5>2. CASE k < n /\ o \in list[k+1].on
          <6>1. PICK w \in W : o \in w.outs /\ list[k+1].timer_val <= w.v
            BY <1>10, <4>2, <5>2
          <6>2. v <= w.v
            BY <1>2, <1>7, <4>2, <5>2, <6>1
          <6> QED BY <6>1, <6>2
        <5> QED BY <2>2, <4>1, <5>1, <5>2
      <4>4. ASSUME NEW w \in W2, o \in w.outs, v <= w.v PROVE o \in res[i].on
        <5>1. CASE w = new
          BY <1>7, <2>2, <4>1, <4>4, <5>1
        <5>2. CASE w \in W
          <6>1. PICK j \in 1 .. n : list[j].timer_val = w.v
            BY <1>10, <5>2
          <6>2. j > k
            BY <1>2, <1>4, <1>7, <2>5, <4>4, <5>2, <6>1
          <6>3. k < n /\ k + 1 \in 1 .. n /\ (k + 1 = j \/ k + 1 < j)
            BY <1>1, <1>4, <6>2
          <6>4. list[k+1].timer_val <= w.v
            BY <1>2, <1>10, <6>1, <6>3
          <6>5. o \in list[k+1].on
            BY <1>10, <4>4, <5>2, <6>3, <6>4
          <6> QED BY <2>2, <4>1, <6>3, <6>5
        <5> QED BY <5>1, <5>2
      <4> QED BY <4>1, <4>3, <4>4
    <3>3. CASE i \in k + 2 .. n + 1
      <4>1. i - 1 \in 1 .. n /\ ~(i - 1 <= k) /\ res[i] = lit[i - 1]
        BY <1>1, <1>4, <2>3, <3>3
      <4>2. res[i].on = list[i-1].on /\ res[i].timer_val = list[i-1].timer_val
        BY <1>6, <4>1
      <4>3. ~(list[i-1].timer_val <= v)
        BY <1>5, <4>1
      <4>4. o \in list[i-1].on <=> \E w \in W : o \in w.outs /\ list[i-1].timer_val <= w.v
        BY <1>10, <4>1
      <4> QED BY <1>7, <4>2, <4>3, <4>4
    <3> QED BY <2>4, <2>8, <3>1, <3>2, <3>3
  <2> QED BY <2>7, <2>9, <2>10, <2>11 DEF ListShows, res, new
<1> QED BY <1>11, <1>12

(***************************************************************************)
(* What the settings ask for, and what calc_pwm_page has put into the list *)
(* when the entries from c on are done.                                    *)
(***************************************************************************)

Time(s, i)    == s.bright[CM_CHANNEL(s.map[i].code)]
CutTime(s, i) == IF Time(s, i) > s.max THEN s.max ELSE Time(s, i)
Wanted(s, n) ==
  {[outs |-> Driven(s.map[i]), v |-> CutTime(s, i)] :
     i \in {j \in n .. NCHANNELS - 1 : s.map[j].port_bits # {} /\ Time(s, j) # 0}}

LEMMA TimeType ==
  ASSUME NEW s \in Settings, NEW i \in Channels
  PROVE  /\ s.map[i] \in MapEntries /\ Driven(s.map[i]) \in SUBSET Outputs
         /\ Time(s, i) \in Nat /\ CutTime(s, i) \in Nat
         /\ CutTime(s, i) <= s.max
         /\ Time(s, i) # 0 => CutTime(s, i) # 0
         /\ s.max \in Nat \ {0}
<1>1. /\ s.bright \in [Channels -> Brights] /\ s.map \in [Channels -> MapEntries]
      /\ s.max \in PwmResolutions
  BY DEF Settings
<1>2. s.map[i] \in MapEntries
  BY <1>1, Zenon
<1>3. CM_CHANNEL(s.map[i].code) \in Channels
  BY <1>2, Zenon DEF MapEntries
<1>4. Time(s, i) \in Brights
  BY <1>1, <1>3, Zenon DEF Time
<1>5. Time(s, i) \in Nat
  BY <1>4, BrightAssumption
<1>6. s.max \in Nat \ {0}
  <2>1. \A r \in PwmResolutions : r \in Nat \ {0}
    BY WidthAssumption
  <2> QED BY <1>1, <2>1
<1>7. Driven(s.map[i]) \in SUBSET Outputs
  BY <1>2 DEF MapEntries, Driven, Outputs, CM_PORT
<1> QED BY <1>2, <1>5, <1>6, <1>7 DEF CutTime

LEMMA WantedType ==
  ASSUME NEW s \in Settings, NEW n \in Nat
  PROVE  Wanted(s, n) \in SUBSET Wants /\ \A w \in Wanted(s, n) : w.v <= s.max
<1> SUFFICES ASSUME NEW w \in Wanted(s, n) PROVE w \in Wants /\ w.v <= s.max
  OBVIOUS
<1>1. PICK i \in n .. NCHANNELS - 1 :
        Time(s, i) # 0 /\ w = [outs |-> Driven(s.map[i]), v |-> CutTime(s, i)]
  BY DEF Wanted
<1>2. i \in Channels
  BY SizeAssumption DEF Channels
<1> QED BY <1>1, <1>2, TimeType DEF Wants

\* How long an output is to be on is the longest time asked for it.
LEMMA OnStepsWanted ==
  ASSUME NEW s \in Settings, NEW o \in Outputs
  PROVE  /\ OnSteps(s, o) \in 0 .. s.max
         /\ \A w \in Wanted(s, 0) : o \in w.outs => w.v <= OnSteps(s, o)
         /\ OnSteps(s, o) # 0 =>
              \E w \in Wanted(s, 0) : o \in w.outs /\ w.v = OnSteps(s, o)
<1> DEFINE J == {j \in Channels : o \in Driven(s.map[j])}
           f == [i \in Channels |-> Time(s, i)]
           times == {Time(s, i) : i \in J} \cup {0}
           longest == CHOOSE t \in times : \A u \in times : u <= t
           L == OnSteps(s, o)
<1>1. L = IF longest > s.max THEN s.max ELSE longest
  BY Zenon DEF OnSteps, Time
<1>2. \A i \in Channels : Time(s, i) \in Nat
  BY TimeType
<1>3. longest \in times /\ \A u \in times : u <= longest
  <2>1. {f[j] : j \in J} = {Time(s, i) : i \in J}
    OBVIOUS
  <2>2. \E x \in {f[j] : j \in J} \cup {0} : \A y \in {f[j] : j \in J} \cup {0} : y <= x
    <3>1. NCHANNELS \in Nat /\ J \in SUBSET (0 .. NCHANNELS - 1)
      BY SizeAssumption DEF Channels
    <3>2. \A j \in J : f[j] \in Nat
      BY <1>2
    <3> HIDE DEF f, J
    <3> QED BY <3>1, <3>2, Greatest
  <2>3. \E x \in times : \A y \in times : y <= x
    BY <2>1, <2>2
  <2> HIDE DEF times
  <2> QED BY <2>3
<1> HIDE DEF longest
<1>4. longest \in Nat
  BY <1>2, <1>3
<1>5. s.max \in Nat \ {0}
  <2>1. \A r \in PwmResolutions : r \in Nat \ {0}
    BY WidthAssumption
  <2>2. s.max \in PwmResolutions
    BY DEF Settings
  <2> QED BY <2>1, <2>2
<1>6. L \in 0 .. s.max
  BY <1>1, <1>4, <1>5
<1>7. ASSUME NEW w \in Wanted(s, 0), o \in w.outs PROVE w.v <= L
  <2>1. PICK i \in 0 .. NCHANNELS - 1 : w = [outs |-> Driven(s.map[i]), v |-> CutTime(s, i)]
    BY DEF Wanted
  <2>2. i \in Channels /\ i \in J
    BY <1>7, <2>1 DEF Channels
  <2>3. Time(s, i) <= longest
    BY <1>3, <2>2
  <2>4. Time(s, i) \in Nat
    BY <1>2, <2>2
  <2>5. w.v = CutTime(s, i)
    BY <2>1
  <2> HIDE DEF L
  <2> QED BY <1>1, <1>4, <1>5, <2>3, <2>4, <2>5 DEF CutTime
<1>8. ASSUME L # 0 PROVE \E w \in Wanted(s, 0) : o \in w.outs /\ w.v = L
  <2>1. longest # 0
    BY <1>1, <1>5, <1>8
  <2>2. PICK i \in J : longest = Time(s, i)
    BY <1>3, <2>1
  <2>3. i \in 0 .. NCHANNELS - 1 /\ o \in Driven(s.map[i])
    BY DEF Channels
  <2>4. s.map[i].port_bits # {}
    BY <2>3 DEF Driven
  <2> DEFINE w == [outs |-> Driven(s.map[i]), v |-> CutTime(s, i)]
  <2>5. w \in Wanted(s, 0)
    BY <2>1, <2>2, <2>3, <2>4 DEF Wanted
  <2>6. CutTime(s, i) = L
    BY <1>1, <2>2 DEF CutTime
  <2> QED BY <2>3, <2>5, <2>6
<1> QED BY <1>6, <1>7, <1>8

\* calc_pwm_page: one entry more.
LEMMA CalcEntryShows ==
  ASSUME Snapshot \in Settings, NEW n \in 1 .. NCHANNELS, NEW list \in Seq(Step),
         ListShows(list, Wanted(Snapshot, n))
  PROVE  ListShows(CalcEntry(list, channel_map[n-1]), Wanted(Snapshot, n - 1))
<1> DEFINE s == Snapshot
           e == channel_map[n-1]
           new == [outs |-> Driven(e), v |-> CutTime(s, n - 1)]
<1>1. s.bright = bright_vals /\ s.map = channel_map /\ s.max = max_pwm
  BY DEF Snapshot
<1>2. n - 1 \in Channels /\ n \in Nat /\ n - 1 \in Nat
  BY SizeAssumption DEF Channels
<1>3. Time(s, n - 1) = bright_vals[CM_CHANNEL(e.code)]
  BY <1>1 DEF Time
<1>4. CutTime(s, n - 1) = IF Time(s, n - 1) > max_pwm THEN max_pwm ELSE Time(s, n - 1)
  BY <1>1 DEF CutTime
<1>5. \A j : j \in n - 1 .. NCHANNELS - 1 <=> j \in n .. NCHANNELS - 1 \/ j = n - 1
  BY <1>2, SizeAssumption
<1>6. CASE e.port_bits = {} \/ Time(s, n - 1) = 0
  <2>1. CalcEntry(list, e) = list
    BY <1>3, <1>6 DEF CalcEntry
  <2>2. {j \in n - 1 .. NCHANNELS - 1 : s.map[j].port_bits # {} /\ Time(s, j) # 0}
          = {j \in n .. NCHANNELS - 1 : s.map[j].port_bits # {} /\ Time(s, j) # 0}
    BY <1>1, <1>5, <1>6
  <2>3. Wanted(s, n - 1) = Wanted(s, n)
    BY <2>2, Zenon DEF Wanted
  <2> QED BY <2>1, <2>3
<1>7. CASE ~(e.port_bits = {} \/ Time(s, n - 1) = 0)
  <2>1. CalcEntry(list, e) = SetChannel(list, Driven(e), CutTime(s, n - 1))
    BY <1>3, <1>4, <1>7, Zenon DEF CalcEntry
  <2>2. {j \in n - 1 .. NCHANNELS - 1 : s.map[j].port_bits # {} /\ Time(s, j) # 0}
          = {j \in n .. NCHANNELS - 1 : s.map[j].port_bits # {} /\ Time(s, j) # 0} \cup {n - 1}
    BY <1>1, <1>5, <1>7
  <2>3. Wanted(s, n - 1) = Wanted(s, n) \cup {new}
    <3> DEFINE A == {j \in n .. NCHANNELS - 1 : s.map[j].port_bits # {} /\ Time(s, j) # 0}
               B == {j \in n - 1 .. NCHANNELS - 1 : s.map[j].port_bits # {} /\ Time(s, j) # 0}
               g(i) == [outs |-> Driven(s.map[i]), v |-> CutTime(s, i)]
    <3>1. Wanted(s, n - 1) = {g(i) : i \in B} /\ Wanted(s, n) = {g(i) : i \in A}
      BY DEF Wanted
    <3>2. g(n - 1) = new
      BY <1>1
    <3>3. B = A \cup {n - 1}
      BY <2>2
    <3> HIDE DEF A, B, g, new
    <3> QED BY <3>1, <3>2, <3>3
  <2>4. /\ Driven(e) \in SUBSET Outputs /\ CutTime(s, n - 1) \in Nat \ {0}
    BY <1>1, <1>2, <1>7, TimeType
  <2>5. Wanted(s, n) \in SUBSET Wants
    BY <1>2, WantedType
  <2>6. ListShows(SetChannel(list, Driven(e), CutTime(s, n - 1)), Wanted(s, n) \cup {new})
    BY <2>4, <2>5, SetChannelShows
  <2> QED BY <2>1, <2>3, <2>6
<1> QED BY <1>6, <1>7

(***************************************************************************)
(* activate_pwm_page: the finished list.                                   *)
(***************************************************************************)

LEMMA TicksPrefix ==
  ASSUME NEW list \in Seq(Step), NEW T \in [0 .. Len(list) -> Int], T[0] = 0,
         \A i \in 1 .. Len(list) : T[i] = T[i-1] + list[i].timer_val,
         NEW n \in 0 .. Len(list)
  PROVE  Ticks(SubSeq(list, 1, n)) = T[n]
<1> DEFINE first == SubSeq(list, 1, n)
           U == [i \in 0 .. n |-> T[i]]
<1>1. Len(list) \in Nat
  OBVIOUS
<1>2. first \in Seq(Step) /\ Len(first) = n /\ \A i \in 1 .. n : first[i] = list[i]
  BY <1>1, SubSeqProperties
<1> HIDE DEF first
<1>3. \A i \in 1 .. n : i \in 1 .. Len(list) /\ i \in 0 .. n /\ i - 1 \in 0 .. n
  BY <1>1
<1>4. U \in [0 .. Len(first) -> Int] /\ U[0] = 0 /\ U[n] = T[n]
  BY <1>1, <1>2
<1>5. \A i \in 1 .. Len(first) : U[i] = U[i-1] + first[i].timer_val
  BY <1>2, <1>3
<1> HIDE DEF U
<1>6. Ticks(first) = U[Len(first)]
  BY <1>2, <1>4, <1>5, TicksSum
<1> QED BY <1>2, <1>4, <1>6 DEF first

PageShows(list, s) ==
  /\ Ticks(list) = s.max * PWM_PRESCALE
  /\ \A o \in Outputs :
       \E n \in 0 .. Len(list) :
         /\ \A i \in DOMAIN list : IsOn(o, list[i]) <=> i <= n
         /\ Ticks(SubSeq(list, 1, n)) = OnSteps(s, o) * PWM_PRESCALE
  /\ \A i \in DOMAIN list : list[i].timer_val >= PWM_PRESCALE

LEMMA FinishedShows ==
  ASSUME Snapshot \in Settings, NEW list \in Seq(Step),
         ListShows(list, Wanted(Snapshot, 0)), Finished(list) \in Seq(Step)
  PROVE  PageShows(Finished(list), Snapshot)
<1> DEFINE s == Snapshot
           n == Len(list)
           F == Finished(list)
           W == Wanted(s, 0)
           E == [i \in 0 .. n |-> IF i = 0 THEN 0 ELSE list[i].timer_val]
           pause == max_pwm - LastTime(list)
<1>1. n \in Nat /\ DOMAIN list = 1 .. n /\ (list = <<>> <=> n = 0)
  OBVIOUS
<1>2. s.max = max_pwm /\ max_pwm \in Nat \ {0} /\ PWM_PRESCALE \in Nat \ {0}
  <2>1. \A r \in PwmResolutions : r \in Nat \ {0}
    BY WidthAssumption
  <2>2. s.max \in PwmResolutions
    BY DEF Settings
  <2> QED BY <2>1, <2>2, SizeAssumption DEF Snapshot
<1>3. /\ \A w \in W : w.v \in Nat \ {0} /\ w.v <= max_pwm
      /\ W \in SUBSET Wants
  BY <1>2, WantedType DEF Wants
<1> HIDE DEF W, s
<1>4. /\ \A i \in 1 .. n : \E w \in W : list[i].timer_val = w.v
      /\ \A w \in W : \E i \in 1 .. n : list[i].timer_val = w.v
      /\ \A i \in 1 .. n, o \in Outputs :
           o \in list[i].on <=> \E w \in W : o \in w.outs /\ list[i].timer_val <= w.v
      /\ \A i, j \in 1 .. n : i < j => list[i].timer_val < list[j].timer_val
  BY <1>1 DEF ListShows, Sorted, W, s
<1>5. \A i \in 1 .. n : list[i].timer_val \in 1 .. max_pwm
  BY <1>2, <1>3, <1>4
<1>6. /\ E[0] = 0 /\ \A i \in 1 .. n : E[i] = list[i].timer_val
      /\ \A i \in 0 .. n : E[i] \in 0 .. max_pwm
  BY <1>1, <1>2, <1>5
<1>7. \A i \in 1 .. n : i - 1 \in 0 .. n /\ E[i-1] < E[i]
  <2> SUFFICES ASSUME NEW i \in 1 .. n PROVE i - 1 \in 0 .. n /\ E[i-1] < E[i]
    OBVIOUS
  <2>1. i - 1 \in 0 .. n
    BY <1>1
  <2>2. CASE i = 1
    BY <1>5, <1>6, <2>2
  <2>3. CASE i # 1
    <3>1. i - 1 \in 1 .. n /\ i - 1 < i
      BY <1>1, <2>3
    <3> QED BY <1>4, <1>6, <2>1, <3>1
  <2> QED BY <2>1, <2>2, <2>3
<1>8. LastTime(list) = E[n]
  BY <1>1, <1>6 DEF LastTime
<1>9. ASSUME NEW i \in 1 .. n
      PROVE  /\ Durations(list)[i].on = list[i].on
             /\ Durations(list)[i].timer_val = PWM_PRESCALE * (E[i] - E[i-1])
  <2>1. (IF i = 1 THEN 0 ELSE list[i-1].timer_val) = E[i-1]
    <3>1. i - 1 \in 0 .. n /\ i \in Int /\ (i = 1 <=> i - 1 = 0)
      BY <1>1, <1>7
    <3> QED BY <3>1
  <2>2. Durations(list)[i] = [on |-> list[i].on, timer_val |->
          PWM_PRESCALE * (list[i].timer_val - (IF i = 1 THEN 0 ELSE list[i-1].timer_val))]
    BY <1>1 DEF Durations
  <2> HIDE DEF E
  <2> QED BY <1>6, <2>1, <2>2
<1>10. Durations(list) = [i \in 1 .. n |-> Durations(list)[i]]
  BY <1>1 DEF Durations
<1> HIDE DEF E
\* The finished list, with and without a pause.
<1>11. /\ Len(F) \in {n, n + 1}
       /\ \A i \in 1 .. n :
            F[i].on = list[i].on /\ F[i].timer_val = PWM_PRESCALE * (E[i] - E[i-1])
       /\ Len(F) = n => E[n] = max_pwm
       /\ Len(F) = n + 1 =>
            /\ E[n] < max_pwm /\ F[n+1].on = {}
            /\ F[n+1].timer_val = PWM_PRESCALE * (max_pwm - E[n])
  <2>1. CASE pause = 0
    <3>1. F = Durations(list)
      BY <2>1 DEF Finished
    <3>2. Len(F) = n
      BY <1>1, <1>10, <3>1
    <3>3. E[n] = max_pwm
      BY <1>1, <1>2, <1>6, <1>8, <2>1
    <3>4. ~(n = n + 1)
      <4>1. \A x \in Nat : ~(x = x + 1)
        OBVIOUS
      <4>2. n \in Nat
        BY <1>1
      <4> QED BY <4>1, <4>2, Zenon
    <3> HIDE DEF F
    <3> QED BY <1>9, <3>1, <3>2, <3>3, <3>4
  <2>2. CASE pause # 0
    <3> DEFINE last == [on |-> {}, timer_val |-> pause * PWM_PRESCALE]
    <3>1. F = Append(Durations(list), last)
      BY <2>2 DEF Finished
    <3>2. /\ Len(F) = n + 1 /\ F[n+1] = last
          /\ \A i \in 1 .. n : F[i] = Durations(list)[i]
      <4> HIDE DEF F, last
      <4>1. Durations(list) \in Seq({Durations(list)[i] : i \in 1 .. n}) /\ Len(Durations(list)) = n
        <5> DEFINE D == Durations(list)
                   S == {D[i] : i \in 1 .. n}
        <5>1. \A i \in 1 .. n : D[i] \in S
          OBVIOUS
        <5>2. D = [i \in 1 .. n |-> D[i]]
          BY <1>10
        <5> HIDE DEF D, S
        <5>3. D \in Seq(S) /\ Len(D) = n
          BY <1>1, <5>1, <5>2
        <5> QED BY <5>3 DEF D, S
      <4> QED BY <1>1, <3>1, <4>1
    <3>3. E[n] < max_pwm /\ pause = max_pwm - E[n]
      BY <1>1, <1>2, <1>6, <1>8, <2>2
    <3>4. pause * PWM_PRESCALE = PWM_PRESCALE * (max_pwm - E[n])
      <4>1. pause \in Int
        BY <1>1, <1>2, <1>6, <3>3
      <4>2. \A a, b \in Int : a * b = b * a
        OBVIOUS
      <4> HIDE DEF pause
      <4> QED BY <1>2, <3>3, <4>1, <4>2
    <3>5. last.on = {} /\ last.timer_val = PWM_PRESCALE * (max_pwm - E[n])
      BY <3>4
    <3>6. ~(n + 1 = n)
      <4>1. \A x \in Nat : ~(x + 1 = x)
        OBVIOUS
      <4>2. n \in Nat
        BY <1>1
      <4> QED BY <4>1, <4>2, Zenon
    <3> HIDE DEF F, last, pause
    <3> QED BY <1>9, <3>2, <3>3, <3>5, <3>6
  <2> QED BY <2>1, <2>2
<1>12. F \in Seq(Step) /\ DOMAIN F = 1 .. Len(F) /\ Len(F) \in Nat
  OBVIOUS
<1> HIDE DEF F
<1>len. n \in Nat /\ Len(F) \in Nat /\ (Len(F) = n \/ Len(F) = n + 1)
  BY <1>1, <1>11, <1>12
<1> DEFINE G == [i \in 0 .. Len(F) |-> IF i <= n THEN E[i] ELSE max_pwm]
<1>13. /\ \A i \in 0 .. Len(F) : G[i] \in 0 .. max_pwm
       /\ G[0] = 0 /\ G[Len(F)] = max_pwm /\ \A i \in 0 .. n : G[i] = E[i]
       /\ \A i \in 1 .. Len(F) :
            /\ i - 1 \in 0 .. Len(F) /\ G[i] - G[i-1] \in Nat \ {0}
            /\ F[i].timer_val = PWM_PRESCALE * (G[i] - G[i-1])
  <2>1. \A i \in 0 .. n : i \in 0 .. Len(F) /\ G[i] = E[i]
    <3>1. \A i \in 0 .. n : i \in 0 .. Len(F) /\ i <= n
      BY <1>len
    <3> QED BY <3>1
  <2>2. \A i \in 0 .. Len(F) : G[i] \in 0 .. max_pwm
    <3>1. \A i \in 0 .. Len(F) : i <= n => i \in 0 .. n
      BY <1>1, <1>12
    <3> QED BY <1>2, <1>6, <3>1
  <2>3. Len(F) = n + 1 => G[n+1] = max_pwm /\ n + 1 \in 0 .. Len(F)
    BY <1>1, <1>12
  <2>4. G[Len(F)] = max_pwm
    BY <1>1, <1>11, <2>1, <2>3
  <2>5. ASSUME NEW i \in 1 .. Len(F)
        PROVE  /\ i - 1 \in 0 .. Len(F) /\ G[i] - G[i-1] \in Nat \ {0}
               /\ F[i].timer_val = PWM_PRESCALE * (G[i] - G[i-1])
    <3> HIDE DEF G
    <3>1. i - 1 \in 0 .. Len(F)
      BY <1>12
    <3>2. CASE i <= n
      <4>1. i \in 1 .. n /\ i \in 0 .. n /\ i - 1 \in 0 .. n
        BY <1>1, <3>2
      <4>2. G[i] = E[i] /\ G[i-1] = E[i-1] /\ F[i].timer_val = PWM_PRESCALE * (E[i] - E[i-1])
        BY <1>11, <2>1, <4>1
      <4>3. E[i] \in Int /\ E[i-1] \in Int /\ E[i-1] < E[i]
        BY <1>2, <1>6, <1>7, <4>1
      <4> QED BY <3>1, <4>2, <4>3
    <3>3. CASE i = n + 1
      <4>1. Len(F) = n + 1
        BY <1>len, <3>3
      <4>2. i - 1 = n /\ n \in 0 .. n
        BY <1>1, <3>3
      <4>3. G[i] = max_pwm /\ G[i-1] = E[n] /\ E[n] < max_pwm /\ E[n] \in Int
        <5>1. G[i-1] = E[n]
          BY <2>1, <4>2
        <5>2. E[n] < max_pwm
          BY <1>11, <4>1
        <5>3. E[n] \in Int
          BY <1>6, <4>2
        <5> QED BY <2>3, <3>3, <4>1, <5>1, <5>2, <5>3
      <4>4. F[i].timer_val = PWM_PRESCALE * (max_pwm - E[n])
        BY <1>11, <3>3, <4>1
      <4> QED BY <1>2, <3>1, <4>3, <4>4
    <3>4. i <= n \/ i = n + 1
      BY <1>len
    <3> QED BY <3>2, <3>3, <3>4
  <2>6. G[0] = 0
    BY <1>1, <1>6, <2>1
  <2> QED BY <2>1, <2>2, <2>4, <2>5, <2>6
<1> HIDE DEF G
<1> DEFINE U == [i \in 0 .. Len(F) |-> PWM_PRESCALE * G[i]]
<1>14. /\ U \in [0 .. Len(F) -> Int] /\ U[0] = 0
       /\ \A i \in 0 .. Len(F) : U[i] = PWM_PRESCALE * G[i]
       /\ \A i \in 1 .. Len(F) : U[i] = U[i-1] + F[i].timer_val
  <2>1. \A i \in 0 .. Len(F) : U[i] = PWM_PRESCALE * G[i] /\ G[i] \in Int
    BY <1>2, <1>13
  <2>2. \A i \in 0 .. Len(F) : U[i] \in Int
    BY <1>2, <2>1
  <2>3. U[0] = 0
    BY <1>2, <1>12, <1>13, <2>1
  <2>4. ASSUME NEW i \in 1 .. Len(F) PROVE U[i] = U[i-1] + F[i].timer_val
    <3>1. i \in 0 .. Len(F) /\ i - 1 \in 0 .. Len(F)
      BY <1>12
    <3>2. \A p, a, b \in Int : p * a = p * b + p * (a - b)
      OBVIOUS
    <3>3. PWM_PRESCALE \in Int /\ G[i] \in Int /\ G[i-1] \in Int
      BY <1>2, <2>1, <3>1
    <3> HIDE DEF U
    <3>4. U[i] = PWM_PRESCALE * G[i] /\ U[i-1] = PWM_PRESCALE * G[i-1]
      BY <2>1, <3>1
    <3>5. F[i].timer_val = PWM_PRESCALE * (G[i] - G[i-1])
      BY <1>13
    <3>6. PWM_PRESCALE * G[i] = PWM_PRESCALE * G[i-1] + PWM_PRESCALE * (G[i] - G[i-1])
      BY <3>2, <3>3, Zenon
    <3> QED BY <3>4, <3>5, <3>6, Zenon
  <2> QED BY <2>1, <2>2, <2>3, <2>4
<1> HIDE DEF U
<1>15. Len(F) \in 0 .. Len(F) /\ max_pwm * PWM_PRESCALE = PWM_PRESCALE * max_pwm
  BY <1>2, <1>12
<1>16. Ticks(F) = max_pwm * PWM_PRESCALE
  <2>1. Ticks(F) = U[Len(F)]
    BY <1>12, <1>14, TicksSum
  <2> QED BY <1>13, <1>14, <1>15, <2>1
<1>17. \A i \in DOMAIN F : F[i].timer_val >= PWM_PRESCALE
  <2>1. \A p, x \in Nat \ {0} : p * x >= p
    OBVIOUS
  <2>2. \A i \in 1 .. Len(F) : PWM_PRESCALE * (G[i] - G[i-1]) >= PWM_PRESCALE
    BY <1>2, <1>13, <2>1, Zenon
  <2> QED BY <1>12, <1>13, <2>2
<1>18. ASSUME NEW o \in Outputs
       PROVE  \E m \in 0 .. Len(F) :
                /\ \A i \in DOMAIN F : IsOn(o, F[i]) <=> i <= m
                /\ Ticks(SubSeq(F, 1, m)) = OnSteps(s, o) * PWM_PRESCALE
  <2> DEFINE L == OnSteps(s, o)
  <2>1. /\ L \in 0 .. max_pwm
        /\ \A w \in W : o \in w.outs => w.v <= L
        /\ L # 0 => \E w \in W : o \in w.outs /\ w.v = L
    BY <1>2, OnStepsWanted DEF s, W
  <2> HIDE DEF L
  \* The step that ends when the output is switched off.
  <2>2. PICK m \in 0 .. n : E[m] = L /\ \A i \in 1 .. n : o \in list[i].on <=> i <= m
    <3>1. CASE L = 0
      <4>1. \A w \in W : o \notin w.outs
        BY <1>3, <2>1, <3>1
      <4>2. \A i \in 1 .. n : o \notin list[i].on /\ ~(i <= 0)
        <5>1. \A i \in 1 .. n : o \notin list[i].on
          BY <1>4, <4>1
        <5> QED BY <1>1, <5>1
      <4> QED BY <1>1, <1>6, <3>1, <4>2
    <3>2. CASE L # 0
      <4>1. PICK w \in W : o \in w.outs /\ w.v = L
        BY <2>1, <3>2
      <4>2. PICK m \in 1 .. n : list[m].timer_val = L
        BY <1>4, <4>1
      <4>3. ASSUME NEW i \in 1 .. n PROVE o \in list[i].on <=> list[i].timer_val <= L
        <5>1. list[i].timer_val <= L => o \in list[i].on
          BY <1>4, <4>1
        <5>2. ASSUME o \in list[i].on PROVE list[i].timer_val <= L
          <6>1. PICK x \in W : o \in x.outs /\ list[i].timer_val <= x.v
            BY <1>4, <5>2
          <6>2. x.v <= L /\ x.v \in Int /\ L \in Int /\ list[i].timer_val \in Int
            BY <1>3, <1>5, <2>1, <6>1
          <6> QED BY <6>1, <6>2
        <5> QED BY <5>1, <5>2
      <4>4. ASSUME NEW i \in 1 .. n PROVE list[i].timer_val <= L <=> i <= m
        <5>1. list[i].timer_val \in Int /\ list[m].timer_val \in Int /\ i \in Int /\ m \in Int
          BY <1>5
        <5>2. i < m \/ i = m \/ m < i
          BY <5>1
        <5>3. i < m => list[i].timer_val < list[m].timer_val
          BY <1>4
        <5>4. m < i => list[m].timer_val < list[i].timer_val
          BY <1>4
        <5> QED BY <4>2, <5>1, <5>2, <5>3, <5>4
      <4>5. m \in 0 .. n /\ E[m] = L
        BY <1>1, <1>6, <4>2
      <4> QED BY <4>3, <4>4, <4>5
    <3> QED BY <3>1, <3>2
  <2>3. m \in 0 .. Len(F)
    BY <1>len
  <2>4. ASSUME NEW i \in 1 .. Len(F) PROVE o \in F[i].on <=> i <= m
    <3>1. CASE i <= n
      <4>1. i \in 1 .. n
        BY <1>1, <3>1
      <4> QED BY <1>11, <2>2, <4>1
    <3>2. CASE i = n + 1
      <4>1. Len(F) = n + 1 /\ ~(i <= m)
        BY <1>len, <3>2
      <4> QED BY <1>11, <3>2, <4>1
    <3>3. i <= n \/ i = n + 1
      BY <1>len
    <3> QED BY <3>1, <3>2, <3>3
  <2>5. Ticks(SubSeq(F, 1, m)) = U[m]
    BY <1>12, <1>14, <2>3, TicksPrefix
  <2>6. U[m] = PWM_PRESCALE * L
    BY <1>13, <1>14, <2>2, <2>3
  <2>7. PWM_PRESCALE * L = L * PWM_PRESCALE
    BY <1>2, <2>1
  <2>8. \A i \in DOMAIN F : IsOn(o, F[i]) <=> i <= m
    BY <1>12, <2>4 DEF IsOn
  <2> QED BY <2>3, <2>5, <2>6, <2>7, <2>8 DEF L
<1> QED BY <1>2, <1>16, <1>17, <1>18 DEF PageShows, F, s

(***************************************************************************)
(* Every page that can be shown shows the settings it was built from.      *)
(***************************************************************************)

ShowInv ==
  /\ pc = "calc" => /\ frame[shadow_pwm_page] = Snapshot
                    /\ ListShows(steps[shadow_pwm_page], Wanted(Snapshot, c))
  /\ pc = "install" => PageShows(steps[shadow_pwm_page], frame[shadow_pwm_page])
  /\ Installed => PageShows(steps[active_pwm_page], frame[active_pwm_page])
  /\ running => PageShows(steps[actual_pwm_step.page], frame[actual_pwm_step.page])

LEMMA NothingWanted ==
  ASSUME NEW s PROVE ListShows(<<>>, Wanted(s, NCHANNELS))
<1>1. NCHANNELS .. NCHANNELS - 1 = {}
  BY SizeAssumption
<1>2. Wanted(s, NCHANNELS) = {}
  BY <1>1 DEF Wanted
<1> QED BY <1>2 DEF ListShows, Sorted

LEMMA SnapshotOK == TypeOK => Snapshot \in Settings
  BY SnapshotType DEF TypeOK, SettingsOK

LEMMA InitShow == Init => ShowInv
<1> SUFFICES ASSUME Init PROVE ShowInv
  OBVIOUS
<1>1. steps[1] = <<>> /\ frame[1] = Snapshot /\ shadow_pwm_page = 1 /\ c = NCHANNELS
  BY DEF Init, Pages
<1>2. pc = "calc" /\ ~running
  BY DEF Init
<1> QED BY <1>1, <1>2, NothingWanted DEF ShowInv, Installed

\* Steps that touch neither a page nor its settings, and reach no new page.
LEMMA PagesKept ==
  ASSUME ShowInv, UNCHANGED <<steps, frame, shadow_pwm_page, active_pwm_page,
                              actual_pwm_step, running>>,
         pc' \in {"loop", "synced", "update"} \/ UNCHANGED <<pc, settings, c>>
  PROVE  ShowInv'
  BY DEF ShowInv, Installed, settings, Snapshot

LEMMA InitPwmPageShow == PageInv /\ ShowInv /\ InitPwmPage => ShowInv'
<1> SUFFICES ASSUME PageInv, ShowInv, InitPwmPage PROVE ShowInv'
  OBVIOUS
<1>1. running /\ active_pwm_page # shadow_pwm_page /\ actual_pwm_step.page # shadow_pwm_page
  BY DEF PageInv, InitPwmPage, ShadowFree
<1>2. /\ shadow_pwm_page \in Pages /\ active_pwm_page \in Pages
      /\ actual_pwm_step.page \in Pages
      /\ steps \in [Pages -> Seq(Step)] /\ frame \in [Pages -> Settings]
  BY DEF PageInv, TypeOK
<1>3. /\ steps'[shadow_pwm_page] = <<>> /\ frame'[shadow_pwm_page] = Snapshot
      /\ \A p \in Pages : p # shadow_pwm_page => steps'[p] = steps[p] /\ frame'[p] = frame[p]
  BY <1>2 DEF InitPwmPage
<1>4. /\ UNCHANGED <<shadow_pwm_page, active_pwm_page, actual_pwm_step, running>>
      /\ pc' = "calc" /\ c' = NCHANNELS /\ Snapshot' = Snapshot
  BY DEF InitPwmPage, settings, Snapshot
<1>5. ListShows(<<>>, Wanted(Snapshot, NCHANNELS))
  BY NothingWanted
<1> QED BY <1>1, <1>2, <1>3, <1>4, <1>5 DEF ShowInv, Installed

LEMMA CalcPwmPageShow == PageInv /\ ShowInv /\ CalcPwmPage => ShowInv'
<1> SUFFICES ASSUME PageInv, ShowInv, CalcPwmPage PROVE ShowInv'
  OBVIOUS
<1>1. /\ active_pwm_page # shadow_pwm_page
      /\ running => actual_pwm_step.page # shadow_pwm_page
  BY DEF PageInv, CalcPwmPage, Building
<1>2. /\ shadow_pwm_page \in Pages /\ active_pwm_page \in Pages
      /\ actual_pwm_step.page \in Pages
      /\ steps \in [Pages -> Seq(Step)]
  BY DEF PageInv, TypeOK
<1> DEFINE list == steps[shadow_pwm_page]
<1>3. /\ steps'[shadow_pwm_page] = CalcEntry(list, channel_map[c-1])
      /\ \A p \in Pages : p # shadow_pwm_page => steps'[p] = steps[p]
  BY <1>2 DEF CalcPwmPage
<1>4. /\ UNCHANGED <<shadow_pwm_page, active_pwm_page, actual_pwm_step, running, frame>>
      /\ pc = "calc" /\ pc' = "calc" /\ c' = c - 1 /\ Snapshot' = Snapshot
  BY DEF CalcPwmPage, settings, Snapshot
<1>5. c \in 1 .. NCHANNELS
  BY SizeAssumption DEF PageInv, TypeOK, CalcPwmPage
<1>6. ListShows(CalcEntry(list, channel_map[c-1]), Wanted(Snapshot, c - 1))
  <2>1. Snapshot \in Settings
    BY SnapshotOK DEF PageInv
  <2>2. list \in Seq(Step) /\ ListShows(list, Wanted(Snapshot, c))
    BY <1>2, <1>4 DEF ShowInv
  <2> QED BY <1>5, <2>1, <2>2, CalcEntryShows
<1> HIDE DEF list
<1> QED BY <1>1, <1>2, <1>3, <1>4, <1>6 DEF ShowInv, Installed

LEMMA FinishPageShow == PageInv /\ ShowInv /\ FinishPage => ShowInv'
<1> SUFFICES ASSUME PageInv, ShowInv, FinishPage PROVE ShowInv'
  OBVIOUS
<1>1. /\ active_pwm_page # shadow_pwm_page
      /\ running => actual_pwm_step.page # shadow_pwm_page
  BY DEF PageInv, FinishPage, Building
<1>2. /\ TypeOK
      /\ shadow_pwm_page \in Pages /\ active_pwm_page \in Pages
      /\ actual_pwm_step.page \in Pages
      /\ steps \in [Pages -> Seq(Step)]
  BY DEF PageInv, TypeOK
<1> DEFINE list == steps[shadow_pwm_page]
<1>3. /\ steps'[shadow_pwm_page] = Finished(list)
      /\ \A p \in Pages : p # shadow_pwm_page => steps'[p] = steps[p]
  BY <1>2 DEF FinishPage
<1>4. /\ UNCHANGED <<shadow_pwm_page, active_pwm_page, actual_pwm_step, running, frame>>
      /\ pc = "calc" /\ pc' = "install" /\ c = 0
  BY DEF FinishPage
<1>5. PageShows(Finished(list), Snapshot) /\ frame[shadow_pwm_page] = Snapshot
  <2>1. Snapshot \in Settings
    BY <1>2, SnapshotOK
  <2>2. /\ list \in Seq(Step) /\ ListShows(list, Wanted(Snapshot, 0))
        /\ frame[shadow_pwm_page] = Snapshot
    BY <1>2, <1>4 DEF ShowInv
  <2>3. Finished(list) \in Seq(Step)
    BY <1>2, <2>2, FinishedType
  <2> QED BY <2>1, <2>2, <2>3, FinishedShows
<1> HIDE DEF list
<1> QED BY <1>1, <1>2, <1>3, <1>4, <1>5 DEF ShowInv, Installed

LEMMA NextShow == PageInv /\ ShowInv /\ [Next]_vars => ShowInv'
<1> SUFFICES ASSUME PageInv, ShowInv, [Next]_vars PROVE ShowInv'
  OBVIOUS
<1>1. CASE Request
  <2>1. /\ pc' \in {"update", "synced"}
        /\ UNCHANGED <<pages, actual_pwm_step, running, frame>>
    BY <1>1, RequestEffect DEF PageInv
  <2> QED BY <2>1, PagesKept DEF pages
<1>2. CASE SyncedReply \/ NoRequest \/ NoUpdate
  <2>1. /\ pc' \in {"update", "loop"}
        /\ UNCHANGED <<pages, actual_pwm_step, running, frame>>
    BY <1>2 DEF SyncedReply, NoRequest, NoUpdate
  <2> QED BY <2>1, PagesKept DEF pages
<1>3. CASE InitPwmPage
  BY <1>3, InitPwmPageShow
<1>4. CASE CalcPwmPage
  BY <1>4, CalcPwmPageShow
<1>5. CASE FinishPage
  BY <1>5, FinishPageShow
<1>6. CASE InstallLink
  BY <1>6 DEF InstallLink, ShowInv, Installed
<1>7. CASE SwapPages
  <2>1. /\ pc = "swap" /\ pc' \in {"loop", "start"}
        /\ UNCHANGED <<steps, frame, active_pwm_page, actual_pwm_step, running>>
    BY <1>7 DEF SwapPages
  <2> QED BY <2>1 DEF ShowInv, Installed
<1>8. CASE StartTimer
  <2>1. /\ pc = "start" /\ pc' = "loop" /\ running'
        /\ UNCHANGED <<steps, frame, active_pwm_page>>
        /\ actual_pwm_step'.page = link[active_pwm_page]
    BY <1>8 DEF StartTimer, FirstStep, pages
  <2>2. link[active_pwm_page] = active_pwm_page
    BY <2>1 DEF PageInv, Installed
  <2> QED BY <2>1, <2>2 DEF ShowInv, Installed
<1>9. CASE TimerInterrupt
  <2>1. /\ running /\ running'
        /\ UNCHANGED <<settings, steps, frame, shadow_pwm_page, active_pwm_page, pc, c>>
    BY <1>9 DEF TimerInterrupt, pages
  <2>2. link[actual_pwm_step.page] = active_pwm_page
    BY <2>1 DEF PageInv
  <2>3. actual_pwm_step'.page \in {actual_pwm_step.page, active_pwm_page}
    BY <1>9, <2>2 DEF PageInv, TypeOK, TimerInterrupt, Successor, FirstStep
  <2>4. Snapshot' = Snapshot
    BY <2>1 DEF settings, Snapshot
  <2> QED BY <2>1, <2>3, <2>4 DEF ShowInv, Installed
<1>10. CASE UNCHANGED vars
  BY <1>10, PagesKept DEF vars, pages
<1> QED
  BY <1>1, <1>2, <1>3, <1>4, <1>5, <1>6, <1>7, <1>8, <1>9, <1>10 DEF Next, Main

\* What is on the outputs is what the settings say: whenever the timer runs, the
\* page it walks and the one it will walk next last exactly one pwm cycle, keep
\* each output on for the longest brightness of the entries that drive it, and
\* have no step that is too short for the interrupt.
THEOREM ShownIsExact == Spec => []ShownExact
<1>1. Init => ShowInv
  BY InitShow
<1>2. PageInv /\ ShowInv /\ [Next]_vars => ShowInv'
  BY NextShow
<1>3. PageInv /\ ShowInv => ShownExact
  <2> SUFFICES ASSUME PageInv, ShowInv, running, NEW p \in Reachable
               PROVE  /\ FrameExact(p)
                      /\ \A i \in DOMAIN steps[p] : steps[p][i].timer_val >= PWM_PRESCALE
    BY DEF ShownExact
  <2>1. p \in {actual_pwm_step.page, active_pwm_page}
    BY DEF PageInv, Reachable
  <2>2. PageShows(steps[p], frame[p])
    BY <2>1 DEF ShowInv, Installed
  <2> QED BY <2>2 DEF PageShows, FrameExact
<1> QED
  BY <1>1, <1>2, <1>3, SpecInv, PTL DEF Spec, SafetySpec

\* The sums of the first durations exist, and no step lasts longer than the whole cycle.
LEMMA SumsExist ==
  ASSUME NEW list \in Seq(Step)
  PROVE  \E T \in [0 .. Len(list) -> Int] :
           T[0] = 0 /\ \A i \in 1 .. Len(list) : T[i] = T[i-1] + list[i].timer_val
<1> DEFINE n == Len(list)
           d(i) == list[i].timer_val
           SumTo(T, m) == T[0] = 0 /\ \A i \in 1 .. m : T[i] = T[i-1] + d(i)
           Bad == {m \in 0 .. n : ~ \E T \in [0 .. m -> Int] : SumTo(T, m)}
<1>1. n \in Nat /\ \A i \in 1 .. n : d(i) \in Int
  <2>1. n \in Nat /\ \A i \in 1 .. n : list[i] \in Step
    OBVIOUS
  <2> QED BY <2>1 DEF Step
<1> HIDE DEF n, d
<1>2. Bad = {}
  <2> SUFFICES ASSUME Bad # {} PROVE FALSE
    OBVIOUS
  <2>1. PICK m \in Bad : \A j \in Bad : m <= j
    <3>1. Bad \in SUBSET Nat
      OBVIOUS
    <3> QED BY <3>1, Least
  <2>2. m # 0
    <3> SUFFICES ASSUME m = 0 PROVE FALSE
      OBVIOUS
    <3> DEFINE T == [i \in 0 .. 0 |-> 0]
    <3>1. T \in [0 .. 0 -> Int] /\ SumTo(T, 0)
      OBVIOUS
    <3> QED BY <2>1, <3>1
  <2>3. m - 1 \in 0 .. n /\ m - 1 \notin Bad /\ m \in 1 .. n
    <3>1. m \in 0 .. n /\ m - 1 \in 0 .. n /\ m \in 1 .. n /\ ~(m <= m - 1)
      <4>1. m \in 0 .. n
        BY <2>1
      <4> QED BY <1>1, <2>2, <4>1
    <3> HIDE DEF Bad
    <3> QED BY <2>1, <3>1
  <2>4. PICK U \in [0 .. m - 1 -> Int] : SumTo(U, m - 1)
    BY <2>3
  <2> DEFINE T == [i \in 0 .. m |-> IF i = m THEN U[m-1] + d(m) ELSE U[i]]
  <2>5. /\ \A i \in 0 .. m : T[i] = IF i = m THEN U[m-1] + d(m) ELSE U[i]
        /\ DOMAIN T = 0 .. m
    OBVIOUS
  <2>6. \A i \in 0 .. m : T[i] \in Int
    BY <1>1, <2>3
  <2>7. T \in [0 .. m -> Int]
    BY <2>6
  <2> HIDE DEF T
  <2>8. T[0] = 0
    <3>1. 0 \in 0 .. m /\ 0 # m
      BY <2>2, <2>3
    <3> QED BY <2>4, <2>5, <3>1
  <2>9. ASSUME NEW i \in 1 .. m PROVE T[i] = T[i-1] + d(i)
    <3>1. T[i-1] = U[i-1]
      <4>1. i - 1 \in 0 .. m /\ i - 1 # m
        BY <2>3
      <4> QED BY <2>5, <4>1
    <3>2. CASE i = m
      <4>1. i \in 0 .. m
        BY <2>3
      <4> QED BY <2>5, <3>1, <3>2, <4>1
    <3>3. CASE i # m
      <4>1. i \in 0 .. m /\ i \in 1 .. m - 1
        BY <2>3, <3>3
      <4>2. T[i] = U[i] /\ U[i] = U[i-1] + d(i)
        BY <2>4, <2>5, <3>3, <4>1
      <4> QED BY <3>1, <4>2
    <3> QED BY <3>2, <3>3
  <2>10. SumTo(T, m)
    BY <2>8, <2>9
  <2> HIDE DEF SumTo
  <2> QED BY <2>1, <2>7, <2>10
<1>3. n \notin Bad /\ n \in 0 .. n
  <2> HIDE DEF Bad
  <2> QED BY <1>1, <1>2
<1>4. \E T \in [0 .. n -> Int] : SumTo(T, n)
  BY <1>3
<1> QED BY <1>4 DEF n, d

LEMMA StepIsInCycle ==
  ASSUME NEW list \in Seq(Step), \A i \in DOMAIN list : list[i].timer_val >= 0
  PROVE  \A i \in DOMAIN list : list[i].timer_val <= Ticks(list)
<1> DEFINE n == Len(list)
           d(i) == list[i].timer_val
<1>1. n \in Nat /\ DOMAIN list = 1 .. n /\ \A i \in 1 .. n : d(i) \in Nat
  <2>1. n \in Nat /\ DOMAIN list = 1 .. n /\ \A i \in 1 .. n : list[i] \in Step
    OBVIOUS
  <2>2. \A i \in 1 .. n : list[i].timer_val \in Int /\ list[i].timer_val >= 0
    BY <2>1 DEF Step
  <2> QED BY <2>1, <2>2
<1>2. PICK T \in [0 .. n -> Int] : T[0] = 0 /\ \A i \in 1 .. n : T[i] = T[i-1] + d(i)
  BY SumsExist
<1>3. Ticks(list) = T[n]
  BY <1>2, TicksSum
<1> HIDE DEF n, d
<1>4. \A i \in 0 .. n : T[i] \in Int
  BY <1>2
<1> DEFINE Negative == {i \in 0 .. n : T[i] < 0}
           Above == {n - i : i \in {j \in 0 .. n : T[j] > T[n]}}
<1>5. Negative = {}
  <2> SUFFICES ASSUME Negative # {} PROVE FALSE
    OBVIOUS
  <2>1. PICK i \in Negative : \A j \in Negative : i <= j
    <3>1. Negative \in SUBSET Nat
      OBVIOUS
    <3> QED BY <3>1, Least
  <2>2. i # 0 /\ i \in 1 .. n
    BY <1>1, <1>2, <2>1
  <2>3. i - 1 \in 0 .. n /\ i - 1 \notin Negative
    BY <1>1, <2>1, <2>2
  <2>4. T[i-1] >= 0 /\ T[i] = T[i-1] + d(i) /\ d(i) \in Nat /\ T[i-1] \in Int
    BY <1>1, <1>2, <1>4, <2>2, <2>3
  <2> QED BY <2>1, <2>4
<1>6. Above = {}
  <2> SUFFICES ASSUME Above # {} PROVE FALSE
    OBVIOUS
  <2>1. PICK x \in Above : \A y \in Above : x <= y
    <3>1. Above \in SUBSET Nat
      BY <1>1
    <3> QED BY <3>1, Least
  <2>2. PICK i \in 0 .. n : x = n - i /\ T[i] > T[n]
    BY <2>1
  <2>3. i + 1 \in 0 .. n /\ i + 1 \in 1 .. n /\ (i + 1) - 1 = i
    <3>1. i # n
      BY <1>1, <1>4, <2>2
    <3> QED BY <1>1, <2>2, <3>1
  <2>4. T[i+1] = T[i] + d(i+1) /\ d(i+1) \in Nat /\ T[i+1] \in Int /\ T[i] \in Int
        /\ T[n] \in Int
    <3>1. T[i+1] = T[(i+1)-1] + d(i+1) /\ d(i+1) \in Nat
      BY <1>1, <1>2, <2>3
    <3>2. n \in 0 .. n
      BY <1>1
    <3> QED BY <1>4, <2>3, <3>1, <3>2
  <2>5. T[i+1] > T[n]
    BY <2>2, <2>4
  <2>6. n - (i + 1) \in Above
    BY <2>3, <2>5
  <2>7. n - (i + 1) < x
    BY <1>1, <2>2
  <2>8. n - (i + 1) \in Int /\ x \in Int
    BY <1>1, <2>2
  <2> HIDE DEF Above
  <2>9. x <= n - (i + 1)
    BY <2>1, <2>6
  <2> QED BY <2>7, <2>8, <2>9
<1>7. ASSUME NEW i \in 1 .. n PROVE d(i) <= T[n]
  <2>1. i - 1 \in 0 .. n /\ i \in 0 .. n /\ n \in 0 .. n
    BY <1>1
  <2>2. T[i-1] >= 0
    BY <1>4, <1>5, <2>1
  <2>3. ~(T[i] > T[n])
    <3> SUFFICES ASSUME T[i] > T[n] PROVE n - i \in Above
      BY <1>6
    <3> QED BY <2>1
  <2>4. T[i] = T[i-1] + d(i) /\ d(i) \in Nat /\ T[i] \in Int /\ T[i-1] \in Int /\ T[n] \in Int
    BY <1>1, <1>2, <1>4, <2>1
  <2> QED BY <2>2, <2>3, <2>4
<1> QED BY <1>1, <1>3, <1>7 DEF d

\* What the interrupt writes into the compare register of the timer is never cut: each
\* step of a page it can reach lasts at least as long as the interrupt itself takes, and
\* fits in 16 bits.
StepTicksFit ==
  running => \A p \in Reachable : \A i \in DOMAIN steps[p] :
               steps[p][i].timer_val \in PWM_PRESCALE .. 65535

LEMMA TicksFit == PageInv /\ ShowInv => StepTicksFit
<1> SUFFICES ASSUME PageInv, ShowInv, running, NEW p \in Reachable, NEW i \in DOMAIN steps[p]
             PROVE  steps[p][i].timer_val \in PWM_PRESCALE .. 65535
  BY DEF StepTicksFit
<1>1. p \in {actual_pwm_step.page, active_pwm_page} /\ p \in Pages
  BY DEF PageInv, Reachable, TypeOK, Pages
<1>2. PageShows(steps[p], frame[p])
  BY <1>1 DEF ShowInv, Installed
<1>3. /\ steps[p] \in Seq(Step) /\ frame[p].max \in PwmResolutions
  BY <1>1 DEF PageInv, TypeOK, Settings
<1>4. /\ frame[p].max * PWM_PRESCALE < 65536 /\ frame[p].max * PWM_PRESCALE \in Int
      /\ PWM_PRESCALE \in Nat \ {0}
  <2>1. PWM_PRESCALE \in Nat \ {0}
    BY SizeAssumption
  <2>2. \A r \in PwmResolutions : r \in Nat \ {0} /\ r * PWM_PRESCALE < 65536
    BY WidthAssumption
  <2> DEFINE r == frame[p].max
  <2>3. r \in Nat \ {0} /\ r * PWM_PRESCALE < 65536
    BY <1>3, <2>2
  <2> HIDE DEF r
  <2>4. r * PWM_PRESCALE \in Int
    BY <2>1, <2>3
  <2> QED BY <2>1, <2>3, <2>4 DEF r
<1>5. \A j \in DOMAIN steps[p] : /\ steps[p][j].timer_val \in Int
                                 /\ steps[p][j].timer_val >= PWM_PRESCALE
                                 /\ steps[p][j].timer_val >= 0
  <2> SUFFICES ASSUME NEW j \in DOMAIN steps[p]
               PROVE  /\ steps[p][j].timer_val \in Int
                      /\ steps[p][j].timer_val >= PWM_PRESCALE
                      /\ steps[p][j].timer_val >= 0
    OBVIOUS
  <2>1. steps[p][j].timer_val \in Int
    <3>1. steps[p][j] \in Step
      BY <1>3
    <3> QED BY <3>1 DEF Step
  <2>2. steps[p][j].timer_val >= PWM_PRESCALE
    BY <1>2 DEF PageShows
  <2> QED BY <1>4, <2>1, <2>2
<1>6. Ticks(steps[p]) = frame[p].max * PWM_PRESCALE
  BY <1>2 DEF PageShows
<1>7. steps[p][i].timer_val <= Ticks(steps[p])
  BY <1>3, <1>5, StepIsInCycle
<1> HIDE DEF Ticks
<1> QED BY <1>4, <1>5, <1>6, <1>7

\* The durations in a page the interrupt walks along fit the timer.
THEOREM StepsFitTimer == Spec => []StepTicksFit
<1>1. Init => ShowInv
  BY InitShow
<1>2. PageInv /\ ShowInv /\ [Next]_vars => ShowInv'
  BY NextShow
<1> QED BY <1>1, <1>2, TicksFit, SpecInv, PTL DEF Spec, SafetySpec
================================================================================
