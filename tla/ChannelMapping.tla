---------------------------- MODULE ChannelMapping ----------------------------
(***************************************************************************)
(* The channel mapping sheet (df10ch_setup_pkg/map_dlg.py) and the areas   *)
(* on the screen that it colours and that select an area when they are     *)
(* clicked (areas_dlg.py).  The sheet keeps a list of all channels beside  *)
(* the configurations it edits, lights the channel that is selected, and   *)
(* goes on when a controller does not answer.                              *)
(***************************************************************************)
EXTENDS Integers, Sequences

CONSTANTS None,
          ChannelOrder, \* the channels <<controller, connector, pin>> as they are sorted
          AreaNames,    \* areas that the screen can have
          OldMappings,  \* mappings that the configurations can have at first
          MaxClicks,    \* bound: user actions
          MaxErrors     \* bound: requests that fail

COLOR_NAMES == {"red", "green", "blue"}

Channels == {ChannelOrder[i] : i \in 1 .. Len(ChannelOrder)}
Positions == 1 .. Len(ChannelOrder)
Mapping == [area : AreaNames, color : COLOR_NAMES]

\* A connector has three pins (PORT_NAME_MAP, device_drv.py:143); a channel is listed once.
ASSUME MappingAssumption ==
  /\ ChannelOrder \in Seq(Channels) /\ ChannelOrder # <<>>
  /\ \A ch \in Channels : ch = <<ch[1], ch[2], ch[3]>> /\ ch[3] \in 1 .. 3
  /\ \A i, j \in Positions : ChannelOrder[i] = ChannelOrder[j] => i = j
  /\ OldMappings \subseteq Mapping
  /\ None \notin AreaNames \cup COLOR_NAMES \cup Mapping \cup Channels
  /\ MaxClicks \in Nat /\ MaxErrors \in Nat

VARIABLES
  channelMap,   \* of all configurations: [area, color] of a channel, or None
  channelList,  \* of the sheet: [channel, area, color]
  actualIdx,    \* 0 models None
  actual,       \* channel of actualCtrlId and actualPortName
  actualArea, actualColor,
  layout,       \* the areas that the screen has
  selectedArea, \* of AreasDialog: outlined in yellow
  fill,         \* colours of the areas of the screen
  lit,          \* channels that the first entry of a channel map switches on
  rest,         \* controllers that use further entries
  mapped,       \* "open", "broken" when it was opened with an error, "away": not shown
  clicks, errors,
  failed,       \* history: a request failed since the sheet was opened
  uncertain     \* history: one of them was carried out all the same

sheet   == <<channelList, actualIdx, actual>>
chosen  == <<actualArea, actualColor>>
screen  == <<selectedArea, fill>>
history == <<clicks, errors, failed, uncertain>>
mappingVars == <<channelMap, sheet, chosen, layout, screen, lit, rest, mapped, history>>

Maybe(S) == S \cup {None}
Black == [a \in AreaNames |-> "black"]
OfConnector(ch) == {c \in Channels : c[1] = ch[1] /\ c[2] = ch[2]}

MappingInit ==
  /\ channelMap \in [Channels -> Maybe(OldMappings)]
  /\ channelList = <<>> /\ actualIdx = 0 /\ actual = None
  /\ actualArea = None /\ actualColor = None
  /\ layout = AreaNames /\ selectedArea = None /\ fill = Black
  /\ lit = {} /\ rest = {ch[1] : ch \in Channels} /\ mapped = "away"
  /\ clicks = 0 /\ errors = 0 /\ failed = FALSE /\ uncertain = FALSE

Act   == clicks < MaxClicks /\ clicks' = clicks + 1
Click == mapped # "away" /\ Act

(***************************************************************************)
(* Requests                                                                *)
(***************************************************************************)

\* What set_channel_map of the first entry of controller c does to L: it switches
\* S on, or raises AtmoControllerError and has been carried out, or not.
Requests(L, c, S) ==
  LET done == {ch \in L : ch[1] # c} \cup S
  IN  {[lit |-> done, error |-> FALSE, uncertain |-> FALSE]} \cup
      IF errors < MaxErrors
      THEN {[lit |-> done, error |-> TRUE, uncertain |-> TRUE],
            [lit |-> L, error |-> TRUE, uncertain |-> FALSE]}
      ELSE {}

Answered(r) ==
  /\ lit' = r.lit
  /\ errors' = IF r.error THEN errors + 1 ELSE errors
  /\ failed' = (failed \/ r.error) /\ uncertain' = (uncertain \/ r.uncertain)

\* selectLight: how it can end, with the channel that is the actual one then.
LeaveFirst(ch, from) == from # None /\ ch[1] # from[1]

LightOutcomes(ch, from) ==
  IF ch = from
  THEN {[request |-> [lit |-> lit, error |-> FALSE, uncertain |-> FALSE], actual |-> from]}
  ELSE LET first == IF LeaveFirst(ch, from) THEN Requests(lit, from[1], {})
                    ELSE {[lit |-> lit, error |-> FALSE, uncertain |-> FALSE]}
       IN  {[request |-> r, actual |-> from] : r \in {q \in first : q.error}} \cup
           UNION {{[request |-> r, actual |-> IF r.error THEN from ELSE ch] :
                   r \in Requests(q.lit, ch[1], {ch})} : q \in {p \in first : ~p.error}}

(***************************************************************************)
(* Selecting and storing                                                   *)
(***************************************************************************)

\* setAreaColor and selectArea of AreasDialog know only the areas of the layout.
\* Mutant: the area that is left keeps its colour.
AreaLeft_Lit(f) == f
AreaLeft(f) == IF actualArea \in layout THEN [f EXCEPT ![actualArea] = "black"] ELSE f

SelectArea(area, color, f, marked) ==
  /\ actualColor' = color
  /\ actualArea' = IF area = None THEN actualArea ELSE area
  /\ fill' = IF area \in layout
             THEN [AreaLeft(f) EXCEPT ![area] = IF color = None THEN "black" ELSE color]
             ELSE AreaLeft(f)
  /\ selectedArea' = IF area \in layout THEN area ELSE marked

\* The actual channel is the one of the list, unless its light could not be switched on.
SelectChannel(i, list, from, f, marked) ==
  /\ actualIdx' = i
  /\ \E o \in LightOutcomes(list[i].channel, from) : Answered(o.request) /\ actual' = o.actual
  /\ SelectArea(list[i].area, list[i].color, f, marked)

Entry(ch, area, color) == [channel |-> ch, area |-> area, color |-> color]

\* storeActual without delete: both must be known.
\* Mutants: the mapping is stored with the channel of the list; without a colour.
Stored_Listed(map, ch, area, color) ==
  IF area # None /\ color # None
  THEN [map EXCEPT ![channelList[actualIdx].channel] = [area |-> area, color |-> color]] ELSE map
Stored_Unchecked(map, ch, area, color) ==
  IF area # None THEN [map EXCEPT ![ch] = [area |-> area, color |-> color]] ELSE map
Stored(map, ch, area, color) ==
  IF area # None /\ color # None THEN [map EXCEPT ![ch] = [area |-> area, color |-> color]]
  ELSE map

StoreActual ==
  /\ channelMap' = Stored(channelMap, actual, actualArea', actualColor')
  /\ channelList' = [channelList EXCEPT ![actualIdx] = Entry(actual, actualArea', actualColor')]

\* KeyError or TypeError: actualCtrlId is None since the first selectLight failed.
Raises == actual = None

(***************************************************************************)
(* The user                                                                *)
(***************************************************************************)

\* loadValues up to the controller that fails first, if one does: its channels and those of
\* the controllers before it are in the list, and those of the latter are switched off.
ListOf(n) ==
  [i \in 1 .. n |->
     LET m == channelMap[ChannelOrder[i]]
     IN  IF m = None THEN Entry(ChannelOrder[i], None, None)
         ELSE Entry(ChannelOrder[i], m.area, m.color)]

DeviceNumbers == {ch[1] : ch \in Channels}
LastOf(c) == CHOOSE i \in Positions : /\ ChannelOrder[i][1] = c
                                      /\ \A j \in Positions : ChannelOrder[j][1] = c => j <= i

Open ==
  /\ mapped = "away" /\ mapped' = "open" /\ Act
  /\ channelList' = ListOf(Len(ChannelOrder)) /\ rest' = {}
  /\ actualIdx' = 1
  /\ LET first == ChannelOrder[1] IN
       \/ /\ lit' = {first} /\ actual' = first /\ failed' = FALSE /\ uncertain' = FALSE
          /\ UNCHANGED errors
       \/ /\ errors < MaxErrors /\ errors' = errors + 1 /\ failed' = TRUE
          /\ actual' = None
          /\ \/ lit' = {} /\ uncertain' = FALSE
             \/ lit' = {first} /\ uncertain' = TRUE
  /\ SelectArea(channelList'[1].area, channelList'[1].color, Black, None)
  /\ UNCHANGED <<channelMap, layout>>

OpenFails ==
  /\ mapped = "away" /\ mapped' = "broken" /\ Act
  /\ errors < MaxErrors /\ errors' = errors + 1 /\ failed' = TRUE
  /\ \E c \in DeviceNumbers :
       /\ channelList' = ListOf(LastOf(c))
       /\ LET before == {ChannelOrder[i][1] : i \in 1 .. LastOf(c)} \ {c}
          IN  rest' = rest \ before \/ rest' = (rest \ before) \ {c}
  /\ lit' = {} /\ uncertain' = TRUE
  /\ actualIdx' = 0
  /\ UNCHANGED <<channelMap, actual, chosen, layout, screen>>

\* Another sheet: the layout, the colours of the areas and the channels that are switched on.
Away ==
  /\ mapped # "away" /\ mapped' = "away"
  /\ layout' \in (SUBSET AreaNames) \ {{}}
  /\ fill' = [a \in AreaNames |-> "white"] /\ selectedArea' = None
  /\ lit' = {} /\ rest' = DeviceNumbers
  /\ UNCHANGED <<channelMap, sheet, chosen, history>>

\* cbSelectChannel, cbNext, cbPrev.
Select ==
  /\ Click /\ channelList # <<>>
  /\ \E i \in 1 .. Len(channelList) : SelectChannel(i, channelList, actual, fill, selectedArea)
  /\ UNCHANGED <<channelMap, channelList, layout, rest, mapped>>

\* cbSelectArea with cbAreaSelected: nothing more than the outline if no channel is selected.
ClickArea ==
  /\ Click
  /\ \E a \in layout :
       IF actualIdx = 0
       THEN selectedArea' = a /\ UNCHANGED <<channelMap, channelList, chosen, fill>>
       ELSE /\ SelectArea(a, actualColor, fill, a)
            /\ IF Raises THEN UNCHANGED <<channelMap, channelList>> ELSE StoreActual
  /\ UNCHANGED <<actualIdx, actual, layout, lit, rest, mapped, errors, failed, uncertain>>

SetColor ==
  /\ Click /\ actualIdx # 0
  /\ \E color \in COLOR_NAMES : SelectArea(actualArea, color, fill, selectedArea)
  /\ IF Raises THEN UNCHANGED <<channelMap, channelList>> ELSE StoreActual
  /\ UNCHANGED <<actualIdx, actual, layout, lit, rest, mapped, errors, failed, uncertain>>

\* Mutant: the list keeps the mapping.
Deleted_Kept == Entry(actual, actualArea, actualColor)
Deleted == Entry(actual, None, None)

Delete ==
  /\ Click /\ actualIdx # 0 /\ ~Raises
  /\ channelMap' = [channelMap EXCEPT ![actual] = None]
  /\ channelList' = [channelList EXCEPT ![actualIdx] = Deleted]
  /\ UNCHANGED <<actualIdx, actual, chosen, layout, screen, lit, rest, mapped, errors, failed,
                 uncertain>>

\* cbSetGroupColor: the three pins of the connector that are in the list, in their order;
\* then the channel that was selected is selected again, from the last pin.
FirstOf(ch) == {i \in 1 .. Len(channelList) : /\ channelList[i].channel = ch
                                             /\ \A j \in 1 .. i - 1 : channelList[j].channel # ch}
\* Mutant: the loop ends one pin early.
Group_Two == {ch \in OfConnector(actual) : FirstOf(ch) # {} /\ ch[3] < 3}
Group == {ch \in OfConnector(actual) : FirstOf(ch) # {}}
InGroup(i) == \E ch \in Group : i \in FirstOf(ch)
LastPin == IF Group = {} THEN actual ELSE CHOOSE ch \in Group : \A c \in Group : c[3] <= ch[3]

SetGroupColor ==
  /\ Click /\ actualIdx # 0 /\ ~Raises
  /\ \E colors \in {f \in [1 .. 3 -> COLOR_NAMES] : \A p, q \in 1 .. 3 : f[p] = f[q] => p = q} :
       /\ channelList' =
            [i \in 1 .. Len(channelList) |->
               LET ch == channelList[i].channel
               IN  IF InGroup(i) THEN Entry(ch, actualArea, colors[ch[3]]) ELSE channelList[i]]
       /\ channelMap' =
            [ch \in Channels |->
               IF ch \in Group /\ actualArea # None
               THEN [area |-> actualArea, color |-> colors[ch[3]]]
               ELSE channelMap[ch]]
  /\ SelectChannel(actualIdx, channelList', LastPin, fill, selectedArea)
  /\ UNCHANGED <<layout, rest, mapped>>

MappingNext == \/ Open \/ OpenFails \/ Away
        \/ Select \/ ClickArea \/ SetColor \/ Delete \/ SetGroupColor

MappingSpec == MappingInit /\ [][MappingNext]_mappingVars

(***************************************************************************)
(* Properties                                                              *)
(***************************************************************************)

\* The values of the variables.
MappingTypeOK ==
  /\ channelMap \in [Channels -> Maybe(Mapping)]
  /\ channelList \in Seq([channel : Channels, area : Maybe(AreaNames), color : Maybe(COLOR_NAMES)])
  /\ Len(channelList) <= Len(ChannelOrder)
  /\ actualIdx \in 0 .. Len(channelList) /\ actual \in Maybe(Channels)
  /\ actualArea \in Maybe(AreaNames) /\ actualColor \in Maybe(COLOR_NAMES)
  /\ layout \subseteq AreaNames /\ selectedArea \in Maybe(layout)
  /\ fill \in [AreaNames -> COLOR_NAMES \cup {"black", "white"}] /\ lit \subseteq Channels
  /\ rest \subseteq DeviceNumbers /\ mapped \in {"open", "broken", "away"}
  /\ failed \in BOOLEAN /\ uncertain \in BOOLEAN
  /\ clicks \in 0 .. MaxClicks /\ errors \in 0 .. MaxErrors

\* The user finds a channel by its light: a mapping changes only for the channel that is
\* switched on or one of its connector, also after a light could not be switched.
ChangedIsLit ==
  [][mapped = "open" /\ ~uncertain =>
       \A ch \in Channels : channelMap'[ch] # channelMap[ch] =>
         lit \subseteq OfConnector(ch) /\ rest = {}]_mappingVars

\* The list and the configurations: unless a request failed, a mapping that the list shows is
\* the one that will be stored.  The reverse does not hold: setting group colours before any
\* area was selected (map_dlg.py:161) puts channels into the list as not mapped whose mapping
\* stays.
ListedIsMapped ==
  mapped = "open" /\ ~failed =>
    \A i \in 1 .. Len(channelList) :
      LET e == channelList[i]
      IN  e.area # None /\ e.color # None =>
            channelMap[e.channel] = [area |-> e.area, color |-> e.color]

\* The screen: while a channel is selected no area is coloured but its own, whatever the
\* other sheets and the layout left there.
OneAreaColoured ==
  mapped = "open" => \A a \in layout : fill[a] # "black" => a = actualArea

\* A group of three channels is an RGB light: after its colours were set they differ, and
\* the channels have one area.
GroupIsOneLight ==
  [][~failed /\ SetGroupColor /\ actualArea # None =>
       \A c, d \in OfConnector(actual) :
         c # d => /\ channelMap'[c] # None /\ channelMap'[d] # None
                  /\ channelMap'[c].area = channelMap'[d].area
                  /\ channelMap'[c].color # channelMap'[d].color]_mappingVars

\* What the user sees (the list, the screen, the light) is what is stored and changed.
MappingIsSound ==
  []ListedIsMapped /\ []OneAreaColoured /\ ChangedIsLit /\ GroupIsOneLight
===============================================================================
