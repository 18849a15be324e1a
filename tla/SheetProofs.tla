----------------------------- MODULE SheetProofs -----------------------------
(***************************************************************************)
(* The layout sheet: the copies of a layout agree, for any fields, values  *)
(* and controllers.  The mapping sheet: what it shows is what is stored    *)
(* and what it changes is lit, for any controllers, connectors and areas.  *)
(* The calibration sheets: lights, scales and outline agree with what is   *)
(* stored, for any channels, resolutions and positions of the scales.      *)
(* The screen: the areas at a side share it, and the polygons of all areas *)
(* tile the window, for any screen and layout.                             *)
(***************************************************************************)
EXTENDS MCSheets, SequenceTheorems, FiniteSetTheorems, WellFoundedInduction, TLAPS

(***************************************************************************)
(* Sets of numbers                                                         *)
(***************************************************************************)

LEMMA SmallestOf ==
  ASSUME NEW T \in SUBSET Nat, T # {}
  PROVE  \E x \in T : \A y \in T : x <= y
<1>1. PICK x \in T : \A y \in T : ~ (<<y, x>> \in OpToRel(<, Nat))
  BY NatLessThanWellFounded, WFMin
<1>2. \A y \in T : ~ (y < x)
  BY <1>1 DEF OpToRel
<1> QED BY <1>2

LEMMA LargestOf ==
  ASSUME NEW n \in Nat, NEW S \in SUBSET (1 .. n), S # {}
  PROVE  \E x \in S : \A y \in S : y <= x
<1> DEFINE T == {n - i : i \in S}
<1>1. T \in SUBSET Nat /\ T # {}
  <2>1. \A i \in S : n - i \in Nat
    OBVIOUS
  <2> QED BY <2>1
<1>2. PICK x \in T : \A y \in T : x <= y
  <2> HIDE DEF T
  <2> QED BY <1>1, SmallestOf
<1>3. PICK i \in S : x = n - i
  BY <1>2
<1>4. ASSUME NEW j \in S PROVE j <= i
  <2>1. n - j \in T
    OBVIOUS
  <2>2. x <= n - j
    BY <1>2, <2>1
  <2> QED BY <1>3, <2>2
<1> QED BY <1>4

(***************************************************************************)
(* The layout sheet                                                        *)
(***************************************************************************)

\* What the entries hold up to the first that is not a number is a layout
\* together with the old attributes.
LEMMA TakenIsLayout ==
    ASSUME TypeOK, NEW k \in Nat, Readable(k), k <= Len(Fields)
    PROVE  Taken(k) \in Layouts
<1>1. ASSUME NEW f \in AllFields, f \in {Fields[j] : j \in 1..k} PROVE text[f] \in Values
  <2>1. PICK j \in 1..k : f = Fields[j]
      BY <1>1
  <2> QED
      BY <1>1, <2>1 DEF Readable, TypeOK
<1> QED
    BY <1>1 DEF Taken, TypeOK, Layouts

LEMMA LenFields == Len(Fields) \in Nat
BY LayoutAssumption

\* The parts of a layout that the screen and the picture are made of.
LEMMA PartsOfLayout ==
    ASSUME NEW l \in Layouts
    PROVE  GeometryOf(l) \in [Geometry -> Values] /\ WeightsOf(l) \in [Weights -> Values]
BY DEF Layouts, GeometryOf, WeightsOf, Geometry, AllFields

LEMMA MergedIsLayout == ASSUME NEW cs PROVE Merged(cs) \subseteq Layouts
BY DEF Merged

-----------------------------------------------------------------------------
\* What the three kinds of steps that draw do to the screen.
LEMMA Draws ==
    ASSUME TypeOK, NEW l \in Layouts, value' = l,
           configAreas(l) \/ configAreasAndShow(l)
    PROVE  /\ drawn' = GeometryOf(value') /\ drawn' \in [Geometry -> Values]
           /\ computed' \in [Weights -> Values] \cup {NoPicture}
           /\ picture' \in Pictures \cup {NoPicture}
           /\ shown' \in BOOLEAN
           /\ PictureIsDrawn'
<1> USE PartsOfLayout
<1>1. CASE configAreas(l)
    BY <1>1 DEF configAreas, Redrawn, Forgets, PictureIsDrawn
<1>2. CASE configAreasAndShow(l)
  <2>1. WeightsOf(l) # NoPicture
      BY LayoutAssumption
  <2>2. drawn' = GeometryOf(l) /\ computed' = WeightsOf(l) /\ shown' = TRUE
      BY <1>2 DEF configAreasAndShow, Redrawn
  <2>3. picture' = [layout |-> drawn', weights |-> WeightsOf(l)]
      BY <1>2, <2>1 DEF configAreasAndShow, Forgets
  <2>4. picture' \in Pictures
      BY <2>2, <2>3 DEF Pictures
  <2>5. picture' # NoPicture
      BY <2>4, LayoutAssumption
  <2> QED
      BY <2>2, <2>3, <2>4, <2>5 DEF PictureIsDrawn
<1> QED
    BY <1>1, <1>2

Inv == TypeOK /\ StoredIsDrawn /\ PictureIsDrawn

LEMMA InvInit == Init => Inv
<1> SUFFICES ASSUME Init PROVE Inv
    OBVIOUS
<1>1. value \in Layouts
    BY MergedIsLayout DEF Init
<1>2. text \in [AllFields -> Values \cup {Bad}]
    BY <1>1 DEF Init, Layouts
<1> QED
    BY <1>1, <1>2, PartsOfLayout DEF Init, Inv, TypeOK, StoredIsDrawn, PictureIsDrawn

LEMMA InvLoad ==
    ASSUME Inv, NEW cs \in [Controllers -> Layouts], setLayoutFromConfig(cs)
    PROVE  Inv'
<1>1. value' \in Layouts
    BY MergedIsLayout DEF setLayoutFromConfig, Largest
<1>2. configAreas(value') /\ text' = value' /\ configs' = cs /\ broken' = FALSE
    BY DEF setLayoutFromConfig
<1>3. /\ drawn' = GeometryOf(value') /\ drawn' \in [Geometry -> Values]
      /\ computed' \in [Weights -> Values] \cup {NoPicture}
      /\ picture' \in Pictures \cup {NoPicture} /\ shown' \in BOOLEAN /\ PictureIsDrawn'
    BY <1>1, <1>2, Draws DEF Inv
<1>4. text' \in [AllFields -> Values \cup {Bad}]
    BY <1>1, <1>2 DEF Layouts
<1> QED
    BY <1>1, <1>2, <1>3, <1>4 DEF Inv, TypeOK, StoredIsDrawn

LEMMA InvStep == Inv /\ [Next]_vars => Inv'
<1> SUFFICES ASSUME Inv, [Next]_vars PROVE Inv'
    OBVIOUS
<1>1. ASSUME NEW f \in AllFields, NEW v \in Values \cup {Bad}, Type(f, v) PROVE Inv'
    BY <1>1 DEF Type, Inv, TypeOK, StoredIsDrawn, PictureIsDrawn
<1>2. ASSUME cbApply \/ cbShowEdgeWeighting PROVE Inv'
  <2>1. value' = Taken(Len(Fields)) /\ Readable(Len(Fields))
      BY <1>2 DEF cbApply, cbShowEdgeWeighting
  <2>2. value' \in Layouts
      BY <2>1, LenFields, TakenIsLayout DEF Inv
  <2>3. /\ configAreas(value') \/ configAreasAndShow(value')
        /\ UNCHANGED <<text, configs>> /\ broken' = FALSE
      BY <1>2 DEF cbApply, cbShowEdgeWeighting
  <2>4. /\ drawn' = GeometryOf(value') /\ drawn' \in [Geometry -> Values]
        /\ computed' \in [Weights -> Values] \cup {NoPicture}
        /\ picture' \in Pictures \cup {NoPicture} /\ shown' \in BOOLEAN /\ PictureIsDrawn'
      BY <2>2, <2>3, Draws DEF Inv
  <2> QED
      BY <2>2, <2>3, <2>4 DEF Inv, TypeOK, StoredIsDrawn
<1>3. ASSUME applyValuesRaises PROVE Inv'
  <2>1. PICK k \in 0..Len(Fields) : Breaks(k) /\ value' = Taken(k)
      BY <1>3 DEF applyValuesRaises
  <2>2. value' \in Layouts
      BY <2>1, LenFields, TakenIsLayout DEF Inv, Breaks
  <2> QED
      BY <1>3, <2>2 DEF applyValuesRaises, Inv, TypeOK, StoredIsDrawn, PictureIsDrawn
<1>4. ASSUME hideEdgeWeighting PROVE Inv'
    BY <1>4 DEF hideEdgeWeighting, Inv, TypeOK, StoredIsDrawn, PictureIsDrawn
<1>5. ASSUME setConfigFromLayout PROVE Inv'
    BY <1>5 DEF setConfigFromLayout, Inv, TypeOK, StoredIsDrawn, PictureIsDrawn
<1>6. ASSUME Search PROVE Inv'
    BY <1>6, InvLoad DEF Search, Inv, TypeOK
<1>7. ASSUME Restore PROVE Inv'
  <2>1. PICK c \in Controllers, l \in Layouts :
            setLayoutFromConfig([configs EXCEPT ![c] = l])
      BY <1>7 DEF Restore
  <2>2. [configs EXCEPT ![c] = l] \in [Controllers -> Layouts]
      BY DEF Inv, TypeOK
  <2> QED
      BY <2>1, <2>2, InvLoad
<1>8. ASSUME UNCHANGED vars PROVE Inv'
    BY <1>8 DEF vars, Inv, TypeOK, StoredIsDrawn, PictureIsDrawn
<1> QED
    BY <1>1, <1>2, <1>3, <1>4, <1>5, <1>6, <1>7, <1>8 DEF Next

LEMMA InvAlways == Spec => []Inv
BY InvInit, InvStep, PTL DEF Spec

\* Every copy of a layout is a layout, and the screen shows a possible one.
THEOREM LayoutType == Spec => []TypeOK
<1>1. Inv => TypeOK
    BY DEF Inv
<1> QED
    BY <1>1, InvAlways, PTL

\* "Store Setup" stores the layout on the screen unless an "Apply" raised.
THEOREM LayoutStoredIsDrawn == Spec => []StoredIsDrawn
<1>1. Inv => StoredIsDrawn
    BY DEF Inv
<1> QED
    BY <1>1, InvAlways, PTL

\* A visible weight picture belongs to the layout and the weights shown.
THEOREM LayoutPictureIsDrawn == Spec => []PictureIsDrawn
<1>1. Inv => PictureIsDrawn
    BY DEF Inv
<1> QED
    BY <1>1, InvAlways, PTL

\* The screen is up to date: areas, weight picture, and what would be stored.
THEOREM LayoutDrawn == Spec => []LayoutIsDrawn
<1>1. Inv => LayoutIsDrawn
    BY DEF Inv, LayoutIsDrawn
<1> QED
    BY <1>1, InvAlways, PTL

\* After a search or a restore no configured area is missing on the screen,
\* however many controllers there are.
THEOREM LayoutLoadDrawsAll == Spec => LoadDrawsAll
<1>1. ASSUME NEW cs \in [Controllers -> Layouts], setLayoutFromConfig(cs),
             NEW c \in Controllers, NEW f \in Areas
      PROVE  configs'[c][f] <= drawn'[f]
  <2>1. value' \in Merged(cs) /\ configs' = cs /\ drawn' = GeometryOf(value')
      BY <1>1 DEF setLayoutFromConfig, Largest, configAreas, Redrawn
  <2>2. Most(cs, f, value'[f])
      BY <2>1 DEF Merged
  <2>3. drawn'[f] = value'[f]
      BY <2>1 DEF GeometryOf, Geometry
  <2> QED
      BY <2>1, <2>2, <2>3 DEF Most
<1>2. TypeOK /\ (Search \/ Restore)
         => \A c \in Controllers, f \in Areas : configs'[c][f] <= drawn'[f]
  <2> SUFFICES ASSUME TypeOK, Search \/ Restore
               PROVE  \A c \in Controllers, f \in Areas : configs'[c][f] <= drawn'[f]
      OBVIOUS
  <2>1. configs \in [Controllers -> Layouts]
      BY DEF TypeOK
  <2>2. CASE Search
      BY <1>1, <2>1, <2>2 DEF Search
  <2>3. CASE Restore
    <3>1. PICK d \in Controllers, l \in Layouts :
              setLayoutFromConfig([configs EXCEPT ![d] = l])
        BY <2>3 DEF Restore
    <3>2. [configs EXCEPT ![d] = l] \in [Controllers -> Layouts]
        BY <2>1
    <3> QED
        BY <1>1, <3>1, <3>2
  <2> QED
      BY <2>2, <2>3
<1>3. TypeOK /\ [Next]_vars
         => [(\E c \in Controllers, f \in Areas : ~(configs'[c][f] <= drawn'[f]))
                => ~(Search \/ Restore)]_vars
    BY <1>2
<1> QED
    BY <1>3, LayoutType, PTL DEF Spec, LoadDrawsAll

(***************************************************************************)
(* The channel mapping sheet                                               *)
(***************************************************************************)

Entries == [channel : Channels, area : Maybe(AreaNames), color : Maybe(COLOR_NAMES)]
Fills == [AreaNames -> COLOR_NAMES \cup {"black", "white"}]

\* Unless a request failed, the list has every channel in its place, and the one that is
\* selected is the actual one.
ListIsComplete ==
  mapped = "open" /\ ~failed =>
    /\ Len(channelList) = Len(ChannelOrder)
    /\ \A i \in Positions : channelList[i].channel = ChannelOrder[i]
    /\ actualIdx \in Positions /\ actual = ChannelOrder[actualIdx]
BrokenIsFailed == mapped = "broken" => failed

\* What is switched on is the actual channel, or was before the pin of its group.
LightsConnector(L, ch) == IF ch = None THEN L = {} ELSE L \subseteq OfConnector(ch)
LightIsActual ==
  mapped = "open" /\ ~uncertain => rest = {} /\ LightsConnector(lit, actual)

MappingInv ==
  /\ MappingTypeOK /\ ListIsComplete /\ BrokenIsFailed /\ LightIsActual
  /\ ListedIsMapped /\ OneAreaColoured

\* The channels: three coordinates, the last a pin.
LEMMA ChannelFacts ==
  /\ Len(ChannelOrder) \in Nat \ {0} /\ Positions = 1 .. Len(ChannelOrder)
  /\ \A i \in Positions : ChannelOrder[i] \in Channels
  /\ \A ch \in Channels : ch # None /\ ch \in OfConnector(ch) /\ ch[3] \in 1 .. 3
  /\ \A c, d \in Channels : OfConnector(c) \subseteq Channels
                            /\ (d \in OfConnector(c) => OfConnector(d) = OfConnector(c)
                                                         /\ d[1] = c[1])
  /\ \A c, d \in Channels : d \in OfConnector(c) /\ d[3] = c[3] => d = c
<1>1. Len(ChannelOrder) \in Nat \ {0} /\ Positions = 1 .. Len(ChannelOrder)
  BY MappingAssumption DEF Positions
<1>2. \A i \in Positions : ChannelOrder[i] \in Channels
  BY <1>1 DEF Channels
<1>3. \A ch \in Channels : ch # None /\ ch \in OfConnector(ch) /\ ch[3] \in 1 .. 3
  BY MappingAssumption DEF OfConnector
<1>4. \A c, d \in Channels : OfConnector(c) \subseteq Channels
                            /\ (d \in OfConnector(c) => OfConnector(d) = OfConnector(c)
                                                         /\ d[1] = c[1])
  BY DEF OfConnector
<1>5. ASSUME NEW c \in Channels, NEW d \in Channels, d \in OfConnector(c), d[3] = c[3]
      PROVE  d = c
  <2>1. c = <<c[1], c[2], c[3]>> /\ d = <<d[1], d[2], d[3]>>
    BY MappingAssumption
  <2>2. d[1] = c[1] /\ d[2] = c[2]
    BY <1>5 DEF OfConnector
  <2> QED BY <1>5, <2>1, <2>2
<1> QED BY <1>1, <1>2, <1>3, <1>4, <1>5

\* A request switches the first entry of one controller.
LEMMA RequestFacts ==
  ASSUME NEW L \in SUBSET Channels, NEW c, NEW S \in SUBSET Channels, NEW r \in Requests(L, c, S)
  PROVE  /\ r.lit \in SUBSET Channels /\ r.error \in BOOLEAN /\ r.uncertain \in BOOLEAN
         /\ r.error => errors < MaxErrors
         /\ r.uncertain => r.error
         /\ ~r.error => r.lit = {ch \in L : ch[1] # c} \cup S
         /\ r.error /\ ~r.uncertain => r.lit = L
<1> DEFINE done == {ch \in L : ch[1] # c} \cup S
<1>1. done \in SUBSET Channels
  OBVIOUS
<1>2. \/ r = [lit |-> done, error |-> FALSE, uncertain |-> FALSE]
      \/ errors < MaxErrors /\ r = [lit |-> done, error |-> TRUE, uncertain |-> TRUE]
      \/ errors < MaxErrors /\ r = [lit |-> L, error |-> TRUE, uncertain |-> FALSE]
  BY DEF Requests
<1> HIDE DEF done
<1>3. CASE r = [lit |-> done, error |-> FALSE, uncertain |-> FALSE]
  <2>1. r.lit = done /\ r.error = FALSE /\ r.uncertain = FALSE
    BY <1>3
  <2> QED BY Zenon, <1>1, <2>1 DEF done
<1>4. CASE errors < MaxErrors /\ r = [lit |-> done, error |-> TRUE, uncertain |-> TRUE]
  <2>1. r.lit = done /\ r.error = TRUE /\ r.uncertain = TRUE
    BY <1>4
  <2> QED BY Zenon, <1>1, <1>4, <2>1 DEF done
<1>5. CASE errors < MaxErrors /\ r = [lit |-> L, error |-> TRUE, uncertain |-> FALSE]
  <2>1. r.lit = L /\ r.error = TRUE /\ r.uncertain = FALSE
    BY <1>5
  <2> QED BY Zenon, <1>5, <2>1
<1> QED BY Zenon, <1>2, <1>3, <1>4, <1>5

\* selectLight: however it ends, what is on belongs to the actual channel.
LEMMA LightFacts ==
  ASSUME lit \in SUBSET Channels, NEW ch \in Channels, NEW from \in Maybe(Channels),
         NEW o \in LightOutcomes(ch, from)
  PROVE  /\ o.request.lit \in SUBSET Channels /\ o.request.error \in BOOLEAN
         /\ o.request.uncertain \in BOOLEAN
         /\ o.request.error => errors < MaxErrors
         /\ o.actual \in {ch, from}
         /\ ~o.request.error => o.actual = ch
         /\ LightsConnector(lit, from) /\ ~o.request.uncertain
              => LightsConnector(o.request.lit, o.actual)
<1> DEFINE stay == [lit |-> lit, error |-> FALSE, uncertain |-> FALSE]
           first == IF LeaveFirst(ch, from) THEN Requests(lit, from[1], {}) ELSE {stay}
<1>1. CASE ch = from
  <2>1. o = [request |-> stay, actual |-> from]
    BY <1>1 DEF LightOutcomes
  <2> QED BY <1>1, <2>1
<1>2. CASE ch # from
  <2>1. ASSUME NEW q \in first
        PROVE  /\ q.lit \in SUBSET Channels /\ q.error \in BOOLEAN /\ q.uncertain \in BOOLEAN
               /\ q.error => errors < MaxErrors
               /\ q.uncertain => q.error
               /\ LeaveFirst(ch, from) /\ ~q.error => q.lit = {x \in lit : x[1] # from[1]}
               /\ LeaveFirst(ch, from) /\ q.error /\ ~q.uncertain => q.lit = lit
               /\ ~LeaveFirst(ch, from) => q.lit = lit /\ ~q.error
    <3>1. CASE LeaveFirst(ch, from)
      <4>1. q \in Requests(lit, from[1], {})
        BY <3>1
      <4>2. /\ q.lit \in SUBSET Channels /\ q.error \in BOOLEAN /\ q.uncertain \in BOOLEAN
            /\ q.error => errors < MaxErrors
            /\ q.uncertain => q.error
            /\ ~q.error => q.lit = {x \in lit : x[1] # from[1]} \cup {}
            /\ q.error /\ ~q.uncertain => q.lit = lit
        BY Zenon, <4>1, RequestFacts
      <4> QED BY Zenon, <3>1, <4>2
    <3>2. CASE ~LeaveFirst(ch, from)
      <4>1. q.lit = lit /\ q.error = FALSE /\ q.uncertain = FALSE
        BY <3>2
      <4> QED BY Zenon, <3>2, <4>1
    <3> QED BY <3>1, <3>2
  <2>2. \/ \E q \in first : q.error /\ o = [request |-> q, actual |-> from]
        \/ \E q \in first : \E r \in Requests(q.lit, ch[1], {ch}) :
             ~q.error /\ o = [request |-> r, actual |-> IF r.error THEN from ELSE ch]
    BY <1>2 DEF LightOutcomes
  <2> HIDE DEF first
  <2>3. CASE \E q \in first : q.error /\ o = [request |-> q, actual |-> from]
    BY <2>1, <2>3
  <2>4. CASE \E q \in first : \E r \in Requests(q.lit, ch[1], {ch}) :
               ~q.error /\ o = [request |-> r, actual |-> IF r.error THEN from ELSE ch]
    <3>0. PICK q \in first : \E r \in Requests(q.lit, ch[1], {ch}) :
                 ~q.error /\ o = [request |-> r, actual |-> IF r.error THEN from ELSE ch]
      BY <2>4
    <3>1. PICK r \in Requests(q.lit, ch[1], {ch}) :
                 ~q.error /\ o = [request |-> r, actual |-> IF r.error THEN from ELSE ch]
      BY <3>0
    <3>2. o.request = r /\ o.actual = IF r.error THEN from ELSE ch
      BY <3>1
    <3>3. q.lit \in SUBSET Channels /\ {ch} \in SUBSET Channels
      BY <2>1
    <3>4. /\ r.lit \in SUBSET Channels /\ r.error \in BOOLEAN /\ r.uncertain \in BOOLEAN
          /\ r.error => errors < MaxErrors
          /\ r.uncertain => r.error
          /\ ~r.error => r.lit = {x \in q.lit : x[1] # ch[1]} \cup {ch}
          /\ r.error /\ ~r.uncertain => r.lit = q.lit
      BY Zenon, <3>3, RequestFacts
    <3>5. ASSUME LightsConnector(lit, from), ~r.uncertain
          PROVE  LightsConnector(r.lit, IF r.error THEN from ELSE ch)
      <4>1. from # None => \A x \in lit : x[1] = from[1]
        BY <3>5 DEF LightsConnector, OfConnector
      <4>2. LeaveFirst(ch, from) => q.lit = {}
        BY <2>1, <3>1, <4>1 DEF LeaveFirst
      <4>3. ~LeaveFirst(ch, from) => q.lit = lit
        BY <2>1
      <4>4. CASE r.error
        BY <3>4, <3>5, <4>2, <4>3, <4>4 DEF LightsConnector
      <4>5. CASE ~r.error
        <5>1. {x \in q.lit : x[1] # ch[1]} = {}
          BY <3>5, <4>1, <4>2, <4>3 DEF LightsConnector, LeaveFirst
        <5>2. r.lit = {ch}
          BY <3>4, <4>5, <5>1
        <5> QED BY <4>5, <5>2, ChannelFacts DEF LightsConnector
      <4> QED BY <4>4, <4>5
    <3> QED BY <3>2, <3>4, <3>5
  <2> QED BY <2>2, <2>3, <2>4
<1> QED BY <1>1, <1>2

\* The areas that are coloured, before and after selectArea.
OnlyColoured(f, area) == \A a \in layout : f[a] # "black" => a = area

LEMMA AreaFacts ==
  ASSUME MappingTypeOK, NEW area \in Maybe(AreaNames), NEW color \in Maybe(COLOR_NAMES),
         NEW f \in Fills, NEW marked \in Maybe(layout), SelectArea(area, color, f, marked)
  PROVE  /\ actualArea' \in Maybe(AreaNames) /\ actualColor' \in Maybe(COLOR_NAMES)
         /\ fill' \in Fills /\ selectedArea' \in Maybe(layout)
         /\ OnlyColoured(f, actualArea) => OnlyColoured(fill', actualArea')
<1>1. layout \in SUBSET AreaNames /\ actualArea \in Maybe(AreaNames) /\ None \notin AreaNames
  BY MappingAssumption DEF MappingTypeOK
<1>2. actualArea' \in Maybe(AreaNames) /\ actualColor' \in Maybe(COLOR_NAMES)
  BY <1>1 DEF SelectArea, Maybe
<1>3. AreaLeft(f) \in Fills
  BY <1>1 DEF AreaLeft, Fills
<1>4. OnlyColoured(f, actualArea) => \A a \in layout : AreaLeft(f)[a] = "black"
  BY <1>1 DEF OnlyColoured, AreaLeft, Fills
<1> DEFINE paint == IF color = None THEN "black" ELSE color
<1>5. paint \in COLOR_NAMES \cup {"black", "white"}
  BY DEF Maybe
<1>6. fill' = IF area \in layout THEN [AreaLeft(f) EXCEPT ![area] = paint] ELSE AreaLeft(f)
  BY DEF SelectArea
<1>7. selectedArea' \in Maybe(layout)
  BY DEF SelectArea, Maybe
<1>8. area \in layout => actualArea' = area
  BY <1>1 DEF SelectArea
<1> HIDE DEF paint
<1>9. fill' \in Fills
  BY <1>1, <1>3, <1>5, <1>6 DEF Fills
<1>10. OnlyColoured(f, actualArea) => OnlyColoured(fill', actualArea')
  BY <1>1, <1>3, <1>4, <1>6, <1>8 DEF OnlyColoured, Fills
<1> QED BY <1>2, <1>7, <1>9, <1>10

\* selectChannel: the entry of the list is selected, and unless a request failed its channel
\* is the actual one.
LEMMA SelectedFacts ==
  ASSUME MappingTypeOK, NEW list \in Seq(Entries), NEW i \in 1 .. Len(list),
         NEW from \in Maybe(Channels), NEW f \in Fills, NEW marked \in Maybe(layout),
         SelectChannel(i, list, from, f, marked)
  PROVE  /\ actualIdx' = i
         /\ actualArea' \in Maybe(AreaNames) /\ actualColor' \in Maybe(COLOR_NAMES)
         /\ fill' \in Fills /\ selectedArea' \in Maybe(layout)
         /\ OnlyColoured(f, actualArea) => OnlyColoured(fill', actualArea')
         /\ actual' \in Maybe(Channels) /\ lit' \in SUBSET Channels
         /\ failed' \in BOOLEAN /\ uncertain' \in BOOLEAN /\ errors' \in 0 .. MaxErrors
         /\ ~failed' => ~failed /\ actual' = list[i].channel
         /\ ~uncertain' => ~uncertain
              /\ (LightsConnector(lit, from) => LightsConnector(lit', actual'))
<1>1. list[i] \in Entries
  OBVIOUS
<1>2. /\ list[i].channel \in Channels /\ list[i].area \in Maybe(AreaNames)
      /\ list[i].color \in Maybe(COLOR_NAMES)
  BY <1>1 DEF Entries
<1>3. /\ actualIdx' = i /\ SelectArea(list[i].area, list[i].color, f, marked)
  BY DEF SelectChannel
<1>4. PICK o \in LightOutcomes(list[i].channel, from) : Answered(o.request) /\ actual' = o.actual
  BY DEF SelectChannel
<1>5. /\ lit \in SUBSET Channels /\ errors \in 0 .. MaxErrors /\ MaxErrors \in Nat
      /\ failed \in BOOLEAN /\ uncertain \in BOOLEAN
  BY Zenon, MappingAssumption DEF MappingTypeOK
<1>6. /\ o.request.lit \in SUBSET Channels /\ o.request.error \in BOOLEAN
      /\ o.request.uncertain \in BOOLEAN
      /\ o.request.error => errors < MaxErrors
      /\ o.actual \in {list[i].channel, from}
      /\ ~o.request.error => o.actual = list[i].channel
      /\ LightsConnector(lit, from) /\ ~o.request.uncertain
           => LightsConnector(o.request.lit, o.actual)
  BY Zenon, <1>2, <1>5, LightFacts
<1>7. /\ lit' = o.request.lit
      /\ errors' = IF o.request.error THEN errors + 1 ELSE errors
      /\ failed' = (failed \/ o.request.error)
      /\ uncertain' = (uncertain \/ o.request.uncertain)
  BY <1>4 DEF Answered
<1>8. errors' \in 0 .. MaxErrors
  BY <1>5, <1>6, <1>7
<1>9. failed' \in BOOLEAN /\ uncertain' \in BOOLEAN
  BY Zenon, <1>7
<1>10. actual' \in Maybe(Channels) /\ lit' \in SUBSET Channels
  BY <1>2, <1>4, <1>6, <1>7 DEF Maybe
<1>11. ~failed' => ~failed /\ actual' = list[i].channel
  BY Zenon, <1>4, <1>6, <1>7
<1>12. ~uncertain' => ~uncertain
       /\ (LightsConnector(lit, from) => LightsConnector(lit', actual'))
  BY Zenon, <1>4, <1>6, <1>7
<1>13. /\ actualArea' \in Maybe(AreaNames) /\ actualColor' \in Maybe(COLOR_NAMES)
       /\ fill' \in Fills /\ selectedArea' \in Maybe(layout)
       /\ OnlyColoured(f, actualArea) => OnlyColoured(fill', actualArea')
  BY <1>2, <1>3, AreaFacts
<1> QED BY Zenon, <1>3, <1>8, <1>9, <1>10, <1>11, <1>12, <1>13

\* storeActual: the list shows what is stored.
ShowsStored(list, map) ==
  \A i \in 1 .. Len(list) :
    list[i].area # None /\ list[i].color # None =>
      map[list[i].channel] = [area |-> list[i].area, color |-> list[i].color]
Complete(list) ==
  Len(list) = Len(ChannelOrder) /\ \A i \in Positions : list[i].channel = ChannelOrder[i]

LEMMA EntryFacts ==
  ASSUME NEW ch \in Channels, NEW area \in Maybe(AreaNames), NEW color \in Maybe(COLOR_NAMES)
  PROVE  /\ Entry(ch, area, color) \in Entries
         /\ Entry(ch, area, color).channel = ch /\ Entry(ch, area, color).area = area
         /\ Entry(ch, area, color).color = color
BY DEF Entry, Entries

LEMMA StoredFacts ==
  ASSUME NEW map \in [Channels -> Maybe(Mapping)], NEW ch \in Channels,
         NEW area \in Maybe(AreaNames), NEW color \in Maybe(COLOR_NAMES)
  PROVE  /\ Stored(map, ch, area, color) \in [Channels -> Maybe(Mapping)]
         /\ \A c \in Channels : c # ch => Stored(map, ch, area, color)[c] = map[c]
         /\ area # None /\ color # None =>
              Stored(map, ch, area, color)[ch] = [area |-> area, color |-> color]
<1>1. area # None /\ color # None => [area |-> area, color |-> color] \in Mapping
  BY DEF Maybe, Mapping
<1> QED BY <1>1 DEF Stored, Maybe

\* A list and a map that change at one channel.
LEMMA ChangeOne ==
  ASSUME NEW list \in Seq(Entries), NEW map \in [Channels -> Maybe(Mapping)],
         NEW new \in [Channels -> Maybe(Mapping)], NEW e \in Entries, NEW i \in 1 .. Len(list),
         \A c \in Channels : c # e.channel => new[c] = map[c],
         e.area # None /\ e.color # None => new[e.channel] = [area |-> e.area, color |-> e.color]
  PROVE  /\ [list EXCEPT ![i] = e] \in Seq(Entries) /\ Len([list EXCEPT ![i] = e]) = Len(list)
         /\ Complete(list) /\ e.channel = ChannelOrder[i] => Complete([list EXCEPT ![i] = e])
         /\ Complete(list) /\ e.channel = ChannelOrder[i] /\ ShowsStored(list, map)
              => ShowsStored([list EXCEPT ![i] = e], new)
<1> DEFINE L == [list EXCEPT ![i] = e]
<1>1. L \in Seq(Entries) /\ Len(L) = Len(list)
  OBVIOUS
<1>2. L[i] = e /\ \A j \in 1 .. Len(list) : j # i => L[j] = list[j]
  OBVIOUS
<1> HIDE DEF L
<1>3. Complete(list) /\ e.channel = ChannelOrder[i] => Complete(L)
  BY <1>1, <1>2 DEF Complete, Positions
<1>4. ASSUME Complete(list), e.channel = ChannelOrder[i], ShowsStored(list, map)
      PROVE  ShowsStored(L, new)
  <2> SUFFICES ASSUME NEW j \in 1 .. Len(list), L[j].area # None, L[j].color # None
               PROVE  new[L[j].channel] = [area |-> L[j].area, color |-> L[j].color]
    BY <1>1 DEF ShowsStored
  <2>1. CASE j = i
    BY <1>2, <2>1
  <2>2. CASE j # i
    <3>1. L[j] = list[j] /\ list[j].channel = ChannelOrder[j] /\ j \in Positions /\ i \in Positions
      BY <1>2, <1>4, <2>2 DEF Complete, Positions
    <3>2. list[j].channel \in Channels /\ list[j].channel # e.channel
      BY <1>4, <2>2, <3>1, ChannelFacts, MappingAssumption
    <3> QED BY <1>4, <3>1, <3>2 DEF ShowsStored
  <2> QED BY <2>1, <2>2
<1> QED BY <1>1, <1>3, <1>4 DEF L

\* The last channel of a controller.
LEMMA LastFacts == ASSUME NEW c \in DeviceNumbers PROVE LastOf(c) \in Positions
<1> DEFINE S == {i \in Positions : ChannelOrder[i][1] = c}
<1>1. S \in SUBSET (1 .. Len(ChannelOrder)) /\ S # {}
  BY ChannelFacts DEF DeviceNumbers, Channels, Positions
<1>2. PICK x \in S : \A j \in S : j <= x
  <2> HIDE DEF S
  <2> QED BY <1>1, ChannelFacts, LargestOf
<1>3. \E k \in Positions : /\ ChannelOrder[k][1] = c
                           /\ \A j \in Positions : ChannelOrder[j][1] = c => j <= k
  BY <1>2
<1> QED BY <1>3 DEF LastOf

\* loadValues.
LEMMA ListOfFacts ==
  ASSUME channelMap \in [Channels -> Maybe(Mapping)], NEW n \in Positions
  PROVE  /\ ListOf(n) \in Seq(Entries) /\ Len(ListOf(n)) = n
         /\ n = Len(ChannelOrder) => Complete(ListOf(n)) /\ ShowsStored(ListOf(n), channelMap)
<1>1. n \in Nat /\ Positions = 1 .. Len(ChannelOrder)
  BY ChannelFacts
<1>2. ASSUME NEW i \in 1 .. n
      PROVE  /\ ListOf(n)[i] \in Entries /\ ListOf(n)[i].channel = ChannelOrder[i]
             /\ ListOf(n)[i].area # None /\ ListOf(n)[i].color # None =>
                  channelMap[ChannelOrder[i]] =
                    [area |-> ListOf(n)[i].area, color |-> ListOf(n)[i].color]
  <2> DEFINE ch == ChannelOrder[i]
             m == channelMap[ch]
  <2>1. ch \in Channels /\ m \in Maybe(Mapping)
    BY <1>1, ChannelFacts
  <2>2. ListOf(n)[i] = IF m = None THEN Entry(ch, None, None) ELSE Entry(ch, m.area, m.color)
    BY DEF ListOf
  <2> HIDE DEF ch, m
  <2>3. CASE m = None
    BY <2>1, <2>2, <2>3, EntryFacts DEF ch, Maybe
  <2>4. CASE m # None
    <3>1. /\ m = [area |-> m.area, color |-> m.color]
          /\ m.area \in AreaNames /\ m.color \in COLOR_NAMES
      BY <2>1, <2>4 DEF Maybe, Mapping
    <3>2. m.area \in Maybe(AreaNames) /\ m.color \in Maybe(COLOR_NAMES)
      BY <3>1 DEF Maybe
    <3>3. ListOf(n)[i] = Entry(ch, m.area, m.color)
      BY <2>2, <2>4
    <3> QED BY <2>1, <3>1, <3>2, <3>3, EntryFacts DEF ch, m
  <2> QED BY <2>3, <2>4
<1>3. Len(ListOf(n)) = n /\ ListOf(n) \in Seq(Entries)
  <2>1. ListOf(n) \in [1 .. n -> Entries]
    BY <1>2 DEF ListOf
  <2> QED BY <1>1, <2>1
<1> QED BY <1>1, <1>2, <1>3 DEF Complete, ShowsStored

\* The parts of the invariant.
LEMMA MappingParts ==
  /\ Entries = [channel : Channels, area : Maybe(AreaNames), color : Maybe(COLOR_NAMES)]
  /\ Fills = [AreaNames -> COLOR_NAMES \cup {"black", "white"}]
  /\ ListIsComplete <=> (mapped = "open" /\ ~failed =>
       Complete(channelList) /\ actualIdx \in Positions /\ actual = ChannelOrder[actualIdx])
  /\ ListedIsMapped <=> (mapped = "open" /\ ~failed => ShowsStored(channelList, channelMap))
  /\ OneAreaColoured <=> (mapped = "open" => OnlyColoured(fill, actualArea))
<1>1. ListIsComplete <=> (mapped = "open" /\ ~failed =>
       Complete(channelList) /\ actualIdx \in Positions /\ actual = ChannelOrder[actualIdx])
  BY Zenon DEF ListIsComplete, Complete
<1>2. ListedIsMapped <=> (mapped = "open" /\ ~failed => ShowsStored(channelList, channelMap))
  BY Zenon DEF ListedIsMapped, ShowsStored
<1>3. OneAreaColoured <=> (mapped = "open" => OnlyColoured(fill, actualArea))
  BY Zenon DEF OneAreaColoured, OnlyColoured
<1> QED BY Zenon, <1>1, <1>2, <1>3 DEF Entries, Fills

LEMMA MappingInitial == MappingInit => MappingInv
<1> SUFFICES ASSUME MappingInit PROVE MappingInv
  OBVIOUS
<1>1. channelMap \in [Channels -> Maybe(Mapping)]
  BY MappingAssumption DEF MappingInit, Maybe
<1>2. /\ channelList = <<>> /\ channelList \in Seq(Entries) /\ Len(channelList) = 0
      /\ Len(ChannelOrder) \in Nat
  BY ChannelFacts DEF MappingInit
<1>3. /\ channelList \in Seq(Entries) /\ Len(channelList) <= Len(ChannelOrder)
      /\ actualIdx \in 0 .. Len(channelList)
  BY <1>2 DEF MappingInit
<1>4. /\ actual \in Maybe(Channels)
      /\ actualArea \in Maybe(AreaNames) /\ actualColor \in Maybe(COLOR_NAMES)
      /\ layout \subseteq AreaNames /\ selectedArea \in Maybe(layout) /\ fill \in Fills
      /\ lit \subseteq Channels /\ rest \subseteq DeviceNumbers
  BY DEF MappingInit, Maybe, Black, DeviceNumbers, Fills
<1>5. /\ mapped \in {"open", "broken", "away"} /\ clicks \in 0 .. MaxClicks
      /\ errors \in 0 .. MaxErrors
  BY MappingAssumption DEF MappingInit
<1>6. failed \in BOOLEAN /\ uncertain \in BOOLEAN
  BY Zenon DEF MappingInit
<1>7. MappingTypeOK
  BY Zenon, <1>1, <1>3, <1>4, <1>5, <1>6, MappingParts DEF MappingTypeOK
<1> QED BY <1>7 DEF MappingInit, MappingInv, ListIsComplete, BrokenIsFailed, LightIsActual,
                    ListedIsMapped, OneAreaColoured

\* A step keeps the invariant if it keeps its parts.
LEMMA MappingKeeps ==
  ASSUME channelMap' \in [Channels -> Maybe(Mapping)],
         channelList' \in Seq(Entries), Len(channelList') <= Len(ChannelOrder),
         actualIdx' \in 0 .. Len(channelList'), actual' \in Maybe(Channels),
         actualArea' \in Maybe(AreaNames), actualColor' \in Maybe(COLOR_NAMES),
         layout' \subseteq AreaNames, selectedArea' \in Maybe(layout'), fill' \in Fills,
         lit' \subseteq Channels, rest' \subseteq DeviceNumbers,
         mapped' \in {"open", "broken", "away"},
         failed' \in BOOLEAN, uncertain' \in BOOLEAN,
         clicks' \in 0 .. MaxClicks, errors' \in 0 .. MaxErrors,
         mapped' = "open" /\ ~failed' =>
           /\ Complete(channelList') /\ ShowsStored(channelList', channelMap')
           /\ actualIdx' \in Positions /\ actual' = ChannelOrder[actualIdx'],
         mapped' = "broken" => failed',
         mapped' = "open" /\ ~uncertain' => rest' = {} /\ LightsConnector(lit', actual'),
         mapped' = "open" => layout' = layout /\ OnlyColoured(fill', actualArea')
  PROVE  MappingInv'
<1>1. MappingTypeOK'
  BY Zenon DEF MappingTypeOK, Entries, Fills
<1>2. ListIsComplete' /\ ListedIsMapped'
  BY Zenon DEF ListIsComplete, ListedIsMapped, Complete, ShowsStored
<1>3. BrokenIsFailed' /\ LightIsActual'
  BY Zenon DEF BrokenIsFailed, LightIsActual
<1>4. OneAreaColoured'
  BY Zenon DEF OneAreaColoured, OnlyColoured
<1> QED BY Zenon, <1>1, <1>2, <1>3, <1>4 DEF MappingInv

LEMMA ActFacts == ASSUME MappingTypeOK, Act PROVE clicks' \in 0 .. MaxClicks
BY MappingAssumption DEF MappingTypeOK, Act

\* The invariant, in the form the steps use.
LEMMA MappingOld ==
  ASSUME MappingInv
  PROVE  /\ MappingTypeOK
         /\ channelMap \in [Channels -> Maybe(Mapping)]
         /\ channelList \in Seq(Entries) /\ Len(channelList) <= Len(ChannelOrder)
         /\ Len(channelList) \in Nat
         /\ actualIdx \in 0 .. Len(channelList) /\ actual \in Maybe(Channels)
         /\ actualArea \in Maybe(AreaNames) /\ actualColor \in Maybe(COLOR_NAMES)
         /\ layout \subseteq AreaNames /\ selectedArea \in Maybe(layout) /\ fill \in Fills
         /\ lit \subseteq Channels /\ rest \subseteq DeviceNumbers
         /\ mapped \in {"open", "broken", "away"}
         /\ failed \in BOOLEAN /\ uncertain \in BOOLEAN
         /\ clicks \in 0 .. MaxClicks /\ errors \in 0 .. MaxErrors
         /\ mapped = "open" /\ ~failed =>
              /\ Complete(channelList) /\ ShowsStored(channelList, channelMap)
              /\ actualIdx \in Positions /\ actual = ChannelOrder[actualIdx]
         /\ mapped = "broken" => failed
         /\ mapped = "open" /\ ~uncertain => rest = {} /\ LightsConnector(lit, actual)
         /\ mapped = "open" => OnlyColoured(fill, actualArea)
<1>1. /\ MappingTypeOK
      /\ channelMap \in [Channels -> Maybe(Mapping)]
      /\ channelList \in Seq(Entries) /\ Len(channelList) <= Len(ChannelOrder)
      /\ actualIdx \in 0 .. Len(channelList) /\ actual \in Maybe(Channels)
      /\ actualArea \in Maybe(AreaNames) /\ actualColor \in Maybe(COLOR_NAMES)
      /\ layout \subseteq AreaNames /\ selectedArea \in Maybe(layout) /\ fill \in Fills
      /\ lit \subseteq Channels /\ rest \subseteq DeviceNumbers
      /\ mapped \in {"open", "broken", "away"}
      /\ failed \in BOOLEAN /\ uncertain \in BOOLEAN
      /\ clicks \in 0 .. MaxClicks /\ errors \in 0 .. MaxErrors
  BY Zenon, MappingParts DEF MappingInv, MappingTypeOK
<1>2. /\ mapped = "open" /\ ~failed =>
           /\ Complete(channelList) /\ ShowsStored(channelList, channelMap)
           /\ actualIdx \in Positions /\ actual = ChannelOrder[actualIdx]
      /\ mapped = "broken" => failed
      /\ mapped = "open" /\ ~uncertain => rest = {} /\ LightsConnector(lit, actual)
      /\ mapped = "open" => OnlyColoured(fill, actualArea)
  BY Zenon, MappingParts DEF MappingInv, BrokenIsFailed, LightIsActual
<1>3. Len(channelList) \in Nat
  BY <1>1
<1> QED BY Zenon, <1>1, <1>2, <1>3

LEMMA MappingSelect == ASSUME MappingInv, Select PROVE MappingInv'
<1>1. PICK i \in 1 .. Len(channelList) : SelectChannel(i, channelList, actual, fill, selectedArea)
  BY DEF Select
<1>2. /\ UNCHANGED <<channelMap, channelList, layout, rest, mapped>>
      /\ clicks' \in 0 .. MaxClicks
  BY MappingOld, ActFacts DEF Select, Click
<1>3. /\ actualIdx' = i
      /\ actualArea' \in Maybe(AreaNames) /\ actualColor' \in Maybe(COLOR_NAMES)
      /\ fill' \in Fills /\ selectedArea' \in Maybe(layout)
      /\ OnlyColoured(fill, actualArea) => OnlyColoured(fill', actualArea')
      /\ actual' \in Maybe(Channels) /\ lit' \in SUBSET Channels
      /\ failed' \in BOOLEAN /\ uncertain' \in BOOLEAN /\ errors' \in 0 .. MaxErrors
      /\ ~failed' => ~failed /\ actual' = channelList[i].channel
      /\ ~uncertain' => ~uncertain
           /\ (LightsConnector(lit, actual) => LightsConnector(lit', actual'))
  BY Zenon, <1>1, MappingOld, SelectedFacts
<1>4. mapped' = "open" /\ ~failed' =>
        /\ Complete(channelList') /\ ShowsStored(channelList', channelMap')
        /\ actualIdx' \in Positions /\ actual' = ChannelOrder[actualIdx']
  BY <1>2, <1>3, MappingOld DEF Complete, Positions
<1> QED BY <1>2, <1>3, <1>4, MappingOld, MappingKeeps

LEMMA MappingAway == ASSUME MappingInv, Away PROVE MappingInv'
<1>1. /\ mapped' = "away" /\ layout' \in (SUBSET AreaNames) \ {{}}
      /\ fill' = [a \in AreaNames |-> "white"] /\ selectedArea' = None
      /\ lit' = {} /\ rest' = DeviceNumbers
      /\ UNCHANGED <<channelMap, channelList, actualIdx, actual, actualArea, actualColor,
                    clicks, errors, failed, uncertain>>
  BY DEF Away, sheet, chosen, history
<1>2. fill' \in Fills /\ selectedArea' \in Maybe(layout') /\ lit' \subseteq Channels
  BY <1>1 DEF Fills, Maybe
<1> QED BY <1>1, <1>2, MappingOld, MappingKeeps

\* What the steps on the mappings have in common.
LEMMA EditKeeps ==
  ASSUME MappingInv, Click,
         UNCHANGED <<actualIdx, actual, layout, lit, rest, mapped, errors, failed, uncertain>>,
         actualArea' \in Maybe(AreaNames), actualColor' \in Maybe(COLOR_NAMES),
         fill' \in Fills, selectedArea' \in Maybe(layout),
         OnlyColoured(fill, actualArea) => OnlyColoured(fill', actualArea'),
         channelMap' \in [Channels -> Maybe(Mapping)],
         channelList' \in Seq(Entries), Len(channelList') = Len(channelList),
         mapped = "open" /\ ~failed =>
           Complete(channelList') /\ ShowsStored(channelList', channelMap')
  PROVE  MappingInv'
<1>1. clicks' \in 0 .. MaxClicks
  BY MappingOld, ActFacts DEF Click
<1> QED BY <1>1, MappingOld, MappingKeeps

LEMMA StoreFacts ==
  ASSUME MappingInv, actualIdx # 0, actual # None, actualArea' \in Maybe(AreaNames),
         actualColor' \in Maybe(COLOR_NAMES), StoreActual
  PROVE  /\ channelMap' \in [Channels -> Maybe(Mapping)]
         /\ channelList' \in Seq(Entries) /\ Len(channelList') = Len(channelList)
         /\ mapped = "open" /\ ~failed =>
              Complete(channelList') /\ ShowsStored(channelList', channelMap')
         /\ \A ch \in Channels : ch # actual => channelMap'[ch] = channelMap[ch]
<1> DEFINE e == Entry(actual, actualArea', actualColor')
<1>1. actual \in Channels /\ actualIdx \in 1 .. Len(channelList)
  BY MappingOld DEF Maybe
<1>2. e \in Entries /\ e.channel = actual /\ e.area = actualArea' /\ e.color = actualColor'
  BY <1>1, EntryFacts
<1>3. /\ channelMap' \in [Channels -> Maybe(Mapping)]
      /\ \A c \in Channels : c # actual => channelMap'[c] = channelMap[c]
      /\ actualArea' # None /\ actualColor' # None =>
           channelMap'[actual] = [area |-> actualArea', color |-> actualColor']
  BY <1>1, MappingOld, StoredFacts DEF StoreActual
<1>4. channelList' = [channelList EXCEPT ![actualIdx] = e]
  BY DEF StoreActual
<1> HIDE DEF e
<1>5. /\ channelList' \in Seq(Entries) /\ Len(channelList') = Len(channelList)
      /\ Complete(channelList) /\ e.channel = ChannelOrder[actualIdx] => Complete(channelList')
      /\ Complete(channelList) /\ e.channel = ChannelOrder[actualIdx]
           /\ ShowsStored(channelList, channelMap) => ShowsStored(channelList', channelMap')
  BY <1>1, <1>2, <1>3, <1>4, MappingOld, ChangeOne
<1> QED BY <1>2, <1>3, <1>5, MappingOld

LEMMA MappingClickArea == ASSUME MappingInv, ClickArea PROVE MappingInv'
<1>1. /\ Click
      /\ UNCHANGED <<actualIdx, actual, layout, lit, rest, mapped, errors, failed, uncertain>>
  BY DEF ClickArea
<1>2. PICK a \in layout :
       IF actualIdx = 0
       THEN selectedArea' = a /\ UNCHANGED <<channelMap, channelList, chosen, fill>>
       ELSE /\ SelectArea(a, actualColor, fill, a)
            /\ IF Raises THEN UNCHANGED <<channelMap, channelList>> ELSE StoreActual
  BY DEF ClickArea
<1>3. a \in Maybe(AreaNames) /\ a \in Maybe(layout)
  BY MappingOld DEF Maybe
<1>4. CASE actualIdx = 0
  BY <1>1, <1>2, <1>3, <1>4, MappingOld, EditKeeps DEF chosen
<1>5. CASE actualIdx # 0
  <2>1. /\ actualArea' \in Maybe(AreaNames) /\ actualColor' \in Maybe(COLOR_NAMES)
        /\ fill' \in Fills /\ selectedArea' \in Maybe(layout)
        /\ OnlyColoured(fill, actualArea) => OnlyColoured(fill', actualArea')
    BY <1>2, <1>3, <1>5, MappingOld, AreaFacts
  <2>2. CASE Raises
    BY <1>1, <1>2, <1>5, <2>1, <2>2, MappingOld, EditKeeps
  <2>3. CASE ~Raises
    <3>1. StoreActual /\ actual # None
      BY <1>2, <1>5, <2>3 DEF Raises
    <3> QED BY <1>1, <1>5, <2>1, <3>1, StoreFacts, EditKeeps
  <2> QED BY <2>2, <2>3
<1> QED BY <1>4, <1>5

LEMMA MappingSetColor == ASSUME MappingInv, SetColor PROVE MappingInv'
<1>1. /\ Click /\ actualIdx # 0
      /\ UNCHANGED <<actualIdx, actual, layout, lit, rest, mapped, errors, failed, uncertain>>
      /\ IF Raises THEN UNCHANGED <<channelMap, channelList>> ELSE StoreActual
  BY DEF SetColor
<1>2. PICK color \in COLOR_NAMES : SelectArea(actualArea, color, fill, selectedArea)
  BY DEF SetColor
<1>3. color \in Maybe(COLOR_NAMES)
  BY DEF Maybe
<1>4. /\ actualArea' \in Maybe(AreaNames) /\ actualColor' \in Maybe(COLOR_NAMES)
      /\ fill' \in Fills /\ selectedArea' \in Maybe(layout)
      /\ OnlyColoured(fill, actualArea) => OnlyColoured(fill', actualArea')
  BY <1>2, <1>3, MappingOld, AreaFacts
<1>5. CASE Raises
  BY <1>1, <1>4, <1>5, MappingOld, EditKeeps
<1>6. CASE ~Raises
  <2>1. StoreActual /\ actual # None
    BY <1>1, <1>6 DEF Raises
  <2> QED BY <1>1, <1>4, <2>1, StoreFacts, EditKeeps
<1> QED BY <1>5, <1>6

LEMMA MappingDelete == ASSUME MappingInv, Delete PROVE MappingInv'
<1>1. /\ Click /\ actualIdx # 0 /\ actual # None
      /\ UNCHANGED <<actualIdx, actual, actualArea, actualColor, layout, selectedArea, fill,
                    lit, rest, mapped, errors, failed, uncertain>>
      /\ channelMap' = [channelMap EXCEPT ![actual] = None]
      /\ channelList' = [channelList EXCEPT ![actualIdx] = Entry(actual, None, None)]
  BY DEF Delete, Raises, chosen, screen, Deleted
<1>2. actual \in Channels /\ actualIdx \in 1 .. Len(channelList)
  BY <1>1, MappingOld DEF Maybe
<1> DEFINE e == Entry(actual, None, None)
<1>3. e \in Entries /\ e.channel = actual /\ e.area = None
  BY <1>2, EntryFacts DEF Maybe
<1> HIDE DEF e
<1>4. /\ channelMap' \in [Channels -> Maybe(Mapping)]
      /\ \A c \in Channels : c # actual => channelMap'[c] = channelMap[c]
  BY <1>1, MappingOld DEF Maybe
<1>5. channelList' = [channelList EXCEPT ![actualIdx] = e]
  BY <1>1 DEF e
<1>6. /\ channelList' \in Seq(Entries) /\ Len(channelList') = Len(channelList)
      /\ Complete(channelList) /\ e.channel = ChannelOrder[actualIdx] => Complete(channelList')
      /\ Complete(channelList) /\ e.channel = ChannelOrder[actualIdx]
           /\ ShowsStored(channelList, channelMap) => ShowsStored(channelList', channelMap')
  BY <1>2, <1>3, <1>4, <1>5, MappingOld, ChangeOne
<1>7. mapped = "open" /\ ~failed =>
        Complete(channelList') /\ ShowsStored(channelList', channelMap')
  BY <1>3, <1>6, MappingOld
<1> QED BY <1>1, <1>4, <1>6, <1>7, MappingOld, EditKeeps

LEMMA MappingOpen == ASSUME MappingInv, Open PROVE MappingInv'
<1> DEFINE first == ChannelOrder[1]
           n == Len(ChannelOrder)
<1>1. /\ mapped' = "open" /\ Act /\ channelList' = ListOf(n) /\ rest' = {} /\ actualIdx' = 1
      /\ UNCHANGED <<channelMap, layout>>
      /\ SelectArea(channelList'[1].area, channelList'[1].color, Black, None)
  BY DEF Open
<1>2. \/ /\ lit' = {first} /\ actual' = first /\ failed' = FALSE /\ uncertain' = FALSE
         /\ errors' = errors
      \/ /\ errors < MaxErrors /\ errors' = errors + 1 /\ failed' = TRUE /\ actual' = None
         /\ \/ lit' = {} /\ uncertain' = FALSE
            \/ lit' = {first} /\ uncertain' = TRUE
  BY DEF Open
<1>3. n \in Nat \ {0} /\ n \in Positions /\ 1 \in Positions /\ first \in Channels
  BY ChannelFacts
<1>4. clicks' \in 0 .. MaxClicks
  BY <1>1, MappingOld, ActFacts
<1> HIDE DEF n, first
<1>5. /\ channelList' \in Seq(Entries) /\ Len(channelList') = n
      /\ Complete(channelList') /\ ShowsStored(channelList', channelMap')
  BY <1>1, <1>3, MappingOld, ListOfFacts DEF n
<1>6. channelList'[1] \in Entries
  BY <1>3, <1>5
<1>7. channelList'[1].area \in Maybe(AreaNames) /\ channelList'[1].color \in Maybe(COLOR_NAMES)
  BY <1>6 DEF Entries
<1>8. Black \in Fills /\ None \in Maybe(layout) /\ OnlyColoured(Black, actualArea)
  BY MappingOld DEF Black, Fills, Maybe, OnlyColoured
<1>9. /\ actualArea' \in Maybe(AreaNames) /\ actualColor' \in Maybe(COLOR_NAMES)
      /\ fill' \in Fills /\ selectedArea' \in Maybe(layout)
      /\ OnlyColoured(fill', actualArea')
  BY <1>1, <1>7, <1>8, MappingOld, AreaFacts
<1>10. lit' \subseteq Channels /\ errors' \in 0 .. MaxErrors /\ actual' \in Maybe(Channels)
  BY <1>2, <1>3, MappingOld, MappingAssumption DEF Maybe
<1>11. failed' \in BOOLEAN /\ uncertain' \in BOOLEAN
  BY Zenon, <1>2
<1>12. ~failed' => actual' = ChannelOrder[1]
  BY <1>2 DEF first
<1>13. ~uncertain' => LightsConnector(lit', actual')
  BY <1>2, <1>3, ChannelFacts DEF LightsConnector
<1>14. actualIdx' \in 0 .. Len(channelList') /\ Len(channelList') <= Len(ChannelOrder)
  BY <1>1, <1>3, <1>5 DEF n
<1> QED BY <1>1, <1>3, <1>4, <1>5, <1>9, <1>10, <1>11, <1>12, <1>13, <1>14, MappingOld,
           MappingKeeps

LEMMA MappingOpenFails == ASSUME MappingInv, OpenFails PROVE MappingInv'
<1>1. /\ mapped' = "broken" /\ Act /\ errors < MaxErrors /\ errors' = errors + 1
      /\ failed' = TRUE /\ lit' = {} /\ uncertain' = TRUE /\ actualIdx' = 0
      /\ UNCHANGED <<channelMap, actual, actualArea, actualColor, layout, selectedArea, fill>>
  BY DEF OpenFails, chosen, screen
<1>2. PICK c \in DeviceNumbers :
        /\ channelList' = ListOf(LastOf(c))
        /\ rest' \subseteq rest
  BY DEF OpenFails
<1>3. LastOf(c) \in Positions
  BY LastFacts
<1>4. /\ channelList' \in Seq(Entries) /\ Len(channelList') <= Len(ChannelOrder)
      /\ actualIdx' \in 0 .. Len(channelList')
  BY <1>1, <1>2, <1>3, MappingOld, ListOfFacts, ChannelFacts
<1>5. clicks' \in 0 .. MaxClicks
  BY <1>1, MappingOld, ActFacts
<1>6. errors' \in 0 .. MaxErrors
  BY <1>1, MappingOld, MappingAssumption
<1> QED BY <1>1, <1>2, <1>4, <1>5, <1>6, MappingOld, MappingKeeps

\* The pins of the group: those of the connector that are in the list.
LEMMA GroupFacts ==
  ASSUME MappingInv, actual \in Channels
  PROVE  /\ Group \subseteq OfConnector(actual) /\ Group \subseteq Channels
         /\ LastPin \in Channels /\ LastPin \in OfConnector(actual)
         /\ mapped = "open" /\ ~failed =>
              /\ Group = OfConnector(actual)
              /\ \A i \in 1 .. Len(channelList) : InGroup(i) <=> channelList[i].channel \in Group
<1>1. Group \subseteq OfConnector(actual) /\ OfConnector(actual) \subseteq Channels
  BY ChannelFacts DEF Group
<1>2. LastPin \in OfConnector(actual)
  <2>1. CASE Group = {}
    BY <2>1, ChannelFacts DEF LastPin
  <2>2. CASE Group # {}
    <3>1. \A ch \in Group : ch[3] \in 1 .. 3
      BY <1>1, ChannelFacts
    <3>2. \E ch \in Group : \A c \in Group : c[3] <= ch[3]
      <4>1. CASE \E ch \in Group : ch[3] = 3
        BY <3>1, <4>1
      <4>2. CASE (\A ch \in Group : ch[3] # 3) /\ (\E ch \in Group : ch[3] = 2)
        BY <3>1, <4>2
      <4>3. CASE \A ch \in Group : ch[3] # 3 /\ ch[3] # 2
        BY <2>2, <3>1, <4>3
      <4> QED BY <4>1, <4>2, <4>3
    <3>3. LastPin \in Group
      BY <2>2, <3>2 DEF LastPin
    <3> QED BY <1>1, <3>3
  <2> QED BY <2>1, <2>2
<1>3. ASSUME mapped = "open", ~failed
      PROVE  /\ Group = OfConnector(actual)
             /\ \A i \in 1 .. Len(channelList) : InGroup(i) <=> channelList[i].channel \in Group
  <2>1. Complete(channelList)
    BY <1>3, MappingOld
  <2>2. \A i \in 1 .. Len(channelList) :
          i \in Positions /\ channelList[i].channel = ChannelOrder[i]
    BY <2>1 DEF Complete, Positions
  <2>3. ASSUME NEW i \in 1 .. Len(channelList), NEW ch
        PROVE  i \in FirstOf(ch) <=> channelList[i].channel = ch
    <3>1. \A j \in 1 .. i - 1 : j \in 1 .. Len(channelList) /\ j # i
      OBVIOUS
    <3>2. \A j \in 1 .. i - 1 : channelList[j].channel # channelList[i].channel
      BY <2>2, <3>1, MappingAssumption
    <3> QED BY <3>2 DEF FirstOf
  <2>4. \A ch \in Channels : \E i \in 1 .. Len(channelList) : channelList[i].channel = ch
    BY <2>1 DEF Complete, Channels, Positions
  <2>5. Group = OfConnector(actual)
    BY <1>1, <2>3, <2>4 DEF Group
  <2> QED BY <2>3, <2>5 DEF InGroup
<1> QED BY <1>1, <1>2, <1>3

LEMMA MappingSetGroupColor ==
  ASSUME MappingInv, SetGroupColor
  PROVE  MappingInv'
<1>1. /\ Click /\ actualIdx # 0 /\ actual # None
      /\ SelectChannel(actualIdx, channelList', LastPin, fill, selectedArea)
      /\ UNCHANGED <<layout, rest, mapped>>
  BY DEF SetGroupColor, Raises
<1>2. PICK colors \in [1 .. 3 -> COLOR_NAMES] :
        /\ channelList' =
             [i \in 1 .. Len(channelList) |->
                LET ch == channelList[i].channel
                IN  IF InGroup(i) THEN Entry(ch, actualArea, colors[ch[3]]) ELSE channelList[i]]
        /\ channelMap' =
             [ch \in Channels |->
                IF ch \in Group /\ actualArea # None
                THEN [area |-> actualArea, color |-> colors[ch[3]]]
                ELSE channelMap[ch]]
  BY DEF SetGroupColor
<1>3. actual \in Channels /\ actualIdx \in 1 .. Len(channelList)
  BY <1>1, MappingOld DEF Maybe
<1>4. /\ Group \subseteq Channels
      /\ LastPin \in Channels /\ LastPin \in OfConnector(actual)
      /\ mapped = "open" /\ ~failed =>
           \A i \in 1 .. Len(channelList) : InGroup(i) <=> channelList[i].channel \in Group
  BY <1>3, GroupFacts
<1>5. \A ch \in Channels : colors[ch[3]] \in COLOR_NAMES /\ colors[ch[3]] \in Maybe(COLOR_NAMES)
  BY <1>2, ChannelFacts DEF Maybe
<1>6. None \notin COLOR_NAMES
  BY MappingAssumption
<1>7. channelMap' \in [Channels -> Maybe(Mapping)]
  <2>1. ASSUME NEW ch \in Channels, actualArea # None
        PROVE  [area |-> actualArea, color |-> colors[ch[3]]] \in Maybe(Mapping)
    BY <1>5, <2>1, MappingOld DEF Maybe, Mapping
  <2> QED BY <1>2, <2>1, MappingOld
<1>8. ASSUME NEW i \in 1 .. Len(channelList)
      PROVE  /\ channelList'[i] \in Entries /\ channelList'[i].channel = channelList[i].channel
             /\ InGroup(i) =>
                  /\ channelList'[i].area = actualArea
                  /\ channelList'[i].color = colors[channelList[i].channel[3]]
             /\ ~InGroup(i) => channelList'[i] = channelList[i]
  <2>1. channelList[i] \in Entries
    BY MappingOld
  <2>2. channelList[i].channel \in Channels
    BY <2>1 DEF Entries
  <2>3. InGroup(i) => channelList'[i] = Entry(channelList[i].channel, actualArea,
                                              colors[channelList[i].channel[3]])
    BY <1>2
  <2>4. ~InGroup(i) => channelList'[i] = channelList[i]
    BY <1>2
  <2> QED BY <1>5, <2>1, <2>2, <2>3, <2>4, MappingOld, EntryFacts
<1>9. channelList' \in Seq(Entries) /\ Len(channelList') = Len(channelList)
  <2>1. channelList' \in [1 .. Len(channelList) -> Entries]
    BY <1>2, <1>8
  <2> QED BY <2>1, MappingOld
<1>10. ASSUME mapped = "open", ~failed
       PROVE  Complete(channelList') /\ ShowsStored(channelList', channelMap')
  <2>1. Complete(channelList) /\ ShowsStored(channelList, channelMap)
    BY <1>10, MappingOld
  <2>2. Complete(channelList')
    BY <1>8, <1>9, <2>1 DEF Complete, Positions
  <2>3. ASSUME NEW i \in 1 .. Len(channelList),
               channelList'[i].area # None, channelList'[i].color # None
        PROVE  channelMap'[channelList'[i].channel] =
                 [area |-> channelList'[i].area, color |-> channelList'[i].color]
    <3>1. channelList[i].channel \in Channels
      <4>1. channelList[i] \in Entries
        BY MappingOld
      <4> QED BY <4>1 DEF Entries
    <3>2. CASE InGroup(i)
      <4>1. channelList[i].channel \in Group
        BY <1>4, <1>10, <3>2
      <4>2. channelList'[i].channel = channelList[i].channel /\ channelList'[i].area = actualArea
            /\ channelList'[i].color = colors[channelList[i].channel[3]]
        BY <1>8, <3>2
      <4>3. channelMap'[channelList[i].channel] =
              [area |-> actualArea, color |-> colors[channelList[i].channel[3]]]
        BY <1>2, <2>3, <3>1, <4>1, <4>2
      <4> QED BY <4>2, <4>3
    <3>3. CASE ~InGroup(i)
      <4>1. channelList[i].channel \notin Group
        BY <1>4, <1>10, <3>3
      <4>2. channelMap'[channelList[i].channel] = channelMap[channelList[i].channel]
        BY <1>2, <3>1, <4>1
      <4>3. channelList'[i] = channelList[i]
        BY <1>8, <3>3
      <4> QED BY <2>1, <2>3, <4>2, <4>3 DEF ShowsStored
    <3> QED BY <3>2, <3>3
  <2> QED BY <1>9, <2>2, <2>3 DEF ShowsStored
<1>11. /\ actualIdx' = actualIdx
       /\ actualArea' \in Maybe(AreaNames) /\ actualColor' \in Maybe(COLOR_NAMES)
       /\ fill' \in Fills /\ selectedArea' \in Maybe(layout)
       /\ OnlyColoured(fill, actualArea) => OnlyColoured(fill', actualArea')
       /\ actual' \in Maybe(Channels) /\ lit' \in SUBSET Channels
       /\ failed' \in BOOLEAN /\ uncertain' \in BOOLEAN /\ errors' \in 0 .. MaxErrors
       /\ ~failed' => ~failed /\ actual' = channelList'[actualIdx].channel
       /\ ~uncertain' => ~uncertain
            /\ (LightsConnector(lit, LastPin) => LightsConnector(lit', actual'))
  <2>1. LastPin \in Maybe(Channels) /\ actualIdx \in 1 .. Len(channelList')
    BY <1>3, <1>4, <1>9 DEF Maybe
  <2> QED BY Zenon, <1>1, <1>9, <2>1, MappingOld, SelectedFacts
<1>12. LightsConnector(lit, actual) => LightsConnector(lit, LastPin)
  BY <1>3, <1>4, ChannelFacts DEF LightsConnector
<1>13. clicks' \in 0 .. MaxClicks
  BY <1>1, MappingOld, ActFacts DEF Click
<1>14. mapped' = "open" /\ ~failed' =>
         /\ Complete(channelList') /\ ShowsStored(channelList', channelMap')
         /\ actualIdx' \in Positions /\ actual' = ChannelOrder[actualIdx']
  BY <1>1, <1>3, <1>9, <1>10, <1>11 DEF Complete, Positions
<1>15. mapped' = "open" /\ ~uncertain' => rest' = {} /\ LightsConnector(lit', actual')
  BY <1>1, <1>11, <1>12, MappingOld
<1>16. mapped' = "broken" => failed'
  BY <1>1, <1>11, MappingOld
<1> QED BY <1>1, <1>3, <1>7, <1>9, <1>11, <1>13, <1>14, <1>15, <1>16, MappingOld, MappingKeeps

LEMMA MappingStutters == ASSUME MappingInv, UNCHANGED mappingVars PROVE MappingInv'
BY Zenon DEF MappingInv, MappingTypeOK, ListIsComplete, BrokenIsFailed, LightIsActual,
             ListedIsMapped, OneAreaColoured, mappingVars, sheet, chosen, screen, history,
             LightsConnector

LEMMA MappingStep == MappingInv /\ [MappingNext]_mappingVars => MappingInv'
BY Zenon, MappingOpen, MappingOpenFails, MappingAway, MappingSelect, MappingClickArea,
   MappingSetColor, MappingDelete, MappingSetGroupColor, MappingStutters DEF MappingNext

LEMMA MappingAlways == MappingSpec => []MappingInv
BY MappingInitial, MappingStep, PTL DEF MappingSpec

\* The variables of the sheet have their types (Ctrl2MapDlg, map_dlg.py:60-257).
THEOREM MappingType == MappingSpec => []MappingTypeOK
<1>1. MappingInv => MappingTypeOK
  BY DEF MappingInv
<1> QED BY <1>1, MappingAlways, PTL

\* A mapping changes only at a channel of the connector that is switched on.
LEMMA ChangeIsLit ==
  ASSUME MappingInv, MappingNext, mapped = "open", ~uncertain,
         NEW ch \in Channels, channelMap'[ch] # channelMap[ch]
  PROVE  lit \subseteq OfConnector(ch) /\ rest = {}
<1>1. ~ (Open \/ OpenFails \/ Away \/ Select)
  BY DEF Open, OpenFails, Away, Select
<1>2. actual # None /\ ch \in OfConnector(actual)
  <2>1. CASE ClickArea
    <3>1. PICK a \in layout :
            IF actualIdx = 0
            THEN selectedArea' = a /\ UNCHANGED <<channelMap, channelList, chosen, fill>>
            ELSE /\ SelectArea(a, actualColor, fill, a)
                 /\ IF Raises THEN UNCHANGED <<channelMap, channelList>> ELSE StoreActual
      BY <2>1 DEF ClickArea
    <3>2. actualIdx # 0 /\ actual # None /\ StoreActual /\ SelectArea(a, actualColor, fill, a)
      BY <3>1 DEF Raises
    <3>3. a \in Maybe(AreaNames) /\ a \in Maybe(layout)
      BY MappingOld DEF Maybe
    <3>4. actualArea' \in Maybe(AreaNames) /\ actualColor' \in Maybe(COLOR_NAMES)
      BY <3>2, <3>3, MappingOld, AreaFacts
    <3>5. ch = actual
      BY <3>2, <3>4, StoreFacts
    <3> QED BY <3>2, <3>5, ChannelFacts
  <2>2. CASE SetColor
    <3>1. PICK color \in COLOR_NAMES : SelectArea(actualArea, color, fill, selectedArea)
      BY <2>2 DEF SetColor
    <3>2. actualIdx # 0 /\ actual # None /\ StoreActual
      BY <2>2 DEF SetColor, Raises
    <3>3. color \in Maybe(COLOR_NAMES)
      BY DEF Maybe
    <3>4. actualArea' \in Maybe(AreaNames) /\ actualColor' \in Maybe(COLOR_NAMES)
      BY <3>1, <3>3, MappingOld, AreaFacts
    <3>5. ch = actual
      BY <3>2, <3>4, StoreFacts
    <3> QED BY <3>2, <3>5, ChannelFacts
  <2>3. CASE Delete
    <3>1. actual # None /\ channelMap' = [channelMap EXCEPT ![actual] = None]
      BY <2>3 DEF Delete, Raises
    <3>2. ch = actual
      BY <3>1, MappingOld
    <3> QED BY <3>1, <3>2, ChannelFacts
  <2>4. CASE SetGroupColor
    <3>1. actual # None /\ actual \in Channels
      BY <2>4, MappingOld DEF SetGroupColor, Raises, Maybe
    <3>2. ch \in Group
      BY <2>4 DEF SetGroupColor
    <3> QED BY <3>1, <3>2, GroupFacts
  <2> QED BY <1>1, <2>1, <2>2, <2>3, <2>4 DEF MappingNext
<1>3. rest = {} /\ lit \subseteq OfConnector(actual) /\ actual \in Channels
  BY <1>2, MappingOld DEF LightsConnector, Maybe
<1> QED BY <1>2, <1>3, ChannelFacts

\* The channels of a group have one area and different colours.
LEMMA GroupIsLight ==
  ASSUME MappingInv, mapped = "open", ~failed, SetGroupColor, actualArea # None,
         NEW c \in OfConnector(actual), NEW d \in OfConnector(actual), c # d
  PROVE  /\ channelMap'[c] # None /\ channelMap'[d] # None
         /\ channelMap'[c].area = channelMap'[d].area
         /\ channelMap'[c].color # channelMap'[d].color
<1>1. PICK colors \in [1 .. 3 -> COLOR_NAMES] :
        /\ \A p, q \in 1 .. 3 : colors[p] = colors[q] => p = q
        /\ channelMap' =
             [ch \in Channels |->
                IF ch \in Group /\ actualArea # None
                THEN [area |-> actualArea, color |-> colors[ch[3]]]
                ELSE channelMap[ch]]
  BY DEF SetGroupColor
<1>2. actual \in Channels
  BY MappingOld DEF SetGroupColor, Raises, Maybe
<1>3. Group = OfConnector(actual) /\ Group \subseteq Channels
  BY <1>2, GroupFacts
<1>4. c \in Channels /\ d \in Channels /\ c[3] \in 1 .. 3 /\ d[3] \in 1 .. 3 /\ c[3] # d[3]
  <2>1. c \in Channels /\ d \in Channels /\ OfConnector(c) = OfConnector(actual)
    BY <1>2, <1>3, ChannelFacts
  <2> QED BY <2>1, ChannelFacts
<1>5. /\ channelMap'[c] = [area |-> actualArea, color |-> colors[c[3]]]
      /\ channelMap'[d] = [area |-> actualArea, color |-> colors[d[3]]]
  BY <1>1, <1>3, <1>4
<1>6. channelMap'[c] \in Mapping /\ channelMap'[d] \in Mapping
  BY <1>1, <1>4, <1>5, MappingOld DEF Maybe, Mapping
<1> QED BY <1>1, <1>4, <1>5, <1>6, MappingAssumption

\* The sheet shows what is stored, colours one area, changes a channel that is lit and makes
\* a group one light, also when requests fail (selectChannel, storeActual and
\* cbSetGroupColor, map_dlg.py).
THEOREM MappingStaysSound == MappingSpec => MappingIsSound
<1>1. MappingInv => ListedIsMapped /\ OneAreaColoured
  BY DEF MappingInv
<1>2. MappingInv /\ [MappingNext]_mappingVars =>
        [mapped = "open" /\ ~uncertain =>
           \A ch \in Channels : channelMap'[ch] # channelMap[ch] =>
             lit \subseteq OfConnector(ch) /\ rest = {}]_mappingVars
  BY Zenon, ChangeIsLit
<1>3. MappingInv /\ [MappingNext]_mappingVars =>
        [~failed /\ SetGroupColor /\ actualArea # None =>
           \A c, d \in OfConnector(actual) :
             c # d => /\ channelMap'[c] # None /\ channelMap'[d] # None
                      /\ channelMap'[c].area = channelMap'[d].area
                      /\ channelMap'[c].color # channelMap'[d].color]_mappingVars
  <2>1. ASSUME MappingInv, SetGroupColor, ~failed
        PROVE  mapped = "open"
    BY <2>1, MappingOld DEF SetGroupColor, Click
  <2> QED BY Zenon, <2>1, GroupIsLight
<1> QED BY <1>1, <1>2, <1>3, MappingAlways, PTL
           DEF MappingSpec, MappingIsSound, ChangedIsLit, GroupIsOneLight

(***************************************************************************)
(* The calibration                                                         *)
(***************************************************************************)

Fractions == Nat \X (Nat \ {0})
Cals == [gamma : Tenths, white : Nat]

\* All channels are loaded, and the scales belong to the area that is outlined.
LoadedOnWhite == calSheet = "white" => loaded = Places
OutlinedIsChosen ==
  calSheet = "white" /\ (\E i \in Places : MappedChannels[i].area = outlined) =>
    ~varSelectAll /\ outlined = whiteArea

CalibrationInv ==
  /\ CalibrationTypeOK /\ LoadedOnWhite /\ OutlinedIsChosen
  /\ ShownIsStored /\ CommonIsCommon

LEMMA PlaceFacts ==
  /\ Len(MappedChannels) \in Nat /\ Len(MappedChannels) \in Places
  /\ Places = 1 .. Len(MappedChannels)
  /\ \A i \in Places : /\ MappedChannels[i].ctrl \in Ctrls /\ MappedChannels[i].color \in Colors
                       /\ MappedChannels[i].area \in ScreenAreas
                       /\ MappedChannels[i].area # Nothing
                       /\ pwmRes[MappedChannels[i].ctrl] \in Nat \ {0}
<1>1. Len(MappedChannels) \in Nat \ {0} /\ Places = 1 .. Len(MappedChannels)
  BY CalibrationAssumption DEF Places
<1>2. Len(MappedChannels) \in Places
  BY <1>1
<1>3. ASSUME NEW i \in Places
      PROVE  /\ MappedChannels[i].ctrl \in Ctrls /\ MappedChannels[i].color \in Colors
             /\ MappedChannels[i].area \in ScreenAreas /\ MappedChannels[i].area # Nothing
             /\ pwmRes[MappedChannels[i].ctrl] \in Nat \ {0}
  <2>1. MappedChannels[i].ctrl \in Ctrls /\ MappedChannels[i].color \in Colors
    BY DEF Ctrls, Colors
  <2> QED BY <2>1, CalibrationAssumption
<1> QED BY <1>1, <1>2, <1>3

\* A quotient is at most m if m + 1 times the divisor exceeds the dividend.
LEMMA QuotientFacts ==
  ASSUME NEW x \in Nat, NEW d \in Nat \ {0}
  PROVE  /\ x \div d \in Nat
         /\ \A m \in Nat : x < d * (m + 1) => x \div d <= m
         /\ x > 0 /\ x % d = 0 => x \div d >= 1
<1> DEFINE q == x \div d
<1>1. q \in Nat /\ d * q <= x /\ x < d * q + d /\ x % d = x - d * q
  OBVIOUS
<1> HIDE DEF q
<1>2. ASSUME NEW m \in Nat, x < d * (m + 1) PROVE q <= m
  <2>1. \A u, v, w \in Nat : u <= v => w * u <= w * v
    OBVIOUS
  <2>2. q >= m + 1 => d * (m + 1) <= d * q
    BY <1>1, <2>1
  <2>3. d * (m + 1) \in Nat /\ d * q \in Nat
    BY <1>1
  <2> QED BY <1>1, <1>2, <2>2, <2>3
<1>3. ASSUME x > 0, x % d = 0 PROVE q >= 1
  <2>1. d * 0 = 0
    OBVIOUS
  <2> QED BY <1>1, <1>3, <2>1
<1> QED BY <1>1, <1>2, <1>3 DEF q

\* int(varWhiteCal * pwmRes) stays within the resolution, also when it is one too small.
LEMMA ScaledFacts ==
  ASSUME NEW v \in Fractions, v[1] <= v[2], NEW res \in Nat \ {0}, NEW short,
         <<v, res>> \in short => Exact(v, res)
  PROVE  Scaled(v, res, short) \in Nat /\ Scaled(v, res, short) <= res
<1>1. v[1] \in Nat /\ v[2] \in Nat \ {0}
  BY DEF Fractions
<1>2. v[1] * res \in Nat /\ v[1] * res < v[2] * (res + 1)
  <2>1. \A a, b, c \in Nat : a <= b => a * c <= b * c
    OBVIOUS
  <2>2. v[1] * res <= v[2] * res /\ v[1] * res \in Nat /\ v[2] * res \in Nat
    BY <1>1, <2>1
  <2>3. v[2] * (res + 1) = v[2] * res + v[2]
    BY <1>1
  <2> QED BY <1>1, <2>2, <2>3
<1>3. Product(v, res) \in Nat /\ Product(v, res) <= res
  BY <1>1, <1>2, QuotientFacts DEF Product
<1>4. Exact(v, res) => Product(v, res) >= 1
  <2>1. v[1] > 0 => v[1] * res > 0
    BY <1>1
  <2> QED BY <1>1, <1>2, <2>1, QuotientFacts DEF Exact, Product
<1> QED BY <1>3, <1>4 DEF Scaled

\* A scale that rounds to hundredths stays between 0 and 1.
LEMMA KeptFacts ==
  ASSUME NEW v \in Fractions, v[1] <= v[2], NEW rounds \in BOOLEAN
  PROVE  Kept(v, rounds) \in Fractions /\ Kept(v, rounds)[1] <= Kept(v, rounds)[2]
<1>1. v[1] \in Nat /\ v[2] \in Nat \ {0} /\ 2 * v[2] \in Nat \ {0}
  BY DEF Fractions
<1>2. 200 * v[1] + v[2] \in Nat /\ 200 * v[1] + v[2] < (2 * v[2]) * (100 + 1)
  BY <1>1
<1>3. /\ (200 * v[1] + v[2]) \div (2 * v[2]) \in Nat
      /\ (200 * v[1] + v[2]) \div (2 * v[2]) <= 100
  BY <1>1, <1>2, QuotientFacts
<1> QED BY <1>1, <1>3 DEF Kept, Fractions

\* Storing a gamma value keeps its whole tenths; only one that was typed has more.
LEMMA TruncatedFacts ==
  \A g \in Int :
    /\ GammaVal(g) \in Int /\ WholeTenths(g, GammaVal(g))
    /\ g % 10 = 0 => g = 10 * GammaVal(g) /\ GammaVal(g) = g \div 10
<1> SUFFICES ASSUME NEW g \in Int
             PROVE  /\ GammaVal(g) \in Int /\ WholeTenths(g, GammaVal(g))
                    /\ g % 10 = 0 => g = 10 * GammaVal(g) /\ GammaVal(g) = g \div 10
  OBVIOUS
<1>1. CASE g >= 0
  BY <1>1 DEF GammaVal, WholeTenths
<1>2. CASE g < 0
  <2>1. -g \in Nat /\ GammaVal(g) = -((-g) \div 10)
    BY <1>2 DEF GammaVal
  <2>2. (-g) \div 10 \in Nat /\ 10 * ((-g) \div 10) \in (-g - 9) .. (-g)
    BY <2>1
  <2>3. g % 10 = 0 => (-g) \div 10 = -(g \div 10) /\ g = 10 * (g \div 10)
    BY <1>2
  <2> QED BY <1>2, <2>1, <2>2, <2>3 DEF WholeTenths
<1> QED BY <1>1, <1>2

LEMMA GammaFacts ==
  /\ \A g \in GammaVals \ {NoNumber} :
        /\ GammaVal(g) \in Tenths /\ WholeTenths(g, GammaVal(g))
        /\ g = 10 * GammaVal(g) \/ g \in Typed
  /\ \A c \in Tenths : 10 * c \in GammaVals /\ WholeTenths(10 * c, c)
  /\ DEFAULT_GAMMA_VAL \in Tenths /\ 10 * MIN_GAMMA_VAL \in GammaVals
  /\ Typed \subseteq GammaVals /\ \A g \in Gammas : 10 * g \in GammaVals
<1>1. /\ Gammas \subseteq Int /\ Typed \subseteq Int \cup {NoNumber} /\ NoNumber \notin Int
      /\ MIN_GAMMA_VAL \in Int /\ DEFAULT_GAMMA_VAL \in Int
  BY CalibrationAssumption DEF MIN_GAMMA_VAL, DEFAULT_GAMMA_VAL, MAX_GAMMA_VAL
<1> HIDE DEF MIN_GAMMA_VAL, DEFAULT_GAMMA_VAL
<1>2. ASSUME NEW c \in Int PROVE WholeTenths(10 * c, c) /\ (10 * c) % 10 = 0 /\ (10 * c) \div 10 = c
  BY DEF WholeTenths
<1>3. ASSUME NEW g \in GammaVals \ {NoNumber}
      PROVE  /\ g \in Int /\ GammaVal(g) \in Tenths /\ WholeTenths(g, GammaVal(g))
             /\ g = 10 * GammaVal(g) \/ g \in Typed
  <2>1. CASE g \in Entered
    <3>1. g \in Int /\ (g \in Typed \/ g % 10 = 0)
      BY <1>1, <1>2, <2>1 DEF Entered
    <3>2. /\ GammaVal(g) \in Int /\ WholeTenths(g, GammaVal(g))
          /\ g = 10 * GammaVal(g) \/ g \in Typed
      BY <3>1, TruncatedFacts
    <3>3. GammaVal(g) \in Tenths
      BY <2>1, <3>2 DEF Tenths
    <3> QED BY <3>1, <3>2, <3>3
  <2>2. CASE g \in Int /\ g % 10 = 0 /\ g \div 10 \in Tenths
    BY <2>2, TruncatedFacts
  <2> QED BY <2>1, <2>2 DEF GammaVals
<1>4. ASSUME NEW c \in Tenths PROVE 10 * c \in GammaVals /\ WholeTenths(10 * c, c)
  <2>1. c \in Int
    BY DEF Tenths
  <2>2. 10 * c \in Int /\ (10 * c) % 10 = 0 /\ (10 * c) \div 10 = c /\ WholeTenths(10 * c, c)
    BY <1>2, <2>1
  <2> QED BY <2>2 DEF GammaVals
<1>5. /\ 10 * MIN_GAMMA_VAL \in GammaVals /\ Typed \subseteq GammaVals
      /\ \A g \in Gammas : 10 * g \in GammaVals
  BY DEF GammaVals, Entered
<1>6. DEFAULT_GAMMA_VAL \in Tenths
  <2>1. 10 * DEFAULT_GAMMA_VAL \in Entered \ {NoNumber}
    BY <1>1 DEF Entered
  <2> QED BY <1>1, <1>2, <2>1 DEF Tenths
<1> QED BY <1>3, <1>4, <1>5, <1>6

\* int(round(varBright * commonPWMRes)).
LEMMA CommonBrightFacts ==
  ASSUME NEW v \in Fractions, v[1] <= v[2]
  PROVE  CommonBright(v) \in 0 .. commonPWMRes
<1>1. v[1] \in Nat /\ v[2] \in Nat \ {0} /\ 2 * v[2] \in Nat \ {0}
  BY DEF Fractions
<1>2. /\ 2 * v[1] * commonPWMRes + v[2] \in Nat
      /\ 2 * v[1] * commonPWMRes + v[2] < (2 * v[2]) * (255 + 1)
  BY <1>1 DEF commonPWMRes
<1>3. CommonBright(v) \in Nat /\ CommonBright(v) <= 255
  BY <1>1, <1>2, QuotientFacts DEF CommonBright
<1> QED BY <1>3 DEF commonPWMRes

\* selectArea: the scales show a channel of the area.
LEMMA ScalesFacts ==
  ASSUME CalibrationTypeOK, NEW area, NEW S \in SUBSET Places, selectArea(area, S)
  PROVE  /\ varSelectAll' = FALSE /\ whiteArea' = area
         /\ varGamma' \in [Colors -> GammaVals]
         /\ varWhite' \in [Colors -> Fractions]
         /\ \A c \in Colors : varWhite'[c][1] <= varWhite'[c][2]
<1>1. ASSUME NEW c \in Colors, HasColor(area, c, S)
      PROVE  LastInArea(area, c, S) \in Places
  <2> DEFINE T == {i \in S : MappedChannels[i].area = area /\ MappedChannels[i].color = c}
  <2>1. T # {} /\ T \in SUBSET (1 .. Len(MappedChannels))
    BY <1>1, PlaceFacts DEF HasColor
  <2>2. PICK x \in T : \A y \in T : y <= x
    <3> HIDE DEF T
    <3> QED BY <2>1, PlaceFacts, LargestOf
  <2>3. \E i \in S : /\ MappedChannels[i].area = area /\ MappedChannels[i].color = c
                     /\ \A j \in S : MappedChannels[j].area = area /\ MappedChannels[j].color = c
                                       => j <= i
    BY <2>2
  <2> QED BY <2>3 DEF LastInArea
<1>2. \A i \in Places : 10 * cal[i].gamma \in GammaVals /\ cal[i].white \in Nat
                        /\ cal[i].white <= pwmRes[MappedChannels[i].ctrl]
  BY GammaFacts DEF CalibrationTypeOK
<1>3. varGamma' \in [Colors -> GammaVals]
  BY <1>1, <1>2 DEF selectArea, CalibrationTypeOK
<1>4. PICK rounds \in BOOLEAN :
       varWhite' = [c \in Colors |->
         IF HasColor(area, c, S)
         THEN LET i == LastInArea(area, c, S)
              IN  Kept(<<cal[i].white, pwmRes[MappedChannels[i].ctrl]>>, rounds)
         ELSE varWhite[c]]
  BY DEF selectArea
<1>5. ASSUME NEW i \in Places
      PROVE  LET k == Kept(<<cal[i].white, pwmRes[MappedChannels[i].ctrl]>>, rounds)
             IN  k \in Fractions /\ k[1] <= k[2]
  <2> DEFINE v == <<cal[i].white, pwmRes[MappedChannels[i].ctrl]>>
  <2>1. v \in Fractions /\ v[1] <= v[2]
    BY <1>2, PlaceFacts DEF Fractions
  <2> HIDE DEF v
  <2>2. Kept(v, rounds) \in Fractions /\ Kept(v, rounds)[1] <= Kept(v, rounds)[2]
    BY <2>1, KeptFacts
  <2> QED BY <2>2 DEF v
<1>6. \A c \in Colors : varWhite[c] \in Fractions /\ varWhite[c][1] <= varWhite[c][2]
  BY DEF CalibrationTypeOK, Fractions
<1>7. ASSUME NEW c \in Colors
      PROVE  varWhite'[c] \in Fractions /\ varWhite'[c][1] <= varWhite'[c][2]
  <2>1. CASE HasColor(area, c, S)
    <3> DEFINE i == LastInArea(area, c, S)
    <3>1. i \in Places
      BY <1>1, <2>1
    <3>2. varWhite'[c] = Kept(<<cal[i].white, pwmRes[MappedChannels[i].ctrl]>>, rounds)
      BY <1>4, <2>1
    <3> HIDE DEF i
    <3> QED BY <1>5, <3>1, <3>2
  <2>2. CASE ~HasColor(area, c, S)
    <3>1. varWhite'[c] = varWhite[c]
      BY <1>4, <2>2
    <3> QED BY <1>6, <3>1
  <2> QED BY <2>1, <2>2
<1>8. varWhite' \in [Colors -> Fractions]
  BY <1>4, <1>7
<1> QED BY <1>3, <1>7, <1>8 DEF selectArea

\* update stores channels of the selected area, or all of them, from the scales.
LEMMA StoreKeeps ==
  ASSUME CalibrationTypeOK, varGamma' \in [Colors -> GammaVals],
         varWhite' \in [Colors -> Fractions],
         \A c \in Colors : varWhite'[c][1] <= varWhite'[c][2],
         NEW S \in SUBSET Places, \A i \in S : ~Unreadable(i), Store(S)
  PROVE  /\ cal' \in [Places -> Cals]
         /\ \A i \in Places : cal'[i].white <= pwmRes[MappedChannels[i].ctrl]
         /\ \A i \in Places : cal'[i] # cal[i] => Changes(i, varSelectAll', whiteArea')
         /\ \A i \in S : InList(i) /\ Changes(i, varSelectAll', whiteArea') =>
              /\ varGamma'[MappedChannels[i].color] \in GammaVals \ {NoNumber}
              /\ cal'[i].gamma = GammaVal(varGamma'[MappedChannels[i].color])
         /\ S = Places /\ loaded' = Places /\ Alike(cal) => Alike(cal')
<1> DEFINE stored == {i \in S : InList(i) /\ Changes(i, varSelectAll', whiteArea')}
           used == {<<varWhite'[MappedChannels[i].color], pwmRes[MappedChannels[i].ctrl]>> :
                    i \in stored}
           white(i, short) == Scaled(varWhite'[MappedChannels[i].color],
                                     pwmRes[MappedChannels[i].ctrl], short)
           gamma(i) == GammaVal(varGamma'[MappedChannels[i].color])
<1>1. PICK short \in SUBSET {u \in used : Exact(u[1], u[2])} :
        cal' = [i \in Places |->
                  IF i \in stored THEN [gamma |-> gamma(i), white |-> white(i, short)]
                  ELSE cal[i]]
  BY Zenon DEF Store
<1>2. ASSUME NEW i \in stored
      PROVE  /\ varGamma'[MappedChannels[i].color] \in GammaVals \ {NoNumber}
             /\ gamma(i) \in Tenths /\ white(i, short) \in Nat
             /\ white(i, short) <= pwmRes[MappedChannels[i].ctrl]
  <2>1. varGamma'[MappedChannels[i].color] \in GammaVals \ {NoNumber}
    BY PlaceFacts DEF Unreadable
  <2>2. gamma(i) \in Tenths
    BY <2>1, GammaFacts
  <2> DEFINE v == varWhite'[MappedChannels[i].color]
             res == pwmRes[MappedChannels[i].ctrl]
  <2>3. v \in Fractions /\ v[1] <= v[2] /\ res \in Nat \ {0}
    BY PlaceFacts
  <2>4. <<v, res>> \in short => Exact(v, res)
    <3>1. \A u \in short : Exact(u[1], u[2])
      BY <1>1
    <3> HIDE DEF v, res
    <3> QED BY <3>1
  <2> HIDE DEF v, res
  <2>5. Scaled(v, res, short) \in Nat /\ Scaled(v, res, short) <= res
    BY <2>3, <2>4, ScaledFacts
  <2> QED BY <2>1, <2>2, <2>5 DEF v, res
<1>3. \A i \in Places : cal[i] \in Cals /\ cal[i].white <= pwmRes[MappedChannels[i].ctrl]
  BY DEF CalibrationTypeOK, Cals
<1>4. ASSUME NEW i \in Places
      PROVE  /\ cal'[i] \in Cals /\ cal'[i].white <= pwmRes[MappedChannels[i].ctrl]
             /\ cal'[i] # cal[i] => i \in stored
             /\ i \in stored => cal'[i] = [gamma |-> gamma(i), white |-> white(i, short)]
             /\ i \notin stored => cal'[i] = cal[i]
  <2>1. CASE i \in stored
    <3>1. cal'[i] = [gamma |-> gamma(i), white |-> white(i, short)]
      BY <1>1, <2>1
    <3> HIDE DEF gamma, white, stored
    <3> QED BY <1>2, <2>1, <3>1 DEF Cals
  <2>2. CASE i \notin stored
    <3>1. cal'[i] = cal[i]
      BY <1>1, <2>2
    <3> QED BY <1>3, <2>2, <3>1
  <2> QED BY <2>1, <2>2
<1>5. cal' \in [Places -> Cals]
  BY <1>1, <1>4
<1>6. ASSUME S = Places, loaded' = Places, Alike(cal), NEW i \in Places, NEW j \in Places,
             Twins(i, j)
      PROVE  cal'[i] = cal'[j]
  <2>1. (i \in stored) = (j \in stored)
    BY <1>6 DEF Twins, InList, Changes
  <2>2. gamma(i) = gamma(j) /\ white(i, short) = white(j, short)
    BY <1>6 DEF Twins
  <2>3. cal[i] = cal[j]
    BY <1>6 DEF Alike
  <2> HIDE DEF gamma, white, stored
  <2> QED BY <1>4, <2>1, <2>2, <2>3
<1>7. S = Places /\ loaded' = Places /\ Alike(cal) => Alike(cal')
  BY <1>6 DEF Alike
<1>8. \A i \in stored : /\ varGamma'[MappedChannels[i].color] \in GammaVals \ {NoNumber}
                        /\ cal'[i].gamma = gamma(i)
  <2> SUFFICES ASSUME NEW i \in stored
               PROVE  /\ varGamma'[MappedChannels[i].color] \in GammaVals \ {NoNumber}
                      /\ cal'[i].gamma = gamma(i)
    OBVIOUS
  <2>1. i \in Places /\ varGamma'[MappedChannels[i].color] \in GammaVals \ {NoNumber}
    BY <1>2
  <2> HIDE DEF white, gamma, stored
  <2>2. cal'[i] = [gamma |-> gamma(i), white |-> white(i, short)]
    BY <1>4, <2>1
  <2> QED BY <2>1, <2>2
<1> QED BY <1>4, <1>5, <1>7, <1>8

\* update, however it ends.
LEMMA UpdatesFacts ==
  ASSUME CalibrationTypeOK, loaded' \in SUBSET Places,
         varGamma' \in [Colors -> GammaVals], varWhite' \in [Colors -> Fractions],
         \A c \in Colors : varWhite'[c][1] <= varWhite'[c][2],
         NEW f \in BOOLEAN, NEW old, Updates(f, old)
  PROVE  /\ cal' \in [Places -> Cals]
         /\ \A i \in Places : cal'[i].white <= pwmRes[MappedChannels[i].ctrl]
         /\ \A i \in Places : cal'[i] # cal[i] => Changes(i, varSelectAll', whiteArea')
         /\ failures' \in 0 .. MaxFailures /\ broke' \in BOOLEAN
         /\ loaded' = Places /\ ~broke' =>
              \A i \in Places : Shows(light'[i], varBright', cal'[i])
         /\ loaded' = Places /\ failures' = failures /\ Alike(cal)
              /\ (\A i \in Places : ~Unreadable(i) /\ ~MayRaise(i)) => Alike(cal')
<1>1. failures \in 0 .. MaxFailures /\ MaxFailures \in Nat
  BY CalibrationAssumption DEF CalibrationTypeOK
<1>2. CASE Update(old) /\ Succeeds(f)
  <2>1. /\ \A i \in loaded' : ~Unreadable(i)
        /\ Store(loaded') /\ Show(loaded', old) /\ failures' = failures /\ broke' = f
    BY <1>2 DEF Update, Succeeds
  <2>3. /\ cal' \in [Places -> Cals]
        /\ \A i \in Places : cal'[i].white <= pwmRes[MappedChannels[i].ctrl]
        /\ \A i \in Places : cal'[i] # cal[i] => Changes(i, varSelectAll', whiteArea')
        /\ \A i \in loaded' : InList(i) /\ Changes(i, varSelectAll', whiteArea') =>
             /\ varGamma'[MappedChannels[i].color] \in GammaVals \ {NoNumber}
             /\ cal'[i].gamma = GammaVal(varGamma'[MappedChannels[i].color])
        /\ loaded' = Places /\ Alike(cal) => Alike(cal')
    BY <2>1, StoreKeeps
  <2>2. ASSUME loaded' = Places, NEW i \in Places
        PROVE  Shows(light'[i], varBright', cal'[i])
    <3>1. light'[i] = <<varBright', GammaOf(i), cal'[i].white>>
      BY <2>1, <2>2 DEF Show, InList, Shown, Light
    <3>2. WholeTenths(GammaOf(i), cal'[i].gamma)
          /\ (GammaOf(i) = 10 * cal'[i].gamma \/ GammaOf(i) \in Typed)
      <4>1. CASE Changes(i, varSelectAll', whiteArea')
        <5> DEFINE v == varGamma'[MappedChannels[i].color]
        <5>1. v \in GammaVals \ {NoNumber} /\ cal'[i].gamma = GammaVal(v) /\ GammaOf(i) = v
          BY <2>2, <2>3, <4>1 DEF InList, GammaOf
        <5> HIDE DEF v
        <5> QED BY <5>1, GammaFacts
      <4>2. CASE ~Changes(i, varSelectAll', whiteArea')
        <5>1. cal'[i] = cal[i] /\ cal[i].gamma \in Tenths /\ GammaOf(i) = 10 * cal[i].gamma
          BY <2>3, <4>2 DEF GammaOf, CalibrationTypeOK
        <5> QED BY <5>1, GammaFacts
      <4> QED BY <4>1, <4>2
    <3> QED BY <3>1, <3>2 DEF Shows
  <2>4. failures' \in 0 .. MaxFailures /\ broke' \in BOOLEAN
    BY <1>1, <2>1
  <2> QED BY Zenon, <2>2, <2>3, <2>4
<1>3. CASE UpdateEnds(old)
  <2>1. PICK k \in loaded' :
          \E A \in SUBSET ({MappedChannels[i].area : i \in loaded'} \ {MappedChannels[k].area}) :
            LET S == Reached(k) \cup {i \in loaded' : MappedChannels[i].area \in A}
            IN  /\ \A i \in S \ {k} : ~Unreadable(i) /\ ~PowRaises(i)
                /\ \/ /\ ~Unreadable(k) /\ ~PowRaises(k) /\ Fails
                      /\ Store(S) /\ (Show(S, old) \/ Show(S \ {k}, old))
                   \/ MayRaise(k) /\ Succeeds(TRUE) /\ Store(S) /\ Show(S \ {k}, old)
                   \/ Unreadable(k) /\ Succeeds(TRUE) /\ Store(S \ {k}) /\ Show(S \ {k}, old)
    BY <1>3 DEF UpdateEnds
  <2>2. PICK A \in SUBSET ({MappedChannels[i].area : i \in loaded'} \ {MappedChannels[k].area}) :
            LET S == Reached(k) \cup {i \in loaded' : MappedChannels[i].area \in A}
            IN  /\ \A i \in S \ {k} : ~Unreadable(i) /\ ~PowRaises(i)
                /\ \/ /\ ~Unreadable(k) /\ ~PowRaises(k) /\ Fails
                      /\ Store(S) /\ (Show(S, old) \/ Show(S \ {k}, old))
                   \/ MayRaise(k) /\ Succeeds(TRUE) /\ Store(S) /\ Show(S \ {k}, old)
                   \/ Unreadable(k) /\ Succeeds(TRUE) /\ Store(S \ {k}) /\ Show(S \ {k}, old)
    BY <2>1
  <2> DEFINE S == Reached(k) \cup {i \in loaded' : MappedChannels[i].area \in A}
  <2>3. S \in SUBSET Places /\ S \ {k} \in SUBSET Places
    BY DEF Reached
  <2>4. /\ \A i \in S \ {k} : ~Unreadable(i)
        /\ \/ ~Unreadable(k) /\ Fails /\ Store(S)
           \/ MayRaise(k) /\ ~Unreadable(k) /\ Succeeds(TRUE) /\ Store(S)
           \/ Unreadable(k) /\ Succeeds(TRUE) /\ Store(S \ {k})
    BY <2>2 DEF MayRaise
  <2> HIDE DEF S
  <2>5. CASE ~Unreadable(k) /\ Fails /\ Store(S)
    <3>1. \A i \in S : ~Unreadable(i)
      BY <2>4, <2>5
    <3>2. failures' = failures + 1 /\ failures < MaxFailures /\ broke' = TRUE
      BY <2>5 DEF Fails
    <3>3. /\ cal' \in [Places -> Cals]
          /\ \A i \in Places : cal'[i].white <= pwmRes[MappedChannels[i].ctrl]
          /\ \A i \in Places : cal'[i] # cal[i] => Changes(i, varSelectAll', whiteArea')
      BY <2>3, <2>5, <3>1, StoreKeeps
    <3>4. failures' \in 0 .. MaxFailures /\ failures' # failures
      BY <1>1, <3>2
    <3> QED BY Zenon, <3>2, <3>3, <3>4
  <2>6. CASE Unreadable(k) /\ Succeeds(TRUE) /\ Store(S \ {k})
    <3>1. failures' = failures /\ broke' = TRUE
      BY <2>6 DEF Succeeds
    <3>2. ~ \A i \in Places : ~Unreadable(i) /\ ~MayRaise(i)
      BY <2>3, <2>6
    <3>3. /\ cal' \in [Places -> Cals]
          /\ \A i \in Places : cal'[i].white <= pwmRes[MappedChannels[i].ctrl]
          /\ \A i \in Places : cal'[i] # cal[i] => Changes(i, varSelectAll', whiteArea')
      BY <2>3, <2>4, <2>6, StoreKeeps
    <3> QED BY Zenon, <1>1, <3>1, <3>2, <3>3
  <2>7. CASE MayRaise(k) /\ ~Unreadable(k) /\ Succeeds(TRUE) /\ Store(S)
    <3>1. failures' = failures /\ broke' = TRUE
      BY <2>7 DEF Succeeds
    <3>2. ~ \A i \in Places : ~Unreadable(i) /\ ~MayRaise(i)
      BY <2>3, <2>7
    <3>4. \A i \in S : ~Unreadable(i)
      BY <2>4, <2>7
    <3>3. /\ cal' \in [Places -> Cals]
          /\ \A i \in Places : cal'[i].white <= pwmRes[MappedChannels[i].ctrl]
          /\ \A i \in Places : cal'[i] # cal[i] => Changes(i, varSelectAll', whiteArea')
      BY <2>3, <2>7, <3>4, StoreKeeps
    <3> QED BY Zenon, <1>1, <3>1, <3>2, <3>3
  <2> QED BY <2>4, <2>5, <2>6, <2>7
<1> QED BY <1>2, <1>3 DEF Updates

\* The invariant, in the form the steps use; and a step keeps it if it keeps its parts.
OutlineFits(area, all, marked) ==
  (\E i \in Places : MappedChannels[i].area = marked) => ~all /\ marked = area

LEMMA CalibrationOld ==
  ASSUME CalibrationInv
  PROVE  /\ CalibrationTypeOK /\ cal \in [Places -> Cals]
         /\ \A i \in Places : cal[i].white <= pwmRes[MappedChannels[i].ctrl]
         /\ commonBright \in [Ctrls -> 0 .. commonPWMRes] /\ loaded \subseteq Places
         /\ whiteArea \in ScreenAreas \cup {Nothing} /\ outlined \in ScreenAreas \cup {Nothing}
         /\ varWhite \in [Colors -> Fractions]
         /\ \A c \in Colors : varWhite[c][1] <= varWhite[c][2]
         /\ varGamma \in [Colors -> GammaVals] /\ varBright \in 0 .. 100
         /\ varSelectAll \in BOOLEAN /\ broke \in BOOLEAN
         /\ moves \in 0 .. MaxMoves /\ failures \in 0 .. MaxFailures
         /\ calSheet \in {"white", "broken", "bright", "other"}
         /\ calSheet = "white" => /\ loaded = Places
                                  /\ OutlineFits(whiteArea, varSelectAll, outlined)
         /\ calSheet = "white" /\ ~broke =>
              \A i \in Places : Shows(light[i], varBright, cal[i])
         /\ calSheet = "bright" /\ ~broke =>
              \A c, d \in Ctrls : commonBright[c] = commonBright[d]
BY Zenon DEF CalibrationInv, CalibrationTypeOK, Cals, Fractions, LoadedOnWhite, OutlinedIsChosen,
             OutlineFits, ShownIsStored, CommonIsCommon

LEMMA CalibrationKeeps ==
  ASSUME cal' \in [Places -> Cals],
         \A i \in Places : cal'[i].white <= pwmRes[MappedChannels[i].ctrl],
         commonBright' \in [Ctrls -> 0 .. commonPWMRes], loaded' \subseteq Places,
         whiteArea' \in ScreenAreas \cup {Nothing}, outlined' \in ScreenAreas \cup {Nothing},
         varWhite' \in [Colors -> Fractions],
         \A c \in Colors : varWhite'[c][1] <= varWhite'[c][2],
         varGamma' \in [Colors -> GammaVals], varBright' \in 0 .. 100,
         varSelectAll' \in BOOLEAN, broke' \in BOOLEAN,
         moves' \in 0 .. MaxMoves, failures' \in 0 .. MaxFailures,
         calSheet' \in {"white", "broken", "bright", "other"},
         calSheet' = "white" => /\ loaded' = Places
                                /\ OutlineFits(whiteArea', varSelectAll', outlined'),
         calSheet' = "white" /\ ~broke' =>
           \A i \in Places : Shows(light'[i], varBright', cal'[i]),
         calSheet' = "bright" /\ ~broke' =>
           \A c, d \in Ctrls : commonBright'[c] = commonBright'[d]
  PROVE  CalibrationInv'
BY Zenon DEF CalibrationInv, CalibrationTypeOK, Cals, Fractions, LoadedOnWhite, OutlinedIsChosen,
             OutlineFits, ShownIsStored, CommonIsCommon

LEMMA MoveFacts == ASSUME CalibrationTypeOK, Move PROVE moves' \in 0 .. MaxMoves
BY CalibrationAssumption DEF CalibrationTypeOK, Move

LEMMA CalibrationInitial == CalibrationInit => CalibrationInv
<1> SUFFICES ASSUME CalibrationInit PROVE CalibrationInv
  OBVIOUS
<1>1. DEFAULT_GAMMA_VAL \in Tenths /\ 10 * MIN_GAMMA_VAL \in GammaVals
  BY GammaFacts
<1>2. cal \in [Places -> Cals]
  BY <1>1, CalibrationAssumption DEF CalibrationInit, Cals
<1>3. /\ varWhite \in [Colors -> Fractions]
      /\ \A c \in Colors : varWhite[c][1] <= varWhite[c][2]
  BY DEF CalibrationInit, Fractions
<1>4. varGamma \in [Colors -> GammaVals] /\ varBright \in 0 .. 100
  BY <1>1 DEF CalibrationInit
<1>5. moves \in 0 .. MaxMoves /\ failures \in 0 .. MaxFailures
  BY CalibrationAssumption DEF CalibrationInit
<1>6. commonBright \in [Ctrls -> 0 .. commonPWMRes]
  BY CalibrationAssumption DEF CalibrationInit
<1>7. /\ loaded \subseteq Places /\ varSelectAll \in BOOLEAN /\ broke \in BOOLEAN
      /\ whiteArea \in ScreenAreas \cup {Nothing} /\ outlined \in ScreenAreas \cup {Nothing}
      /\ calSheet = "other" /\ calSheet \in {"white", "broken", "bright", "other"}
      /\ \A i \in Places : cal[i].white <= pwmRes[MappedChannels[i].ctrl]
  BY Zenon DEF CalibrationInit
<1>8. CalibrationTypeOK
  BY Zenon, <1>2, <1>3, <1>4, <1>5, <1>6, <1>7 DEF CalibrationTypeOK, Cals, Fractions
<1> QED BY <1>7, <1>8 DEF CalibrationInv, LoadedOnWhite, OutlinedIsChosen, ShownIsStored,
                          CommonIsCommon

\* What the steps that run update on the open sheet have in common.
LEMMA UpdateKeeps ==
  ASSUME CalibrationInv, OnWhite, Updates(broke, light), whiteArea' = whiteArea,
         varGamma' \in [Colors -> GammaVals], varWhite' \in [Colors -> Fractions],
         \A c \in Colors : varWhite'[c][1] <= varWhite'[c][2],
         varBright' \in 0 .. 100, varSelectAll' \in BOOLEAN,
         (outlined' = outlined /\ varSelectAll' = varSelectAll) \/ Outline
  PROVE  CalibrationInv'
<1>1. /\ UNCHANGED <<calSheet, loaded, commonBright>> /\ moves' \in 0 .. MaxMoves
  BY CalibrationOld, MoveFacts DEF OnWhite
<1>2. /\ cal' \in [Places -> Cals]
      /\ \A i \in Places : cal'[i].white <= pwmRes[MappedChannels[i].ctrl]
      /\ failures' \in 0 .. MaxFailures /\ broke' \in BOOLEAN
      /\ loaded' = Places /\ ~broke' =>
           \A i \in Places : Shows(light'[i], varBright', cal'[i])
  BY <1>1, CalibrationOld, UpdatesFacts
<1>3. outlined' \in ScreenAreas \cup {Nothing}
  BY CalibrationOld DEF Outline
<1>4. calSheet = "white" => OutlineFits(whiteArea', varSelectAll', outlined')
  BY CalibrationOld, PlaceFacts DEF Outline, OutlineFits
<1>5. ~ (calSheet = "bright")
  BY DEF OnWhite
<1> QED BY <1>1, <1>2, <1>3, <1>4, <1>5, CalibrationOld, CalibrationKeeps

LEMMA CalibrationEdits ==
  ASSUME CalibrationInv, SetWhiteCal \/ SetGamma \/ SetBright \/ SelectAll
  PROVE  CalibrationInv'
<1>1. CASE SetWhiteCal
  <2>1. PICK c \in Colors, h \in Scales : varWhite' = [varWhite EXCEPT ![c] = <<h, 100>>]
    BY <1>1 DEF SetWhiteCal
  <2>2. <<h, 100>> \in Fractions /\ <<h, 100>>[1] <= <<h, 100>>[2]
    BY CalibrationAssumption DEF Fractions
  <2>3. /\ varWhite' \in [Colors -> Fractions]
        /\ \A d \in Colors : varWhite'[d][1] <= varWhite'[d][2]
    BY <2>1, <2>2, CalibrationOld
  <2>4. /\ OnWhite /\ Updates(broke, light)
        /\ UNCHANGED <<whiteArea, outlined, varGamma, varBright, varSelectAll>>
    BY <1>1 DEF SetWhiteCal
  <2> QED BY <2>3, <2>4, CalibrationOld, UpdateKeeps
<1>2. CASE SetGamma
  <2>1. PICK c \in Colors, g \in Gammas : varGamma' = [varGamma EXCEPT ![c] = 10 * g]
    BY <1>2 DEF SetGamma
  <2>2. varGamma' \in [Colors -> GammaVals]
    BY <2>1, CalibrationOld, GammaFacts
  <2>3. /\ OnWhite /\ Updates(broke, light)
        /\ UNCHANGED <<whiteArea, outlined, varWhite, varBright, varSelectAll>>
    BY <1>2 DEF SetGamma
  <2> QED BY <2>2, <2>3, CalibrationOld, UpdateKeeps
<1>3. CASE SetBright
  <2>1. /\ OnWhite /\ Updates(broke, light) /\ Outline /\ varBright' \in Scales
        /\ UNCHANGED <<whiteArea, varWhite, varGamma, varSelectAll>>
    BY <1>3 DEF SetBright
  <2>2. varBright' \in 0 .. 100
    BY <2>1, CalibrationAssumption
  <2> QED BY <2>1, <2>2, CalibrationOld, UpdateKeeps
<1>4. CASE SelectAll
  <2>1. /\ OnWhite /\ Updates(broke, light) /\ Outline /\ varSelectAll' \in BOOLEAN
        /\ UNCHANGED <<whiteArea, varWhite, varGamma, varBright>>
    BY Zenon, <1>4 DEF SelectAll
  <2> QED BY <2>1, CalibrationOld, UpdateKeeps
<1> QED BY <1>1, <1>2, <1>3, <1>4

LEMMA CalibrationTyped == ASSUME CalibrationInv, TypeGamma PROVE CalibrationInv'
<1>1. /\ OnWhite
      /\ UNCHANGED <<cal, whiteArea, outlined, varWhite, varBright, varSelectAll, light,
                    failures, broke>>
  BY DEF TypeGamma
<1>2. PICK c \in Colors, g \in Typed : varGamma' = [varGamma EXCEPT ![c] = g]
  BY DEF TypeGamma
<1>3. varGamma' \in [Colors -> GammaVals]
  BY <1>2, CalibrationOld, GammaFacts
<1>4. UNCHANGED <<calSheet, loaded, commonBright>> /\ moves' \in 0 .. MaxMoves
  BY <1>1, CalibrationOld, MoveFacts DEF OnWhite
<1> QED BY Zenon, <1>1, <1>3, <1>4, CalibrationOld, CalibrationKeeps

LEMMA CalibrationClick == ASSUME CalibrationInv, cbAreaSelected PROVE CalibrationInv'
<1>1. OnWhite /\ UNCHANGED <<cal, light, varBright, failures, broke>>
  BY DEF cbAreaSelected
<1>2. PICK a \in ScreenAreas :
       /\ outlined' = a
       /\ IF \E i \in loaded : MappedChannels[i].area = a
          THEN selectArea(a, loaded)
          ELSE UNCHANGED <<whiteArea, varGamma, varWhite, varSelectAll>>
  BY DEF cbAreaSelected
<1>3. UNCHANGED <<calSheet, loaded, commonBright>> /\ moves' \in 0 .. MaxMoves
  BY <1>1, CalibrationOld, MoveFacts DEF OnWhite
<1>4. CASE \E i \in loaded : MappedChannels[i].area = a
  <2>1. /\ varSelectAll' = FALSE /\ whiteArea' = a
        /\ varGamma' \in [Colors -> GammaVals] /\ varWhite' \in [Colors -> Fractions]
        /\ \A c \in Colors : varWhite'[c][1] <= varWhite'[c][2]
    BY <1>2, <1>4, CalibrationOld, ScalesFacts
  <2>2. OutlineFits(whiteArea', varSelectAll', outlined')
    BY <1>2, <2>1 DEF OutlineFits
  <2>3. varSelectAll' \in BOOLEAN /\ whiteArea' \in ScreenAreas \cup {Nothing}
        /\ outlined' \in ScreenAreas \cup {Nothing}
    BY Zenon, <1>2, <2>1
  <2> QED BY Zenon, <1>1, <1>3, <2>1, <2>2, <2>3, CalibrationOld, CalibrationKeeps
<1>5. CASE ~ \E i \in loaded : MappedChannels[i].area = a
  <2>1. UNCHANGED <<whiteArea, varGamma, varWhite, varSelectAll>>
    BY <1>2, <1>5
  <2>2. calSheet = "white" => OutlineFits(whiteArea', varSelectAll', outlined')
    BY <1>2, <1>5, CalibrationOld DEF OutlineFits
  <2>3. outlined' \in ScreenAreas \cup {Nothing}
    BY <1>2
  <2> QED BY Zenon, <1>1, <1>3, <2>1, <2>2, <2>3, CalibrationOld, CalibrationKeeps
<1> QED BY <1>4, <1>5

LEMMA CalibrationOpen == ASSUME CalibrationInv, OpenWhite PROVE CalibrationInv'
<1> DEFINE area == MappedChannels[Len(MappedChannels)].area
           old == [i \in Places |-> <<varBright, StoredGamma(i), cal[i].white>>]
<1>1. /\ calSheet' = "white" /\ Move /\ loaded' = Places /\ selectArea(area, Places)
      /\ UNCHANGED <<varBright, commonBright>> /\ Outline /\ Updates(FALSE, old)
  BY DEF OpenWhite
<1>2. area \in ScreenAreas
  BY PlaceFacts
<1> HIDE DEF area, old
<1>3. /\ varSelectAll' = FALSE /\ whiteArea' = area
      /\ varGamma' \in [Colors -> GammaVals] /\ varWhite' \in [Colors -> Fractions]
      /\ \A c \in Colors : varWhite'[c][1] <= varWhite'[c][2]
  BY <1>1, CalibrationOld, ScalesFacts
<1>4. /\ cal' \in [Places -> Cals]
      /\ \A i \in Places : cal'[i].white <= pwmRes[MappedChannels[i].ctrl]
      /\ failures' \in 0 .. MaxFailures /\ broke' \in BOOLEAN
      /\ ~broke' => \A i \in Places : Shows(light'[i], varBright', cal'[i])
  BY <1>1, <1>3, CalibrationOld, UpdatesFacts
<1>5. outlined' = area /\ OutlineFits(whiteArea', varSelectAll', outlined')
  BY <1>1, <1>3 DEF Outline, OutlineFits
<1>6. moves' \in 0 .. MaxMoves
  BY <1>1, CalibrationOld, MoveFacts
<1>7. /\ varSelectAll' \in BOOLEAN /\ whiteArea' \in ScreenAreas \cup {Nothing}
      /\ outlined' \in ScreenAreas \cup {Nothing} /\ loaded' \subseteq Places
      /\ calSheet' \in {"white", "broken", "bright", "other"} /\ calSheet' # "bright"
  BY <1>1, <1>2, <1>3, <1>5
<1> QED BY Zenon, <1>1, <1>3, <1>4, <1>5, <1>6, <1>7, CalibrationOld, CalibrationKeeps

LEMMA CalibrationOpenFails == ASSUME CalibrationInv, OpenWhiteFails PROVE CalibrationInv'
<1>1. /\ calSheet' = "broken" /\ Move /\ (Fails \/ Succeeds(TRUE))
      /\ UNCHANGED <<cal, commonBright, whiteArea, outlined, varWhite, varGamma, varBright,
                    varSelectAll>>
      /\ (\E c \in Ctrls : loaded' = 1 .. LastPlaceOf(c)) \/ \E k \in Places : loaded' = 1 .. (k - 1)
  BY DEF OpenWhiteFails, scales
<1>2. loaded' \subseteq Places
  <2>1. CASE \E k \in Places : loaded' = 1 .. (k - 1)
    BY <2>1, PlaceFacts
  <2>2. ASSUME NEW c \in Ctrls PROVE LastPlaceOf(c) \in Places
    <3> DEFINE T == {i \in Places : MappedChannels[i].ctrl = c}
    <3>1. T # {} /\ T \in SUBSET (1 .. Len(MappedChannels))
      BY PlaceFacts DEF Ctrls
    <3>2. PICK x \in T : \A y \in T : y <= x
      <4> HIDE DEF T
      <4> QED BY <3>1, PlaceFacts, LargestOf
    <3>3. \E i \in Places : /\ MappedChannels[i].ctrl = c
                            /\ \A j \in Places : MappedChannels[j].ctrl = c => j <= i
      BY <3>2
    <3> QED BY <3>3 DEF LastPlaceOf
  <2> QED BY <1>1, <2>1, <2>2, PlaceFacts
<1>3. moves' \in 0 .. MaxMoves
  BY <1>1, CalibrationOld, MoveFacts
<1>4. failures' \in 0 .. MaxFailures /\ broke' \in BOOLEAN
  <2>1. failures \in 0 .. MaxFailures /\ MaxFailures \in Nat
    BY CalibrationOld, CalibrationAssumption
  <2>2. CASE Fails
    BY <2>1, <2>2 DEF Fails
  <2>3. CASE Succeeds(TRUE)
    BY <2>1, <2>3 DEF Succeeds
  <2> QED BY <1>1, <2>2, <2>3
<1>5. /\ calSheet' \in {"white", "broken", "bright", "other"}
      /\ ~ (calSheet' = "white") /\ ~ (calSheet' = "bright")
  BY <1>1
<1> QED BY Zenon, <1>1, <1>2, <1>3, <1>4, <1>5, CalibrationOld, CalibrationKeeps

\* setBright of the common brightness: all controllers, unless it fails.
LEMMA CommonFacts ==
  ASSUME CalibrationTypeOK, NEW v \in Fractions, v[1] <= v[2], NEW f \in BOOLEAN, SetCommon(v, f)
  PROVE  /\ commonBright' \in [Ctrls -> 0 .. commonPWMRes]
         /\ failures' \in 0 .. MaxFailures /\ broke' \in BOOLEAN
         /\ ~broke' => \A c, d \in Ctrls : commonBright'[c] = commonBright'[d]
<1>1. CommonBright(v) \in 0 .. commonPWMRes
  BY CommonBrightFacts
<1>2. /\ commonBright \in [Ctrls -> 0 .. commonPWMRes]
      /\ failures \in 0 .. MaxFailures /\ MaxFailures \in Nat
  BY CalibrationAssumption DEF CalibrationTypeOK
<1>3. CASE /\ commonBright' =
                [c \in Ctrls |-> IF c \in AllOf THEN CommonBright(v) ELSE commonBright[c]]
           /\ Succeeds(f)
  BY <1>1, <1>2, <1>3 DEF AllOf, Succeeds
<1>4. CASE /\ \E S \in SUBSET Ctrls :
                commonBright' =
                  [c \in Ctrls |-> IF c \in S THEN CommonBright(v) ELSE commonBright[c]]
           /\ Fails
  BY <1>1, <1>2, <1>4 DEF Fails
<1> QED BY <1>3, <1>4 DEF SetCommon

LEMMA CalibrationBright ==
  ASSUME CalibrationInv, OpenBright \/ SetCommonBright
  PROVE  CalibrationInv'
<1>1. CASE OpenBright
  <2> DEFINE c == MappedChannels[Len(MappedChannels)].ctrl
             v == <<commonBright[c], commonPWMRes>>
  <2>1. /\ calSheet' = "bright" /\ Move /\ outlined' = Nothing
        /\ UNCHANGED <<cal, loaded, whiteArea, varWhite, varGamma, varBright, varSelectAll>>
    BY <1>1 DEF OpenBright, scales
  <2>2. PICK rounds \in BOOLEAN : SetCommon(Kept(v, rounds), FALSE)
    BY <1>1 DEF OpenBright
  <2>3. c \in Ctrls
    BY PlaceFacts
  <2> HIDE DEF c
  <2>4. v \in Fractions /\ v[1] <= v[2]
    <3>1. commonBright[c] \in 0 .. 255
      BY <2>3, CalibrationOld DEF commonPWMRes
    <3> QED BY <3>1 DEF Fractions, commonPWMRes
  <2> HIDE DEF v
  <2>5. Kept(v, rounds) \in Fractions /\ Kept(v, rounds)[1] <= Kept(v, rounds)[2]
    BY <2>4, KeptFacts
  <2>6. /\ commonBright' \in [Ctrls -> 0 .. commonPWMRes]
        /\ failures' \in 0 .. MaxFailures /\ broke' \in BOOLEAN
        /\ ~broke' => \A d, e \in Ctrls : commonBright'[d] = commonBright'[e]
    BY <2>2, <2>5, CalibrationOld, CommonFacts
  <2>7. moves' \in 0 .. MaxMoves
    BY <2>1, CalibrationOld, MoveFacts
  <2> QED BY <2>1, <2>6, <2>7, CalibrationOld, CalibrationKeeps
<1>2. CASE SetCommonBright
  <2>1. /\ calSheet = "bright" /\ Move
        /\ UNCHANGED <<cal, loaded, whiteArea, outlined, varWhite, varGamma, varBright,
                      varSelectAll, light, calSheet>>
    BY <1>2 DEF SetCommonBright, scales
  <2>2. PICK h \in Scales : SetCommon(<<h, 100>>, broke)
    BY <1>2 DEF SetCommonBright
  <2>3. <<h, 100>> \in Fractions /\ <<h, 100>>[1] <= <<h, 100>>[2]
    BY CalibrationAssumption DEF Fractions
  <2>4. /\ commonBright' \in [Ctrls -> 0 .. commonPWMRes]
        /\ failures' \in 0 .. MaxFailures /\ broke' \in BOOLEAN
        /\ ~broke' => \A d, e \in Ctrls : commonBright'[d] = commonBright'[e]
    BY <2>2, <2>3, CalibrationOld, CommonFacts
  <2>5. moves' \in 0 .. MaxMoves
    BY <2>1, CalibrationOld, MoveFacts
  <2> QED BY <2>1, <2>4, <2>5, CalibrationOld, CalibrationKeeps
<1> QED BY <1>1, <1>2

LEMMA CalibrationAway == ASSUME CalibrationInv, OtherSheet PROVE CalibrationInv'
<1>1. /\ calSheet' = "other" /\ outlined' \in ScreenAreas \cup {Nothing}
      /\ UNCHANGED <<cal, commonBright, loaded, whiteArea, varWhite, varGamma, varBright,
                    varSelectAll, moves, failures, broke>>
  BY DEF OtherSheet, scales, calHistory
<1> QED BY <1>1, CalibrationOld, CalibrationKeeps

LEMMA CalibrationStutters ==
  ASSUME CalibrationInv, UNCHANGED calibrationVars PROVE CalibrationInv'
BY Zenon DEF CalibrationInv, CalibrationTypeOK, LoadedOnWhite, OutlinedIsChosen, ShownIsStored,
             CommonIsCommon, calibrationVars, scales, calHistory

LEMMA CalibrationStep == CalibrationInv /\ [CalibrationNext]_calibrationVars => CalibrationInv'
BY Zenon, CalibrationOpen, CalibrationOpenFails, CalibrationClick, CalibrationEdits,
   CalibrationTyped, CalibrationBright, CalibrationAway, CalibrationStutters DEF CalibrationNext

LEMMA CalibrationAlways == CalibrationSpec => []CalibrationInv
BY CalibrationInitial, CalibrationStep, PTL DEF CalibrationSpec

\* White values stay within the resolution of their controller and gamma values are those
\* read or entered, whatever the scales round (update, white_cal_dlg.py:152-173).
THEOREM CalibrationType == CalibrationSpec => []CalibrationTypeOK
<1>1. CalibrationInv => CalibrationTypeOK
  BY DEF CalibrationInv
<1> QED BY <1>1, CalibrationAlways, PTL

\* Only the steps that run update change the calibration of a channel.
LEMMA ChangedByUpdate ==
  ASSUME CalibrationInv, CalibrationNext, cal' # cal
  PROVE  \/ /\ OnWhite /\ (SetWhiteCal \/ SetGamma \/ SetBright \/ SelectAll)
            /\ Updates(broke, light) /\ whiteArea' = whiteArea
         \/ OpenWhite
BY DEF CalibrationNext, OpenWhiteFails, cbAreaSelected, TypeGamma, OpenBright, SetCommonBright,
       OtherSheet, SetWhiteCal, SetGamma, SetBright, SelectAll

\* The scales after a step that runs update.
LEMMA ScalesAfter ==
  ASSUME CalibrationInv, CalibrationNext, cal' # cal
  PROVE  /\ loaded' \in SUBSET Places
         /\ varGamma' \in [Colors -> GammaVals] /\ varWhite' \in [Colors -> Fractions]
         /\ \A c \in Colors : varWhite'[c][1] <= varWhite'[c][2]
<1>1. CalibrationInv'
  BY CalibrationStep
<1> QED BY Zenon, <1>1 DEF CalibrationInv, CalibrationTypeOK, Fractions

LEMMA ChangedIsOutlined ==
  ASSUME CalibrationInv, CalibrationNext, cal' # cal, calSheet = "white", ~varSelectAll',
         NEW j \in Places, MappedChannels[j].area = outlined,
         NEW i \in Places, cal'[i] # cal[i]
  PROVE  MappedChannels[i].area = outlined
<1>1. OnWhite /\ Updates(broke, light) /\ whiteArea' = whiteArea
  BY ChangedByUpdate DEF OpenWhite
<1>2. Changes(i, varSelectAll', whiteArea')
  BY <1>1, ScalesAfter, CalibrationOld, UpdatesFacts
<1>3. outlined = whiteArea
  BY CalibrationOld DEF OutlineFits
<1> QED BY <1>1, <1>2, <1>3 DEF Changes

LEMMA TwinsStayAlike ==
  ASSUME CalibrationInv, CalibrationNext, cal' # cal, failures' = failures,
         calSheet # "broken", Alike(cal),
         \A i \in Places : ~Unreadable(i) /\ ~MayRaise(i)
  PROVE  Alike(cal')
<1>1. loaded' = Places /\ \E f \in BOOLEAN : \E old : Updates(f, old)
  <2>1. CASE OpenWhite
    BY <2>1 DEF OpenWhite
  <2>2. CASE OnWhite /\ Updates(broke, light)
    BY <2>2, CalibrationOld DEF OnWhite
  <2> QED BY <2>1, <2>2, ChangedByUpdate
<1> QED BY <1>1, ScalesAfter, CalibrationOld, UpdatesFacts

\* The lights show what is stored, one brightness is common, an action changes only the area
\* that is outlined, and channels that are one light stay alike, also when a request fails
\* (white_cal_dlg.py, bright_dlg.py).
THEOREM CalibrationStaysSound == CalibrationSpec => CalibrationIsSound
<1>1. CalibrationInv => ShownIsStored /\ CommonIsCommon
  BY DEF CalibrationInv
<1>2. CalibrationInv /\ [CalibrationNext]_calibrationVars =>
        [cal' # cal /\ calSheet = "white" /\ ~varSelectAll'
         /\ (\E i \in Places : MappedChannels[i].area = outlined) =>
           \A i \in Places : cal'[i] # cal[i] => MappedChannels[i].area = outlined]_calibrationVars
  BY Zenon, ChangedIsOutlined
<1>3. CalibrationInv /\ [CalibrationNext]_calibrationVars =>
        [cal' # cal /\ failures' = failures /\ calSheet # "broken" /\ Alike(cal)
         /\ (\A i \in Places : ~Unreadable(i) /\ ~MayRaise(i)) => Alike(cal')]_calibrationVars
  BY Zenon, TwinsStayAlike
<1> QED BY <1>1, <1>2, <1>3, CalibrationAlways, PTL
           DEF CalibrationSpec, CalibrationIsSound, OutlinedIsChanged, StaysAlike

(***************************************************************************)
(* The division of the screen                                              *)
(***************************************************************************)

\* A number of shares ends where the whole does: Cut is the integer part of a fraction
\* that grows from 0 to the length.
LEMMA CutsAreShares ==
  \A x \in Nat, t \in Nat \ {0} :
    /\ \A k \in Nat : (x * k) \div t \in Nat
    /\ (x * 0) \div t = 0 /\ (x * t) \div t = x
<1> SUFFICES ASSUME NEW x \in Nat, NEW t \in Nat \ {0}
             PROVE  /\ \A k \in Nat : (x * k) \div t \in Nat
                    /\ (x * 0) \div t = 0 /\ (x * t) \div t = x
  OBVIOUS
<1>1. \A y \in Nat : y \div t \in Nat /\ t * (y \div t) <= y /\ y < t * (y \div t) + t
  OBVIOUS
<1>2. \A k \in Nat : x * k \in Nat
  OBVIOUS
<1>3. x * 0 = 0 /\ 0 \div t = 0
  OBVIOUS
<1>4. (x * t) \div t = x
  <2> DEFINE q == (x * t) \div t
  <2>1. q \in Nat /\ t * q <= x * t /\ x * t < t * q + t
    BY <1>1, <1>2
  <2> HIDE DEF q
  <2>2. x * t = t * x /\ t * q + t = t * (q + 1)
    BY <2>1
  <2>3. \A a, b, c \in Nat : a < b => c * a + c <= c * b
    OBVIOUS
  <2>4. ~(x < q) /\ ~(q < x)
    BY <2>1, <2>2, <2>3
  <2> QED BY <2>1, <2>4 DEF q
<1> QED BY <1>1, <1>2, <1>3, <1>4

\* What the operators say of one layout.
ScreenValues ==
  /\ analyzeSize \in Nat /\ numAreas \in [Screen!Names -> Nat]
  /\ \A a \in Screen!Corners : numAreas[a] <= 1

LEMMA SideFacts ==
  ASSUME Screen!GeometryAssumption, ScreenValues, NEW s \in Screen!Sides
  PROVE  /\ Screen!aWidth \in Nat /\ Screen!aHeight \in Nat /\ Screen!Length(s) \in Nat
         /\ Screen!n(s) \in Nat /\ Screen!First(s) \in 0 .. 1 /\ Screen!Final(s) \in 0 .. 1
         /\ Screen!Total(s) \in Nat
         /\ Screen!Total(s) = Screen!n(s) + Screen!First(s) + Screen!Final(s)
<1>1. Screen!aWidth \in Nat
  BY DEF Screen!aWidth, Screen!GeometryAssumption, ScreenValues
<1>2. Screen!aHeight \in Nat
  <2>1. \A x \in Nat, t \in Nat \ {0} : x \div t \in Nat
    OBVIOUS
  <2>2. Screen!aWidth * ScreenHeight \in Nat
    BY <1>1 DEF Screen!GeometryAssumption
  <2> QED BY <2>1, <2>2 DEF Screen!aHeight, Screen!GeometryAssumption
<1>3. Screen!CornersOf[s][1] \in Screen!Corners /\ Screen!CornersOf[s][2] \in Screen!Corners
  BY DEF Screen!CornersOf, Screen!Corners, Screen!Sides
<1>4. s \in Screen!Names /\ Screen!Corners \subseteq Screen!Names
  BY DEF Screen!Names
<1>5. \A c \in Screen!Corners : numAreas[c] \in 0 .. 1
  BY <1>4 DEF ScreenValues
<1>6. Screen!n(s) \in Nat /\ Screen!First(s) \in 0 .. 1 /\ Screen!Final(s) \in 0 .. 1
  BY <1>3, <1>4, <1>5 DEF Screen!n, Screen!First, Screen!Final, ScreenValues
<1> QED BY <1>1, <1>2, <1>6 DEF Screen!Total, Screen!Length

LEMMA CutFacts ==
  ASSUME Screen!GeometryAssumption, ScreenValues, NEW s \in Screen!Sides, Screen!Total(s) > 0
  PROVE  /\ Screen!Cut(s, 0) = 0 /\ Screen!Cut(s, Screen!Total(s)) = Screen!Length(s)
         /\ Screen!Size(s) = Screen!Cut(s, 1)
         /\ Screen!Rest(s) = Screen!Cut(s, Screen!Total(s) - 1)
<1> DEFINE t == Screen!Total(s)
           l == Screen!Length(s)
<1>1. t \in Nat \ {0} /\ l \in Nat
  BY SideFacts
<1>2. \A k : Screen!Cut(s, k) = (l * k) \div t
  BY <1>1 DEF Screen!Cut
<1> HIDE DEF t, l
<1>3. (l * 0) \div t = 0 /\ (l * t) \div t = l
  BY <1>1, CutsAreShares
<1> QED BY <1>2, <1>3 DEF Screen!Size, Screen!Rest, t, l

\* The areas of a side lie between the cuts, except for the lone area.
LEMMA StripIsBetween ==
  ASSUME Screen!GeometryAssumption, ScreenValues, NEW s \in Screen!Sides, Screen!Total(s) > 0,
         ~(Screen!n(s) = 1 /\ Screen!First(s) = 0 /\ Screen!Final(s) = 1),
         NEW i \in 1 .. Screen!n(s)
  PROVE  /\ Screen!Strip(s, i).from = Screen!Cut(s, i - 1 + Screen!First(s))
         /\ Screen!Strip(s, i).to = Screen!Cut(s, i + Screen!First(s))
<1> DEFINE k == Screen!n(s)
           f == Screen!First(s)
           e == Screen!Final(s)
           t == Screen!Total(s)
           cut(j) == Screen!Cut(s, j)
<1>1. k \in Nat /\ f \in 0 .. 1 /\ e \in 0 .. 1 /\ t = k + f + e /\ t \in Nat
  BY SideFacts
<1>2. /\ cut(0) = 0 /\ cut(t) = Screen!Length(s) /\ Screen!Size(s) = cut(1)
      /\ Screen!Rest(s) = cut(t - 1)
  BY CutFacts
<1>3. i \in Nat /\ i >= 1 /\ i <= k
  BY <1>1
<1>4. CASE k = 1 /\ f = 0
  <2>1. Screen!Strip(s, i).from = 0 /\ Screen!Strip(s, i).to = Screen!Length(s)
    BY <1>4 DEF Screen!Strip
  <2>2. i - 1 + f = 0 /\ i + f = t
    <3> HIDE DEF k, f, e, t
    <3>1. e = 0
      BY <1>1, <1>4 DEF k, f, e
    <3> QED BY <1>1, <1>3, <1>4, <3>1
  <2> QED BY <1>2, <2>1, <2>2
<1>5. CASE ~(k = 1 /\ f = 0) /\ k > 1 /\ i = 1 /\ f = 0
  <2>1. Screen!Strip(s, i).from = 0 /\ Screen!Strip(s, i).to = Screen!Size(s)
    BY <1>5 DEF Screen!Strip
  <2>2. i - 1 + f = 0 /\ i + f = 1
    BY <1>5
  <2> QED BY <1>2, <2>1, <2>2
<1>6. CASE ~(k = 1 /\ f = 0) /\ ~(k > 1 /\ i = 1 /\ f = 0) /\ k > 1 /\ i = k /\ e = 0
  <2>1. Screen!Strip(s, i).from = Screen!Rest(s) /\ Screen!Strip(s, i).to = Screen!Length(s)
    BY <1>6 DEF Screen!Strip
  <2>2. i - 1 + f = t - 1 /\ i + f = t
    <3> HIDE DEF k, f, e, t
    <3> QED BY <1>1, <1>3, <1>6
  <2> QED BY <1>2, <2>1, <2>2
<1>7. CASE /\ ~(k = 1 /\ f = 0) /\ ~(k > 1 /\ i = 1 /\ f = 0)
           /\ ~(k > 1 /\ i = k /\ e = 0)
  BY <1>7 DEF Screen!Strip
<1> QED BY <1>4, <1>5, <1>6, <1>7


\* Three rows, one behind the other.
LEMMA JoinedRow ==
  ASSUME NEW S, NEW f \in Nat, NEW k \in Nat, NEW e \in Nat,
         NEW R \in [1 .. f + k + e -> S]
  PROVE  [j \in 1 .. f |-> R[j]] \o [j \in 1 .. k |-> R[j + f]]
             \o [j \in 1 .. e |-> R[j + f + k]] = R
<1> DEFINE a == [j \in 1 .. f |-> R[j]]
           b == [j \in 1 .. k |-> R[j + f]]
           c == [j \in 1 .. e |-> R[j + f + k]]
           ab == a \o b
           abc == ab \o c
<1>1. a \in Seq(S) /\ Len(a) = f /\ b \in Seq(S) /\ Len(b) = k /\ c \in Seq(S) /\ Len(c) = e
  <2>1. a \in [1 .. f -> S] /\ b \in [1 .. k -> S] /\ c \in [1 .. e -> S]
    OBVIOUS
  <2> HIDE DEF a, b, c
  <2> QED BY <2>1, LenProperties, IsASeq
<1>2. \A j \in 1 .. f : a[j] = R[j]
  OBVIOUS
<1>3. \A j \in 1 .. k : b[j] = R[j + f]
  OBVIOUS
<1>4. \A j \in 1 .. e : c[j] = R[j + f + k]
  OBVIOUS
<1> HIDE DEF a, b, c
<1>5. /\ ab \in Seq(S) /\ Len(ab) = f + k
      /\ \A j \in 1 .. f + k : ab[j] = IF j <= f THEN a[j] ELSE b[j - f]
  BY <1>1, ConcatProperties
<1>6. \A j \in 1 .. f + k : ab[j] = R[j]
  <2> SUFFICES ASSUME NEW j \in 1 .. f + k PROVE ab[j] = R[j]
    OBVIOUS
  <2>1. CASE j <= f
    <3>1. j \in 1 .. f
      BY <2>1
    <3>2. ab[j] = a[j]
      BY <1>5, <2>1
    <3> QED BY <1>2, <3>1, <3>2
  <2>2. CASE ~(j <= f)
    <3>1. j - f \in 1 .. k /\ (j - f) + f = j
      BY <2>2
    <3>2. ab[j] = b[j - f]
      BY <1>5, <2>2
    <3>3. b[j - f] = R[(j - f) + f]
      BY <1>3, <3>1
    <3> QED BY <3>1, <3>2, <3>3
  <2> QED BY <2>1, <2>2
<1> HIDE DEF ab
<1>7. /\ abc \in Seq(S) /\ Len(abc) = f + k + e
      /\ \A j \in 1 .. f + k + e : abc[j] = IF j <= f + k THEN ab[j] ELSE c[j - (f + k)]
  <2>1. f + k \in Nat /\ ab \in Seq(S) /\ Len(ab) = f + k
    BY <1>5
  <2>2. /\ abc \in Seq(S) /\ Len(abc) = Len(ab) + Len(c)
        /\ \A j \in 1 .. Len(ab) + Len(c) :
              abc[j] = IF j <= Len(ab) THEN ab[j] ELSE c[j - Len(ab)]
    <3>1. c \in Seq(S)
      BY <1>1
    <3> QED BY <2>1, <3>1, ConcatProperties, Zenon
  <2> QED BY <1>1, <2>1, <2>2
<1>8. \A j \in 1 .. f + k + e : abc[j] = R[j]
  <2> SUFFICES ASSUME NEW j \in 1 .. f + k + e PROVE abc[j] = R[j]
    OBVIOUS
  <2>1. CASE j <= f + k
    BY <1>6, <1>7, <2>1
  <2>2. CASE ~(j <= f + k)
    <3>1. j - (f + k) \in 1 .. e /\ (j - (f + k)) + f + k = j
      BY <2>2
    <3>2. c[j - (f + k)] = R[j]
      BY <1>4, <3>1
    <3> QED BY <1>7, <2>2, <3>2
  <2> QED BY <2>1, <2>2
<1> HIDE DEF abc
<1>9. abc \in [1 .. f + k + e -> S]
  BY <1>7, LenProperties
<1>10. abc = R
  BY <1>8, <1>9
<1> QED BY <1>10 DEF abc, ab, a, b, c

\* The areas at a side end where the next begins: at the cuts.
LEMMA RowIsCut ==
  ASSUME Screen!GeometryAssumption, ScreenValues, NEW s \in Screen!Sides, Screen!Total(s) > 0,
         ~(Screen!n(s) = 1 /\ Screen!First(s) = 0 /\ Screen!Final(s) = 1)
  PROVE  Screen!Divides(Screen!Along(s), Screen!Length(s))
<1> DEFINE k == Screen!n(s)
           f == Screen!First(s)
           e == Screen!Final(s)
           t == Screen!Total(s)
           l == Screen!Length(s)
           cut(j) == Screen!Cut(s, j)
           R == [j \in 1 .. f + k + e |-> <<cut(j - 1), cut(j)>>]
           S == {R[j] : j \in 1 .. f + k + e}
           first == [j \in 1 .. f |-> R[j]]
           strips == [j \in 1 .. k |-> R[j + f]]
           final == [j \in 1 .. e |-> R[j + f + k]]
<1>1. /\ k \in Nat /\ f \in 0 .. 1 /\ e \in 0 .. 1 /\ t \in Nat /\ t = f + k + e /\ t > 0
  BY SideFacts
<1>2. /\ cut(0) = 0 /\ cut(t) = l /\ Screen!Size(s) = cut(1) /\ Screen!Rest(s) = cut(t - 1)
  BY CutFacts
<1>3. \A j \in 1 .. k : <<Screen!Strip(s, j).from, Screen!Strip(s, j).to>> = R[j + f]
  <2> SUFFICES ASSUME NEW j \in 1 .. k
               PROVE  <<Screen!Strip(s, j).from, Screen!Strip(s, j).to>> = R[j + f]
    OBVIOUS
  <2>1. /\ Screen!Strip(s, j).from = cut(j - 1 + f)
        /\ Screen!Strip(s, j).to = cut(j + f)
    BY StripIsBetween
  <2>2. j + f \in 1 .. f + k + e /\ j - 1 + f = (j + f) - 1
    <3> HIDE DEF k, f, e, t
    <3> QED BY <1>1
  <2>3. R[j + f] = <<cut((j + f) - 1), cut(j + f)>>
    BY <2>2
  <2> QED BY <2>1, <2>2, <2>3
<1>4. (IF f > 0 THEN <<<<0, Screen!Size(s)>>>> ELSE <<>>) = first
  <2>1. CASE f = 0
    <3>1. first = <<>>
      <4> HIDE DEF R, f
      <4> QED BY <2>1
    <3> QED BY <2>1, <3>1
  <2>2. CASE f = 1
    <3>1. 1 \in 1 .. f + k + e
      <4> HIDE DEF k, f, e, t
      <4> QED BY <1>1, <2>2
    <3>2. R[1] = <<cut(1 - 1), cut(1)>>
      BY <3>1
    <3>3. R[1] = <<0, Screen!Size(s)>>
      BY <1>2, <3>2
    <3>4. first = <<R[1]>>
      <4> HIDE DEF R, f
      <4> QED BY <2>2
    <3> QED BY <2>2, <3>3, <3>4
  <2> QED BY <1>1, <2>1, <2>2
<1>5. (IF e > 0 THEN <<<<Screen!Rest(s), l>>>> ELSE <<>>) = final
  <2>1. CASE e = 0
    <3>1. final = <<>>
      <4> HIDE DEF R, e
      <4> QED BY <2>1
    <3> QED BY <2>1, <3>1
  <2>2. CASE e = 1
    <3>1. t \in 1 .. f + k + e /\ t = 1 + f + k
      <4> HIDE DEF k, f, e, t
      <4> QED BY <1>1, <2>2
    <3>2. R[t] = <<cut(t - 1), cut(t)>>
      BY <3>1
    <3>3. R[t] = <<Screen!Rest(s), l>>
      BY <1>2, <3>2
    <3>4. final = <<R[t]>>
      <4> HIDE DEF R, e, k, f, t
      <4> QED BY <2>2, <3>1
    <3>5. final = <<<<Screen!Rest(s), l>>>>
      BY <3>3, <3>4
    <3>6. e > 0
      BY <2>2
    <3> HIDE DEF final, l, e
    <3> QED BY <3>5, <3>6
  <2> QED BY <1>1, <2>1, <2>2
<1>6. [j \in 1 .. k |-> <<Screen!Strip(s, j).from, Screen!Strip(s, j).to>>] = strips
  BY <1>3
<1>7. Screen!Along(s) = first \o strips \o final
  <2> HIDE DEF first, strips, final, R
  <2> QED BY <1>4, <1>5, <1>6 DEF Screen!Along
<1>8. R \in [1 .. f + k + e -> S]
  OBVIOUS
<1>9. first \o strips \o final = R
  <2>1. f \in Nat /\ k \in Nat /\ e \in Nat
    BY <1>1
  <2> HIDE DEF R, S, f, k, e
  <2> QED BY <1>8, <2>1, JoinedRow
<1>10. Screen!Along(s) = R
  BY <1>7, <1>9
<1>11. Len(R) = t
  <2> HIDE DEF k, f, e, t, cut
  <2> QED BY <1>1
<1>12. \A j \in 1 .. t : R[j] = <<cut(j - 1), cut(j)>>
  <2> HIDE DEF k, f, e, t, cut
  <2> QED BY <1>1
<1>13. R[1][1] = 0 /\ R[t][2] = l
  <2> HIDE DEF R, k, f, e, t
  <2> QED BY <1>1, <1>2, <1>12
<1>14. \A j \in 1 .. t - 1 : R[j][2] = R[j + 1][1]
  <2> HIDE DEF R, k, f, e, t
  <2> SUFFICES ASSUME NEW j \in 1 .. t - 1 PROVE R[j][2] = R[j + 1][1]
    OBVIOUS
  <2>1. j \in 1 .. t /\ j + 1 \in 1 .. t /\ (j + 1) - 1 = j
    BY <1>1
  <2> QED BY <1>12, <2>1
<1>15. Screen!Last(R) = R[t]
  <2> HIDE DEF R
  <2> QED BY <1>11 DEF Screen!Last
<1> HIDE DEF R, t
<1> QED BY <1>10, <1>11, <1>13, <1>14, <1>15 DEF Screen!Divides

\* The smallest or the largest of three numbers.
LEMMA LeastOf ==
  ASSUME NEW T \in SUBSET Nat, T # {}
  PROVE  Screen!Min(T) \in T /\ \A y \in T : Screen!Min(T) <= y
<1>1. \E x \in T : \A y \in T : x <= y
  BY SmallestOf
<1> QED BY <1>1 DEF Screen!Min

LEMMA GreatestOf ==
  ASSUME NEW a \in Nat, NEW b \in Nat, NEW c \in Nat
  PROVE  /\ Screen!Max({a, b, c}) \in {a, b, c}
         /\ \A y \in {a, b, c} : Screen!Max({a, b, c}) >= y
<1>1. \E x \in {a, b, c} : \A y \in {a, b, c} : x >= y
  OBVIOUS
<1> QED BY <1>1 DEF Screen!Max

\* Size and Rest of a side are numbers.
LEMMA SizesAreNumbers ==
  ASSUME Screen!GeometryAssumption, ScreenValues, NEW s \in Screen!Sides
  PROVE  Screen!Size(s) \in Nat /\ Screen!Rest(s) \in Nat
<1>1. Screen!Total(s) \in Nat /\ Screen!Length(s) \in Nat
  BY SideFacts
<1>2. CASE Screen!Total(s) = 0
  BY <1>2 DEF Screen!Size, Screen!Rest, Screen!Cut
<1>3. CASE Screen!Total(s) # 0
  <2>1. Screen!Total(s) \in Nat \ {0} /\ Screen!Total(s) - 1 \in Nat /\ 1 \in Nat
    BY <1>1, <1>3
  <2>2. \A j \in Nat : Screen!Cut(s, j) \in Nat
    BY <1>1, <1>3, <2>1, CutsAreShares DEF Screen!Cut
  <2> QED BY <2>1, <2>2 DEF Screen!Size, Screen!Rest
<1> QED BY <1>2, <1>3

\* The areas at two facing sides do not meet: none is deeper than half of the window.
LEMMA DepthsAreApart ==
  ASSUME Screen!GeometryAssumption, ScreenValues
  PROVE  /\ Screen!leftSizeX <= Screen!rightSizeX /\ Screen!topSizeY <= Screen!bottomSizeY
         /\ Screen!leftSizeX \in Nat /\ Screen!topSizeY \in Nat
         /\ Screen!rightSizeX \in Nat /\ Screen!bottomSizeY \in Nat
<1>1. \A s \in Screen!Sides : Screen!Size(s) \in Nat /\ Screen!Rest(s) \in Nat
  BY SizesAreNumbers
<1>2. /\ "Top" \in Screen!Sides /\ "Bottom" \in Screen!Sides
      /\ "Left" \in Screen!Sides /\ "Right" \in Screen!Sides
  BY DEF Screen!Sides
<1>3. Screen!aWidth \in Nat /\ Screen!aHeight \in Nat
  BY <1>2, SideFacts
<1>4. ASSUME NEW w \in Nat
      PROVE  w \div 2 \in Nat /\ w - (w \div 2) \in Nat /\ w \div 2 <= w - (w \div 2)
  OBVIOUS
<1>5. ASSUME NEW h \in Nat, NEW a \in Nat, NEW b \in Nat
      PROVE  Screen!Shallowest(h, {a, b}) \in Nat /\ Screen!Shallowest(h, {a, b}) <= h
  <2> DEFINE T == {h} \cup ({a, b} \ {0})
  <2>1. T \in SUBSET Nat /\ h \in T
    OBVIOUS
  <2> HIDE DEF T
  <2>2. Screen!Min(T) \in T /\ Screen!Min(T) <= h
    BY <2>1, LeastOf
  <2>3. Screen!Shallowest(h, {a, b}) = Screen!Min(T)
    BY DEF Screen!Shallowest, T
  <2> QED BY <2>1, <2>2, <2>3
<1>6. ASSUME NEW h \in Nat, NEW a \in Nat, NEW b \in Nat
      PROVE  Screen!Max({h, a, b}) \in Nat /\ h <= Screen!Max({h, a, b})
  BY GreatestOf
<1>7. /\ Screen!leftSizeX \in Nat /\ Screen!leftSizeX <= Screen!aWidth \div 2
      /\ Screen!rightSizeX \in Nat
      /\ Screen!aWidth - (Screen!aWidth \div 2) <= Screen!rightSizeX
  <2>1. Screen!aWidth \div 2 \in Nat /\ Screen!aWidth - (Screen!aWidth \div 2) \in Nat
    BY <1>3, <1>4
  <2> QED BY <1>1, <1>2, <1>5, <1>6, <2>1 DEF Screen!leftSizeX, Screen!rightSizeX
<1>8. /\ Screen!topSizeY \in Nat /\ Screen!topSizeY <= Screen!aHeight \div 2
      /\ Screen!bottomSizeY \in Nat
      /\ Screen!aHeight - (Screen!aHeight \div 2) <= Screen!bottomSizeY
  <2>1. Screen!aHeight \div 2 \in Nat /\ Screen!aHeight - (Screen!aHeight \div 2) \in Nat
    BY <1>3, <1>4
  <2> QED BY <1>1, <1>2, <1>5, <1>6, <2>1 DEF Screen!topSizeY, Screen!bottomSizeY
<1>9. /\ Screen!aWidth \div 2 <= Screen!aWidth - (Screen!aWidth \div 2)
      /\ Screen!aHeight \div 2 <= Screen!aHeight - (Screen!aHeight \div 2)
  BY <1>3, <1>4
<1>10. \A x, y, u, v \in Int : x <= u /\ u <= v /\ v <= y => x <= y
  OBVIOUS
<1>11. /\ Screen!aWidth \div 2 \in Int /\ Screen!aWidth - (Screen!aWidth \div 2) \in Int
       /\ Screen!aHeight \div 2 \in Int /\ Screen!aHeight - (Screen!aHeight \div 2) \in Int
  BY <1>3, <1>4
<1>12. Screen!leftSizeX <= Screen!rightSizeX
  BY <1>7, <1>9, <1>10, <1>11
<1>13. Screen!topSizeY <= Screen!bottomSizeY
  BY <1>8, <1>9, <1>10, <1>11
<1> QED BY <1>7, <1>8, <1>12, <1>13

\* The numbers of areas are those of the spin boxes.
ScreenInv ==
  /\ numAreas \in [Screen!Names -> Nat]
  /\ \A a \in Screen!Names : numAreas[a] <= Screen!MAX_AREAS[a]
  /\ overscan \in Overscans /\ analyzeSize \in AnalyzeSizes

LEMMA MostAreas ==
  ASSUME Screen!GeometryAssumption PROVE Screen!MAX_AREAS \in [Screen!Names -> Nat]
  BY DEF Screen!MAX_AREAS, Screen!GeometryAssumption

LEMMA ScreenInitial ==
  ASSUME Screen!GeometryAssumption, Screen!Init PROVE ScreenInv
<1>1. numAreas = [a \in Screen!Names |-> 0] /\ \A a \in Screen!Names : numAreas[a] = 0
  BY DEF Screen!Init
<1> QED BY <1>1, MostAreas DEF Screen!Init, ScreenInv

LEMMA ScreenStep ==
  ASSUME Screen!GeometryAssumption, ScreenInv, [Screen!configAreas]_Screen!vars
  PROVE  ScreenInv'
<1> USE DEF ScreenInv
<1>1. CASE UNCHANGED Screen!vars
  BY <1>1 DEF Screen!vars
<1>2. ASSUME NEW a \in Screen!Names, NEW v \in Screen!Steps(a),
             numAreas' = [numAreas EXCEPT ![a] = v], UNCHANGED <<overscan, analyzeSize>>
      PROVE  ScreenInv'
  <2>1. v \in Nat /\ v <= Screen!MAX_AREAS[a]
    BY MostAreas DEF Screen!Steps
  <2> QED BY <1>2, <2>1
<1>3. CASE /\ overscan' \in Overscans /\ analyzeSize' \in AnalyzeSizes
           /\ UNCHANGED numAreas
  BY <1>3
<1> QED BY <1>1, <1>2, <1>3 DEF Screen!configAreas

LEMMA ScreenHasValues ==
  ASSUME Screen!GeometryAssumption, ScreenInv PROVE ScreenValues
<1>1. \A a \in Screen!Corners : a \in Screen!Names /\ Screen!MAX_AREAS[a] = 1
  BY DEF Screen!Corners, Screen!Names, Screen!MAX_AREAS, Screen!Sides
<1>2. analyzeSize \in Nat
  BY DEF Screen!GeometryAssumption, ScreenInv
<1> QED BY <1>1, <1>2 DEF ScreenValues, ScreenInv

LEMMA ScreenIsTyped ==
  ASSUME Screen!GeometryAssumption, ScreenInv PROVE Screen!TypeOK
<1>1. ScreenValues
  BY ScreenHasValues
<1> QED BY <1>1, DepthsAreApart DEF Screen!TypeOK, ScreenInv

\* The layout of the screen, whatever the sheet does: every number of areas is one that
\* the sheet offers, and the depths of facing sides do not cross (configAreas,
\* areas_dlg.py:97).
THEOREM ScreenType ==
  Screen!GeometryAssumption => (Screen!Spec => []Screen!TypeOK)
<1> SUFFICES ASSUME Screen!GeometryAssumption PROVE Screen!Spec => []Screen!TypeOK
  OBVIOUS
<1>1. Screen!Init => ScreenInv
  BY ScreenInitial
<1>2. ScreenInv /\ [Screen!configAreas]_Screen!vars => ScreenInv'
  BY ScreenStep
<1>3. ScreenInv => Screen!TypeOK
  BY ScreenIsTyped
<1> QED BY <1>1, <1>2, <1>3, PTL DEF Screen!Spec

LEMMA SidesAreCut ==
  ASSUME Screen!GeometryAssumption, ScreenInv PROVE Screen!SideIsDivided
BY ScreenHasValues, RowIsCut DEF Screen!SideIsDivided

\* "Calculate area width for each border" (areas_dlg.py:99): for any screen, window and
\* number of areas, the areas at a side share its length without a gap or an overlap.
THEOREM SidesAreDivided ==
  Screen!GeometryAssumption => (Screen!Spec => []Screen!SideIsDivided)
<1> SUFFICES ASSUME Screen!GeometryAssumption PROVE Screen!Spec => []Screen!SideIsDivided
  OBVIOUS
<1>1. Screen!Init => ScreenInv
  BY ScreenInitial
<1>2. ScreenInv /\ [Screen!configAreas]_Screen!vars => ScreenInv'
  BY ScreenStep
<1>3. ScreenInv => Screen!SideIsDivided
  BY SidesAreCut
<1> QED BY <1>1, <1>2, <1>3, PTL DEF Screen!Spec

(***************************************************************************)
(* The areas tile the window                                               *)
(***************************************************************************)

\* A horizontal edge crosses no ray; a vertical one crosses those that begin left of it.
LEMMA LevelEdge ==
  ASSUME NEW x, NEW y, NEW a, NEW b, NEW v
  PROVE  ~Screen!Crosses(x, y, <<a, v>>, <<b, v>>)
  BY DEF Screen!Crosses

LEMMA UprightEdge ==
  ASSUME NEW x \in Int, NEW y \in Int, NEW u \in Int, NEW a \in Int, NEW b \in Int
  PROVE  Screen!Crosses(x, y, <<u, a>>, <<u, b>>)
           <=> ~(2 * a > y <=> 2 * b > y) /\ x < 2 * u
<1> DEFINE d == 2 * (b - a)
           p == x - 2 * u
<1>1. Screen!Crosses(x, y, <<u, a>>, <<u, b>>)
        <=> /\ ~(2 * a > y <=> 2 * b > y)
            /\ IF d > 0 THEN p * d < (y - 2 * a) * 2 * (u - u)
                        ELSE p * d > (y - 2 * a) * 2 * (u - u)
  BY DEF Screen!Crosses
<1>2. (y - 2 * a) * 2 * (u - u) = 0
  OBVIOUS
<1>3. ~(2 * a > y <=> 2 * b > y) => d # 0
  OBVIOUS
<1>4. d \in Int /\ p \in Int /\ (p < 0 <=> x < 2 * u)
  OBVIOUS
<1> HIDE DEF d, p
<1>5. /\ d > 0 => (p * d < 0 <=> p < 0)
      /\ d < 0 => (p * d > 0 <=> p < 0)
  BY <1>4
<1> QED BY <1>1, <1>2, <1>3, <1>4, <1>5

\* An edge crosses the same rays in both directions.
LEMMA EdgeTurned ==
  ASSUME NEW x \in Int, NEW y \in Int, NEW a1 \in Int, NEW a2 \in Int,
         NEW b1 \in Int, NEW b2 \in Int
  PROVE  Screen!Crosses(x, y, <<a1, a2>>, <<b1, b2>>)
           <=> Screen!Crosses(x, y, <<b1, b2>>, <<a1, a2>>)
<1> DEFINE d == 2 * (b2 - a2)
           e == 2 * (b1 - a1)
           p == x - 2 * a1
           q == y - 2 * a2
           split == ~(2 * a2 > y <=> 2 * b2 > y)
<1>1. Screen!Crosses(x, y, <<a1, a2>>, <<b1, b2>>)
        <=> split /\ IF d > 0 THEN p * d < q * e ELSE p * d > q * e
  <2>1. (y - 2 * a2) * 2 * (b1 - a1) = q * e
    OBVIOUS
  <2> QED BY <2>1 DEF Screen!Crosses
<1>2. Screen!Crosses(x, y, <<b1, b2>>, <<a1, a2>>)
        <=> split /\ IF -d > 0 THEN (p - e) * (-d) < (q - d) * (-e)
                               ELSE (p - e) * (-d) > (q - d) * (-e)
  <2>1. /\ (y - 2 * b2) * 2 * (a1 - b1) = (q - d) * (-e)
        /\ x - 2 * b1 = p - e /\ 2 * (a2 - b2) = -d
    OBVIOUS
  <2>2. Screen!Crosses(x, y, <<b1, b2>>, <<a1, a2>>)
        <=> split /\ IF 2 * (a2 - b2) > 0
                     THEN (x - 2 * b1) * (2 * (a2 - b2)) < (y - 2 * b2) * 2 * (a1 - b1)
                     ELSE (x - 2 * b1) * (2 * (a2 - b2)) > (y - 2 * b2) * 2 * (a1 - b1)
    BY DEF Screen!Crosses
  <2> HIDE DEF d, e, p, q, split
  <2> QED BY <2>1, <2>2
<1>3. d \in Int /\ e \in Int /\ p \in Int /\ q \in Int /\ (split => d # 0)
  OBVIOUS
<1> HIDE DEF d, e, p, q, split
<1>4. /\ (p - e) * (-d) = -(p * d) + e * d /\ (q - d) * (-e) = -(q * e) + d * e
      /\ e * d = d * e /\ p * d \in Int /\ q * e \in Int /\ e * d \in Int
  BY <1>3
<1>5. \A u, v, w \in Int : (-u + w > -v + w <=> u < v) /\ (-u + w < -v + w <=> u > v)
  OBVIOUS
<1>6. /\ (p - e) * (-d) > (q - d) * (-e) <=> p * d < q * e
      /\ (p - e) * (-d) < (q - d) * (-e) <=> p * d > q * e
  BY <1>4, <1>5
<1> QED BY <1>1, <1>2, <1>3, <1>6

\* The ray of a point that is left of both ends of an edge crosses it, if it is between
\* them; that of one right of both does not.
LEMMA EdgeBounds ==
  ASSUME NEW x \in Int, NEW y \in Int, NEW a1 \in Int, NEW a2 \in Int,
         NEW b1 \in Int, NEW b2 \in Int
  PROVE  /\ Screen!Crosses(x, y, <<a1, a2>>, <<b1, b2>>) =>
              ~(2 * a2 > y <=> 2 * b2 > y) /\ (x < 2 * a1 \/ x < 2 * b1)
         /\ ~(2 * a2 > y <=> 2 * b2 > y) /\ x < 2 * a1 /\ x < 2 * b1 =>
              Screen!Crosses(x, y, <<a1, a2>>, <<b1, b2>>)
<1>1. ASSUME NEW c1 \in Int, NEW c2 \in Int, NEW d1 \in Int, NEW d2 \in Int,
             2 * c2 <= y, y < 2 * d2
      PROVE  /\ Screen!Crosses(x, y, <<c1, c2>>, <<d1, d2>>) => x < 2 * c1 \/ x < 2 * d1
             /\ x < 2 * c1 /\ x < 2 * d1 => Screen!Crosses(x, y, <<c1, c2>>, <<d1, d2>>)
  <2>0. PICK lo \in {c1, d1}, hi \in {c1, d1} : lo <= c1 /\ lo <= d1 /\ c1 <= hi /\ d1 <= hi
    <3>1. CASE c1 <= d1
      BY <3>1
    <3>2. CASE d1 <= c1
      BY <3>2
    <3> QED BY <3>1, <3>2
  <2> DEFINE d == 2 * (d2 - c2)
             e == 2 * (d1 - c1)
             p == x - 2 * c1
             q == y - 2 * c2
  <2>1. Screen!Crosses(x, y, <<c1, c2>>, <<d1, d2>>) <=> p * d < q * e
    <3>1. (y - 2 * c2) * 2 * (d1 - c1) = q * e
      OBVIOUS
    <3>2. d > 0 /\ ~(2 * c2 > y <=> 2 * d2 > y)
      BY <1>1
    <3> QED BY <3>1, <3>2 DEF Screen!Crosses
  <2>2. /\ d \in Int /\ e \in Int /\ p \in Int /\ q \in Int /\ d > 0 /\ q >= 0 /\ q < d
        /\ 2 * (hi - c1) \in Int /\ 2 * (hi - c1) >= 0 /\ e <= 2 * (hi - c1)
        /\ 2 * (lo - c1) \in Int /\ 2 * (lo - c1) <= 0 /\ e >= 2 * (lo - c1)
        /\ (x < 2 * hi <=> p < 2 * (hi - c1)) /\ (x < 2 * lo <=> p < 2 * (lo - c1))
        /\ (x < 2 * hi <=> x < 2 * c1 \/ x < 2 * d1)
        /\ (x < 2 * lo <=> x < 2 * c1 /\ x < 2 * d1)
    BY <1>1, <2>0
  <2> DEFINE h == 2 * (hi - c1)
             g == 2 * (lo - c1)
  <2> HIDE DEF d, e, p, q, h, g
  <2>3. h >= 0 /\ e <= h /\ g <= 0 /\ e >= g /\ h \in Int /\ g \in Int
    BY <2>2 DEF h, g
  <2>4. q * e <= d * h
    <3>1. q * e <= q * h
      BY <2>2, <2>3
    <3>2. q * h <= d * h
      BY <2>2, <2>3
    <3>3. q * e \in Int /\ q * h \in Int /\ d * h \in Int
      BY <2>2, <2>3
    <3> QED BY <3>1, <3>2, <3>3
  <2>5. d * g <= q * e
    <3>1. q * g <= q * e
      BY <2>2, <2>3
    <3>2. d * g <= q * g
      BY <2>2, <2>3
    <3>3. q * e \in Int /\ q * g \in Int /\ d * g \in Int
      BY <2>2, <2>3
    <3> QED BY <3>1, <3>2, <3>3
  <2>6. p * d < d * h => p < h
    BY <2>2, <2>3
  <2>7. p < g => p * d < d * g
    BY <2>2, <2>3
  <2>8. p * d \in Int /\ q * e \in Int /\ d * h \in Int /\ d * g \in Int
    BY <2>2, <2>3
  <2>9. p * d < q * e => p < h
    BY <2>4, <2>6, <2>8
  <2>10. p < g => p * d < q * e
    BY <2>5, <2>7, <2>8
  <2> QED BY <2>1, <2>2, <2>9, <2>10 DEF h, g
<1>2. Screen!Crosses(x, y, <<a1, a2>>, <<b1, b2>>) => ~(2 * a2 > y <=> 2 * b2 > y)
  BY DEF Screen!Crosses
<1>3. CASE 2 * a2 <= y /\ y < 2 * b2
  BY <1>1, <1>2, <1>3
<1>4. CASE 2 * b2 <= y /\ y < 2 * a2
  <2>1. Screen!Crosses(x, y, <<a1, a2>>, <<b1, b2>>)
           <=> Screen!Crosses(x, y, <<b1, b2>>, <<a1, a2>>)
    BY EdgeTurned
  <2>2. /\ Screen!Crosses(x, y, <<b1, b2>>, <<a1, a2>>) => x < 2 * b1 \/ x < 2 * a1
        /\ x < 2 * b1 /\ x < 2 * a1 => Screen!Crosses(x, y, <<b1, b2>>, <<a1, a2>>)
    BY <1>1, <1>4
  <2> QED BY <1>2, <2>1, <2>2
<1>5. ~(2 * a2 > y <=> 2 * b2 > y) => (2 * a2 <= y /\ y < 2 * b2) \/ (2 * b2 <= y /\ y < 2 * a2)
  OBVIOUS
<1> QED BY <1>2, <1>3, <1>4, <1>5

\* Whether a number of elements is odd, when one more is looked at.
LEMMA OddWithOneMore ==
  ASSUME NEW k \in Nat, NEW P
  PROVE  LET T(m) == {j \in 1 .. m : P[j]}
         IN  Screen!Cardinality(T(k + 1)) % 2 = 1
               <=> ~((Screen!Cardinality(T(k)) % 2 = 1) <=> P[k + 1])
<1> DEFINE T(m) == {j \in 1 .. m : P[j]}
<1>1. \A S : Screen!Cardinality(S) = Cardinality(S)
  BY DEF Screen!Cardinality, Cardinality
<1>2. IsFiniteSet(T(k)) /\ Cardinality(T(k)) \in Nat
  <2>1. IsFiniteSet(1 .. k)
    BY FS_Interval
  <2>2. T(k) \subseteq 1 .. k
    OBVIOUS
  <2>3. IsFiniteSet(T(k))
    BY <2>1, <2>2, FS_Subset
  <2> HIDE DEF T
  <2> QED BY <2>3, FS_CardinalityType
<1>3. k + 1 \notin T(k)
  OBVIOUS
<1>4. P[k + 1] => T(k + 1) = T(k) \cup {k + 1}
  OBVIOUS
<1>5. ~P[k + 1] => T(k + 1) = T(k)
  OBVIOUS
<1> HIDE DEF T
<1>6. P[k + 1] => Cardinality(T(k + 1)) = Cardinality(T(k)) + 1
  BY <1>2, <1>3, <1>4, FS_AddElement
<1>7. \A m \in Nat : (m + 1) % 2 = 1 <=> ~(m % 2 = 1)
  OBVIOUS
<1>8. Screen!Cardinality(T(k + 1)) % 2 = 1
               <=> ~((Screen!Cardinality(T(k)) % 2 = 1) <=> P[k + 1])
  BY <1>1, <1>2, <1>5, <1>6, <1>7
<1> QED BY <1>8 DEF T

\* A point is in a polygon when its ray crosses an odd number of edges.
LEMMA OddOfEdges ==
  ASSUME NEW P
  PROVE  /\ Screen!Cardinality({j \in 1 .. 4 : P[j]}) % 2 = 1
              <=> ((P[1] <=> P[2]) <=> ~(P[3] <=> P[4]))
         /\ Screen!Cardinality({j \in 1 .. 6 : P[j]}) % 2 = 1
              <=> (((P[1] <=> P[2]) <=> ~(P[3] <=> P[4])) <=> (P[5] <=> P[6]))
<1> DEFINE T(m) == {j \in 1 .. m : P[j]}
           Odd(m) == Screen!Cardinality(T(m)) % 2 = 1
<1>1. \A m \in Nat : Odd(m + 1) <=> ~(Odd(m) <=> P[m + 1])
  BY OddWithOneMore
<1>2. ~Odd(0)
  <2>1. T(0) = {}
    OBVIOUS
  <2>2. Screen!Cardinality({}) = 0
    BY FS_EmptySet DEF Screen!Cardinality, Cardinality
  <2> QED BY <2>1, <2>2
<1> HIDE DEF T, Odd
<1>3. \A m \in Nat, j \in Nat : j = m + 1 => (Odd(j) <=> ~(Odd(m) <=> P[j]))
  BY <1>1
<1>4. Odd(1) <=> ~(Odd(0) <=> P[1])
  BY <1>3
<1>5. Odd(2) <=> ~(Odd(1) <=> P[2])
  BY <1>3
<1>6. Odd(3) <=> ~(Odd(2) <=> P[3])
  BY <1>3
<1>7. Odd(4) <=> ~(Odd(3) <=> P[4])
  BY <1>3
<1>8. Odd(5) <=> ~(Odd(4) <=> P[5])
  BY <1>3
<1>9. Odd(6) <=> ~(Odd(5) <=> P[6])
  BY <1>3
<1>10. Odd(4) <=> ((P[1] <=> P[2]) <=> ~(P[3] <=> P[4]))
  BY <1>2, <1>4, <1>5, <1>6, <1>7
<1>11. Odd(6) <=> (((P[1] <=> P[2]) <=> ~(P[3] <=> P[4])) <=> (P[5] <=> P[6]))
  BY <1>8, <1>9, <1>10
<1> QED BY <1>10, <1>11 DEF Odd, T

LEMMA InFourCorners ==
  ASSUME NEW x, NEW y, NEW a, NEW b, NEW c, NEW d
  PROVE  Screen!InArea(x, y, <<a, b, c, d>>)
           <=> ((Screen!Crosses(x, y, a, b) <=> Screen!Crosses(x, y, b, c))
              <=> ~(Screen!Crosses(x, y, c, d) <=> Screen!Crosses(x, y, d, a)))
<1> DEFINE p == <<a, b, c, d>>
           next(k) == IF k = Len(p) THEN p[1] ELSE p[k + 1]
           P == [k \in 1 .. 4 |-> Screen!Crosses(x, y, p[k], next(k))]
<1>1. Len(p) = 4 /\ DOMAIN p = 1 .. 4
  OBVIOUS
<1>2. {k \in DOMAIN p : Screen!Crosses(x, y, p[k], next(k))} = {j \in 1 .. 4 : P[j]}
  <2> HIDE DEF p, next
  <2> QED BY <1>1
<1>3. Screen!InArea(x, y, p)
        <=> Screen!Cardinality({k \in DOMAIN p : Screen!Crosses(x, y, p[k], next(k))}) % 2 = 1
  BY DEF Screen!InArea
<1>4. Screen!InArea(x, y, p) <=> ((P[1] <=> P[2]) <=> ~(P[3] <=> P[4]))
  <2> HIDE DEF p, next, P
  <2> QED BY <1>2, <1>3, OddOfEdges
<1>5. /\ P[1] <=> Screen!Crosses(x, y, a, b)
      /\ P[2] <=> Screen!Crosses(x, y, b, c)
      /\ P[3] <=> Screen!Crosses(x, y, c, d)
      /\ P[4] <=> Screen!Crosses(x, y, d, a)
  BY DEF P
<1> HIDE DEF P
<1> QED BY <1>4, <1>5

LEMMA InSixCorners ==
  ASSUME NEW x, NEW y, NEW a, NEW b, NEW c, NEW d, NEW e, NEW f
  PROVE  Screen!InArea(x, y, <<a, b, c, d, e, f>>)
           <=> (((Screen!Crosses(x, y, a, b) <=> Screen!Crosses(x, y, b, c))
              <=> ~(Screen!Crosses(x, y, c, d) <=> Screen!Crosses(x, y, d, e)))
              <=> (Screen!Crosses(x, y, e, f) <=> Screen!Crosses(x, y, f, a)))
<1> DEFINE p == <<a, b, c, d, e, f>>
           next(k) == IF k = Len(p) THEN p[1] ELSE p[k + 1]
           P == [k \in 1 .. 6 |-> Screen!Crosses(x, y, p[k], next(k))]
<1>1. Len(p) = 6 /\ DOMAIN p = 1 .. 6
  OBVIOUS
<1>2. {k \in DOMAIN p : Screen!Crosses(x, y, p[k], next(k))} = {j \in 1 .. 6 : P[j]}
  <2> HIDE DEF p, next
  <2> QED BY <1>1
<1>3. Screen!InArea(x, y, p)
        <=> Screen!Cardinality({k \in DOMAIN p : Screen!Crosses(x, y, p[k], next(k))}) % 2 = 1
  BY DEF Screen!InArea
<1>4. Screen!InArea(x, y, p) <=> (((P[1] <=> P[2]) <=> ~(P[3] <=> P[4])) <=> (P[5] <=> P[6]))
  <2> HIDE DEF p, next, P
  <2> QED BY <1>2, <1>3, OddOfEdges
<1>5. /\ P[1] <=> Screen!Crosses(x, y, a, b)
      /\ P[2] <=> Screen!Crosses(x, y, b, c)
      /\ P[3] <=> Screen!Crosses(x, y, c, d)
      /\ P[4] <=> Screen!Crosses(x, y, d, e)
      /\ P[5] <=> Screen!Crosses(x, y, e, f)
      /\ P[6] <=> Screen!Crosses(x, y, f, a)
  BY DEF P
<1> HIDE DEF P
<1> QED BY <1>4, <1>5

\* What the size of the window must allow: a share for every area of a side, and room on
\* the screen.  The window is 64 to 384 wide, a side has at most 30 areas and two corners.
WindowIsLarge ==
  \A z \in AnalyzeSizes :
    LET w == (z + 1) * Unit
    IN  /\ w >= MaxSide + 2 /\ (w * ScreenHeight) \div ScreenWidth >= MaxSide + 2
        /\ \A o \in Overscans : w <= ScreenWidth - 2 * ((ScreenWidth * o) \div 1000)

\* A side with areas has at least three, its corners counted.
SidesAreFull == \A s \in Screen!Sides : Screen!Total(s) >= 3 \/ Screen!Total(s) = 0

\* The depths of the four sides keep their distance, and the outer areas of a side reach at
\* least as far along it as the next side is deep.
Horizontal == {"Top", "Bottom"}
WindowIsDivided ==
  /\ Screen!aWidth \in Nat /\ Screen!aHeight \in Nat
  /\ Screen!width \in Int /\ Screen!aWidth <= Screen!width
  /\ Screen!leftSizeX \in Nat /\ Screen!rightSizeX \in Nat
  /\ Screen!leftSizeX <= Screen!rightSizeX /\ Screen!rightSizeX <= Screen!aWidth
  /\ Screen!topSizeY \in Nat /\ Screen!bottomSizeY \in Nat
  /\ Screen!topSizeY <= Screen!bottomSizeY /\ Screen!bottomSizeY <= Screen!aHeight
  /\ \A s \in Screen!Sides : Screen!Total(s) # 0 =>
       /\ Screen!Total(s) \in Nat /\ Screen!Total(s) >= 3
       /\ Screen!Cut(s, 0) = 0 /\ Screen!Cut(s, Screen!Total(s)) = Screen!Length(s)
       /\ Screen!Size(s) = Screen!Cut(s, 1)
       /\ Screen!Rest(s) = Screen!Cut(s, Screen!Total(s) - 1)
       /\ \A j, k \in Nat : /\ Screen!Cut(s, j) \in Nat
                            /\ j <= k => Screen!Cut(s, j) <= Screen!Cut(s, k)
       /\ s \in Horizontal =>
            Screen!leftSizeX <= Screen!Size(s) /\ Screen!Rest(s) <= Screen!rightSizeX
       /\ s \notin Horizontal =>
            Screen!topSizeY <= Screen!Size(s) /\ Screen!Rest(s) <= Screen!bottomSizeY

\* The places at which the areas of a side end do not go back.
LEMMA CutsGrow ==
  ASSUME NEW x \in Nat, NEW t \in Nat \ {0}, NEW j \in Nat, NEW k \in Nat, j <= k
  PROVE  (x * j) \div t <= (x * k) \div t
<1>1. x * j \in Nat /\ x * k \in Nat /\ x * j <= x * k
  OBVIOUS
<1>2. \A a, c \in Nat : a <= c => a \div t <= c \div t
  <2> SUFFICES ASSUME NEW a \in Nat, NEW c \in Nat, a <= c PROVE a \div t <= c \div t
    OBVIOUS
  <2> DEFINE p == a \div t
             q == c \div t
  <2>1. p \in Nat /\ q \in Nat /\ t * p <= a /\ c < t * q + t
    OBVIOUS
  <2> HIDE DEF p, q
  <2>2. q < p => t * q + t <= t * p
    BY <2>1
  <2>3. t * q + t \in Nat /\ t * p \in Nat
    BY <2>1
  <2> QED BY <2>1, <2>2, <2>3 DEF p, q
<1> QED BY <1>1, <1>2

\* A length that is shared by no more areas than it has pixels leaves each of them one.
LEMMA SharesArePositive ==
  ASSUME NEW x \in Nat, NEW t \in Nat \ {0}, t <= x
  PROVE  (x * 1) \div t # 0
<1> DEFINE q == (x * 1) \div t
<1>1. q \in Nat /\ x < t * q + t
  OBVIOUS
<1> HIDE DEF q
<1>2. q # 0
  BY <1>1
<1> QED BY <1>2 DEF q

LEMMA ShallowestBound ==
  ASSUME NEW h \in Nat, NEW a \in Nat, NEW c \in Nat, NEW z \in {a, c}, z # 0
  PROVE  Screen!Shallowest(h, {a, c}) <= z
<1> DEFINE T == {h} \cup ({a, c} \ {0})
<1>1. T \in SUBSET Nat /\ z \in T
  OBVIOUS
<1> HIDE DEF T
<1>2. Screen!Min(T) <= z
  BY <1>1, LeastOf
<1>3. Screen!Shallowest(h, {a, c}) = Screen!Min(T)
  BY DEF Screen!Shallowest, T
<1> QED BY <1>2, <1>3

LEMMA WindowDivides ==
  ASSUME Screen!GeometryAssumption, WindowIsLarge, ScreenInv, SidesAreFull
  PROVE  WindowIsDivided
<1>1. ScreenValues
  BY ScreenHasValues
<1>2. /\ Screen!leftSizeX \in Nat /\ Screen!rightSizeX \in Nat
      /\ Screen!leftSizeX <= Screen!rightSizeX
      /\ Screen!topSizeY \in Nat /\ Screen!bottomSizeY \in Nat
      /\ Screen!topSizeY <= Screen!bottomSizeY
  BY <1>1, DepthsAreApart
<1>3. "Top" \in Screen!Sides /\ "Bottom" \in Screen!Sides /\ "Left" \in Screen!Sides
      /\ "Right" \in Screen!Sides
  BY DEF Screen!Sides
<1>4. Screen!aWidth \in Nat /\ Screen!aHeight \in Nat
  BY <1>1, <1>3, SideFacts
<1>5. /\ Screen!aWidth >= MaxSide + 2 /\ Screen!aHeight >= MaxSide + 2
      /\ Screen!aWidth <= Screen!width
  BY DEF WindowIsLarge, ScreenInv, Screen!aWidth, Screen!aHeight, Screen!width
<1>6. Screen!width \in Int
  <2>1. \A o \in Overscans : o \in Nat
    BY DEF Screen!GeometryAssumption
  <2>2. overscan \in Nat /\ ScreenWidth \in Nat
    BY <2>1 DEF Screen!GeometryAssumption, ScreenInv
  <2>3. ScreenWidth * overscan \in Nat
    BY <2>2
  <2>4. \A m \in Nat : m \div 1000 \in Int
    OBVIOUS
  <2>5. \A u \in Nat, m \in Int : u - 2 * m \in Int
    OBVIOUS
  <2> QED BY <2>2, <2>3, <2>4, <2>5 DEF Screen!width
<1>7. ASSUME NEW s \in Screen!Sides
      PROVE  /\ Screen!Length(s) \in Nat /\ Screen!Total(s) \in Nat
             /\ Screen!Size(s) \in Nat /\ Screen!Rest(s) \in Nat
             /\ Screen!Total(s) <= Screen!Length(s)
  <2>1. /\ Screen!Length(s) \in Nat /\ Screen!Total(s) \in Nat /\ Screen!n(s) \in Nat
        /\ Screen!First(s) \in 0 .. 1 /\ Screen!Final(s) \in 0 .. 1
        /\ Screen!Total(s) = Screen!n(s) + Screen!First(s) + Screen!Final(s)
    BY <1>1, SideFacts
  <2>2. Screen!n(s) <= MaxSide /\ MaxSide \in Nat
    BY DEF ScreenInv, Screen!MAX_AREAS, Screen!Names, Screen!n, Screen!GeometryAssumption
  <2>3. Screen!Length(s) >= MaxSide + 2
    BY <1>5 DEF Screen!Length
  <2>4. Screen!Total(s) <= Screen!Length(s)
    BY <2>1, <2>2, <2>3
  <2> QED BY <1>1, <2>1, <2>4, SizesAreNumbers
<1>8. ASSUME NEW s \in Screen!Sides, Screen!Total(s) # 0
      PROVE  /\ Screen!Total(s) \in Nat \ {0} /\ Screen!Total(s) >= 3
             /\ Screen!Cut(s, 0) = 0 /\ Screen!Cut(s, Screen!Total(s)) = Screen!Length(s)
             /\ Screen!Size(s) = Screen!Cut(s, 1)
             /\ Screen!Rest(s) = Screen!Cut(s, Screen!Total(s) - 1)
             /\ \A j, k \in Nat : /\ Screen!Cut(s, j) \in Nat
                                  /\ j <= k => Screen!Cut(s, j) <= Screen!Cut(s, k)
             /\ Screen!Size(s) # 0 /\ Screen!Rest(s) <= Screen!Length(s)
  <2>1. Screen!Total(s) \in Nat \ {0} /\ Screen!Total(s) >= 3 /\ Screen!Total(s) > 0
    BY <1>7, <1>8 DEF SidesAreFull
  <2>2. /\ Screen!Cut(s, 0) = 0 /\ Screen!Cut(s, Screen!Total(s)) = Screen!Length(s)
        /\ Screen!Size(s) = Screen!Cut(s, 1)
        /\ Screen!Rest(s) = Screen!Cut(s, Screen!Total(s) - 1)
    BY <1>1, <2>1, CutFacts
  <2> DEFINE t == Screen!Total(s)
             l == Screen!Length(s)
  <2>3. \A k : Screen!Cut(s, k) = (l * k) \div t
    BY <1>8 DEF Screen!Cut
  <2>4. t \in Nat \ {0} /\ l \in Nat /\ t <= l
    BY <1>7, <2>1
  <2> HIDE DEF t, l
  <2>5. \A j, k \in Nat : /\ Screen!Cut(s, j) \in Nat
                          /\ j <= k => Screen!Cut(s, j) <= Screen!Cut(s, k)
    BY <2>3, <2>4, CutsAreShares, CutsGrow
  <2>6. Screen!Cut(s, 1) # 0
    BY <2>3, <2>4, SharesArePositive
  <2>7. Screen!Cut(s, t - 1) <= Screen!Cut(s, t)
    <3>1. t - 1 \in Nat /\ t \in Nat /\ t - 1 <= t
      BY <2>4
    <3> QED BY <2>5, <3>1
  <2> QED BY <2>1, <2>2, <2>5, <2>6, <2>7 DEF t, l
<1>9. \A w \in Nat : w \div 2 \in Nat /\ w - (w \div 2) \in Nat /\ w - (w \div 2) <= w
  OBVIOUS
<1>10. \A s \in Screen!Sides : Screen!Rest(s) <= Screen!Length(s)
  <2> SUFFICES ASSUME NEW s \in Screen!Sides, Screen!Total(s) = 0
               PROVE  Screen!Rest(s) <= Screen!Length(s)
    BY <1>8
  <2> QED BY <1>7 DEF Screen!Rest, Screen!Cut
<1>11. Screen!rightSizeX <= Screen!aWidth /\ Screen!bottomSizeY <= Screen!aHeight
  <2>1. /\ Screen!Length("Top") = Screen!aWidth /\ Screen!Length("Bottom") = Screen!aWidth
        /\ Screen!Length("Left") = Screen!aHeight /\ Screen!Length("Right") = Screen!aHeight
    BY DEF Screen!Length
  <2>2. /\ Screen!rightSizeX \in {Screen!aWidth - (Screen!aWidth \div 2), Screen!Rest("Top"),
                                  Screen!Rest("Bottom")}
        /\ Screen!bottomSizeY \in {Screen!aHeight - (Screen!aHeight \div 2),
                                   Screen!Rest("Left"), Screen!Rest("Right")}
    BY <1>3, <1>4, <1>7, <1>9, GreatestOf DEF Screen!rightSizeX, Screen!bottomSizeY
  <2> QED BY <1>3, <1>4, <1>9, <1>10, <2>1, <2>2
<1>12. ASSUME NEW s \in Screen!Sides, Screen!Total(s) # 0
       PROVE  /\ s \in Horizontal => /\ Screen!leftSizeX <= Screen!Size(s)
                                     /\ Screen!Rest(s) <= Screen!rightSizeX
              /\ s \notin Horizontal => /\ Screen!topSizeY <= Screen!Size(s)
                                        /\ Screen!Rest(s) <= Screen!bottomSizeY
  <2>1. Screen!Size(s) # 0
    BY <1>8, <1>12
  <2>2. CASE s \in Horizontal
    <3>1. Screen!Size(s) \in {Screen!Size("Top"), Screen!Size("Bottom")}
          /\ Screen!Rest(s) \in {Screen!Rest("Top"), Screen!Rest("Bottom")}
      BY <2>2 DEF Horizontal
    <3>2. Screen!leftSizeX <= Screen!Size(s)
      BY <1>3, <1>4, <1>7, <1>9, <2>1, <3>1, ShallowestBound DEF Screen!leftSizeX
    <3>3. Screen!Rest(s) <= Screen!rightSizeX
      BY <1>3, <1>4, <1>7, <1>9, <3>1, GreatestOf DEF Screen!rightSizeX
    <3> QED BY <2>2, <3>2, <3>3
  <2>3. CASE s \notin Horizontal
    <3>1. Screen!Size(s) \in {Screen!Size("Left"), Screen!Size("Right")}
          /\ Screen!Rest(s) \in {Screen!Rest("Left"), Screen!Rest("Right")}
      BY <2>3 DEF Horizontal, Screen!Sides
    <3>2. Screen!topSizeY <= Screen!Size(s)
      BY <1>3, <1>4, <1>7, <1>9, <2>1, <3>1, ShallowestBound DEF Screen!topSizeY
    <3>3. Screen!Rest(s) <= Screen!bottomSizeY
      BY <1>3, <1>4, <1>7, <1>9, <3>1, GreatestOf DEF Screen!bottomSizeY
    <3> QED BY <2>3, <3>2, <3>3
  <2> QED BY <2>2, <2>3
<1> QED BY <1>2, <1>4, <1>5, <1>6, <1>8, <1>11, <1>12 DEF WindowIsDivided

-----------------------------------------------------------------------------
\* The borders between the areas of two sides: from the corners of the window to those of
\* the centre.
LeftOfTL(x, y) == Screen!Crosses(x, y, <<0, 0>>, <<Screen!leftSizeX, Screen!topSizeY>>)
LeftOfTR(x, y) ==
  Screen!Crosses(x, y, <<Screen!aWidth, 0>>, <<Screen!rightSizeX, Screen!topSizeY>>)
LeftOfBL(x, y) ==
  Screen!Crosses(x, y, <<0, Screen!aHeight>>, <<Screen!leftSizeX, Screen!bottomSizeY>>)
LeftOfBR(x, y) ==
  Screen!Crosses(x, y, <<Screen!aWidth, Screen!aHeight>>,
                       <<Screen!rightSizeX, Screen!bottomSizeY>>)

\* The middle of a pixel is on no cut.
Middle(x, y) ==
  /\ x \in Int /\ y \in Int /\ 0 < x /\ 0 < y
  /\ x < 2 * Screen!aWidth /\ y < 2 * Screen!aHeight
  /\ \A u \in Int : x # 2 * u /\ y # 2 * u

\* The side whose areas contain a point, or the centre.
Above(y) == y < 2 * Screen!topSizeY
Below(y) == y > 2 * Screen!bottomSizeY
Zone(x, y) ==
  IF Above(y) THEN IF LeftOfTL(x, y) THEN "Left" ELSE IF LeftOfTR(x, y) THEN "Top" ELSE "Right"
  ELSE IF Below(y)
  THEN IF LeftOfBL(x, y) THEN "Left" ELSE IF LeftOfBR(x, y) THEN "Bottom" ELSE "Right"
  ELSE IF x < 2 * Screen!leftSizeX THEN "Left"
       ELSE IF x < 2 * Screen!rightSizeX THEN "Center" ELSE "Right"

LEMMA BordersAreApart ==
  ASSUME WindowIsDivided, NEW x, NEW y, Middle(x, y)
  PROVE  /\ LeftOfTL(x, y) => Above(y) /\ x < 2 * Screen!leftSizeX
         /\ LeftOfTR(x, y) => Above(y)
         /\ Above(y) /\ x < 2 * Screen!rightSizeX => LeftOfTR(x, y)
         /\ LeftOfBL(x, y) => Below(y) /\ x < 2 * Screen!leftSizeX
         /\ LeftOfBR(x, y) => Below(y)
         /\ Below(y) /\ x < 2 * Screen!rightSizeX => LeftOfBR(x, y)
         /\ Above(y) => ~Below(y)
<1> DEFINE l == Screen!leftSizeX
           r == Screen!rightSizeX
           t == Screen!topSizeY
           b == Screen!bottomSizeY
           w == Screen!aWidth
           h == Screen!aHeight
<1>1. /\ l \in Int /\ r \in Int /\ t \in Int /\ b \in Int /\ w \in Int /\ h \in Int /\ 0 \in Int
      /\ 0 <= l /\ l <= r /\ r <= w /\ 0 <= t /\ t <= b /\ b <= h
  BY DEF WindowIsDivided
<1>2. /\ x \in Int /\ y \in Int /\ 0 < x /\ 0 < y /\ x < 2 * w /\ y < 2 * h
      /\ y # 2 * t /\ y # 2 * b
  BY <1>1 DEF Middle
<1> HIDE DEF l, r, t, b, w, h
<1>3. /\ ~(2 * 0 > y <=> 2 * t > y) <=> y < 2 * t
      /\ ~(2 * h > y <=> 2 * b > y) <=> y > 2 * b
      /\ y < 2 * t => ~(y > 2 * b)
  BY <1>1, <1>2
<1>4. Screen!Crosses(x, y, <<0, 0>>, <<l, t>>) => ~(2 * 0 > y <=> 2 * t > y) /\ x < 2 * l
  BY <1>1, <1>2, EdgeBounds
<1>5. /\ Screen!Crosses(x, y, <<w, 0>>, <<r, t>>) => ~(2 * 0 > y <=> 2 * t > y)
      /\ ~(2 * 0 > y <=> 2 * t > y) /\ x < 2 * r => Screen!Crosses(x, y, <<w, 0>>, <<r, t>>)
  BY <1>1, <1>2, EdgeBounds
<1>6. Screen!Crosses(x, y, <<0, h>>, <<l, b>>) => ~(2 * h > y <=> 2 * b > y) /\ x < 2 * l
  BY <1>1, <1>2, EdgeBounds
<1>7. /\ Screen!Crosses(x, y, <<w, h>>, <<r, b>>) => ~(2 * h > y <=> 2 * b > y)
      /\ ~(2 * h > y <=> 2 * b > y) /\ x < 2 * r => Screen!Crosses(x, y, <<w, h>>, <<r, b>>)
  BY <1>1, <1>2, EdgeBounds
<1> QED BY <1>3, <1>4, <1>5, <1>6, <1>7
        DEF LeftOfTL, LeftOfTR, LeftOfBL, LeftOfBR, Above, Below, l, r, t, b, w, h

\* The zones, one by one.
LEMMA Zones ==
  ASSUME NEW x, NEW y
  PROVE  /\ Zone(x, y) \in Screen!Sides \cup {"Center"}
         /\ Zone(x, y) = "Top" <=> Above(y) /\ ~LeftOfTL(x, y) /\ LeftOfTR(x, y)
         /\ Zone(x, y) = "Bottom"
              <=> ~Above(y) /\ Below(y) /\ ~LeftOfBL(x, y) /\ LeftOfBR(x, y)
         /\ Zone(x, y) = "Left"
              <=> \/ Above(y) /\ LeftOfTL(x, y)
                  \/ ~Above(y) /\ Below(y) /\ LeftOfBL(x, y)
                  \/ ~Above(y) /\ ~Below(y) /\ x < 2 * Screen!leftSizeX
         /\ Zone(x, y) = "Right"
              <=> \/ Above(y) /\ ~LeftOfTL(x, y) /\ ~LeftOfTR(x, y)
                  \/ ~Above(y) /\ Below(y) /\ ~LeftOfBL(x, y) /\ ~LeftOfBR(x, y)
                  \/ ~Above(y) /\ ~Below(y) /\ ~(x < 2 * Screen!leftSizeX)
                     /\ ~(x < 2 * Screen!rightSizeX)
         /\ Zone(x, y) = "Center"
              <=> ~Above(y) /\ ~Below(y) /\ ~(x < 2 * Screen!leftSizeX)
                  /\ x < 2 * Screen!rightSizeX
<1> DEFINE a == Above(y)
           e == Below(y)
           p == LeftOfTL(x, y)
           q == LeftOfTR(x, y)
           u == LeftOfBL(x, y)
           v == LeftOfBR(x, y)
           l == x < 2 * Screen!leftSizeX
           r == x < 2 * Screen!rightSizeX
<1>1. Zone(x, y) = IF a THEN IF p THEN "Left" ELSE IF q THEN "Top" ELSE "Right"
                   ELSE IF e THEN IF u THEN "Left" ELSE IF v THEN "Bottom" ELSE "Right"
                   ELSE IF l THEN "Left" ELSE IF r THEN "Center" ELSE "Right"
  BY DEF Zone
<1> HIDE DEF a, e, p, q, u, v, l, r
<1> QED BY <1>1 DEF Screen!Sides, a, e, p, q, u, v, l, r

\* The corners of the areas of a side: at the cuts, except for the outer ends of a side
\* without a corner, which are cut towards the next side.
Near(s) == IF s \in Horizontal THEN Screen!leftSizeX ELSE Screen!topSizeY
Far(s) == IF s \in Horizontal THEN Screen!rightSizeX ELSE Screen!bottomSizeY

LEMMA StripKinds ==
  ASSUME Screen!GeometryAssumption, ScreenValues, NEW s \in Screen!Sides, Screen!Total(s) >= 3,
         NEW i \in 1 .. Screen!n(s)
  PROVE  LET k == i + Screen!First(s)
             p == Screen!Strip(s, i)
         IN  /\ k \in 1 .. Screen!Total(s)
             /\ p.from = Screen!Cut(s, k - 1) /\ p.to = Screen!Cut(s, k)
             /\ p.fromIn = IF k = 1 THEN Near(s) ELSE Screen!Cut(s, k - 1)
             /\ p.toIn = IF k = Screen!Total(s) THEN Far(s) ELSE Screen!Cut(s, k)
             /\ p.inner <=> k # 1 /\ k # Screen!Total(s)
<1> DEFINE n == Screen!n(s)
           f == Screen!First(s)
           e == Screen!Final(s)
           t == Screen!Total(s)
           cut(j) == Screen!Cut(s, j)
           k == i + f
           p == Screen!Strip(s, i)
<1>1. n \in Nat /\ f \in 0 .. 1 /\ e \in 0 .. 1 /\ t = n + f + e /\ t \in Nat /\ t >= 3
  BY SideFacts
<1>2. /\ cut(0) = 0 /\ cut(t) = Screen!Length(s) /\ Screen!Size(s) = cut(1)
      /\ Screen!Rest(s) = cut(t - 1)
  BY <1>1, CutFacts
<1>3. i \in Nat /\ i >= 1 /\ i <= n /\ k \in 1 .. t
  <2>1. i \in Nat /\ i >= 1 /\ i <= n
    BY <1>1
  <2> HIDE DEF n, f, e, t
  <2> QED BY <1>1, <2>1
<1>4. /\ n # 0 /\ (n = 1 => f = 1 /\ e = 1)
      /\ (k = 1 <=> i = 1 /\ f = 0) /\ (k = t <=> i = n /\ e = 0)
      /\ i - 1 + f = k - 1
  <2> HIDE DEF n, f, e, t
  <2> QED BY <1>1, <1>3
<1>5. CASE k = 1
  <2>1. n > 1 /\ ~(n = 1 /\ f = 0) /\ n > 1 /\ i = 1 /\ f = 0 /\ k # t /\ k - 1 = 0
    BY <1>1, <1>4, <1>5
  <2>2. p = [from |-> 0, to |-> Screen!Size(s), fromIn |-> Near(s), toIn |-> Screen!Size(s),
             inner |-> FALSE]
    BY <2>1 DEF Screen!Strip, Near, Horizontal
  <2> HIDE DEF p, k, t, n, f, e
  <2>3. p.from = 0 /\ p.to = Screen!Size(s) /\ p.fromIn = Near(s) /\ p.toIn = Screen!Size(s)
        /\ p.inner = FALSE
    BY <2>2
  <2> QED BY <1>2, <1>3, <1>5, <2>1, <2>3 DEF p, k, t, f
<1>6. CASE k = t
  <2>1. n > 1 /\ ~(n = 1 /\ f = 0) /\ ~(n > 1 /\ i = 1 /\ f = 0) /\ n > 1 /\ i = n /\ e = 0
        /\ k # 1
    BY <1>1, <1>4, <1>6
  <2>2. p = [from |-> Screen!Rest(s), to |-> Screen!Length(s), fromIn |-> Screen!Rest(s),
             toIn |-> Far(s), inner |-> FALSE]
    BY <2>1 DEF Screen!Strip, Far, Horizontal
  <2> HIDE DEF p, k, t, n, f, e
  <2>3. /\ p.from = Screen!Rest(s) /\ p.to = Screen!Length(s)
        /\ p.fromIn = Screen!Rest(s) /\ p.toIn = Far(s)
        /\ p.inner = FALSE
    BY <2>2
  <2> QED BY <1>2, <1>3, <1>6, <2>1, <2>3 DEF p, k, t, f
<1>7. CASE k # 1 /\ k # t
  <2>1. ~(n = 1 /\ f = 0) /\ ~(n > 1 /\ i = 1 /\ f = 0) /\ ~(n > 1 /\ i = n /\ e = 0)
    BY <1>1, <1>4, <1>7
  <2>2. p = [from |-> cut(i - 1 + f), to |-> cut(i + f), fromIn |-> cut(i - 1 + f),
             toIn |-> cut(i + f), inner |-> TRUE]
    BY <2>1 DEF Screen!Strip
  <2>3. p = [from |-> cut(k - 1), to |-> cut(k), fromIn |-> cut(k - 1),
             toIn |-> cut(k), inner |-> TRUE]
    BY <1>4, <2>2
  <2> HIDE DEF p, k, t, n, f, e
  <2>4. p.from = cut(k - 1) /\ p.to = cut(k) /\ p.fromIn = cut(k - 1) /\ p.toIn = cut(k)
        /\ p.inner = TRUE
    BY <2>3
  <2> QED BY <1>2, <1>3, <1>7, <2>4 DEF p, k, t, f
<1> QED BY <1>5, <1>6, <1>7

\* The k-th place at a side, and whether it is the place of a point.
Coordinate(s, x, y) == IF s \in Horizontal THEN x ELSE y
At(s, k, x, y) ==
  /\ 2 * Screen!Cut(s, k - 1) < Coordinate(s, x, y)
  /\ Coordinate(s, x, y) < 2 * Screen!Cut(s, k)

\* The places between the ends of a side keep clear of the sides next to it.
LEMMA CutsKeepClear ==
  ASSUME WindowIsDivided, NEW s \in Screen!Sides, Screen!Total(s) # 0,
         NEW k \in 1 .. Screen!Total(s)
  PROVE  /\ Screen!Cut(s, k - 1) \in Nat /\ Screen!Cut(s, k) \in Nat
         /\ Screen!Cut(s, k - 1) <= Screen!Cut(s, k)
         /\ k = 1 => Screen!Cut(s, k - 1) = 0
         /\ k # 1 => Near(s) <= Screen!Cut(s, k - 1)
         /\ k = Screen!Total(s) => Screen!Cut(s, k) = Screen!Length(s)
         /\ k # Screen!Total(s) => Screen!Cut(s, k) <= Far(s)
         /\ Near(s) <= Screen!Cut(s, k) /\ Screen!Cut(s, k - 1) <= Far(s)
         /\ k = 1 => k # Screen!Total(s)
         /\ Near(s) \in Nat /\ Far(s) \in Nat /\ Near(s) <= Far(s)
<1> DEFINE t == Screen!Total(s)
           cut(j) == Screen!Cut(s, j)
<1>1. /\ t \in Nat /\ t >= 3 /\ cut(0) = 0 /\ cut(t) = Screen!Length(s)
      /\ Screen!Size(s) = cut(1) /\ Screen!Rest(s) = cut(t - 1)
      /\ \A i, j \in Nat : cut(i) \in Nat /\ (i <= j => cut(i) <= cut(j))
  BY DEF WindowIsDivided
<1>2. /\ Near(s) \in Nat /\ Far(s) \in Nat /\ Near(s) <= Far(s)
      /\ Near(s) <= Screen!Size(s) /\ Screen!Rest(s) <= Far(s)
  BY DEF WindowIsDivided, Near, Far
<1> HIDE DEF t, cut
<1>3. k \in Nat /\ k - 1 \in Nat /\ 1 <= k /\ k <= t /\ k - 1 <= k /\ k - 1 <= t - 1
      /\ (k # 1 => 1 <= k - 1) /\ (k # t => k <= t - 1) /\ t - 1 \in Nat /\ 1 \in Nat
      /\ (k = 1 => k # t /\ k - 1 = 0)
  BY <1>1 DEF t
<1>4. /\ cut(k - 1) \in Nat /\ cut(k) \in Nat /\ cut(k - 1) <= cut(k)
      /\ cut(1) \in Nat /\ cut(t - 1) \in Nat
      /\ cut(1) <= cut(k) /\ cut(k - 1) <= cut(t - 1)
      /\ k # 1 => cut(1) <= cut(k - 1)
      /\ k # t => cut(k) <= cut(t - 1)
  BY <1>1, <1>3
<1>5. k = 1 => cut(k - 1) = 0
  BY <1>1, <1>3
<1>6. k = t => cut(k) = Screen!Length(s)
  BY <1>1
<1> QED BY <1>1, <1>2, <1>3, <1>4, <1>5, <1>6 DEF t, cut

\* The corners of an area of a side, by its place.
LEMMA PlaceOfStrip ==
  ASSUME Screen!GeometryAssumption, ScreenValues, WindowIsDivided, NEW s \in Screen!Sides,
         Screen!Total(s) # 0, NEW i \in 1 .. Screen!n(s)
  PROVE  LET k == i + Screen!First(s)
             p == Screen!Strip(s, i)
         IN  /\ k \in 1 .. Screen!Total(s)
             /\ p.from = Screen!Cut(s, k - 1) /\ p.to = Screen!Cut(s, k)
             /\ p.fromIn = IF k = 1 THEN Near(s) ELSE Screen!Cut(s, k - 1)
             /\ p.toIn = IF k = Screen!Total(s) THEN Far(s) ELSE Screen!Cut(s, k)
             /\ p.inner <=> k # 1 /\ k # Screen!Total(s)
<1>1. Screen!Total(s) >= 3
  BY DEF WindowIsDivided
<1> QED BY <1>1, StripKinds

\* An area at the upper or the lower side: a point is in it when it is in its place,
\* between the borders to the sides next to it.
LEMMA AcrossHolds ==
  ASSUME Screen!GeometryAssumption, ScreenValues, WindowIsDivided, NEW s \in Horizontal,
         Screen!Total(s) # 0, NEW i \in 1 .. Screen!n(s), NEW x, NEW y, Middle(x, y),
         NEW v \in Int, NEW m \in Int
  PROVE  LET p == Screen!Strip(s, i)
         IN  Screen!InArea(x, y, <<<<p.from, v>>, <<p.to, v>>, <<p.toIn, m>>, <<p.fromIn, m>>>>)
               <=> /\ ~(2 * v > y <=> 2 * m > y)
                   /\ ~Screen!Crosses(x, y, <<0, v>>, <<Screen!leftSizeX, m>>)
                   /\ Screen!Crosses(x, y, <<Screen!aWidth, v>>, <<Screen!rightSizeX, m>>)
                   /\ At(s, i + Screen!First(s), x, y)
<1> DEFINE k == i + Screen!First(s)
           p == Screen!Strip(s, i)
           a == Screen!Cut(s, k - 1)
           e == Screen!Cut(s, k)
           l == Screen!leftSizeX
           r == Screen!rightSizeX
           w == Screen!aWidth
           T == Screen!Total(s)
           D == ~(2 * v > y <=> 2 * m > y)
           C(u, q) == Screen!Crosses(x, y, u, q)
<1>0. s \in Screen!Sides
  BY DEF Screen!Sides, Horizontal
<1>1. /\ k \in 1 .. T /\ p.from = a /\ p.to = e
      /\ p.fromIn = IF k = 1 THEN l ELSE a
      /\ p.toIn = IF k = T THEN r ELSE e
  BY <1>0, PlaceOfStrip DEF Near, Far
<1>2. /\ a \in Nat /\ e \in Nat /\ a <= e /\ (k = 1 => a = 0 /\ k # T)
      /\ (k # 1 => l <= a) /\ (k = T => e = w)
      /\ (k # T => e <= r) /\ l <= e /\ a <= r
      /\ l \in Nat /\ r \in Nat /\ l <= r /\ w \in Nat /\ r <= w
  <2>1. Screen!Length(s) = w
    BY DEF Screen!Length, Horizontal
  <2> QED BY <1>0, <1>1, <2>1, CutsKeepClear DEF Near, Far, WindowIsDivided
<1>3. x \in Int /\ y \in Int /\ 0 < x /\ x < 2 * w /\ x # 2 * a /\ x # 2 * e
  BY <1>2 DEF Middle
<1>4. Screen!InArea(x, y, <<<<p.from, v>>, <<p.to, v>>, <<p.toIn, m>>, <<p.fromIn, m>>>>)
        <=> ~(C(<<e, v>>, <<p.toIn, m>>) <=> C(<<p.fromIn, m>>, <<a, v>>))
  <2> HIDE DEF a, e, p
  <2>2. Screen!InArea(x, y, <<<<a, v>>, <<e, v>>, <<p.toIn, m>>, <<p.fromIn, m>>>>)
          <=> ((C(<<a, v>>, <<e, v>>) <=> C(<<e, v>>, <<p.toIn, m>>))
             <=> ~(C(<<p.toIn, m>>, <<p.fromIn, m>>) <=> C(<<p.fromIn, m>>, <<a, v>>)))
    BY InFourCorners
  <2>3. ~C(<<a, v>>, <<e, v>>) /\ ~C(<<p.toIn, m>>, <<p.fromIn, m>>)
    BY LevelEdge
  <2> QED BY <1>1, <2>2, <2>3
<1>5. C(<<p.fromIn, m>>, <<a, v>>)
        <=> IF k = 1 THEN C(<<0, v>>, <<l, m>>) ELSE D /\ x < 2 * a
  <2> HIDE DEF k, p, a, e, l, r, w, T
  <2>1. CASE k = 1
    <3>1. l \in Int /\ 0 \in Int
      BY <1>2
    <3>2. C(<<l, m>>, <<0, v>>) <=> C(<<0, v>>, <<l, m>>)
      BY <1>3, <3>1, EdgeTurned
    <3> QED BY <1>1, <1>2, <2>1, <3>2
  <2>2. CASE k # 1
    <3>1. C(<<a, m>>, <<a, v>>) <=> ~(2 * m > y <=> 2 * v > y) /\ x < 2 * a
      BY <1>2, <1>3, UprightEdge
    <3> QED BY <1>1, <2>2, <3>1
  <2> QED BY <2>1, <2>2
<1>6. C(<<e, v>>, <<p.toIn, m>>)
        <=> IF k = T THEN C(<<w, v>>, <<r, m>>) ELSE D /\ x < 2 * e
  <2> HIDE DEF k, p, a, e, l, r, w, T
  <2>1. CASE k = T
    BY <1>1, <1>2, <2>1
  <2>2. CASE k # T
    <3>1. C(<<e, v>>, <<e, m>>) <=> ~(2 * v > y <=> 2 * m > y) /\ x < 2 * e
      BY <1>2, <1>3, UprightEdge
    <3> QED BY <1>1, <2>2, <3>1
  <2> QED BY <2>1, <2>2
<1>7. /\ C(<<0, v>>, <<l, m>>) => D /\ x < 2 * l
      /\ C(<<w, v>>, <<r, m>>) => D
      /\ D /\ x < 2 * r => C(<<w, v>>, <<r, m>>)
  <2> HIDE DEF k, p, a, e, l, r, w, T
  <2>1. l \in Int /\ r \in Int /\ w \in Int /\ 0 \in Int
    BY <1>2
  <2>2. C(<<0, v>>, <<l, m>>) => D /\ (x < 2 * 0 \/ x < 2 * l)
    <3>1. x \in Int /\ y \in Int /\ l \in Int /\ 0 \in Int
      BY <1>3, <2>1
    <3> QED BY <3>1, EdgeBounds
  <2>3. C(<<w, v>>, <<r, m>>) => D
    BY DEF Screen!Crosses
  <2>4. D /\ x < 2 * w /\ x < 2 * r => C(<<w, v>>, <<r, m>>)
    <3>1. x \in Int /\ y \in Int /\ w \in Int /\ r \in Int
      BY <1>3, <2>1
    <3> QED BY <3>1, EdgeBounds, SMTT(30)
  <2> QED BY <1>3, <2>1, <2>2, <2>3, <2>4
<1>8. At(s, k, x, y) <=> 2 * a < x /\ x < 2 * e
  BY DEF At, Coordinate
<1> DEFINE N == C(<<0, v>>, <<l, m>>)
           F == C(<<w, v>>, <<r, m>>)
<1> HIDE DEF k, p, a, e, l, r, w, T, C, D, N, F
<1>9. ~((IF k = T THEN F ELSE D /\ x < 2 * e) <=> (IF k = 1 THEN N ELSE D /\ x < 2 * a))
        <=> D /\ ~N /\ F /\ At(s, k, x, y)
  BY <1>2, <1>3, <1>7, <1>8 DEF N, F
<1>10. Screen!InArea(x, y, <<<<p.from, v>>, <<p.to, v>>, <<p.toIn, m>>, <<p.fromIn, m>>>>)
         <=> D /\ ~N /\ F /\ At(s, k, x, y)
  BY <1>4, <1>5, <1>6, <1>9 DEF N, F
<1> QED BY <1>10 DEF k, p, l, r, w, C, D, N, F

LEMMA TopHolds ==
  ASSUME Screen!GeometryAssumption, ScreenValues, WindowIsDivided, Screen!Total("Top") # 0,
         NEW i \in 1 .. Screen!n("Top"), NEW x, NEW y, Middle(x, y)
  PROVE  Screen!InArea(x, y, Screen!SidePolygon("Top", i))
           <=> Zone(x, y) = "Top" /\ At("Top", i + Screen!First("Top"), x, y)
<1> DEFINE p == Screen!Strip("Top", i)
           t == Screen!topSizeY
<1>1. 0 \in Int /\ t \in Int /\ y \in Int /\ 0 < y
  BY DEF WindowIsDivided, Middle
<1>2. ~(2 * 0 > y <=> 2 * t > y) <=> Above(y)
  BY <1>1 DEF Above
<1>3. Screen!SidePolygon("Top", i)
        = <<<<p.from, 0>>, <<p.to, 0>>, <<p.toIn, t>>, <<p.fromIn, t>>>>
  BY DEF Screen!SidePolygon
<1>4. Screen!InArea(x, y, <<<<p.from, 0>>, <<p.to, 0>>, <<p.toIn, t>>, <<p.fromIn, t>>>>)
        <=> /\ ~(2 * 0 > y <=> 2 * t > y) /\ ~LeftOfTL(x, y) /\ LeftOfTR(x, y)
            /\ At("Top", i + Screen!First("Top"), x, y)
  BY <1>1, AcrossHolds DEF Horizontal, LeftOfTL, LeftOfTR
<1>5. Zone(x, y) = "Top" <=> Above(y) /\ ~LeftOfTL(x, y) /\ LeftOfTR(x, y)
  BY Zones
<1> HIDE DEF p, t
<1> QED BY <1>2, <1>3, <1>4, <1>5

LEMMA BottomHolds ==
  ASSUME Screen!GeometryAssumption, ScreenValues, WindowIsDivided, Screen!Total("Bottom") # 0,
         NEW i \in 1 .. Screen!n("Bottom"), NEW x, NEW y, Middle(x, y)
  PROVE  Screen!InArea(x, y, Screen!SidePolygon("Bottom", i))
           <=> Zone(x, y) = "Bottom" /\ At("Bottom", i + Screen!First("Bottom"), x, y)
<1> DEFINE p == Screen!Strip("Bottom", i)
           b == Screen!bottomSizeY
           h == Screen!aHeight
<1>1. h \in Int /\ b \in Int /\ y \in Int /\ y < 2 * h /\ y # 2 * b
  BY DEF WindowIsDivided, Middle
<1>2. ~(2 * h > y <=> 2 * b > y) <=> Below(y)
  BY <1>1 DEF Below
<1>3. Screen!SidePolygon("Bottom", i)
        = <<<<p.from, h>>, <<p.to, h>>, <<p.toIn, b>>, <<p.fromIn, b>>>>
  BY DEF Screen!SidePolygon
<1>4. Screen!InArea(x, y, <<<<p.from, h>>, <<p.to, h>>, <<p.toIn, b>>, <<p.fromIn, b>>>>)
        <=> /\ ~(2 * h > y <=> 2 * b > y) /\ ~LeftOfBL(x, y) /\ LeftOfBR(x, y)
            /\ At("Bottom", i + Screen!First("Bottom"), x, y)
  BY <1>1, AcrossHolds DEF Horizontal, LeftOfBL, LeftOfBR
<1>5. Zone(x, y) = "Bottom" <=> ~Above(y) /\ Below(y) /\ ~LeftOfBL(x, y) /\ LeftOfBR(x, y)
  BY Zones
<1>6. Below(y) => ~Above(y)
  BY BordersAreApart
<1> HIDE DEF p, b, h
<1> QED BY <1>2, <1>3, <1>4, <1>5, <1>6

\* What the borders say of a point, and its place at a vertical side.
LEMMA DownFacts ==
  ASSUME Screen!GeometryAssumption, ScreenValues, WindowIsDivided,
         NEW s \in {"Left", "Right"}, Screen!Total(s) # 0, NEW i \in 1 .. Screen!n(s),
         NEW x, NEW y, Middle(x, y)
  PROVE  LET k == i + Screen!First(s)
             p == Screen!Strip(s, i)
             a == Screen!Cut(s, k - 1)
             e == Screen!Cut(s, k)
         IN  /\ k \in 1 .. Screen!Total(s) /\ p.from = a /\ p.to = e
             /\ p.fromIn = IF k = 1 THEN Screen!topSizeY ELSE a
             /\ p.toIn = IF k = Screen!Total(s) THEN Screen!bottomSizeY ELSE e
             /\ p.inner <=> k # 1 /\ k # Screen!Total(s)
             /\ a \in Int /\ e \in Int /\ a <= e
             /\ k = 1 => a = 0 /\ k # Screen!Total(s)
             /\ k # 1 => Screen!topSizeY <= a
             /\ k = Screen!Total(s) => e = Screen!aHeight
             /\ k # Screen!Total(s) => e <= Screen!bottomSizeY
             /\ Screen!topSizeY <= e /\ a <= Screen!bottomSizeY
             /\ y # 2 * a /\ y # 2 * e
             /\ At(s, k, x, y) <=> 2 * a < y /\ y < 2 * e
<1> DEFINE k == i + Screen!First(s)
           p == Screen!Strip(s, i)
           a == Screen!Cut(s, k - 1)
           e == Screen!Cut(s, k)
           T == Screen!Total(s)
           t == Screen!topSizeY
           b == Screen!bottomSizeY
<1>0. s \in Screen!Sides /\ s \notin Horizontal /\ Screen!Length(s) = Screen!aHeight
  BY DEF Screen!Sides, Horizontal, Screen!Length
<1>1. /\ k \in 1 .. T /\ p.from = a /\ p.to = e
      /\ p.fromIn = IF k = 1 THEN t ELSE a
      /\ p.toIn = IF k = T THEN b ELSE e
      /\ p.inner <=> k # 1 /\ k # T
  BY <1>0, PlaceOfStrip DEF Near, Far
<1>2. /\ a \in Int /\ e \in Int /\ a <= e /\ (k = 1 => a = 0 /\ k # T)
      /\ (k # 1 => t <= a) /\ (k = T => e = Screen!aHeight)
      /\ (k # T => e <= b) /\ t <= e /\ a <= b
  BY <1>0, <1>1, CutsKeepClear DEF Near, Far
<1>3. y # 2 * a /\ y # 2 * e
  BY <1>2 DEF Middle
<1>4. At(s, k, x, y) <=> 2 * a < y /\ y < 2 * e
  BY <1>0 DEF At, Coordinate
<1> HIDE DEF k, p, a, e, T, t, b
<1> QED BY <1>1, <1>2, <1>3, <1>4 DEF k, p, a, e, T, t, b

\* The borders and the window, by their coordinates.
LEMMA PointFacts ==
  ASSUME WindowIsDivided, NEW x, NEW y, Middle(x, y)
  PROVE  /\ x \in Int /\ y \in Int /\ 0 < x /\ x < 2 * Screen!aWidth
         /\ 0 < y /\ y < 2 * Screen!aHeight
         /\ x # 2 * Screen!leftSizeX /\ x # 2 * Screen!rightSizeX
         /\ y # 2 * Screen!topSizeY /\ y # 2 * Screen!bottomSizeY
         /\ Screen!leftSizeX \in Int /\ Screen!rightSizeX \in Int
         /\ Screen!topSizeY \in Int /\ Screen!bottomSizeY \in Int
         /\ Screen!aWidth \in Int /\ Screen!aHeight \in Int /\ Screen!width \in Int
         /\ 0 <= Screen!leftSizeX /\ Screen!leftSizeX <= Screen!rightSizeX
         /\ Screen!rightSizeX <= Screen!aWidth /\ Screen!aWidth <= Screen!width
         /\ 0 <= Screen!topSizeY /\ Screen!topSizeY <= Screen!bottomSizeY
         /\ Screen!bottomSizeY <= Screen!aHeight
<1>1. /\ Screen!leftSizeX \in Int /\ Screen!rightSizeX \in Int
      /\ Screen!topSizeY \in Int /\ Screen!bottomSizeY \in Int
      /\ Screen!aWidth \in Int /\ Screen!aHeight \in Int /\ Screen!width \in Int
      /\ 0 <= Screen!leftSizeX /\ Screen!leftSizeX <= Screen!rightSizeX
      /\ Screen!rightSizeX <= Screen!aWidth /\ Screen!aWidth <= Screen!width
      /\ 0 <= Screen!topSizeY /\ Screen!topSizeY <= Screen!bottomSizeY
      /\ Screen!bottomSizeY <= Screen!aHeight
  BY DEF WindowIsDivided
<1>2. /\ x \in Int /\ y \in Int /\ 0 < x /\ x < 2 * Screen!aWidth
      /\ 0 < y /\ y < 2 * Screen!aHeight
      /\ x # 2 * Screen!leftSizeX /\ x # 2 * Screen!rightSizeX
      /\ y # 2 * Screen!topSizeY /\ y # 2 * Screen!bottomSizeY
  BY <1>1 DEF Middle
<1> QED BY <1>1, <1>2

LEMMA LeftHolds ==
  ASSUME Screen!GeometryAssumption, ScreenValues, WindowIsDivided, Screen!Total("Left") # 0,
         NEW i \in 1 .. Screen!n("Left"), NEW x, NEW y, Middle(x, y)
  PROVE  Screen!InArea(x, y, Screen!SidePolygon("Left", i))
           <=> Zone(x, y) = "Left" /\ At("Left", i + Screen!First("Left"), x, y)
<1> DEFINE k == i + Screen!First("Left")
           p == Screen!Strip("Left", i)
           a == Screen!Cut("Left", k - 1)
           e == Screen!Cut("Left", k)
           T == Screen!Total("Left")
           l == Screen!leftSizeX
           t == Screen!topSizeY
           b == Screen!bottomSizeY
           h == Screen!aHeight
           C(u, q) == Screen!Crosses(x, y, u, q)
           c2 == C(<<0, p.to>>, <<l, p.toIn>>)
           c3 == C(<<l, p.toIn>>, <<l, p.fromIn>>)
           c4 == C(<<l, p.fromIn>>, <<0, p.from>>)
<1>1. /\ k \in 1 .. T /\ p.from = a /\ p.to = e
      /\ p.fromIn = IF k = 1 THEN t ELSE a
      /\ p.toIn = IF k = T THEN b ELSE e
      /\ a \in Int /\ e \in Int /\ a <= e /\ (k = 1 => a = 0 /\ k # T)
      /\ (k # 1 => t <= a) /\ (k = T => e = h) /\ (k # T => e <= b) /\ t <= e /\ a <= b
      /\ y # 2 * a /\ y # 2 * e
      /\ At("Left", k, x, y) <=> 2 * a < y /\ y < 2 * e
  BY DownFacts
<1>2. /\ x \in Int /\ y \in Int /\ 0 < x /\ 0 < y /\ y < 2 * h /\ x # 2 * l
      /\ y # 2 * t /\ y # 2 * b /\ l \in Int /\ t \in Int /\ b \in Int /\ h \in Int /\ t <= b
  BY PointFacts
<1>3. Screen!SidePolygon("Left", i)
        = <<<<0, p.from>>, <<0, p.to>>, <<l, p.toIn>>, <<l, p.fromIn>>>>
  BY DEF Screen!SidePolygon
<1> HIDE DEF k, p, a, e, T, l, t, b, h
<1>4. Screen!InArea(x, y, Screen!SidePolygon("Left", i)) <=> (c2 <=> (c3 <=> c4))
  <2>1. Screen!InArea(x, y, <<<<0, p.from>>, <<0, p.to>>, <<l, p.toIn>>, <<l, p.fromIn>>>>)
          <=> ((C(<<0, p.from>>, <<0, p.to>>) <=> c2) <=> ~(c3 <=> c4))
    BY InFourCorners
  <2>2. ~C(<<0, a>>, <<0, e>>)
    <3>1. C(<<0, a>>, <<0, e>>) <=> ~(2 * a > y <=> 2 * e > y) /\ x < 2 * 0
      BY <1>1, <1>2, UprightEdge
    <3> QED BY <1>2, <3>1
  <2> QED BY <1>1, <1>3, <2>1, <2>2
<1>5. c4 <=> k = 1 /\ LeftOfTL(x, y)
  <2>1. CASE k = 1
    <3>1. C(<<l, t>>, <<0, 0>>) <=> C(<<0, 0>>, <<l, t>>)
      <4>1. 0 \in Int
        OBVIOUS
      <4> QED BY <1>2, <4>1, EdgeTurned
    <3> QED BY <1>1, <2>1, <3>1 DEF LeftOfTL, l, t
  <2>2. CASE k # 1
    BY <1>1, <2>2, LevelEdge
  <2> QED BY <2>1, <2>2
<1>6. c2 <=> k = T /\ LeftOfBL(x, y)
  <2>1. CASE k = T
    BY <1>1, <2>1 DEF LeftOfBL, l, b, h
  <2>2. CASE k # T
    BY <1>1, <2>2, LevelEdge
  <2> QED BY <2>1, <2>2
<1>7. c3 <=> ~(2 * p.toIn > y <=> 2 * p.fromIn > y) /\ x < 2 * l
  <2> DEFINE u == p.toIn
             v == p.fromIn
  <2>1. u \in Int /\ v \in Int
    BY <1>1, <1>2
  <2> HIDE DEF u, v
  <2>2. C(<<l, u>>, <<l, v>>) <=> ~(2 * u > y <=> 2 * v > y) /\ x < 2 * l
    BY <1>2, <2>1, UprightEdge
  <2> QED BY <2>2 DEF u, v
<1>8. /\ LeftOfTL(x, y) => y < 2 * t /\ x < 2 * l
      /\ LeftOfBL(x, y) => y > 2 * b /\ x < 2 * l
  BY BordersAreApart DEF Above, Below, l, t, b
<1>9. Zone(x, y) = "Left"
        <=> \/ y < 2 * t /\ LeftOfTL(x, y)
            \/ ~(y < 2 * t) /\ y > 2 * b /\ LeftOfBL(x, y)
            \/ ~(y < 2 * t) /\ ~(y > 2 * b) /\ x < 2 * l
  BY Zones DEF Above, Below, l, t, b
<1> DEFINE P == LeftOfTL(x, y)
           Q == LeftOfBL(x, y)
           Z == Zone(x, y) = "Left"
           A == At("Left", k, x, y)
<1> HIDE DEF c2, c3, c4, C, P, Q, Z, A
<1>10. (c2 <=> (c3 <=> c4)) <=> Z /\ A
  <2>1. CASE k = 1
    BY <1>1, <1>2, <1>5, <1>6, <1>7, <1>8, <1>9, <2>1 DEF P, Q, Z, A
  <2>2. CASE k = T
    BY <1>1, <1>2, <1>5, <1>6, <1>7, <1>8, <1>9, <2>2 DEF P, Q, Z, A
  <2>3. CASE k # 1 /\ k # T
    BY <1>1, <1>2, <1>5, <1>6, <1>7, <1>8, <1>9, <2>3 DEF P, Q, Z, A
  <2> QED BY <2>1, <2>2, <2>3
<1> QED BY <1>4, <1>10 DEF Z, A, k

\* What is right of the centre is right of the left side.
LEMMA RightZone ==
  ASSUME WindowIsDivided, NEW x, NEW y, Middle(x, y)
  PROVE  Zone(x, y) = "Right"
           <=> \/ Above(y) /\ ~LeftOfTR(x, y)
               \/ ~Above(y) /\ Below(y) /\ ~LeftOfBR(x, y)
               \/ ~Above(y) /\ ~Below(y) /\ ~(x < 2 * Screen!rightSizeX)
<1>1. /\ Above(y) /\ LeftOfTL(x, y) => LeftOfTR(x, y)
      /\ Below(y) /\ LeftOfBL(x, y) => LeftOfBR(x, y)
      /\ x < 2 * Screen!leftSizeX => x < 2 * Screen!rightSizeX
  <2>1. x < 2 * Screen!leftSizeX => x < 2 * Screen!rightSizeX
    BY PointFacts
  <2> QED BY <2>1, BordersAreApart
<1> QED BY <1>1, Zones

LEMMA RightHolds ==
  ASSUME Screen!GeometryAssumption, ScreenValues, WindowIsDivided, Screen!Total("Right") # 0,
         NEW i \in 1 .. Screen!n("Right"), NEW x, NEW y, Middle(x, y)
  PROVE  Screen!InArea(x, y, Screen!SidePolygon("Right", i))
           <=> Zone(x, y) = "Right" /\ At("Right", i + Screen!First("Right"), x, y)
<1> DEFINE k == i + Screen!First("Right")
           p == Screen!Strip("Right", i)
           a == Screen!Cut("Right", k - 1)
           e == Screen!Cut("Right", k)
           T == Screen!Total("Right")
           r == Screen!rightSizeX
           w == Screen!aWidth
           o == IF p.inner THEN Screen!width ELSE w
           t == Screen!topSizeY
           b == Screen!bottomSizeY
           h == Screen!aHeight
           C(u, q) == Screen!Crosses(x, y, u, q)
           c1 == C(<<o, p.from>>, <<o, p.to>>)
           c2 == C(<<o, p.to>>, <<r, p.toIn>>)
           c3 == C(<<r, p.toIn>>, <<r, p.fromIn>>)
           c4 == C(<<r, p.fromIn>>, <<o, p.from>>)
<1>1. /\ k \in 1 .. T /\ p.from = a /\ p.to = e
      /\ p.fromIn = IF k = 1 THEN t ELSE a
      /\ p.toIn = IF k = T THEN b ELSE e
      /\ a \in Int /\ e \in Int /\ a <= e /\ (k = 1 => a = 0 /\ k # T)
      /\ (k # 1 => t <= a) /\ (k = T => e = h) /\ (k # T => e <= b) /\ t <= e /\ a <= b
      /\ p.inner <=> k # 1 /\ k # T
      /\ y # 2 * a /\ y # 2 * e
      /\ At("Right", k, x, y) <=> 2 * a < y /\ y < 2 * e
  BY DownFacts
<1>2. /\ x \in Int /\ y \in Int /\ 0 < x /\ 0 < y /\ y < 2 * h /\ x # 2 * r
      /\ y # 2 * t /\ y # 2 * b /\ r \in Int /\ t \in Int /\ b \in Int /\ h \in Int /\ t <= b
      /\ o \in Int /\ x < 2 * o /\ w \in Int
  BY PointFacts
<1>3. Screen!SidePolygon("Right", i)
        = <<<<o, p.from>>, <<o, p.to>>, <<r, p.toIn>>, <<r, p.fromIn>>>>
  BY DEF Screen!SidePolygon
<1>0. k = 1 \/ k = T => o = w
  BY <1>1
<1> HIDE DEF k, p, a, e, T, r, w, o, t, b, h
<1>4. /\ Screen!InArea(x, y, Screen!SidePolygon("Right", i)) <=> ((c1 <=> c2) <=> ~(c3 <=> c4))
      /\ c1 <=> ~(2 * a > y <=> 2 * e > y)
  <2>1. Screen!InArea(x, y, <<<<o, p.from>>, <<o, p.to>>, <<r, p.toIn>>, <<r, p.fromIn>>>>)
          <=> ((c1 <=> c2) <=> ~(c3 <=> c4))
    BY InFourCorners
  <2>2. C(<<o, a>>, <<o, e>>) <=> ~(2 * a > y <=> 2 * e > y) /\ x < 2 * o
    BY <1>1, <1>2, UprightEdge
  <2> QED BY <1>1, <1>2, <1>3, <2>1, <2>2
<1>5. c4 <=> k = 1 /\ LeftOfTR(x, y)
  <2>1. CASE k = 1
    <3>1. C(<<r, t>>, <<w, 0>>) <=> C(<<w, 0>>, <<r, t>>)
      <4>1. 0 \in Int
        OBVIOUS
      <4> QED BY <1>2, <4>1, EdgeTurned
    <3> QED BY <1>0, <1>1, <2>1, <3>1 DEF LeftOfTR, r, t, w
  <2>2. CASE k # 1
    BY <1>1, <2>2, LevelEdge
  <2> QED BY <2>1, <2>2
<1>6. c2 <=> k = T /\ LeftOfBR(x, y)
  <2>1. CASE k = T
    BY <1>0, <1>1, <2>1 DEF LeftOfBR, r, b, h, w
  <2>2. CASE k # T
    BY <1>1, <2>2, LevelEdge
  <2> QED BY <2>1, <2>2
<1>7. c3 <=> ~(2 * p.toIn > y <=> 2 * p.fromIn > y) /\ x < 2 * r
  <2> DEFINE u == p.toIn
             v == p.fromIn
  <2>1. u \in Int /\ v \in Int
    BY <1>1, <1>2
  <2> HIDE DEF u, v
  <2>2. C(<<r, u>>, <<r, v>>) <=> ~(2 * u > y <=> 2 * v > y) /\ x < 2 * r
    BY <1>2, <2>1, UprightEdge
  <2> QED BY <2>2 DEF u, v
<1>8. /\ LeftOfTR(x, y) => y < 2 * t
      /\ y < 2 * t /\ x < 2 * r => LeftOfTR(x, y)
      /\ LeftOfBR(x, y) => y > 2 * b
      /\ y > 2 * b /\ x < 2 * r => LeftOfBR(x, y)
  BY BordersAreApart DEF Above, Below, r, t, b
<1>9. Zone(x, y) = "Right"
        <=> \/ y < 2 * t /\ ~LeftOfTR(x, y)
            \/ ~(y < 2 * t) /\ y > 2 * b /\ ~LeftOfBR(x, y)
            \/ ~(y < 2 * t) /\ ~(y > 2 * b) /\ ~(x < 2 * r)
  BY RightZone DEF Above, Below, r, t, b
<1> DEFINE P == LeftOfTR(x, y)
           Q == LeftOfBR(x, y)
           Z == Zone(x, y) = "Right"
           A == At("Right", k, x, y)
<1> HIDE DEF c1, c2, c3, c4, C, P, Q, Z, A
<1>10. ((c1 <=> c2) <=> ~(c3 <=> c4)) <=> Z /\ A
  <2>1. CASE k = 1
    BY <1>1, <1>2, <1>4, <1>5, <1>6, <1>7, <1>8, <1>9, <2>1 DEF P, Q, Z, A
  <2>2. CASE k = T
    BY <1>1, <1>2, <1>4, <1>5, <1>6, <1>7, <1>8, <1>9, <2>2 DEF P, Q, Z, A
  <2>3. CASE k # 1 /\ k # T
    BY <1>1, <1>2, <1>4, <1>5, <1>6, <1>7, <1>8, <1>9, <2>3 DEF P, Q, Z, A
  <2> QED BY <2>1, <2>2, <2>3
<1> QED BY <1>4, <1>10 DEF Z, A, k

\* A corner covers the ends of two sides: three of its edges are upright.
CornerShape(u, px, dx, v, py, dy) ==
  <<<<u, v>>, <<px, v>>, <<px, dy>>, <<dx, dy>>, <<dx, py>>, <<u, py>>>>

LEMMA InCornerShape ==
  ASSUME NEW x, NEW y, NEW u, NEW px, NEW dx, NEW v, NEW py, NEW dy
  PROVE  Screen!InArea(x, y, CornerShape(u, px, dx, v, py, dy))
           <=> (Screen!Crosses(x, y, <<px, v>>, <<px, dy>>)
                  <=> (Screen!Crosses(x, y, <<dx, dy>>, <<dx, py>>)
                         <=> Screen!Crosses(x, y, <<u, py>>, <<u, v>>)))
<1> DEFINE C(a, b) == Screen!Crosses(x, y, a, b)
<1>1. Screen!InArea(x, y, CornerShape(u, px, dx, v, py, dy))
        <=> (((C(<<u, v>>, <<px, v>>) <=> C(<<px, v>>, <<px, dy>>))
           <=> ~(C(<<px, dy>>, <<dx, dy>>) <=> C(<<dx, dy>>, <<dx, py>>)))
           <=> (C(<<dx, py>>, <<u, py>>) <=> C(<<u, py>>, <<u, v>>)))
  BY InSixCorners DEF CornerShape
<1>2. ~C(<<u, v>>, <<px, v>>) /\ ~C(<<px, dy>>, <<dx, dy>>) /\ ~C(<<dx, py>>, <<u, py>>)
  BY LevelEdge
<1> HIDE DEF C
<1>3. Screen!InArea(x, y, CornerShape(u, px, dx, v, py, dy))
        <=> (C(<<px, v>>, <<px, dy>>)
               <=> (C(<<dx, dy>>, <<dx, py>>) <=> C(<<u, py>>, <<u, v>>)))
  BY <1>1, <1>2
<1> QED BY <1>3 DEF C

\* The outer places of a side whose ends have a corner.
LEMMA EndFacts ==
  ASSUME WindowIsDivided, NEW s \in Screen!Sides, Screen!Total(s) # 0, NEW x, NEW y, Middle(x, y)
  PROVE  /\ Screen!Size(s) \in Int /\ Screen!Rest(s) \in Int
         /\ Near(s) <= Screen!Size(s) /\ Screen!Size(s) <= Far(s)
         /\ Near(s) <= Screen!Rest(s) /\ Screen!Rest(s) <= Far(s)
         /\ Coordinate(s, x, y) # 2 * Screen!Size(s) /\ Coordinate(s, x, y) # 2 * Screen!Rest(s)
         /\ At(s, 1, x, y) <=> Coordinate(s, x, y) < 2 * Screen!Size(s)
         /\ At(s, Screen!Total(s), x, y) <=> Coordinate(s, x, y) > 2 * Screen!Rest(s)
<1> DEFINE t == Screen!Total(s)
           c == Coordinate(s, x, y)
<1>1. /\ t \in Nat /\ t >= 3 /\ Screen!Cut(s, 0) = 0 /\ Screen!Cut(s, t) = Screen!Length(s)
      /\ Screen!Size(s) = Screen!Cut(s, 1) /\ Screen!Rest(s) = Screen!Cut(s, t - 1)
  BY DEF WindowIsDivided
<1>2. /\ Screen!Cut(s, 1) \in Nat /\ Near(s) <= Screen!Cut(s, 1) /\ Screen!Cut(s, 1) <= Far(s)
  <2>1. 1 \in 1 .. t /\ 1 # t
    BY <1>1
  <2> QED BY <2>1, CutsKeepClear
<1>3. /\ Screen!Cut(s, t - 1) \in Nat /\ Near(s) <= Screen!Cut(s, t - 1)
      /\ Screen!Cut(s, t - 1) <= Far(s)
  <2>1. t - 1 \in 1 .. t /\ t - 1 # t
    BY <1>1
  <2> QED BY <2>1, CutsKeepClear
<1>4. /\ c \in Int /\ 0 < c /\ c < 2 * Screen!Length(s)
      /\ \A u \in Int : c # 2 * u
  BY DEF Middle, Coordinate, Screen!Length, Horizontal
<1>5. /\ At(s, 1, x, y) <=> 2 * Screen!Cut(s, 0) < c /\ c < 2 * Screen!Cut(s, 1)
      /\ At(s, t, x, y) <=> 2 * Screen!Cut(s, t - 1) < c /\ c < 2 * Screen!Cut(s, t)
  BY DEF At
<1> HIDE DEF t, c
<1>6. /\ At(s, 1, x, y) <=> c < 2 * Screen!Cut(s, 1)
      /\ At(s, t, x, y) <=> c > 2 * Screen!Cut(s, t - 1)
      /\ c # 2 * Screen!Cut(s, 1) /\ c # 2 * Screen!Cut(s, t - 1)
  BY <1>1, <1>2, <1>3, <1>4, <1>5
<1> QED BY <1>1, <1>2, <1>3, <1>6 DEF t, c

\* A corner that is there is the first or the last area of both of its sides.
LEMMA CornerEnds ==
  ASSUME Screen!GeometryAssumption, ScreenValues, NEW s \in Screen!Sides, NEW j \in 1 .. 2,
         Screen!n(Screen!CornersOf[s][j]) = 1
  PROVE  Screen!Total(s) # 0
<1>1. /\ Screen!n(s) \in Nat /\ Screen!First(s) \in 0 .. 1 /\ Screen!Final(s) \in 0 .. 1
      /\ Screen!Total(s) = Screen!n(s) + Screen!First(s) + Screen!Final(s)
  BY SideFacts
<1>2. Screen!First(s) = 1 \/ Screen!Final(s) = 1
  BY DEF Screen!First, Screen!Final
<1> QED BY <1>1, <1>2

LEMMA TopLeftHolds ==
  ASSUME Screen!GeometryAssumption, ScreenValues, WindowIsDivided, Screen!n("TopLeft") = 1,
         NEW x, NEW y, Middle(x, y)
  PROVE  Screen!InArea(x, y, Screen!CornerPolygon("TopLeft"))
           <=> \/ Zone(x, y) = "Top" /\ At("Top", 1, x, y)
               \/ Zone(x, y) = "Left" /\ At("Left", 1, x, y)
<1> DEFINE l == Screen!leftSizeX
           r == Screen!rightSizeX
           t == Screen!topSizeY
           b == Screen!bottomSizeY
           p == Screen!Size("Top")
           q == Screen!Size("Left")
           u == 0
           v == 0
<1>1. /\ "Top" \in Screen!Sides /\ "Left" \in Screen!Sides
      /\ Screen!Total("Top") # 0 /\ Screen!Total("Left") # 0
  <2>1. "Top" \in Screen!Sides /\ "Left" \in Screen!Sides /\ 1 \in 1 .. 2 /\ 2 \in 1 .. 2
    BY DEF Screen!Sides
  <2>2. Screen!CornersOf["Top"][1] = "TopLeft" /\ Screen!CornersOf["Left"][1] = "TopLeft"
    BY DEF Screen!CornersOf
  <2> QED BY <2>1, <2>2, CornerEnds
<1>2. /\ p \in Int /\ l <= p /\ p <= r /\ x # 2 * p
      /\ At("Top", 1, x, y) <=> x < 2 * p
  BY <1>1, EndFacts DEF Coordinate, Near, Far, Horizontal
<1>3. /\ q \in Int /\ t <= q /\ q <= b /\ y # 2 * q
      /\ At("Left", 1, x, y) <=> y < 2 * q
  BY <1>1, EndFacts DEF Coordinate, Near, Far, Horizontal
<1>4. /\ x \in Int /\ y \in Int /\ 0 < x /\ 0 < y /\ x # 2 * l /\ x # 2 * r
      /\ y # 2 * t /\ y # 2 * b /\ l \in Int /\ r \in Int /\ t \in Int /\ b \in Int
      /\ 0 <= t /\ t <= b /\ l <= r
      /\ u \in Int /\ v \in Int /\ ~(x < 2 * u) /\ 2 * v < y
  BY PointFacts
<1>5. Screen!CornerPolygon("TopLeft")
        = CornerShape(u, p, l, v, q, t)
  BY DEF Screen!CornerPolygon, CornerShape
<1> HIDE DEF l, r, t, b, p, q, u, v
<1>6. Screen!InArea(x, y, CornerShape(u, p, l, v, q, t))
           <=> ((~(2 * v > y <=> 2 * t > y) /\ x < 2 * p)
                  <=> ((~(2 * t > y <=> 2 * q > y) /\ x < 2 * l)
                         <=> (~(2 * q > y <=> 2 * v > y) /\ x < 2 * u)))
  <2>1. Screen!InArea(x, y, CornerShape(u, p, l, v, q, t))
          <=> (Screen!Crosses(x, y, <<p, v>>, <<p, t>>)
                 <=> (Screen!Crosses(x, y, <<l, t>>, <<l, q>>)
                        <=> Screen!Crosses(x, y, <<u, q>>, <<u, v>>)))
    BY InCornerShape
  <2>2. Screen!Crosses(x, y, <<p, v>>, <<p, t>>) <=> ~(2 * v > y <=> 2 * t > y) /\ x < 2 * p
    BY <1>2, <1>4, UprightEdge
  <2>3. Screen!Crosses(x, y, <<l, t>>, <<l, q>>) <=> ~(2 * t > y <=> 2 * q > y) /\ x < 2 * l
    BY <1>3, <1>4, UprightEdge
  <2>4. Screen!Crosses(x, y, <<u, q>>, <<u, v>>) <=> ~(2 * q > y <=> 2 * v > y) /\ x < 2 * u
    BY <1>3, <1>4, UprightEdge
  <2> QED BY <2>1, <2>2, <2>3, <2>4
<1>7. /\ LeftOfTL(x, y) => y < 2 * t /\ x < 2 * l
      /\ LeftOfTR(x, y) => y < 2 * t
      /\ y < 2 * t /\ x < 2 * r => LeftOfTR(x, y)
  BY BordersAreApart DEF Above, l, r, t
<1>8. /\ Zone(x, y) = "Top" <=> y < 2 * t /\ ~LeftOfTL(x, y) /\ LeftOfTR(x, y)
      /\ Zone(x, y) = "Left"
           <=> \/ y < 2 * t /\ LeftOfTL(x, y)
               \/ ~(y < 2 * t) /\ y > 2 * b /\ LeftOfBL(x, y)
               \/ ~(y < 2 * t) /\ ~(y > 2 * b) /\ x < 2 * l
  BY Zones DEF Above, Below, l, t, b
<1> QED BY <1>2, <1>3, <1>4, <1>5, <1>6, <1>7, <1>8

LEMMA TopRightHolds ==
  ASSUME Screen!GeometryAssumption, ScreenValues, WindowIsDivided, Screen!n("TopRight") = 1,
         NEW x, NEW y, Middle(x, y)
  PROVE  Screen!InArea(x, y, Screen!CornerPolygon("TopRight"))
           <=> \/ Zone(x, y) = "Top" /\ At("Top", Screen!Total("Top"), x, y)
               \/ Zone(x, y) = "Right" /\ At("Right", 1, x, y)
<1> DEFINE l == Screen!leftSizeX
           r == Screen!rightSizeX
           t == Screen!topSizeY
           b == Screen!bottomSizeY
           p == Screen!Rest("Top")
           q == Screen!Size("Right")
           u == Screen!aWidth
           v == 0
<1>1. /\ "Top" \in Screen!Sides /\ "Right" \in Screen!Sides
      /\ Screen!Total("Top") # 0 /\ Screen!Total("Right") # 0
  <2>1. "Top" \in Screen!Sides /\ "Right" \in Screen!Sides /\ 1 \in 1 .. 2 /\ 2 \in 1 .. 2
    BY DEF Screen!Sides
  <2>2. Screen!CornersOf["Top"][2] = "TopRight" /\ Screen!CornersOf["Right"][1] = "TopRight"
    BY DEF Screen!CornersOf
  <2> QED BY <2>1, <2>2, CornerEnds
<1>2. /\ p \in Int /\ l <= p /\ p <= r /\ x # 2 * p
      /\ At("Top", Screen!Total("Top"), x, y) <=> x > 2 * p
  BY <1>1, EndFacts DEF Coordinate, Near, Far, Horizontal
<1>3. /\ q \in Int /\ t <= q /\ q <= b /\ y # 2 * q
      /\ At("Right", 1, x, y) <=> y < 2 * q
  BY <1>1, EndFacts DEF Coordinate, Near, Far, Horizontal
<1>4. /\ x \in Int /\ y \in Int /\ 0 < x /\ 0 < y /\ x # 2 * l /\ x # 2 * r
      /\ y # 2 * t /\ y # 2 * b /\ l \in Int /\ r \in Int /\ t \in Int /\ b \in Int
      /\ 0 <= t /\ t <= b /\ l <= r
      /\ u \in Int /\ v \in Int /\ x < 2 * u /\ 2 * v < y
  BY PointFacts
<1>5. Screen!CornerPolygon("TopRight")
        = CornerShape(u, p, r, v, q, t)
  BY DEF Screen!CornerPolygon, CornerShape
<1> HIDE DEF l, r, t, b, p, q, u, v
<1>6. Screen!InArea(x, y, CornerShape(u, p, r, v, q, t))
           <=> ((~(2 * v > y <=> 2 * t > y) /\ x < 2 * p)
                  <=> ((~(2 * t > y <=> 2 * q > y) /\ x < 2 * r)
                         <=> (~(2 * q > y <=> 2 * v > y) /\ x < 2 * u)))
  <2>1. Screen!InArea(x, y, CornerShape(u, p, r, v, q, t))
          <=> (Screen!Crosses(x, y, <<p, v>>, <<p, t>>)
                 <=> (Screen!Crosses(x, y, <<r, t>>, <<r, q>>)
                        <=> Screen!Crosses(x, y, <<u, q>>, <<u, v>>)))
    BY InCornerShape
  <2>2. Screen!Crosses(x, y, <<p, v>>, <<p, t>>) <=> ~(2 * v > y <=> 2 * t > y) /\ x < 2 * p
    BY <1>2, <1>4, UprightEdge
  <2>3. Screen!Crosses(x, y, <<r, t>>, <<r, q>>) <=> ~(2 * t > y <=> 2 * q > y) /\ x < 2 * r
    BY <1>3, <1>4, UprightEdge
  <2>4. Screen!Crosses(x, y, <<u, q>>, <<u, v>>) <=> ~(2 * q > y <=> 2 * v > y) /\ x < 2 * u
    BY <1>3, <1>4, UprightEdge
  <2> QED BY <2>1, <2>2, <2>3, <2>4
<1>7. /\ LeftOfTL(x, y) => y < 2 * t /\ x < 2 * l
      /\ LeftOfTR(x, y) => y < 2 * t
      /\ y < 2 * t /\ x < 2 * r => LeftOfTR(x, y)
  BY BordersAreApart DEF Above, l, r, t
<1>8. /\ Zone(x, y) = "Top" <=> y < 2 * t /\ ~LeftOfTL(x, y) /\ LeftOfTR(x, y)
      /\ Zone(x, y) = "Right"
           <=> \/ y < 2 * t /\ ~LeftOfTR(x, y)
               \/ ~(y < 2 * t) /\ y > 2 * b /\ ~LeftOfBR(x, y)
               \/ ~(y < 2 * t) /\ ~(y > 2 * b) /\ ~(x < 2 * r)
  BY Zones, RightZone DEF Above, Below, r, t, b
<1> QED BY <1>2, <1>3, <1>4, <1>5, <1>6, <1>7, <1>8

LEMMA BottomLeftHolds ==
  ASSUME Screen!GeometryAssumption, ScreenValues, WindowIsDivided, Screen!n("BottomLeft") = 1,
         NEW x, NEW y, Middle(x, y)
  PROVE  Screen!InArea(x, y, Screen!CornerPolygon("BottomLeft"))
           <=> \/ Zone(x, y) = "Bottom" /\ At("Bottom", 1, x, y)
               \/ Zone(x, y) = "Left" /\ At("Left", Screen!Total("Left"), x, y)
<1> DEFINE l == Screen!leftSizeX
           r == Screen!rightSizeX
           t == Screen!topSizeY
           b == Screen!bottomSizeY
           p == Screen!Size("Bottom")
           q == Screen!Rest("Left")
           u == 0
           v == Screen!aHeight
<1>1. /\ "Bottom" \in Screen!Sides /\ "Left" \in Screen!Sides
      /\ Screen!Total("Bottom") # 0 /\ Screen!Total("Left") # 0
  <2>1. "Bottom" \in Screen!Sides /\ "Left" \in Screen!Sides /\ 1 \in 1 .. 2 /\ 2 \in 1 .. 2
    BY DEF Screen!Sides
  <2>2. Screen!CornersOf["Bottom"][1] = "BottomLeft" /\ Screen!CornersOf["Left"][2] = "BottomLeft"
    BY DEF Screen!CornersOf
  <2> QED BY <2>1, <2>2, CornerEnds
<1>2. /\ p \in Int /\ l <= p /\ p <= r /\ x # 2 * p
      /\ At("Bottom", 1, x, y) <=> x < 2 * p
  BY <1>1, EndFacts DEF Coordinate, Near, Far, Horizontal
<1>3. /\ q \in Int /\ t <= q /\ q <= b /\ y # 2 * q
      /\ At("Left", Screen!Total("Left"), x, y) <=> y > 2 * q
  BY <1>1, EndFacts DEF Coordinate, Near, Far, Horizontal
<1>4. /\ x \in Int /\ y \in Int /\ 0 < x /\ 0 < y /\ x # 2 * l /\ x # 2 * r
      /\ y # 2 * t /\ y # 2 * b /\ l \in Int /\ r \in Int /\ t \in Int /\ b \in Int
      /\ 0 <= t /\ t <= b /\ l <= r
      /\ u \in Int /\ v \in Int /\ ~(x < 2 * u) /\ y < 2 * v
  BY PointFacts
<1>5. Screen!CornerPolygon("BottomLeft")
        = CornerShape(u, p, l, v, q, b)
  BY DEF Screen!CornerPolygon, CornerShape
<1> HIDE DEF l, r, t, b, p, q, u, v
<1>6. Screen!InArea(x, y, CornerShape(u, p, l, v, q, b))
           <=> ((~(2 * v > y <=> 2 * b > y) /\ x < 2 * p)
                  <=> ((~(2 * b > y <=> 2 * q > y) /\ x < 2 * l)
                         <=> (~(2 * q > y <=> 2 * v > y) /\ x < 2 * u)))
  <2>1. Screen!InArea(x, y, CornerShape(u, p, l, v, q, b))
          <=> (Screen!Crosses(x, y, <<p, v>>, <<p, b>>)
                 <=> (Screen!Crosses(x, y, <<l, b>>, <<l, q>>)
                        <=> Screen!Crosses(x, y, <<u, q>>, <<u, v>>)))
    BY InCornerShape
  <2>2. Screen!Crosses(x, y, <<p, v>>, <<p, b>>) <=> ~(2 * v > y <=> 2 * b > y) /\ x < 2 * p
    BY <1>2, <1>4, UprightEdge
  <2>3. Screen!Crosses(x, y, <<l, b>>, <<l, q>>) <=> ~(2 * b > y <=> 2 * q > y) /\ x < 2 * l
    BY <1>3, <1>4, UprightEdge
  <2>4. Screen!Crosses(x, y, <<u, q>>, <<u, v>>) <=> ~(2 * q > y <=> 2 * v > y) /\ x < 2 * u
    BY <1>3, <1>4, UprightEdge
  <2> QED BY <2>1, <2>2, <2>3, <2>4
<1>7. /\ LeftOfBL(x, y) => y > 2 * b /\ x < 2 * l
      /\ LeftOfBR(x, y) => y > 2 * b
      /\ y > 2 * b /\ x < 2 * r => LeftOfBR(x, y)
  BY BordersAreApart DEF Below, l, r, b
<1>8. /\ Zone(x, y) = "Bottom" <=> ~(y < 2 * t) /\ y > 2 * b /\ ~LeftOfBL(x, y) /\ LeftOfBR(x, y)
      /\ Zone(x, y) = "Left"
           <=> \/ y < 2 * t /\ LeftOfTL(x, y)
               \/ ~(y < 2 * t) /\ y > 2 * b /\ LeftOfBL(x, y)
               \/ ~(y < 2 * t) /\ ~(y > 2 * b) /\ x < 2 * l
  BY Zones DEF Above, Below, l, t, b
<1> QED BY <1>2, <1>3, <1>4, <1>5, <1>6, <1>7, <1>8

LEMMA BottomRightHolds ==
  ASSUME Screen!GeometryAssumption, ScreenValues, WindowIsDivided, Screen!n("BottomRight") = 1,
         NEW x, NEW y, Middle(x, y)
  PROVE  Screen!InArea(x, y, Screen!CornerPolygon("BottomRight"))
           <=> \/ Zone(x, y) = "Bottom" /\ At("Bottom", Screen!Total("Bottom"), x, y)
               \/ Zone(x, y) = "Right" /\ At("Right", Screen!Total("Right"), x, y)
<1> DEFINE l == Screen!leftSizeX
           r == Screen!rightSizeX
           t == Screen!topSizeY
           b == Screen!bottomSizeY
           p == Screen!Rest("Bottom")
           q == Screen!Rest("Right")
           u == Screen!aWidth
           v == Screen!aHeight
<1>1. /\ "Bottom" \in Screen!Sides /\ "Right" \in Screen!Sides
      /\ Screen!Total("Bottom") # 0 /\ Screen!Total("Right") # 0
  <2>1. "Bottom" \in Screen!Sides /\ "Right" \in Screen!Sides /\ 1 \in 1 .. 2 /\ 2 \in 1 .. 2
    BY DEF Screen!Sides
  <2>2. /\ Screen!CornersOf["Bottom"][2] = "BottomRight"
        /\ Screen!CornersOf["Right"][2] = "BottomRight"
    BY DEF Screen!CornersOf
  <2> QED BY <2>1, <2>2, CornerEnds
<1>2. /\ p \in Int /\ l <= p /\ p <= r /\ x # 2 * p
      /\ At("Bottom", Screen!Total("Bottom"), x, y) <=> x > 2 * p
  BY <1>1, EndFacts DEF Coordinate, Near, Far, Horizontal
<1>3. /\ q \in Int /\ t <= q /\ q <= b /\ y # 2 * q
      /\ At("Right", Screen!Total("Right"), x, y) <=> y > 2 * q
  BY <1>1, EndFacts DEF Coordinate, Near, Far, Horizontal
<1>4. /\ x \in Int /\ y \in Int /\ 0 < x /\ 0 < y /\ x # 2 * l /\ x # 2 * r
      /\ y # 2 * t /\ y # 2 * b /\ l \in Int /\ r \in Int /\ t \in Int /\ b \in Int
      /\ 0 <= t /\ t <= b /\ l <= r
      /\ u \in Int /\ v \in Int /\ x < 2 * u /\ y < 2 * v
  BY PointFacts
<1>5. Screen!CornerPolygon("BottomRight")
        = CornerShape(u, p, r, v, q, b)
  BY DEF Screen!CornerPolygon, CornerShape
<1> HIDE DEF l, r, t, b, p, q, u, v
<1>6. Screen!InArea(x, y, CornerShape(u, p, r, v, q, b))
           <=> ((~(2 * v > y <=> 2 * b > y) /\ x < 2 * p)
                  <=> ((~(2 * b > y <=> 2 * q > y) /\ x < 2 * r)
                         <=> (~(2 * q > y <=> 2 * v > y) /\ x < 2 * u)))
  <2>1. Screen!InArea(x, y, CornerShape(u, p, r, v, q, b))
          <=> (Screen!Crosses(x, y, <<p, v>>, <<p, b>>)
                 <=> (Screen!Crosses(x, y, <<r, b>>, <<r, q>>)
                        <=> Screen!Crosses(x, y, <<u, q>>, <<u, v>>)))
    BY InCornerShape
  <2>2. Screen!Crosses(x, y, <<p, v>>, <<p, b>>) <=> ~(2 * v > y <=> 2 * b > y) /\ x < 2 * p
    BY <1>2, <1>4, UprightEdge
  <2>3. Screen!Crosses(x, y, <<r, b>>, <<r, q>>) <=> ~(2 * b > y <=> 2 * q > y) /\ x < 2 * r
    BY <1>3, <1>4, UprightEdge
  <2>4. Screen!Crosses(x, y, <<u, q>>, <<u, v>>) <=> ~(2 * q > y <=> 2 * v > y) /\ x < 2 * u
    BY <1>3, <1>4, UprightEdge
  <2> QED BY <2>1, <2>2, <2>3, <2>4
<1>7. /\ LeftOfBL(x, y) => y > 2 * b /\ x < 2 * l
      /\ LeftOfBR(x, y) => y > 2 * b
      /\ y > 2 * b /\ x < 2 * r => LeftOfBR(x, y)
  BY BordersAreApart DEF Below, l, r, b
<1>8. /\ Zone(x, y) = "Bottom" <=> ~(y < 2 * t) /\ y > 2 * b /\ ~LeftOfBL(x, y) /\ LeftOfBR(x, y)
      /\ Zone(x, y) = "Right"
           <=> \/ y < 2 * t /\ ~LeftOfTR(x, y)
               \/ ~(y < 2 * t) /\ y > 2 * b /\ ~LeftOfBR(x, y)
               \/ ~(y < 2 * t) /\ ~(y > 2 * b) /\ ~(x < 2 * r)
  BY Zones, RightZone DEF Above, Below, r, t, b
<1> QED BY <1>2, <1>3, <1>4, <1>5, <1>6, <1>7, <1>8

LEMMA CenterHolds ==
  ASSUME WindowIsDivided, NEW x, NEW y, Middle(x, y)
  PROVE  Screen!InArea(x, y, Screen!CenterPolygon) <=> Zone(x, y) = "Center"
<1> DEFINE l == Screen!leftSizeX
           r == Screen!rightSizeX
           t == Screen!topSizeY
           b == Screen!bottomSizeY
           C(u, q) == Screen!Crosses(x, y, u, q)
<1>1. /\ x \in Int /\ y \in Int /\ x # 2 * l /\ x # 2 * r
      /\ y # 2 * t /\ y # 2 * b /\ l \in Int /\ r \in Int /\ t \in Int /\ b \in Int
      /\ t <= b /\ l <= r
  BY PointFacts
<1>2. Screen!CenterPolygon = <<<<l, t>>, <<r, t>>, <<r, b>>, <<l, b>>>>
  BY DEF Screen!CenterPolygon
<1>3. Zone(x, y) = "Center"
        <=> ~(y < 2 * t) /\ ~(y > 2 * b) /\ ~(x < 2 * l) /\ x < 2 * r
  BY Zones DEF Above, Below
<1> HIDE DEF l, r, t, b
<1>4. Screen!InArea(x, y, <<<<l, t>>, <<r, t>>, <<r, b>>, <<l, b>>>>)
        <=> ((C(<<l, t>>, <<r, t>>) <=> C(<<r, t>>, <<r, b>>))
           <=> ~(C(<<r, b>>, <<l, b>>) <=> C(<<l, b>>, <<l, t>>)))
  BY InFourCorners
<1>5. ~C(<<l, t>>, <<r, t>>) /\ ~C(<<r, b>>, <<l, b>>)
  BY LevelEdge
<1>6. C(<<r, t>>, <<r, b>>) <=> ~(2 * t > y <=> 2 * b > y) /\ x < 2 * r
  BY <1>1, UprightEdge
<1>7. C(<<l, b>>, <<l, t>>) <=> ~(2 * b > y <=> 2 * t > y) /\ x < 2 * l
  BY <1>1, UprightEdge
<1> HIDE DEF C
<1> QED BY <1>1, <1>2, <1>3, <1>4, <1>5, <1>6, <1>7

\* A side and a corner with the area that is there.
LEMMA SidesHold ==
  ASSUME Screen!GeometryAssumption, ScreenValues, WindowIsDivided, NEW s \in Screen!Sides,
         Screen!Total(s) # 0, NEW i \in 1 .. Screen!n(s), NEW x, NEW y, Middle(x, y)
  PROVE  Screen!InArea(x, y, Screen!SidePolygon(s, i))
           <=> Zone(x, y) = s /\ At(s, i + Screen!First(s), x, y)
<1>1. s \in {"Top", "Bottom", "Left", "Right"}
  BY DEF Screen!Sides
<1>2. CASE s = "Top"
  BY <1>2, TopHolds
<1>3. CASE s = "Bottom"
  BY <1>3, BottomHolds
<1>4. CASE s = "Left"
  BY <1>4, LeftHolds
<1>5. CASE s = "Right"
  BY <1>5, RightHolds
<1> QED BY <1>1, <1>2, <1>3, <1>4, <1>5

LEMMA CornersHold ==
  ASSUME Screen!GeometryAssumption, ScreenValues, WindowIsDivided, NEW c \in Screen!Corners,
         Screen!n(c) = 1, NEW x, NEW y, Middle(x, y)
  PROVE  Screen!InArea(x, y, Screen!CornerPolygon(c))
           <=> \E s \in Screen!Sides :
                 /\ Zone(x, y) = s
                 /\ \/ Screen!CornersOf[s][1] = c /\ At(s, 1, x, y)
                    \/ Screen!CornersOf[s][2] = c /\ At(s, Screen!Total(s), x, y)
<1> DEFINE E(s) == /\ Zone(x, y) = s
                   /\ \/ Screen!CornersOf[s][1] = c /\ At(s, 1, x, y)
                      \/ Screen!CornersOf[s][2] = c /\ At(s, Screen!Total(s), x, y)
<1>1. (\E s \in Screen!Sides : E(s)) <=> E("Top") \/ E("Bottom") \/ E("Left") \/ E("Right")
  <2> HIDE DEF E
  <2> QED BY DEF Screen!Sides
<1>2. /\ Screen!CornersOf["Top"][1] = "TopLeft" /\ Screen!CornersOf["Top"][2] = "TopRight"
      /\ Screen!CornersOf["Bottom"][1] = "BottomLeft"
      /\ Screen!CornersOf["Bottom"][2] = "BottomRight"
      /\ Screen!CornersOf["Left"][1] = "TopLeft" /\ Screen!CornersOf["Left"][2] = "BottomLeft"
      /\ Screen!CornersOf["Right"][1] = "TopRight"
      /\ Screen!CornersOf["Right"][2] = "BottomRight"
  BY DEF Screen!CornersOf
<1>3. CASE c = "TopLeft"
  <2>1. E("Top") \/ E("Bottom") \/ E("Left") \/ E("Right")
          <=> \/ Zone(x, y) = "Top" /\ At("Top", 1, x, y)
              \/ Zone(x, y) = "Left" /\ At("Left", 1, x, y)
    BY <1>2, <1>3
  <2> QED BY <1>1, <1>3, <2>1, TopLeftHolds
<1>4. CASE c = "TopRight"
  <2>1. E("Top") \/ E("Bottom") \/ E("Left") \/ E("Right")
          <=> \/ Zone(x, y) = "Top" /\ At("Top", Screen!Total("Top"), x, y)
              \/ Zone(x, y) = "Right" /\ At("Right", 1, x, y)
    BY <1>2, <1>4
  <2> QED BY <1>1, <1>4, <2>1, TopRightHolds
<1>5. CASE c = "BottomLeft"
  <2>1. E("Top") \/ E("Bottom") \/ E("Left") \/ E("Right")
          <=> \/ Zone(x, y) = "Bottom" /\ At("Bottom", 1, x, y)
              \/ Zone(x, y) = "Left" /\ At("Left", Screen!Total("Left"), x, y)
    BY <1>2, <1>5
  <2> QED BY <1>1, <1>5, <2>1, BottomLeftHolds
<1>6. CASE c = "BottomRight"
  <2>1. E("Top") \/ E("Bottom") \/ E("Left") \/ E("Right")
          <=> \/ Zone(x, y) = "Bottom" /\ At("Bottom", Screen!Total("Bottom"), x, y)
              \/ Zone(x, y) = "Right" /\ At("Right", Screen!Total("Right"), x, y)
    BY <1>2, <1>6
  <2> QED BY <1>1, <1>6, <2>1, BottomRightHolds
<1> QED BY <1>3, <1>4, <1>5, <1>6 DEF Screen!Corners

\* The area that has the k-th place at a side.
Holder(s, k) ==
  IF k = 1 /\ Screen!First(s) = 1 THEN <<Screen!CornersOf[s][1], 1>>
  ELSE IF k = Screen!Total(s) /\ Screen!Final(s) = 1 THEN <<Screen!CornersOf[s][2], 1>>
  ELSE <<s, k - Screen!First(s)>>

\* A point is in the area that has its place at the side of its zone, and in no other.
Held(x, y, q) ==
  \/ q = <<"Center", 1>> /\ Zone(x, y) = "Center"
  \/ \E s \in Screen!Sides : \E k \in 1 .. Screen!Total(s) :
       /\ Screen!Total(s) # 0 /\ Zone(x, y) = s /\ At(s, k, x, y) /\ q = Holder(s, k)

LEMMA ShownFacts ==
  ASSUME Screen!GeometryAssumption, ScreenInv, NEW q \in Screen!ShownAreas
  PROVE  /\ q = <<q[1], q[2]>>
         /\ q[1] \in Screen!Sides => q[2] \in 1 .. Screen!n(q[1])
         /\ q[1] \notin Screen!Sides => q[2] = 1 /\ Screen!n(q[1]) = 1
         /\ q[1] \in Screen!Sides \/ q[1] \in Screen!Corners \/ q[1] = "Center"
<1>1. /\ q = <<q[1], q[2]>> /\ q[1] \in Screen!Names /\ q[2] \in 1 .. (MaxSide + 1)
      /\ q[2] <= Screen!n(q[1])
  BY DEF Screen!ShownAreas
<1>2. /\ Screen!n(q[1]) \in Nat /\ Screen!n(q[1]) <= Screen!MAX_AREAS[q[1]]
      /\ Screen!MAX_AREAS[q[1]] = IF q[1] \in Screen!Sides THEN MaxSide ELSE 1
  BY <1>1 DEF ScreenInv, Screen!n, Screen!MAX_AREAS
<1>3. q[2] \in Nat /\ q[2] >= 1
  BY <1>1 DEF Screen!GeometryAssumption
<1>4. q[1] \notin Screen!Sides => q[2] = 1 /\ Screen!n(q[1]) = 1
  BY <1>1, <1>2, <1>3
<1>5. q[2] \in 1 .. Screen!n(q[1])
  BY <1>1, <1>2, <1>3
<1> QED BY <1>1, <1>4, <1>5 DEF Screen!Names

LEMMA AreasAreHeld ==
  ASSUME Screen!GeometryAssumption, ScreenInv, ScreenValues, WindowIsDivided,
         NEW q \in Screen!ShownAreas, NEW x, NEW y, Middle(x, y)
  PROVE  Screen!InArea(x, y, Screen!Polygon(q[1], q[2])) <=> Held(x, y, q)
<1> DEFINE a == q[1]
           j == q[2]
<1>1. /\ q = <<a, j>>
      /\ a \in Screen!Sides => j \in 1 .. Screen!n(a)
      /\ a \notin Screen!Sides => j = 1 /\ Screen!n(a) = 1
      /\ a \in Screen!Sides \/ a \in Screen!Corners \/ a = "Center"
  BY ShownFacts
<1>2. ASSUME NEW s \in Screen!Sides
      PROVE  /\ Screen!n(s) \in Nat /\ Screen!First(s) \in 0 .. 1 /\ Screen!Final(s) \in 0 .. 1
             /\ Screen!Total(s) \in Nat
             /\ Screen!Total(s) = Screen!n(s) + Screen!First(s) + Screen!Final(s)
             /\ Screen!Total(s) # 0 => Screen!Total(s) >= 3
             /\ Screen!CornersOf[s][1] \in Screen!Corners
             /\ Screen!CornersOf[s][2] \in Screen!Corners
             /\ s \notin Screen!Corners /\ s # "Center"
  <2>1. /\ Screen!CornersOf[s][1] \in Screen!Corners
        /\ Screen!CornersOf[s][2] \in Screen!Corners
        /\ s \notin Screen!Corners /\ s # "Center"
    BY DEF Screen!CornersOf, Screen!Corners, Screen!Sides
  <2>2. Screen!Total(s) # 0 => Screen!Total(s) >= 3
    BY DEF WindowIsDivided
  <2> QED BY <2>1, <2>2, SideFacts
<1>3. "Center" \notin Screen!Corners /\ "Center" \notin Screen!Sides
  BY DEF Screen!Corners, Screen!Sides
<1> HIDE DEF a, j
<1>4. CASE a \in Screen!Sides
  <2> DEFINE k == j + Screen!First(a)
  <2>1. Screen!Polygon(a, j) = Screen!SidePolygon(a, j)
    BY <1>4 DEF Screen!Polygon
  <2>2. j \in 1 .. Screen!n(a) /\ Screen!Total(a) # 0 /\ k \in 1 .. Screen!Total(a)
    BY <1>1, <1>2, <1>4
  <2>3. Screen!InArea(x, y, Screen!Polygon(a, j)) <=> Zone(x, y) = a /\ At(a, k, x, y)
    BY <1>4, <2>1, <2>2, SidesHold
  <2>4. Holder(a, k) = q
    <3>1. ~(k = 1 /\ Screen!First(a) = 1) /\ ~(k = Screen!Total(a) /\ Screen!Final(a) = 1)
          /\ k - Screen!First(a) = j
      BY <1>2, <1>4, <2>2
    <3> QED BY <1>1, <3>1 DEF Holder
  <2>5. ASSUME Held(x, y, q) PROVE Zone(x, y) = a /\ At(a, k, x, y)
    <3>1. q # <<"Center", 1>>
      BY <1>1, <1>3, <1>4
    <3>2. PICK s \in Screen!Sides : \E i \in 1 .. Screen!Total(s) :
             Zone(x, y) = s /\ At(s, i, x, y) /\ q = Holder(s, i)
      BY <2>5, <3>1 DEF Held
    <3>6. PICK i \in 1 .. Screen!Total(s) :
             Zone(x, y) = s /\ At(s, i, x, y) /\ q = Holder(s, i)
      BY <3>2
    <3>3. q = <<s, i - Screen!First(s)>>
      BY <1>1, <1>2, <1>4, <3>6 DEF Holder
    <3>4. s = a /\ i - Screen!First(s) = j
      BY <1>1, <3>3
    <3>5. i = k
      BY <1>2, <3>4
    <3> QED BY <3>4, <3>5, <3>6
  <2> HIDE DEF k
  <2>6. Held(x, y, q) <=> Zone(x, y) = a /\ At(a, k, x, y)
    BY <1>4, <2>2, <2>4, <2>5 DEF Held
  <2> QED BY <2>3, <2>6 DEF a, j
<1>5. CASE a \in Screen!Corners
  <2>0. a \notin Screen!Sides /\ a # "Center" /\ j = 1 /\ Screen!n(a) = 1
    BY <1>1, <1>2, <1>3, <1>5
  <2>1. Screen!Polygon(a, j) = Screen!CornerPolygon(a)
    BY <2>0 DEF Screen!Polygon
  <2>2. Screen!InArea(x, y, Screen!Polygon(a, j))
           <=> \E s \in Screen!Sides :
                 /\ Zone(x, y) = s
                 /\ \/ Screen!CornersOf[s][1] = a /\ At(s, 1, x, y)
                    \/ Screen!CornersOf[s][2] = a /\ At(s, Screen!Total(s), x, y)
    BY <1>5, <2>0, <2>1, CornersHold
  <2>3. ASSUME NEW s \in Screen!Sides, Zone(x, y) = s,
               \/ Screen!CornersOf[s][1] = a /\ At(s, 1, x, y)
               \/ Screen!CornersOf[s][2] = a /\ At(s, Screen!Total(s), x, y)
        PROVE  Held(x, y, q)
    <3>1. CASE Screen!CornersOf[s][1] = a /\ At(s, 1, x, y)
      <4>1. Screen!First(s) = 1
        BY <2>0, <3>1 DEF Screen!First
      <4>2. 1 \in 1 .. Screen!Total(s) /\ Screen!Total(s) # 0
        BY <1>2, <4>1
      <4>3. Holder(s, 1) = q
        BY <1>1, <2>0, <3>1, <4>1 DEF Holder
      <4> QED BY <2>3, <3>1, <4>2, <4>3 DEF Held
    <3>2. CASE Screen!CornersOf[s][2] = a /\ At(s, Screen!Total(s), x, y)
      <4>1. Screen!Final(s) = 1
        BY <2>0, <3>2 DEF Screen!Final
      <4>2. Screen!Total(s) \in 1 .. Screen!Total(s) /\ Screen!Total(s) # 0
            /\ Screen!Total(s) # 1
        BY <1>2, <4>1
      <4>3. Holder(s, Screen!Total(s)) = q
        BY <1>1, <2>0, <3>2, <4>1, <4>2 DEF Holder
      <4> QED BY <2>3, <3>2, <4>2, <4>3 DEF Held
    <3> QED BY <2>3, <3>1, <3>2
  <2>4. ASSUME Held(x, y, q)
        PROVE  \E s \in Screen!Sides :
                 /\ Zone(x, y) = s
                 /\ \/ Screen!CornersOf[s][1] = a /\ At(s, 1, x, y)
                    \/ Screen!CornersOf[s][2] = a /\ At(s, Screen!Total(s), x, y)
    <3>1. q # <<"Center", 1>>
      BY <1>1, <2>0
    <3>2. PICK s \in Screen!Sides : \E i \in 1 .. Screen!Total(s) :
             Zone(x, y) = s /\ At(s, i, x, y) /\ q = Holder(s, i)
      BY <2>4, <3>1 DEF Held
    <3>5. PICK i \in 1 .. Screen!Total(s) :
             Zone(x, y) = s /\ At(s, i, x, y) /\ q = Holder(s, i)
      BY <3>2
    <3>3. \/ i = 1 /\ q = <<Screen!CornersOf[s][1], 1>>
          \/ i = Screen!Total(s) /\ q = <<Screen!CornersOf[s][2], 1>>
      BY <1>1, <2>0, <3>5 DEF Holder
    <3>4. \/ i = 1 /\ a = Screen!CornersOf[s][1]
          \/ i = Screen!Total(s) /\ a = Screen!CornersOf[s][2]
      BY <1>1, <3>3
    <3> QED BY <3>4, <3>5
  <2> QED BY <2>2, <2>3, <2>4 DEF a, j
<1>6. CASE a = "Center"
  <2>1. a \notin Screen!Sides /\ a \notin Screen!Corners /\ j = 1 /\ q = <<"Center", 1>>
    BY <1>1, <1>3, <1>6
  <2>2. Screen!Polygon(a, j) = Screen!CenterPolygon
    BY <1>6, <2>1 DEF Screen!Polygon
  <2>3. Screen!InArea(x, y, Screen!Polygon(a, j)) <=> Zone(x, y) = "Center"
    BY <2>2, CenterHolds
  <2>4. Zone(x, y) = "Center" => Held(x, y, q)
    BY <2>1 DEF Held
  <2>5. ASSUME Held(x, y, q), ~(Zone(x, y) = "Center") PROVE FALSE
    <3>1. PICK s \in Screen!Sides : \E i \in 1 .. Screen!Total(s) : q = Holder(s, i)
      BY <2>5 DEF Held
    <3>2. q[1] \in Screen!Sides \cup Screen!Corners
      BY <1>2, <3>1 DEF Holder
    <3> QED BY <1>3, <2>1, <3>2 DEF a
  <2> QED BY <2>3, <2>4, <2>5 DEF a, j
<1> QED BY <1>1, <1>4, <1>5, <1>6

\* The places at a side do not overlap, and leave no gap.
LEMMA OnePlace ==
  ASSUME WindowIsDivided, NEW s \in Screen!Sides, Screen!Total(s) # 0,
         NEW x, NEW y, Middle(x, y),
         NEW j \in 1 .. Screen!Total(s), NEW k \in 1 .. Screen!Total(s),
         At(s, j, x, y), At(s, k, x, y)
  PROVE  j = k
<1>1. ASSUME NEW i \in 1 .. Screen!Total(s), NEW m \in 1 .. Screen!Total(s),
             At(s, i, x, y), At(s, m, x, y), i < m
      PROVE  FALSE
  <2>1. i \in Nat /\ m - 1 \in Nat /\ i <= m - 1
    BY <1>1 DEF WindowIsDivided
  <2>2. Screen!Cut(s, i) \in Nat /\ Screen!Cut(s, m - 1) \in Nat
        /\ Screen!Cut(s, i) <= Screen!Cut(s, m - 1)
    BY <2>1 DEF WindowIsDivided
  <2>3. Coordinate(s, x, y) \in Int
    BY DEF Coordinate, Middle
  <2> QED BY <1>1, <2>2, <2>3 DEF At
<1>2. j \in Nat /\ k \in Nat
  BY DEF WindowIsDivided
<1> QED BY <1>1, <1>2

LEMMA SomePlace ==
  ASSUME WindowIsDivided, NEW s \in Screen!Sides, Screen!Total(s) # 0,
         NEW x, NEW y, Middle(x, y)
  PROVE  \E k \in 1 .. Screen!Total(s) : At(s, k, x, y)
<1> DEFINE c == Coordinate(s, x, y)
           t == Screen!Total(s)
           K == {k \in Nat : c < 2 * Screen!Cut(s, k)}
<1>1. /\ t \in Nat /\ Screen!Cut(s, 0) = 0 /\ Screen!Cut(s, t) = Screen!Length(s)
      /\ \A k \in Nat : Screen!Cut(s, k) \in Nat
  BY DEF WindowIsDivided
<1>2. /\ c \in Int /\ 0 < c /\ c < 2 * Screen!Length(s) /\ \A u \in Int : c # 2 * u
  BY DEF Middle, Coordinate, Screen!Length, Horizontal
<1>3. t \in K
  BY <1>1, <1>2
<1>4. PICK k \in K : \A j \in K : k <= j
  <2>1. K \in SUBSET Nat /\ K # {}
    BY <1>3
  <2> HIDE DEF K
  <2> QED BY <2>1, SmallestOf
<1>5. k \in Nat /\ k <= t /\ c < 2 * Screen!Cut(s, k) /\ k # 0
  BY <1>1, <1>2, <1>3, <1>4
<1>6. k - 1 \in Nat /\ k \in 1 .. t /\ ~(k <= k - 1)
  BY <1>1, <1>5
<1>7. ~(c < 2 * Screen!Cut(s, k - 1))
  BY <1>4, <1>6
<1>8. 2 * Screen!Cut(s, k - 1) < c
  BY <1>1, <1>2, <1>6, <1>7
<1>9. At(s, k, x, y)
  BY <1>5, <1>8 DEF At
<1> QED BY <1>6, <1>9

LEMMA OneHolder ==
  ASSUME WindowIsDivided, NEW x, NEW y, Middle(x, y), NEW q, NEW r, Held(x, y, q), Held(x, y, r)
  PROVE  q = r
<1>1. "Center" \notin Screen!Sides
  BY DEF Screen!Sides
<1>2. CASE Zone(x, y) = "Center"
  BY <1>1, <1>2 DEF Held
<1>3. CASE Zone(x, y) # "Center"
  <2> DEFINE s == Zone(x, y)
  <2>1. s \in Screen!Sides /\ Screen!Total(s) # 0
    BY <1>3 DEF Held
  <2>2. PICK j \in 1 .. Screen!Total(s) : At(s, j, x, y) /\ q = Holder(s, j)
    BY <1>3 DEF Held
  <2>3. PICK k \in 1 .. Screen!Total(s) : At(s, k, x, y) /\ r = Holder(s, k)
    BY <1>3 DEF Held
  <2> HIDE DEF s
  <2>4. j = k
    BY <2>1, <2>2, <2>3, OnePlace
  <2> QED BY <2>2, <2>3, <2>4
<1> QED BY <1>2, <1>3

LEMMA SomeHolder ==
  ASSUME Screen!GeometryAssumption, ScreenInv, ScreenValues, WindowIsDivided,
         Screen!n("Center") = 1, \A s \in Screen!Sides : Screen!Total(s) # 0,
         NEW x, NEW y, Middle(x, y)
  PROVE  \E q \in Screen!ShownAreas : Held(x, y, q)
<1>0. MaxSide \in Nat
  BY DEF Screen!GeometryAssumption
<1>1. ASSUME NEW c \in Screen!Names, Screen!n(c) = 1 PROVE <<c, 1>> \in Screen!ShownAreas
  <2>1. 1 \in 1 .. (MaxSide + 1)
    BY <1>0
  <2> QED BY <1>1, <2>1 DEF Screen!ShownAreas
<1>2. CASE Zone(x, y) = "Center"
  <2>1. <<"Center", 1>> \in Screen!ShownAreas
    BY <1>1 DEF Screen!Names
  <2> QED BY <1>2, <2>1 DEF Held
<1>3. CASE Zone(x, y) # "Center"
  <2> DEFINE s == Zone(x, y)
  <2>1. s \in Screen!Sides /\ Screen!Total(s) # 0
    BY <1>3, Zones
  <2>2. PICK k \in 1 .. Screen!Total(s) : At(s, k, x, y)
    BY <2>1, SomePlace
  <2>3. Held(x, y, Holder(s, k))
    BY <2>1, <2>2 DEF Held
  <2> HIDE DEF s
  <2>4. /\ Screen!n(s) \in Nat /\ Screen!First(s) \in 0 .. 1 /\ Screen!Final(s) \in 0 .. 1
        /\ Screen!Total(s) = Screen!n(s) + Screen!First(s) + Screen!Final(s)
    BY <2>1, SideFacts
  <2>5. CASE k = 1 /\ Screen!First(s) = 1
    <3>1. Screen!CornersOf[s][1] \in Screen!Names
      BY <2>1 DEF Screen!CornersOf, Screen!Names, Screen!Corners, Screen!Sides
    <3>2. Holder(s, k) = <<Screen!CornersOf[s][1], 1>>
      BY <2>5 DEF Holder
    <3> QED BY <1>1, <2>3, <2>5, <3>1, <3>2 DEF Screen!First
  <2>6. CASE ~(k = 1 /\ Screen!First(s) = 1) /\ k = Screen!Total(s) /\ Screen!Final(s) = 1
    <3>1. Screen!CornersOf[s][2] \in Screen!Names
      BY <2>1 DEF Screen!CornersOf, Screen!Names, Screen!Corners, Screen!Sides
    <3>2. Holder(s, k) = <<Screen!CornersOf[s][2], 1>>
      BY <2>6 DEF Holder
    <3> QED BY <1>1, <2>3, <2>6, <3>1, <3>2 DEF Screen!Final
  <2>7. CASE ~(k = 1 /\ Screen!First(s) = 1) /\ ~(k = Screen!Total(s) /\ Screen!Final(s) = 1)
    <3> DEFINE i == k - Screen!First(s)
    <3>1. i \in Nat /\ 1 <= i /\ i <= Screen!n(s)
      BY <2>4, <2>7
    <3>2. Screen!n(s) <= MaxSide /\ s \in Screen!Names
      BY <2>1 DEF ScreenInv, Screen!n, Screen!MAX_AREAS, Screen!Names
    <3>3. Holder(s, k) = <<s, i>>
      BY <2>7 DEF Holder
    <3> HIDE DEF i
    <3>4. i \in 1 .. (MaxSide + 1)
      BY <1>0, <2>4, <3>1, <3>2
    <3>5. <<s, i>> \in Screen!ShownAreas
      BY <3>1, <3>2, <3>4 DEF Screen!ShownAreas
    <3> QED BY <2>3, <3>3, <3>5
  <2> QED BY <2>5, <2>6, <2>7
<1> QED BY <1>2, <1>3

\* How many polygons contain a point, when no two areas do.
LEMMA CoveringFacts ==
  ASSUME NEW A, NEW x, NEW y,
         \A q, r \in A : Screen!InArea(x, y, Screen!Polygon(q[1], q[2]))
                            /\ Screen!InArea(x, y, Screen!Polygon(r[1], r[2])) => q = r
  PROVE  LET k == Screen!Covering({<<a, Screen!Polygon(a[1], a[2])>> : a \in A}, x, y)
         IN  /\ k <= 1
             /\ (\E q \in A : Screen!InArea(x, y, Screen!Polygon(q[1], q[2]))) => k = 1
<1> DEFINE S == {<<a, Screen!Polygon(a[1], a[2])>> : a \in A}
           C == {q \in S : Screen!InArea(x, y, q[2])}
<1>1. Screen!Covering(S, x, y) = Cardinality(C)
  BY DEF Screen!Covering, Screen!Cardinality, Cardinality
<1>2. C = {} \/ \E z : C = {z}
  <2>1. \A u, v \in C : u = v
    OBVIOUS
  <2> HIDE DEF C
  <2> QED BY <2>1
<1>3. \A q \in A : Screen!InArea(x, y, Screen!Polygon(q[1], q[2]))
                     => <<q, Screen!Polygon(q[1], q[2])>> \in C
  OBVIOUS
<1> HIDE DEF C, S
<1>4. Cardinality({}) = 0 /\ \A z : Cardinality({z}) = 1
  BY FS_EmptySet, FS_Singleton
<1>5. /\ Screen!Covering(S, x, y) <= 1
      /\ (\E q \in A : Screen!InArea(x, y, Screen!Polygon(q[1], q[2])))
            => Screen!Covering(S, x, y) = 1
  <2>1. CASE C = {}
    BY <1>1, <1>3, <1>4, <2>1
  <2>2. CASE \E z : C = {z}
    <3>1. Screen!Covering(S, x, y) = 1
      BY <1>1, <1>4, <2>2
    <3> QED BY <3>1
  <2> QED BY <1>2, <2>1, <2>2
<1> QED BY <1>5 DEF S

LEMMA WindowIsTiled ==
  ASSUME Screen!GeometryAssumption, WindowIsLarge, ScreenInv
  PROVE  Screen!AreasTile
<1> SUFFICES ASSUME SidesAreFull, NEW p \in Screen!Points
             PROVE  LET polygons == {<<a, Screen!Polygon(a[1], a[2])>> : a \in Screen!ShownAreas}
                        k == Screen!Covering(polygons, p[1], p[2])
                    IN  /\ k <= 1
                        /\ Screen!n("Center") = 1 /\ (\A s \in Screen!Sides : Screen!Total(s) # 0)
                              => k = 1
  BY DEF Screen!AreasTile, SidesAreFull
<1> DEFINE x == p[1]
           y == p[2]
<1>1. ScreenValues
  BY ScreenHasValues
<1>2. WindowIsDivided
  BY WindowDivides
<1>3. Middle(x, y)
  <2>1. Screen!aWidth \in Nat /\ Screen!aHeight \in Nat
    BY <1>2 DEF WindowIsDivided
  <2>2. PICK i \in 0 .. (Screen!aWidth - 1), j \in 0 .. (Screen!aHeight - 1) :
             x = 2 * i + 1 /\ y = 2 * j + 1
    BY DEF Screen!Points
  <2> HIDE DEF x, y
  <2>3. /\ x \in Int /\ y \in Int /\ 0 < x /\ 0 < y
        /\ x < 2 * Screen!aWidth /\ y < 2 * Screen!aHeight
    BY <2>1, <2>2
  <2>4. \A u \in Int : x # 2 * u /\ y # 2 * u
    BY <2>1, <2>2
  <2> QED BY <2>3, <2>4 DEF Middle
<1> HIDE DEF x, y
<1>4. \A q \in Screen!ShownAreas :
         Screen!InArea(x, y, Screen!Polygon(q[1], q[2])) <=> Held(x, y, q)
  BY <1>1, <1>2, <1>3, AreasAreHeld
<1>5. \A q, r \in Screen!ShownAreas :
         Screen!InArea(x, y, Screen!Polygon(q[1], q[2]))
           /\ Screen!InArea(x, y, Screen!Polygon(r[1], r[2])) => q = r
  BY <1>2, <1>3, <1>4, OneHolder
<1>6. Screen!n("Center") = 1 /\ (\A s \in Screen!Sides : Screen!Total(s) # 0)
         => \E q \in Screen!ShownAreas : Screen!InArea(x, y, Screen!Polygon(q[1], q[2]))
  BY <1>1, <1>2, <1>3, <1>4, SomeHolder
<1> DEFINE polygons == {<<a, Screen!Polygon(a[1], a[2])>> : a \in Screen!ShownAreas}
           k == Screen!Covering(polygons, x, y)
<1>7. k <= 1 /\ ((\E q \in Screen!ShownAreas : Screen!InArea(x, y, Screen!Polygon(q[1], q[2])))
                    => k = 1)
  BY <1>5, CoveringFacts
<1> QED BY <1>6, <1>7 DEF x, y

(***************************************************************************)
(* The sheets together                                                     *)
(***************************************************************************)

SheetsInv == Inv /\ ScreenInv /\ MappingInv /\ CalibrationInv

LEMMA SheetsAlways == MCSpec => []SheetsInv
<1>1. MCInit => SheetsInv
  BY InvInit, ScreenInitial, MappingInitial, CalibrationInitial, Instances DEF MCInit, SheetsInv
<1>2. SheetsInv /\ [MCNext]_<<vars, screenVars, mappingVars, calibrationVars, part>> => SheetsInv'
  <2> SUFFICES ASSUME SheetsInv,
                      [MCNext]_<<vars, screenVars, mappingVars, calibrationVars, part>>
               PROVE  SheetsInv'
    OBVIOUS
  <2>1. /\ [Next]_vars /\ [MappingNext]_mappingVars /\ [CalibrationNext]_calibrationVars
        /\ [Screen!configAreas]_Screen!vars
    BY DEF MCNext, screenVars, Screen!vars
  <2> QED BY <2>1, InvStep, ScreenStep, MappingStep, CalibrationStep, Instances DEF SheetsInv
<1> QED BY <1>1, <1>2, PTL DEF MCSpec

\* The values of the variables of all sheets, whichever a behaviour is about.
THEOREM SheetsType == MCSpec => []MCTypeOK
<1>1. SheetsInv => MCTypeOK
  BY ScreenIsTyped, Instances DEF SheetsInv, Inv, MappingInv, CalibrationInv, MCTypeOK
<1> QED BY <1>1, SheetsAlways, PTL

\* Whatever the sheet does, the areas of a side share its length, and in a window of that
\* size no two areas overlap if each side has none or at least three of them; with no side
\* empty and a centre each pixel belongs to exactly one.  The polygons of configAreas
\* (areas_dlg.py:97-291) tile the window for any screen.
THEOREM ScreenTiled == WindowIsLarge => (MCSpec => []ScreenIsDivided)
<1> SUFFICES ASSUME WindowIsLarge PROVE MCSpec => []ScreenIsDivided
  OBVIOUS
<1>1. SheetsInv => ScreenIsDivided
  BY SidesAreCut, WindowIsTiled, Instances
     DEF SheetsInv, ScreenIsDivided, Screen!ScreenIsDivided
<1> QED BY <1>1, SheetsAlways, PTL
================================================================================
