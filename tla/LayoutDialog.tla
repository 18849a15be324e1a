---------------------------- MODULE LayoutDialog ----------------------------
(***************************************************************************)
(* The sheet "RGB-Areas" (layout_dlg.py) with the screen it draws on       *)
(* (areas_dlg.py) and the layouts in the configurations of the             *)
(* controllers: a layout is in the entries of the sheet as text, in the    *)
(* attributes of the dialog, on the screen, in the weight picture, and in  *)
(* each configuration, and the buttons of three sheets copy it from one    *)
(* place to another.                                                       *)
(*                                                                         *)
(* The values of a layout are small numbers: those of Areas (how many      *)
(* areas of each kind), of Window (overscan, analyze window size) and of   *)
(* Weights (edge weighting, weight limit).  AreaGeometry says how the      *)
(* screen looks for each of them.  int() also takes numbers outside the    *)
(* ranges of the spin boxes; those are not modelled.  One of them matters: *)
(* an edge weighting of -1, with the weight limit of the last picture, is  *)
(* what configAreas leaves to say that there is no picture                 *)
(* (areas_dlg.py:54, 325), and the black picture is shown for it.          *)
(***************************************************************************)
EXTENDS Integers, SequencesExt

CONSTANTS
    Areas, Window, Weights,     \* the three groups of fields
    Fields,                     \* all of them, in the order they are applied
    MaxValue,                   \* bound: values are 0..MaxValue
    Bad,                        \* a text int() refuses
    NoPicture,                  \* no weight picture
    Controllers

AllFields == Areas \cup Window \cup Weights
Geometry == Areas \cup Window
Values == 0..MaxValue
Layouts == [AllFields -> Values]

VARIABLES
    text,           \* the entries of the sheet
    value,          \* the attributes of the dialog
    drawn,          \* the layout of the polygons on the screen
    computed,       \* edgeWeighting and weightLimit of the screen, or NoPicture
    picture,        \* layout and weights the weight picture was painted for
    shown,          \* is the picture visible
    broken,         \* the last "Apply" raised half way
    configs         \* the layout in each configuration

vars == <<text, value, drawn, computed, picture, shown, broken, configs>>

WeightsOf(l) == [f \in Weights |-> l[f]]
GeometryOf(l) == [f \in Geometry |-> l[f]]
Pictures == [layout : [Geometry -> Values], weights : [Weights -> Values]]

ASSUME LayoutAssumption ==
    /\ Fields \in Seq(AllFields) /\ Range(Fields) = AllFields
    /\ MaxValue \in Nat
    /\ Bad \notin Values /\ NoPicture \notin Pictures \cup [Weights -> Values]
    /\ Controllers # {}

TypeOK ==
    /\ text \in [AllFields -> Values \cup {Bad}]
    /\ value \in Layouts
    /\ drawn \in [Geometry -> Values]
    /\ computed \in [Weights -> Values] \cup {NoPicture}
    /\ picture \in Pictures \cup {NoPicture}
    /\ shown \in BOOLEAN /\ broken \in BOOLEAN
    /\ configs \in [Controllers -> Layouts]

\* The program starts with a search for controllers, which ends in
\* setLayoutFromConfig (see there).
Most(cs, f, v) ==
    /\ \E c \in Controllers : cs[c][f] = v
    /\ \A c \in Controllers : cs[c][f] <= v
Merged(cs) ==
    {l \in Layouts :
        /\ \A f \in Areas : Most(cs, f, l[f])
        /\ \E c \in Controllers : \A f \in AllFields \ Areas : l[f] = cs[c][f]}

Init ==
    /\ configs \in [Controllers -> Layouts]
    /\ value \in Merged(configs)
    /\ text = value
    /\ drawn = GeometryOf(value)
    /\ computed = NoPicture /\ picture = NoPicture
    /\ shown = FALSE /\ broken = FALSE

-----------------------------------------------------------------------------
(* The screen.                                                             *)

Forgets_Not == computed
Forgets == NoPicture

\* What the polygons and the margins of the screen are computed from.
Redrawn_Margins(l) == [f \in Geometry |-> IF f \in Areas THEN l[f] ELSE drawn[f]]
Redrawn(l) == GeometryOf(l)

\* configAreas: forget the weights, delete everything, create a weight
\* picture that is black and hidden, draw the polygons.
configAreas(l) ==
    /\ drawn' = Redrawn(l)
    /\ computed' = Forgets
    /\ picture' = NoPicture
    /\ shown' = FALSE

\* configAreas and then showEdgeWeighting, which paints the picture unless the
\* screen has it for these weights already.
configAreasAndShow(l) ==
    /\ drawn' = Redrawn(l)
    /\ computed' = WeightsOf(l)
    /\ picture' = IF Forgets = WeightsOf(l) THEN NoPicture
                  ELSE [layout |-> drawn', weights |-> WeightsOf(l)]
    /\ shown' = TRUE

-----------------------------------------------------------------------------
(* The sheet.                                                              *)

\* The user edits an entry.
Type(f, v) ==
    /\ text' = [text EXCEPT ![f] = v]
    /\ UNCHANGED <<value, drawn, computed, picture, shown, broken, configs>>

\* applyValues takes the entries over one by one, up to the first that is not
\* a number, which raises.
Readable_Any(k) == k \in 0..Len(Fields)
Readable(k) == \A j \in 1..k : text[Fields[j]] # Bad
Taken(k) ==
    [f \in AllFields |->
        IF f \in {Fields[j] : j \in 1..k} THEN text[f] ELSE value[f]]
Breaks(k) ==
    /\ k \in 0..(Len(Fields) - 1)
    /\ Readable(k) /\ text[Fields[k + 1]] = Bad

applyValuesRaises ==
    /\ \E k \in 0..Len(Fields) : Breaks(k) /\ value' = Taken(k)
    /\ broken' = TRUE
    /\ UNCHANGED <<text, drawn, computed, picture, shown, configs>>

cbApply ==
    /\ Readable(Len(Fields))
    /\ value' = Taken(Len(Fields))
    /\ configAreas(value')
    /\ broken' = FALSE
    /\ UNCHANGED <<text, configs>>

cbShowEdgeWeighting ==
    /\ Readable(Len(Fields))
    /\ value' = Taken(Len(Fields))
    /\ configAreasAndShow(value')
    /\ broken' = FALSE
    /\ UNCHANGED <<text, configs>>

\* The sheets for mapping, white calibration and brightness hide the picture.
hideEdgeWeighting ==
    /\ shown' = FALSE
    /\ UNCHANGED <<text, value, drawn, computed, picture, broken, configs>>

-----------------------------------------------------------------------------
(* The device sheet.                                                       *)

\* setConfigFromLayout, the first step of "Store Setup" and of "Backup".
setConfigFromLayout ==
    /\ configs' = [c \in Controllers |-> value]
    /\ UNCHANGED <<text, value, drawn, computed, picture, shown, broken>>

\* setLayoutFromConfig, the last step of a search and of "Restore": of each
\* kind as many areas as the configuration with most of them has, the other
\* values from the configuration that comes last in the dictionary.
Largest_Last(cs) == {cs[c] : c \in Controllers}
Largest(cs) == Merged(cs)

setLayoutFromConfig(cs) ==
    /\ configs' = cs
    /\ value' \in Largest(cs)
    /\ text' = value'
    /\ configAreas(value')
    /\ broken' = FALSE

\* A search reads configurations the controllers may have been given by
\* another program; "Restore" replaces the configuration of one.
Search == setLayoutFromConfig(configs)
Restore == \E c \in Controllers, l \in Layouts :
              setLayoutFromConfig([configs EXCEPT ![c] = l])

Next ==
    \/ \E f \in AllFields, v \in Values \cup {Bad} : Type(f, v)
    \/ cbApply \/ applyValuesRaises \/ cbShowEdgeWeighting
    \/ hideEdgeWeighting
    \/ setConfigFromLayout \/ Search \/ Restore

Spec == Init /\ [][Next]_vars

-----------------------------------------------------------------------------
(* Properties.                                                             *)

\* What "Store Setup" would write is the layout on the screen, except after an
\* "Apply" that raised: then a part of the entries is in the attributes, and
\* would be stored, while the screen shows the layout of before.
StoredIsDrawn == ~broken => drawn = GeometryOf(value)

\* A weight picture that is visible was painted for the layout and the
\* weights on the screen: configAreas, which replaces the picture by a black
\* one, forgets what it was painted for (areas_dlg.py:54).
PictureIsDrawn ==
    shown => /\ picture # NoPicture
             /\ picture.layout = drawn
             /\ picture.weights = computed

\* The screen is up to date in both respects.
LayoutIsDrawn == StoredIsDrawn /\ PictureIsDrawn

\* After a search or a restore no controller has a channel in an area that is
\* not on the screen: a step to a state in which a configuration has more
\* areas of some kind than are drawn is neither of the two.
LoadDrawsAll ==
    [][(\E c \in Controllers, f \in Areas : ~(configs'[c][f] <= drawn'[f]))
          => ~(Search \/ Restore)]_vars

=============================================================================
