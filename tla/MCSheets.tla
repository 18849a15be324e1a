------------------------------- MODULE MCSheets -------------------------------
(* The sheets of the setup program that change the configurations and draw on    *)
(* the screen, and the screen itself; one of them in a behaviour.                *)
EXTENDS LayoutDialog, ChannelMapping, Calibration, TLC

\* A field of each group, in the order applyValues takes them.
ThreeFields == <<"Top", "overscan", "edgeWeighting">>

\* The dialog treats all controllers alike; the properties are safety properties.
Symmetry == Permutations(Controllers)

CONSTANTS Unit, ScreenWidth, ScreenHeight, MaxSide, Overscans, AnalyzeSizes

VARIABLES part, numAreas, overscan, analyzeSize

screenVars == <<numAreas, overscan, analyzeSize>>

\* Two controllers: a connector with three channels, and one with a channel.
Pins == <<<<1, 1, 1>>, <<1, 1, 2>>, <<1, 1, 3>>, <<2, 1, 1>>>>
Old == {[area |-> "Top-1", color |-> "red"]}

\* Two channels of one area and colour, one of the other controller, one of another area.
Lights == <<[ctrl |-> 2, area |-> "Top-1",  color |-> "red"],
            [ctrl |-> 1, area |-> "Left-1", color |-> "green"],
            [ctrl |-> 1, area |-> "Top-1",  color |-> "red"],
            [ctrl |-> 1, area |-> "Top-1",  color |-> "red"]>>
Res == 1 :> 1110 @@ 2 :> 276
Brights == {1 :> 100 @@ 2 :> 255}

\* A number with a hundredth, a negative one, and text that is no number.
Numbers == {225, -100, NoNumber}

Screen == INSTANCE AreaGeometry

ASSUME Instances == Screen!GeometryAssumption

\* The parts that a behaviour does not use have one initial state.
MCInit ==
    /\ Init /\ Screen!Init /\ MappingInit /\ CalibrationInit
    /\ part \in {"layout", "screen", "mapping", "calibration"}
    /\ part # "layout" => configs = [c \in Controllers |-> [f \in AllFields |-> 0]]
    /\ part # "screen" => overscan = 0 /\ analyzeSize = 0
    /\ part # "mapping" => channelMap = [ch \in DOMAIN channelMap |-> None]

MCNext ==
    \/ part = "layout" /\ Next /\ UNCHANGED <<screenVars, mappingVars, calibrationVars, part>>
    \/ part = "screen" /\ Screen!configAreas
       /\ UNCHANGED <<vars, mappingVars, calibrationVars, part>>
    \/ part = "mapping" /\ MappingNext /\ UNCHANGED <<vars, screenVars, calibrationVars, part>>
    \/ part = "calibration" /\ CalibrationNext
       /\ UNCHANGED <<vars, screenVars, mappingVars, part>>

MCSpec == MCInit /\ [][MCNext]_<<vars, screenVars, mappingVars, calibrationVars, part>>

\* The values of the variables of the four modules.
MCTypeOK ==
    /\ TypeOK /\ MappingTypeOK /\ CalibrationTypeOK
    /\ part = "screen" => Screen!TypeOK

\* The areas of a side share its length, and the areas of the screen do not overlap
\* (configAreas, areas_dlg.py:97-291).
ScreenIsDivided == part = "screen" => Screen!ScreenIsDivided
===============================================================================
