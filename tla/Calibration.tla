------------------------------ MODULE Calibration ------------------------------
(***************************************************************************)
(* The sheets "White Calibration" (df10ch_setup_pkg/white_cal_dlg.py) and  *)
(* "Common Brightness" (bright_dlg.py).  White calibration edits the       *)
(* gamma and white values of the channels of one area, or of all, through  *)
(* one scale per colour, and shows on the lights what it has stored in the *)
(* configuration.  Every request can fail, and a gamma field can hold text *)
(* that was typed and that update cannot read.                             *)
(***************************************************************************)
EXTENDS Integers, Sequences

CONSTANTS Nothing,
          MappedChannels, \* [ctrl, area, color] in the order of the loops
          pwmRes,         \* of the configuration of each controller
          ScreenAreas,    \* areas on the screen, more than have channels
          Whites,         \* white values that the configurations can have at first
          OldBrights,     \* common brightness of the controllers at first
          Scales,         \* positions of the scales that the user chooses, in hundredths
          Gammas,         \* gamma values that the user chooses with the arrows, in tenths
          Typed,          \* what the user types into a gamma field: a number, in hundredths,
                          \* also a negative one, or no number
          NoNumber,       \* text that float(), or int() of what it reads, refuses
          MaxMoves,       \* bound: user actions
          MaxFailures     \* bound: requests that fail

Places == 1 .. Len(MappedChannels)
Ctrls  == {MappedChannels[i].ctrl : i \in Places}
Colors == {MappedChannels[i].color : i \in Places}
DEFAULT_GAMMA_VAL == 22
MIN_GAMMA_VAL == 10
MAX_GAMMA_VAL == 50
commonPWMRes  == 255

ASSUME CalibrationAssumption ==
  /\ MappedChannels \in Seq({MappedChannels[i] : i \in Places}) /\ MappedChannels # <<>>
  /\ \A i \in Places : MappedChannels[i].area \in ScreenAreas
  /\ pwmRes \in [Ctrls -> Nat \ {0}]
  /\ Whites \subseteq Nat /\ OldBrights \subseteq [Ctrls -> 0 .. commonPWMRes]
  /\ Scales \subseteq 0 .. 100 /\ Gammas \subseteq MIN_GAMMA_VAL .. MAX_GAMMA_VAL
  /\ Typed \subseteq Int \cup {NoNumber} /\ NoNumber \notin Int /\ Nothing \notin ScreenAreas
  /\ MaxMoves \in Nat /\ MaxFailures \in Nat

VARIABLES
  cal,          \* of the channels: [gamma, white] in the configuration, gamma in tenths
  commonBright, \* of the configurations
  loaded,       \* channels in areasMap; their records are those of the configuration
  whiteArea,    \* selectedArea of the sheet
  outlined,     \* selectedArea of AreasDialog: the area the user sees outlined
  varWhite,     \* of the colours: a fraction <<numerator, denominator>>
  varGamma,     \* of the colours: the number in the gamma field, in hundredths, or NoNumber
  varBright, varSelectAll,
  light,        \* of the channels: <<varBright, gamma in hundredths, white>> that its
                \* brightness was computed from, Nothing: other sheet
  calSheet,     \* "white", "broken" when it was opened with an error, "bright", "other"
  moves, failures,
  broke         \* history: a request failed or update raised since the sheet was opened

scales     == <<varWhite, varGamma, varBright, varSelectAll>>
calHistory == <<moves, failures, broke>>
calibrationVars ==
  <<cal, commonBright, loaded, whiteArea, outlined, scales, light, calSheet, calHistory>>

CalibrationInit ==
  /\ cal \in [Places -> [gamma : {DEFAULT_GAMMA_VAL}, white : Whites]]
  /\ \A i \in Places : cal[i].white <= pwmRes[MappedChannels[i].ctrl]
  /\ commonBright \in OldBrights
  /\ loaded = {} /\ whiteArea = Nothing /\ outlined = Nothing
  /\ varWhite = [c \in Colors |-> <<0, 100>>] /\ varGamma = [c \in Colors |-> 10 * MIN_GAMMA_VAL]
  /\ varBright = 100 /\ varSelectAll = FALSE
  /\ light = [i \in Places |-> Nothing] /\ calSheet = "other"
  /\ moves = 0 /\ failures = 0 /\ broke = FALSE

Move == moves < MaxMoves /\ moves' = moves + 1
Fails == failures < MaxFailures /\ failures' = failures + 1 /\ broke' = TRUE
Succeeds(f) == UNCHANGED failures /\ broke' = f

(***************************************************************************)
(* White calibration                                                       *)
(***************************************************************************)

\* int(varWhiteCal * pwmRes).  The product of floating point numbers can be less than the
\* integer it should be; whether it is depends on the numbers alone.
Product(v, res) == (v[1] * res) \div v[2]
Exact(v, res)   == v[1] > 0 /\ (v[1] * res) % v[2] = 0
Scaled(v, res, short) == IF <<v, res>> \in short THEN Product(v, res) - 1 ELSE Product(v, res)

\* A Tk scale keeps the value its variable is set to, or rounds it to its resolution.
Kept(v, rounds) == IF rounds THEN <<(200 * v[1] + v[2]) \div (2 * v[2]), 100>> ELSE v

\* int(gamma * 10.0), which drops the digits beyond the first.
\* Mutants: the gamma value is stored as it is shown; it is rounded.
GammaVal_Shown(g) == g \div 100
GammaVal_Rounded(g) == (g + 5) \div 10
GammaVal(g) == IF g >= 0 THEN g \div 10 ELSE -((-g) \div 10)

\* Mutants: every channel is changed; unless a channel is selected it is left as it is.
Changes_All(i, all, area) == TRUE
Changes(i, all, area) == all \/ MappedChannels[i].area = area

\* Mutant: the area's list has the last channel only.
InList_Last(i) == \A j \in loaded' : MappedChannels[j].area = MappedChannels[i].area => j <= i
InList(i) == i \in loaded'

\* The channels that update reaches when it fails at channel k: areas in any order.
Reached(k) == {i \in loaded' : MappedChannels[i].area = MappedChannels[k].area /\ i <= k}

\* The gamma value that a light is computed with: as it is in the field, or as it is stored.
GammaOf(i) == IF Changes(i, varSelectAll', whiteArea') THEN varGamma'[MappedChannels[i].color]
              ELSE 10 * cal[i].gamma
Light(i) == <<varBright', GammaOf(i), cal'[i].white>>

\* Mutant: only the channels that change are shown.
Shown_Changed(i) == Changes(i, varSelectAll', whiteArea')
Shown(i) == TRUE

\* update, with the values of the scales after the step: S are the channels it stores.
Store(S) ==
  LET stored == {i \in S : InList(i) /\ Changes(i, varSelectAll', whiteArea')}
      used   == {<<varWhite'[MappedChannels[i].color], pwmRes[MappedChannels[i].ctrl]>> :
                 i \in stored}
  IN
  \E short \in SUBSET {u \in used : Exact(u[1], u[2])} :
    cal' = [i \in Places |->
              LET ch == MappedChannels[i]
              IN  IF i \in stored
                  THEN [gamma |-> GammaVal(varGamma'[ch.color]),
                        white |-> Scaled(varWhite'[ch.color], pwmRes[ch.ctrl], short)]
                  ELSE cal[i]]
Show(S, old) ==
  light' = [i \in Places |-> IF i \in S /\ InList(i) /\ Shown(i) THEN Light(i) ELSE old[i]]

\* float() of the gamma field raises before the channel is stored or shown.
Unreadable(i) == /\ InList(i) /\ Changes(i, varSelectAll', whiteArea')
                 /\ varGamma'[MappedChannels[i].color] = NoNumber

\* With a negative gamma the brightness grows as the scale goes down: at 0 it is not defined,
\* and below 1 it can be too large for pow() or for the request.
Undefined(b, g) == g < 0 /\ b = 0
TooBright(b, g) == g < 0 /\ b < 100
PowRaises(i) == InList(i) /\ ~Unreadable(i) /\ Undefined(varBright', GammaOf(i))
MayRaise(i)  == InList(i) /\ ~Unreadable(i) /\ TooBright(varBright', GammaOf(i))

Update(old) ==
  /\ \A i \in loaded' : ~Unreadable(i) /\ ~PowRaises(i)
  /\ Store(loaded') /\ Show(loaded', old)

\* update ends at channel k, with an error message or with an exception of Python.
UpdateEnds(old) ==
  \E k \in loaded' :
  \E A \in SUBSET ({MappedChannels[i].area : i \in loaded'} \ {MappedChannels[k].area}) :
    LET S == Reached(k) \cup {i \in loaded' : MappedChannels[i].area \in A}
    IN  /\ \A i \in S \ {k} : ~Unreadable(i) /\ ~PowRaises(i)
        /\ \/ /\ ~Unreadable(k) /\ ~PowRaises(k) /\ Fails
              /\ Store(S) /\ (Show(S, old) \/ Show(S \ {k}, old))
           \/ MayRaise(k) /\ Succeeds(TRUE) /\ Store(S) /\ Show(S \ {k}, old)
           \/ Unreadable(k) /\ Succeeds(TRUE) /\ Store(S \ {k}) /\ Show(S \ {k}, old)

Updates(f, old) == (Update(old) /\ Succeeds(f)) \/ UpdateEnds(old)

\* setBright: the area is outlined again after all were painted.
Outline == outlined' = IF varSelectAll' THEN Nothing ELSE whiteArea'

\* selectArea: the scales show the last channel of each colour.
LastInArea(area, c, S) ==
  CHOOSE i \in S : /\ MappedChannels[i].area = area /\ MappedChannels[i].color = c
                   /\ \A j \in S : MappedChannels[j].area = area /\ MappedChannels[j].color = c
                                     => j <= i
HasColor(area, c, S) == \E i \in S : MappedChannels[i].area = area /\ MappedChannels[i].color = c

selectArea(area, S) ==
  /\ varSelectAll' = FALSE /\ whiteArea' = area
  /\ varGamma' = [c \in Colors |-> IF HasColor(area, c, S)
                                   THEN 10 * cal[LastInArea(area, c, S)].gamma
                                   ELSE varGamma[c]]
  /\ \E rounds \in BOOLEAN :
       varWhite' = [c \in Colors |->
         IF HasColor(area, c, S)
         THEN LET i == LastInArea(area, c, S)
              IN  Kept(<<cal[i].white, pwmRes[MappedChannels[i].ctrl]>>, rounds)
         ELSE varWhite[c]]

\* loadValues: the area of the last channel is selected.
StoredGamma(i) == 10 * cal[i].gamma
OpenWhite ==
  /\ calSheet \in {"other", "bright"} /\ calSheet' = "white" /\ Move
  /\ \A i \in Places : ~Undefined(varBright, StoredGamma(i))
  /\ loaded' = Places
  /\ selectArea(MappedChannels[Len(MappedChannels)].area, Places)
  /\ UNCHANGED <<varBright, commonBright>>
  /\ Outline
  /\ Updates(FALSE, [i \in Places |-> <<varBright, StoredGamma(i), cal[i].white>>])

\* It ends at a controller, with an error message or, as a value is too large for the request,
\* with an exception; or with one at a channel, before the channel is loaded.
LastPlaceOf(c) == CHOOSE i \in Places : /\ MappedChannels[i].ctrl = c
                                   /\ \A j \in Places : MappedChannels[j].ctrl = c => j <= i
OpenWhiteFails ==
  /\ calSheet \in {"other", "bright"} /\ calSheet' = "broken" /\ Move
  /\ \/ \E c \in Ctrls :
          /\ loaded' = 1 .. LastPlaceOf(c)
          /\ \A i \in 1 .. LastPlaceOf(c) : ~Undefined(varBright, StoredGamma(i))
          /\ \/ Fails
             \/ /\ \E i \in Places : MappedChannels[i].ctrl = c /\ TooBright(varBright, StoredGamma(i))
                /\ Succeeds(TRUE)
     \/ \E k \in Places :
          /\ loaded' = 1 .. (k - 1)
          /\ TooBright(varBright, StoredGamma(k)) /\ \A i \in 1 .. (k - 1) : ~Undefined(varBright, StoredGamma(i))
          /\ Succeeds(TRUE)
  /\ light' = [i \in Places |-> Nothing]
  /\ UNCHANGED <<cal, commonBright, whiteArea, outlined, scales>>

OnWhite == calSheet \in {"white", "broken"} /\ Move /\ UNCHANGED <<calSheet, loaded, commonBright>>

\* cbAreaSelected: an area without channels is outlined and not selected.
cbAreaSelected ==
  /\ OnWhite
  /\ \E a \in ScreenAreas :
       /\ outlined' = a
       /\ IF \E i \in loaded : MappedChannels[i].area = a
          THEN selectArea(a, loaded) ELSE UNCHANGED <<whiteArea, varGamma, varWhite, varSelectAll>>
  /\ UNCHANGED <<cal, light, varBright, failures, broke>>

SetWhiteCal ==
  /\ OnWhite
  /\ \E c \in Colors, h \in Scales : varWhite' = [varWhite EXCEPT ![c] = <<h, 100>>]
  /\ UNCHANGED <<whiteArea, outlined, varGamma, varBright, varSelectAll>>
  /\ Updates(broke, light)

SetGamma ==
  /\ OnWhite
  /\ \E c \in Colors, g \in Gammas : varGamma' = [varGamma EXCEPT ![c] = 10 * g]
  /\ UNCHANGED <<whiteArea, outlined, varWhite, varBright, varSelectAll>>
  /\ Updates(broke, light)

\* Typing changes the variable of the field alone: update runs with the next scale or arrow.
TypeGamma ==
  /\ OnWhite
  /\ \E c \in Colors, g \in Typed : varGamma' = [varGamma EXCEPT ![c] = g]
  /\ UNCHANGED <<cal, whiteArea, outlined, varWhite, varBright, varSelectAll, light,
                 failures, broke>>

SetBright ==
  /\ OnWhite
  /\ varBright' \in Scales
  /\ UNCHANGED <<whiteArea, varWhite, varGamma, varSelectAll>>
  /\ Outline /\ Updates(broke, light)

SelectAll ==
  /\ OnWhite
  /\ varSelectAll' = ~varSelectAll
  /\ UNCHANGED <<whiteArea, varWhite, varGamma, varBright>>
  /\ Outline /\ Updates(broke, light)

(***************************************************************************)
(* Common brightness                                                       *)
(***************************************************************************)

\* int(round(varBright * commonPWMRes)); the scale as above.
CommonBright(v) == (2 * v[1] * commonPWMRes + v[2]) \div (2 * v[2])

\* setBright with value v: it ends at the first controller that fails.
\* Mutant: it goes on from the controller that was set first.
AllOf_First == {MappedChannels[1].ctrl}
AllOf == Ctrls
SetCommon(v, f) ==
  \/ /\ commonBright' = [c \in Ctrls |-> IF c \in AllOf THEN CommonBright(v) ELSE commonBright[c]]
     /\ Succeeds(f)
  \/ /\ \E S \in SUBSET Ctrls :
          /\ S # Ctrls
          /\ commonBright' = [c \in Ctrls |-> IF c \in S THEN CommonBright(v) ELSE commonBright[c]]
     /\ Fails

\* loadValues: the scale shows the controller that comes last, all others follow it.
OpenBright ==
  /\ calSheet \in {"other", "white", "broken"} /\ calSheet' = "bright" /\ Move
  /\ LET c == MappedChannels[Len(MappedChannels)].ctrl IN
       \E rounds \in BOOLEAN : SetCommon(Kept(<<commonBright[c], commonPWMRes>>, rounds), FALSE)
  /\ light' = [i \in Places |-> Nothing] /\ outlined' = Nothing
  /\ UNCHANGED <<cal, loaded, whiteArea, scales>>

SetCommonBright ==
  /\ calSheet = "bright" /\ Move
  /\ \E h \in Scales : SetCommon(<<h, 100>>, broke)
  /\ UNCHANGED <<cal, loaded, whiteArea, outlined, scales, light, calSheet>>

\* Another sheet, which lights other channels and outlines another area.
OtherSheet ==
  /\ calSheet # "other" /\ calSheet' = "other"
  /\ light' = [i \in Places |-> Nothing]
  /\ outlined' \in ScreenAreas \cup {Nothing}
  /\ UNCHANGED <<cal, commonBright, loaded, whiteArea, scales, calHistory>>

CalibrationNext ==
  \/ OpenWhite \/ OpenWhiteFails \/ cbAreaSelected
  \/ SetWhiteCal \/ SetGamma \/ TypeGamma \/ SetBright \/ SelectAll
  \/ OpenBright \/ SetCommonBright \/ OtherSheet

CalibrationSpec == CalibrationInit /\ [][CalibrationNext]_calibrationVars

(***************************************************************************)
(* Properties                                                              *)
(***************************************************************************)

\* c is what is left of g, towards zero, without the digits beyond the tenths.
WholeTenths(g, c) == IF g >= 0 THEN 10 * c \in (g - 9) .. g ELSE 10 * c \in g .. (g + 9)

Entered   == Typed \cup {10 * g : g \in Gammas \cup {MIN_GAMMA_VAL, DEFAULT_GAMMA_VAL}}
Tenths    == {c \in Int : \E g \in Entered \ {NoNumber} : WholeTenths(g, c)}
GammaVals == Entered \cup {v \in Int : v % 10 = 0 /\ v \div 10 \in Tenths}

\* The values of the variables; a white value never exceeds the resolution of its controller,
\* a stored gamma value is the whole tenths of one that was read or entered, and the fields
\* show one that was entered or is stored.
CalibrationTypeOK ==
  /\ cal \in [Places -> [gamma : Tenths, white : Nat]]
  /\ \A i \in Places : cal[i].white <= pwmRes[MappedChannels[i].ctrl]
  /\ commonBright \in [Ctrls -> 0 .. commonPWMRes]
  /\ loaded \subseteq Places
  /\ whiteArea \in ScreenAreas \cup {Nothing} /\ outlined \in ScreenAreas \cup {Nothing}
  /\ varWhite \in [Colors -> Nat \X (Nat \ {0})]
  /\ \A c \in Colors : varWhite[c][1] <= varWhite[c][2]
  /\ varGamma \in [Colors -> GammaVals] /\ varBright \in 0 .. 100
  /\ varSelectAll \in BOOLEAN /\ broke \in BOOLEAN
  /\ calSheet \in {"white", "broken", "bright", "other"}
  /\ moves \in 0 .. MaxMoves /\ failures \in 0 .. MaxFailures

\* What the lights show is what will be stored, of every channel and not only of those that
\* were changed last, as long as no request failed and no exception was raised.  The one
\* difference is that of a gamma value that was typed: what it has beyond the tenths is shown
\* and not stored.
Shows(l, b, c) ==
  /\ l[1] = b /\ l[3] = c.white /\ WholeTenths(l[2], c.gamma)
  /\ l[2] = 10 * c.gamma \/ l[2] \in Typed
ShownIsStored ==
  calSheet = "white" /\ ~broke => \A i \in Places : Shows(light[i], varBright, cal[i])

\* The scales belong to the area that is outlined: they change no channel of another one,
\* also when requests fail, if an area with channels is outlined.
OutlinedIsChanged ==
  [][cal' # cal /\ calSheet = "white" /\ ~varSelectAll'
     /\ (\E i \in Places : MappedChannels[i].area = outlined) =>
       \A i \in Places : cal'[i] # cal[i] => MappedChannels[i].area = outlined]_calibrationVars

\* Channels of one area and colour, at controllers of one resolution, are one light: once they
\* have one calibration, no step without an error gives them two.
Twins(i, j) ==
  /\ MappedChannels[i].area = MappedChannels[j].area
  /\ MappedChannels[i].color = MappedChannels[j].color
  /\ pwmRes[MappedChannels[i].ctrl] = pwmRes[MappedChannels[j].ctrl]
Alike(f) == \A i, j \in Places : Twins(i, j) => f[i] = f[j]
StaysAlike ==
  [][cal' # cal /\ failures' = failures /\ calSheet # "broken" /\ Alike(cal)
     /\ (\A i \in Places : ~Unreadable(i) /\ ~MayRaise(i)) => Alike(cal')]_calibrationVars

\* The common brightness is common: on its sheet, no controller differs from another.
CommonIsCommon ==
  calSheet = "bright" /\ ~broke => \A c, d \in Ctrls : commonBright[c] = commonBright[d]

\* What the user sees (lights, scales, outline) is what is stored and changed.
CalibrationIsSound ==
  []ShownIsStored /\ []CommonIsCommon /\ OutlinedIsChanged /\ StaysAlike
===============================================================================
