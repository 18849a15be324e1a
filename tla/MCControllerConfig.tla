-------------------------- MODULE MCControllerConfig --------------------------
(* Two ports, and mappings that may be equal, that are clamped at the higher *)
(* frequency, and that leave the area number out.                            *)
EXTENDS ControllerConfig

MCPortNames == <<"2.1", "2.2">>

Mapping(idx, num, color, gamma, whiteCal) ==
  [area |-> [idx |-> idx, num |-> num], color |-> color, gamma |-> gamma, whiteCal |-> whiteCal]
MCMappings == {Mapping(0, 1, 2, 22, 1000), Mapping(0, 11, 2, 22, 1000), Mapping(4, 0, 0, 30, 554)}

\* Top-23 green and Right-3 red.
MCSameKeys == {Mapping(0, 22, 1, 22, 276), Mapping(3, 2, 0, 22, 276)}

MCLayouts == {[DefaultLayout EXCEPT !.numAreas[1] = 12, !.overscan = 0, !.weightLimit = 255]}
===============================================================================
