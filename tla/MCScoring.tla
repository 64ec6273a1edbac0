----------------------------- MODULE MCScoring -----------------------------
(***************************************************************************)
(* Worlds for TLC: a vehicle that stands, rolls or is fast, goals behind,  *)
(* near and far, and up to two obstacles ahead, behind and around it,      *)
(* standing, slower and faster. Positions and speeds are chosen so that    *)
(* motion is truncated, that bodies touch or just fail to, and that the    *)
(* baseline stops at a goal (6248 and 8000 mm) or a millimetre short. One  *)
(* speed is above the limit although its coast path is not, and a machine  *)
(* integer holds the square of the limit but not of that speed.            *)
(***************************************************************************)
EXTENDS ScoreDocuments

Bodies(positions, speeds) == [position : positions, speed : speeds, length : {500}]
Lanes ==
    {<< >>}
    \cup {<<o>> : o \in Bodies({-12001, -501, -500, 1000, 1001, 2101, 5001, 8127, 11127, 15001, 21001},
                              {0, 1501, 6000})}
    \cup {<<o, p>> : o \in Bodies({-12001, 8127}, {0, 6000}), p \in Bodies({14001, 15001}, {0, 1501})}
Worlds == [start : {0, -99}, speed : {0, 2501, 8125, 9001, 9100}, length : {1000},
           goal : {-1, 4, 6248, 8000, 8001, 11127, 45000}, obstacles : Lanes]
MCLimits == [version : {1, 2}, minimum_mm : {0, 2000}, minimum_ppm : {30, 100}]
=============================================================================
