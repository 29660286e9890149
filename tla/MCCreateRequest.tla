-------------------------- MODULE MCCreateRequest --------------------------
(***************************************************************************)
(* Three attempts with one key, of a paid operation, where the third       *)
(* carries another body, or of a preparation, while the clock moves both   *)
(* ways.                                                                   *)
(***************************************************************************)
EXTENDS CreateRequest

CONSTANTS a1, a2, a3, f1, f2

OtherBody == [a \in Attempts |-> IF a = a3 THEN f2 ELSE f1]

Clocks == [o \in Operations |-> IF o = Prepare THEN {1, -1} ELSE {1}]

\* The horizon of a preparation is shorter than MaxTime.
PrepareHorizon == operation = Prepare => now <= 3
=============================================================================
