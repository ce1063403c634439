----------------------------- MODULE MCFocusDrawer -----------------------------
(* A small instance of FocusDrawer: a tab whose reads and writes overtake   *)
(* each other, and a tab that waits for one fetch at a time and then        *)
(* freezes.                                                                 *)
EXTENDS FocusDrawer, TLC

CONSTANTS b1, b2

MCFlight == b1 :> 2 @@ b2 :> 1
===============================================================================
