---------------------------- MODULE MCBoardLife ----------------------------
(* A 4 x 2 sea with a ship of three cells and one of two.                  *)
EXTENDS BoardLife

MCShipSizes == <<3, 2>>
=============================================================================
