----------------------------- MODULE MCBotHunt -----------------------------
(* A 3 x 3 sea with a ship of three cells and one of two.                  *)
EXTENDS BotHunt

MCShipSizes == <<3, 2>>
=============================================================================
