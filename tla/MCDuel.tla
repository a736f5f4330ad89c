------------------------------- MODULE MCDuel -------------------------------
(* One ship of two cells, or two boats of one, on a sea of three.          *)
EXTENDS Duel

MCShip == <<2>>
MCBoats == <<1, 1>>
=============================================================================
