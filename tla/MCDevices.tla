----------------------------- MODULE MCDevices -----------------------------
(* A strip of two pixels, the right one the board.  Two packets: one pixel   *)
(* right, no button down; and four left and six down with the left button,   *)
(* whose bytes after the first look like a packet's first and are the        *)
(* mouse's own for an error and an acknowledgement.                          *)
EXTENDS Devices

MCPackets == {<<8, 1, 0>>, <<57, 252, 250>>}
=============================================================================
