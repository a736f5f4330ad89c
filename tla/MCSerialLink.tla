---------------------------- MODULE MCSerialLink ----------------------------
(* From client to host: a hello, a key that is no business of the client's   *)
(* ("P" is the scancode of the down arrow and the type of a ship placement)  *)
(* and a shot, whose payload values mean nothing here.                       *)
EXTENDS SerialLink

MCByte == {"H", "K", "P", "T", "x", "y"}
MCMessages == {<<"H">>, <<"K", "P">>, <<"T", "x", "y", "x">>}
=============================================================================
