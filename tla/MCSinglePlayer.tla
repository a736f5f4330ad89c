--------------------------- MODULE MCSinglePlayer ---------------------------
(* A ship of two cells and a boat of one.                                    *)
EXTENDS SinglePlayer

MCShipSizes == <<2, 1>>
=============================================================================
