------------------------------- MODULE MCUart -------------------------------
(* Two characters, of which one is the line feed and one the carriage return; *)
(* messages of one character; two display modes.                             *)
EXTENDS Uart

MCBytes == {1, 2}
MCMessages == {<<1>>}
MCDisplayModes == {"ASCII", "HEX"}
=============================================================================
