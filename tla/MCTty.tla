------------------------------- MODULE MCTty -------------------------------
(* Two processes, two calls, of 0 bytes too, and two keys; a transmit ring *)
(* of two bytes is full in the middle of a newline, and of an echo.        *)
EXTENDS Tty

KeysUsed == {"k", "DEL", "LF", "^D", "^C"}
CharsUsed == {"x", "LF"}
TextsUsed == {<<"x", "LF">>, <<>>}
CountsUsed == {0, 2}
=============================================================================
