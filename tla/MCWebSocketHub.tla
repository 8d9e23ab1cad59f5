--------------------------- MODULE MCWebSocketHub ---------------------------
(* A small instance of WebSocketHub for TLC: three clients that may connect  *)
(* and one that may not, with a limit that changes between one and two.      *)
EXTENDS WebSocketHub
=============================================================================
