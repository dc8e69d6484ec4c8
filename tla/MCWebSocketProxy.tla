-------------------------- MODULE MCWebSocketProxy --------------------------
(***************************************************************************)
(* Small instances of WebSocketProxy for TLC.                              *)
(***************************************************************************)
EXTENDS WebSocketProxy
====
