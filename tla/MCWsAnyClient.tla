--------------------------- MODULE MCWsAnyClient ---------------------------
(***************************************************************************)
(* WsAnyClient on small instances: a queue of two messages, so that it     *)
(* overflows, replays of at most one message, three commands.              *)
(***************************************************************************)
EXTENDS WsAnyClient
=============================================================================
