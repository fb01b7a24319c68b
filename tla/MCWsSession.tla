---------------------------- MODULE MCWsSession ----------------------------
(***************************************************************************)
(* WsSession on small instances: two replays of at most one                *)
(* message before replay_end, a queue of one live message.                 *)
(***************************************************************************)
EXTENDS WsSession
=============================================================================
