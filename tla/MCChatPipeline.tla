---------------------------- MODULE MCChatPipeline ---------------------------
(* ChatPipeline for TLC.  Chats are alike, but liveness is checked with     *)
(* them, so that no symmetry is declared.                                   *)
EXTENDS ChatPipeline
=============================================================================
