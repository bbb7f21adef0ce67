------------------------------ MODULE MCSseHub ------------------------------
(* TLC instances of SseHub.                                                 *)
EXTENDS SseHub
=============================================================================
