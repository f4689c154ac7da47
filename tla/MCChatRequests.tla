--------------------------- MODULE MCChatRequests ---------------------------
(* Instances of ChatRequests for TLC. *)
EXTENDS ChatRequests, TLC
=============================================================================
