--------------------------- MODULE MCCommerceSync ---------------------------
(* Instances of CommerceSync for TLC. *)
EXTENDS CommerceSync, TLC

(* Everything but webhooks; webhooks and failures; webhooks and crashes      *)
(* alone; an uninstallation while runs overlap; webhooks and users; numbered *)
(* pages under failures and takeovers.                                       *)
MCProfiles ==
  {{"failure", "late", "crash", "user", "disconnect"},
   {"failure", "crash", "webhook"},
   {"crash", "webhook"},
   {"late", "user", "uninstall"},
   {"user", "webhook"},
   {"numbered", "failure", "late"}}

MCCalm == {{"webhook"}}
=============================================================================
