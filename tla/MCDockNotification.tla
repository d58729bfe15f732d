------------------------- MODULE MCDockNotification -------------------------
(* An instance of DockNotification: two keys, so that a notification can   *)
(* meet the timer of an earlier one.                                       *)
EXTENDS DockNotification
==============================================================================
