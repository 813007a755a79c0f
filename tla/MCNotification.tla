--------------------------- MODULE MCNotification ---------------------------
(***************************************************************************)
(* Two notifications by mail and one to a reader without an address, one   *)
(* job at a time, two attempts, one stall and two crashes: enough for a    *)
(* job to be retried, given up, stalled and abandoned, and for the second  *)
(* job to wait for the first.                                              *)
(***************************************************************************)
EXTENDS Notification

NotTheRecord == {"resolve", "create", "enqueue", "send", "saveSent"}
=============================================================================
