--------------------------- MODULE MCNotifications ---------------------------
(* A small instance of Notifications for TLC.                              *)
EXTENDS Notifications

CONSTANTS u1, u2, r1, r2
=============================================================================
