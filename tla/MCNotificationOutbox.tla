------------------------ MODULE MCNotificationOutbox ------------------------
(* NotificationOutbox on one event and two workers: events never touch one *)
(* another's rows.  No symmetry, for the run checks liveness.              *)
EXTENDS NotificationOutbox
=============================================================================
