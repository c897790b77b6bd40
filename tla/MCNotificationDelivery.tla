---------------------- MODULE MCNotificationDelivery ----------------------
(* Instances of NotificationDelivery for TLC. *)
EXTENDS NotificationDelivery, TLC

CONSTANTS d1, d2, k1, k2
MCDevices == {d1, d2}
MCWorkers == {k1, k2}
============================================================================
