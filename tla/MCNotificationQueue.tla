------------------------ MODULE MCNotificationQueue -------------------------
(* Model checking NotificationQueue: u1 has settings and devices and may be  *)
(* notified; u2, whom he is notified of, has no settings.                    *)
EXTENDS NotificationQueue
=============================================================================
