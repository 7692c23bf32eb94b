--------------------------- MODULE MCNotification ---------------------------
(* Instances of Notification for TLC. *)
EXTENDS Notification, TLC

\* An event no handler understands, one that is notified, and a message that is no
\* envelope.
Mixed == <<2, 1, 3>>
=============================================================================
