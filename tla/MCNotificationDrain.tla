------------------------- MODULE MCNotificationDrain -------------------------
EXTENDS NotificationDrain, TLC

CONSTANTS i1, i2
=============================================================================
