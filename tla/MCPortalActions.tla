--------------------------- MODULE MCPortalActions ---------------------------
EXTENDS PortalActions, TLC

CONSTANTS m1, w1, p1, u1

KindsHere == (m1 :> "mute") @@ (w1 :> "unmute") @@ (p1 :> "prefix")
OneUser == [a \in Actions |-> u1]
=============================================================================
