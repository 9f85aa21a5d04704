---------------------------- MODULE MCPictureWait ----------------------------
(* Values for the constants of PictureWait that a cfg cannot write.        *)
EXTENDS PictureWait

NoSessions == {}

Everybody == Sessions

(* With one Trace session that waits for the lock as long as it takes.    *)
AllButOneTrace == Sessions \ {CHOOSE t \in Traces : TRUE}

=============================================================================
