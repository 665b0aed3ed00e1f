------------------------- MODULE MCExternalEndpoint -------------------------
(* One alert; a request and the heartbeat, or two requests, race for it. *)
EXTENDS ExternalEndpoint

CONSTANTS p1, p2

MCFailureThreshold == <<2>>
MCSuccessThreshold == <<3>>
MCReminder == <<1>>
MCChecksum == <<"only">>
MCSendOnResolved == {1}
MCInstallations == {{p1, Heartbeat}, {p1, p2}}
=============================================================================
