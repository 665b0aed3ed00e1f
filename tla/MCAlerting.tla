----------------------------- MODULE MCAlerting -----------------------------
(* Two alerts of one endpoint, small thresholds. *)
EXTENDS Alerting

Everything == [enabled |-> Alerts, configured |-> Alerts]

\* The second alert is disabled, or the provider of the first one is invalid.
SecondDisabled == [enabled |-> {1}, configured |-> Alerts]
FirstUnconfigured == [enabled |-> Alerts, configured |-> {2}]

MCConfigs == {Everything}
MCChangingConfigs == {Everything, SecondDisabled, FirstUnconfigured}
MCFailureThreshold == <<1, 2>>
MCSuccessThreshold == <<2, 1>>
MCSendOnResolved == {1}
MCChecksum == <<"first", "second">>
MCUnequalReminders == <<2, 1>>
=============================================================================
