------------------------------ MODULE Engines ------------------------------
(* The engines that kernel_loop ticks, side by side: the monitor, the         *)
(* cognitive engine and the prediction cycle.  They share no state.           *)
EXTENDS Monitor, Cognition, Telemetry

EnginesSpec == MonitorSpec /\ CognitionSpec /\ TelemetrySpec

(* The engines act on what is so: the alerts that are up are those the        *)
(* current snapshot calls for; what was done on the user's behalf was earned  *)
(* and is a cooldown apart; the models are given the last samples in order,   *)
(* and an idle processor is put to use (monitor.rs, cognitive.rs, optimizer.rs). *)
EnginesTrue == AlertsTrue /\ ActionsEarned /\ WindowTrue /\ IdleActs
=============================================================================
